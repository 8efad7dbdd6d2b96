------------------------- MODULE RemoteConfigProofs -------------------------
(***************************************************************************)
(* Proofs for RemoteConfig: for any connectors, any set of signed requests  *)
(* in any order, a journal of any length and any number of crashes, raising *)
(* file operations and claim resets.                                        *)
(***************************************************************************)
EXTENDS RemoteConfig, TLAPS

\* The variables the invariants other than TypeOK are about.
core == <<file, jmem, jdisk, job, answers, applied, interrupted, forgotten,
          overwritten>>

\* A step that leaves them alone; the process does not end either.
Quiet == UNCHANGED core /\ (main' = "down" => main = "down")

\* Every step is a step of the network thread, the end or the start of the
\* process, or leaves the files, the journal and the update in progress alone.
LEMMA StepCases ==
    ASSUME [Next]_vars
    PROVE  \/ \E r \in Requests : AcceptUpdate(r) \/ ReplayUpdate(r)
           \/ Raise \/ WriteNew \/ ConfigClose \/ ConfigClear
           \/ \E d \in Definitions, ok \in BOOLEAN : ConfigStart(d, ok)
           \/ ConfigDecide \/ UndoWrite \/ KeepNew
           \/ \E ok \in BOOLEAN : Record(ok) \/ ResetJournal(ok)
           \/ \E m \in Modes : BeginReset(m)
           \/ ResetLkg \/ ProcessEnds
           \/ \E readable \in BOOLEAN : Boot(readable)
           \/ Quiet
<1>1. CASE UNCHANGED vars
  BY <1>1 DEF vars, jobVars, connVars, obsVars, core, Quiet
<1>2. CASE ConfigStep
  BY <1>2 DEF ConfigStep
<1>3. CASE Deliver
  <2>1. CASE \E r \in Requests : RefuseUpdate(r)
    BY <2>1 DEF RefuseUpdate, vars, jobVars, connVars, obsVars, core, Quiet
  <2>2. CASE IgnoreUpdate
    BY <2>2 DEF IgnoreUpdate, vars, jobVars, connVars, obsVars, core, Quiet
  <2> QED BY <1>3, <2>1, <2>2 DEF Deliver
<1>4. CASE RpcThread
  BY <1>4 DEF RpcThread, RpcRestartAll, RpcClear, RpcRemove, RpcDone, RpcRestartOne,
      RpcStart, jobVars, obsVars, core, Quiet
<1>5. CASE MainThread
  <2>1. CASE MainBegin \/ MainDone
    BY <2>1 DEF MainBegin, MainDone, jobVars, obsVars, core, Quiet
  <2>2. CASE \E d \in Definitions, ok \in BOOLEAN : MainStart(d, ok)
    BY <2>2 DEF MainStart, jobVars, obsVars, core, Quiet
  <2> QED BY <1>5, <2>1, <2>2 DEF MainThread, MainExit
<1>6. CASE Crash
  BY <1>6 DEF Crash
<1> QED BY <1>1, <1>2, <1>3, <1>4, <1>5, <1>6 DEF Next

\* record never lowers the highest revision, covers the recorded request, keeps
\* or drops the other requests' outcomes.
LEMMA RecordedFacts ==
    ASSUME jmem \in Journals, NEW r \in Requests, NEW result \in Results
    PROVE  /\ Recorded(r, result) \in Journals
           /\ Recorded(r, result).max >= jmem.max
           /\ Recorded(r, result).max >= Revision[r]
           /\ \A q \in Requests : q # r =>
                 Recorded(r, result).results[q] \in {jmem.results[q], "none"}
           /\ Recorded(r, result).results[r] \in {result, "none"}
<1> DEFINE all == {q \in Requests : jmem.results[q] # "none"} \cup {r}
           kept == {q \in all : Cardinality({p \in all : Revision[p] > Revision[q]})
                                  < JournalLimit}
           res == [q \in Requests |-> IF q \notin kept THEN "none"
                                      ELSE IF q = r THEN result ELSE jmem.results[q]]
           max == IF Revision[r] > jmem.max THEN Revision[r] ELSE jmem.max
<1>1. Recorded(r, result) = [max |-> max, results |-> res]
  BY DEF Recorded
<1> HIDE DEF kept
<1>2. max \in Nat /\ max >= jmem.max /\ max >= Revision[r]
  BY ConfigAssumption DEF Journals
<1>3. res \in [Requests -> Results \cup {"none"}]
  BY DEF Journals
<1>4. \A q \in Requests : q # r => res[q] \in {jmem.results[q], "none"}
  OBVIOUS
<1>5. res[r] \in {result, "none"}
  OBVIOUS
<1> HIDE DEF res, max
<1> QED BY <1>1, <1>2, <1>3, <1>4, <1>5 DEF Journals

\* The journal starts empty.
LEMMA EmptyJournalFacts ==
    /\ EmptyJournal \in Journals /\ EmptyJournal.max = 0
    /\ \A r \in Requests : EmptyJournal.results[r] = "none"
BY DEF EmptyJournal, Journals

\* An idle network thread has no update.
LEMMA NoJobFacts ==
    /\ NoJob \in Jobs /\ NoJob.pc = "idle" /\ NoJob.req = None /\ NoJob.failed = FALSE
BY DEF NoJob, Jobs, JobPcs

\* The typing invariant, for the configurations and the journal.
FilesTyped ==
    /\ file \in Configurations /\ lkg \in Configurations /\ gw \in Configurations
    /\ jmem \in Journals /\ jdisk \in Journals

\* ... for the threads and the connectors.
ConnectorsTyped ==
    /\ main \in {"down", "booting", "starting", "failing", "up"}
    /\ rpc \in {"idle", "closing", "removing", "starting"}
    /\ todo \in [Actors -> SUBSET Definitions]
    /\ live \in [Definitions -> Nat] /\ orphan \in [Definitions -> Nat]

\* ... for what an observer sees.
ObserversTyped ==
    /\ answers \in [Requests -> SUBSET Results]
    /\ applied \in [Requests -> 0 .. 2]
    /\ interrupted \subseteq Requests /\ forgotten \subseteq Requests
    /\ overwritten \subseteq Requests /\ overlapped \in BOOLEAN
    /\ faults \in Nat /\ restarts \in Nat

\* The request of the update in progress, and its configurations.
LEMMA UpdateFacts ==
    ASSUME TypeOK, JobInv, Updating
    PROVE  /\ job.req \in Requests /\ job.req # None
           /\ job.prev \in Configurations /\ job.next \in Configurations
           /\ job.next.req = job.req
           /\ Revision[job.req] \in Nat \ {0} /\ Revision[job.req] > jmem.max
BY ConfigAssumption DEF JobInv, TypeOK

\* The list an update computes is a connector list.
LEMMA CandidateType ==
    ASSUME NEW r \in Requests, NEW list \in Acceptable(r)
    PROVE  list \in SUBSET Definitions
BY ConfigAssumption DEF Acceptable

\* Starting one entry keeps the connectors typed.
LEMMA StartedTypes ==
    ASSUME ConnectorsTyped, NEW a \in Actors, NEW d, NEW ok \in BOOLEAN,
           Started(a, d, ok), main' \in {main, "failing"}, rpc' = rpc
    PROVE  ConnectorsTyped'
<1>1. todo' \in [Actors -> SUBSET Definitions]
  BY DEF Started, ConnectorsTyped
<1>2. live' \in [Definitions -> Nat]
  BY DEF Started, ConnectorsTyped
<1> QED BY <1>1, <1>2 DEF Started, ConnectorsTyped

\* The end of the process keeps everything typed.
LEMMA ProcessEndsTypes ==
    ASSUME TypeOK, ProcessEnds, faults' \in Nat
    PROVE  TypeOK'
<1>1. interrupted' \subseteq Requests
  BY DEF ProcessEnds, TypeOK, Jobs
<1>2. todo' \in [Actors -> SUBSET Definitions]
  BY DEF ProcessEnds
<1>3. live' \in [Definitions -> Nat] /\ orphan' \in [Definitions -> Nat]
  BY DEF ProcessEnds
<1>4. job' \in Jobs
  BY NoJobFacts DEF ProcessEnds
<1>5. main' \in {"down", "booting", "starting", "failing", "up"} /\ rpc' \in {"idle", "closing", "removing", "starting"}
  BY DEF ProcessEnds
<1> QED BY <1>1, <1>2, <1>3, <1>4, <1>5 DEF ProcessEnds, TypeOK

\* Every step keeps the state typed.
LEMMA TypeStep ==
    ASSUME TypeOK, JobInv, [Next]_vars
    PROVE  TypeOK'
<1>1. ASSUME NEW r \in Requests, AcceptUpdate(r)
  PROVE  TypeOK'
  <2>1. FilesTyped'
    BY <1>1 DEF AcceptUpdate, FilesTyped, TypeOK, connVars, jobVars
  <2>2. ConnectorsTyped'
    BY <1>1 DEF AcceptUpdate, ConnectorsTyped, TypeOK, connVars, jobVars
  <2>3. ObserversTyped'
    BY <1>1 DEF AcceptUpdate, ObserversTyped, TypeOK, connVars, obsVars, Enter
  <2>4. job' \in Jobs
    BY <1>1, CandidateType, <2>1 DEF AcceptUpdate, TypeOK, jobVars, Jobs, JobPcs,
        Configurations
  <2> QED BY <2>1, <2>2, <2>3, <2>4 DEF TypeOK, FilesTyped, ConnectorsTyped,
      ObserversTyped
<1>2. ASSUME NEW r \in Requests, ReplayUpdate(r)
  PROVE  TypeOK'
  <2>1. FilesTyped'
    BY <1>2 DEF ReplayUpdate, FilesTyped, TypeOK, connVars, jobVars
  <2>2. ConnectorsTyped'
    BY <1>2 DEF ReplayUpdate, ConnectorsTyped, TypeOK, connVars, jobVars
  <2>3. ObserversTyped'
    BY <1>2 DEF ReplayUpdate, ObserversTyped, TypeOK, connVars, obsVars, Answer,
        Journals
  <2>4. job' \in Jobs
    BY <1>2 DEF ReplayUpdate, TypeOK, jobVars
  <2> QED BY <2>1, <2>2, <2>3, <2>4 DEF TypeOK, FilesTyped, ConnectorsTyped,
      ObserversTyped
<1>3. ASSUME Raise
  PROVE  TypeOK'
  <2>1. FilesTyped'
    BY <1>3 DEF Raise, FilesTyped, TypeOK, connVars, jobVars
  <2>2. ConnectorsTyped'
    BY <1>3 DEF Raise, ConnectorsTyped, TypeOK, connVars, jobVars
  <2>3. ObserversTyped'
    BY <1>3, UpdateFacts DEF Raise, ObserversTyped, TypeOK, connVars, obsVars, Updating
  <2>4. job' \in Jobs
    BY <1>3, NoJobFacts DEF Raise, TypeOK, jobVars
  <2> QED BY <2>1, <2>2, <2>3, <2>4 DEF TypeOK, FilesTyped, ConnectorsTyped,
      ObserversTyped
<1>4. ASSUME WriteNew
  PROVE  TypeOK'
  <2>1. FilesTyped'
    BY <1>4, UpdateFacts DEF WriteNew, FilesTyped, TypeOK, connVars, jobVars, Updating
  <2>2. ConnectorsTyped'
    BY <1>4 DEF WriteNew, ConnectorsTyped, TypeOK, connVars, jobVars
  <2>3. ObserversTyped'
    BY <1>4, UpdateFacts DEF WriteNew, ObserversTyped, TypeOK, connVars, obsVars,
        Updating, Rev, Configurations
  <2>4. job' \in Jobs
    BY <1>4 DEF WriteNew, TypeOK, jobVars, Jobs, JobPcs
  <2> QED BY <2>1, <2>2, <2>3, <2>4 DEF TypeOK, FilesTyped, ConnectorsTyped,
      ObserversTyped
<1>5. ASSUME ConfigClose
  PROVE  TypeOK'
  <2>1. FilesTyped'
    BY <1>5 DEF ConfigClose, FilesTyped, TypeOK, connVars, jobVars
  <2>2. ConnectorsTyped'
    BY <1>5 DEF ConfigClose, ConnectorsTyped, TypeOK, connVars, jobVars, CloseAll
  <2>3. ObserversTyped'
    BY <1>5 DEF ConfigClose, ObserversTyped, TypeOK, connVars, obsVars
  <2>4. job' \in Jobs
    BY <1>5 DEF ConfigClose, TypeOK, jobVars, Jobs, JobPcs
  <2> QED BY <2>1, <2>2, <2>3, <2>4 DEF TypeOK, FilesTyped, ConnectorsTyped,
      ObserversTyped
<1>6. ASSUME ConfigClear
  PROVE  TypeOK'
  <2>1. FilesTyped'
    BY <1>6 DEF ConfigClear, FilesTyped, TypeOK, connVars, jobVars
  <2>2. ConnectorsTyped'
    BY <1>6 DEF ConfigClear, ConnectorsTyped, TypeOK, connVars, jobVars, Clear,
        ToStart, Configurations, Actors
  <2>3. ObserversTyped'
    BY <1>6 DEF ConfigClear, ObserversTyped, TypeOK, connVars, obsVars
  <2>4. job' \in Jobs
    BY <1>6 DEF ConfigClear, TypeOK, jobVars, Jobs, JobPcs
  <2> QED BY <2>1, <2>2, <2>3, <2>4 DEF TypeOK, FilesTyped, ConnectorsTyped,
      ObserversTyped
<1>7. ASSUME NEW d \in Definitions, NEW ok \in BOOLEAN, ConfigStart(d, ok)
  PROVE  TypeOK'
  <2>1. FilesTyped'
    BY <1>7 DEF ConfigStart, FilesTyped, TypeOK, connVars, jobVars
  <2>2. ConnectorsTyped'
    BY <1>7, StartedTypes DEF ConfigStart, ConnectorsTyped, TypeOK, connVars,
        jobVars, Actors
  <2>3. ObserversTyped'
    BY <1>7 DEF ConfigStart, ObserversTyped, TypeOK, connVars, obsVars
  <2>4. job' \in Jobs
    BY <1>7 DEF ConfigStart, TypeOK, jobVars, Jobs, JobPcs
  <2> QED BY <2>1, <2>2, <2>3, <2>4 DEF TypeOK, FilesTyped, ConnectorsTyped,
      ObserversTyped
<1>8. ASSUME ConfigDecide
  PROVE  TypeOK'
  <2>1. FilesTyped'
    BY <1>8 DEF ConfigDecide, FilesTyped, TypeOK, connVars, jobVars
  <2>2. ConnectorsTyped'
    BY <1>8 DEF ConfigDecide, ConnectorsTyped, TypeOK, connVars, jobVars
  <2>3. ObserversTyped'
    BY <1>8 DEF ConfigDecide, ObserversTyped, TypeOK, connVars, obsVars
  <2>4. job' \in Jobs
    BY <1>8 DEF ConfigDecide, TypeOK, jobVars, Jobs, JobPcs
  <2> QED BY <2>1, <2>2, <2>3, <2>4 DEF TypeOK, FilesTyped, ConnectorsTyped,
      ObserversTyped
<1>9. ASSUME UndoWrite
  PROVE  TypeOK'
  <2>1. FilesTyped'
    BY <1>9, UpdateFacts DEF UndoWrite, FilesTyped, TypeOK, connVars, jobVars, Updating
  <2>2. ConnectorsTyped'
    BY <1>9 DEF UndoWrite, ConnectorsTyped, TypeOK, connVars, jobVars
  <2>3. ObserversTyped'
    BY <1>9 DEF UndoWrite, ObserversTyped, TypeOK, connVars, obsVars
  <2>4. job' \in Jobs
    BY <1>9 DEF UndoWrite, TypeOK, jobVars, Jobs, JobPcs
  <2> QED BY <2>1, <2>2, <2>3, <2>4 DEF TypeOK, FilesTyped, ConnectorsTyped,
      ObserversTyped
<1>10. ASSUME KeepNew
  PROVE  TypeOK'
  <2>1. FilesTyped'
    BY <1>10, UpdateFacts DEF KeepNew, FilesTyped, TypeOK, connVars, jobVars, Updating
  <2>2. ConnectorsTyped'
    BY <1>10 DEF KeepNew, ConnectorsTyped, TypeOK, connVars, jobVars
  <2>3. ObserversTyped'
    BY <1>10 DEF KeepNew, ObserversTyped, TypeOK, connVars, obsVars
  <2>4. job' \in Jobs
    BY <1>10 DEF KeepNew, TypeOK, jobVars, Jobs, JobPcs
  <2> QED BY <2>1, <2>2, <2>3, <2>4 DEF TypeOK, FilesTyped, ConnectorsTyped,
      ObserversTyped
<1>11. ASSUME NEW ok \in BOOLEAN, Record(ok)
  PROVE  TypeOK'
  <2>1. FilesTyped'
    BY <1>11, UpdateFacts, RecordedFacts DEF Record, FilesTyped, TypeOK, connVars,
        jobVars, Updating, Results
  <2>2. ConnectorsTyped'
    BY <1>11 DEF Record, ConnectorsTyped, TypeOK, connVars, jobVars
  <2>3. ObserversTyped'
    BY <1>11, UpdateFacts DEF Record, ObserversTyped, TypeOK, connVars, obsVars,
        Updating, Answer, Results
  <2>4. job' \in Jobs
    BY <1>11, NoJobFacts DEF Record, TypeOK, jobVars
  <2> QED BY <2>1, <2>2, <2>3, <2>4 DEF TypeOK, FilesTyped, ConnectorsTyped,
      ObserversTyped
<1>12. ASSUME NEW m \in Modes, BeginReset(m)
  PROVE  TypeOK'
  <2>1. FilesTyped'
    BY <1>12 DEF BeginReset, FilesTyped, TypeOK, connVars, jobVars, Configurations
  <2>2. ConnectorsTyped'
    BY <1>12 DEF BeginReset, ConnectorsTyped, TypeOK, connVars, jobVars
  <2>3. ObserversTyped'
    BY <1>12 DEF BeginReset, ObserversTyped, TypeOK, connVars, obsVars, Enter
  <2>4. job' \in Jobs
    BY <1>12 DEF BeginReset, TypeOK, jobVars, Jobs, JobPcs, NoJob
  <2> QED BY <2>1, <2>2, <2>3, <2>4 DEF TypeOK, FilesTyped, ConnectorsTyped,
      ObserversTyped
<1>13. ASSUME NEW ok \in BOOLEAN, ResetJournal(ok)
  PROVE  TypeOK'
  <2>1. FilesTyped'
    BY <1>13, EmptyJournalFacts DEF ResetJournal, FilesTyped, TypeOK, connVars, jobVars
  <2>2. ConnectorsTyped'
    BY <1>13 DEF ResetJournal, ConnectorsTyped, TypeOK, connVars, jobVars
  <2>3. ObserversTyped'
    BY <1>13 DEF ResetJournal, ObserversTyped, TypeOK, connVars, obsVars
  <2>4. job' \in Jobs
    BY <1>13, NoJobFacts DEF ResetJournal, TypeOK, jobVars, Jobs, JobPcs
  <2> QED BY <2>1, <2>2, <2>3, <2>4 DEF TypeOK, FilesTyped, ConnectorsTyped,
      ObserversTyped
<1>14. ASSUME ResetLkg
  PROVE  TypeOK'
  <2>1. FilesTyped'
    BY <1>14 DEF ResetLkg, FilesTyped, TypeOK, connVars, jobVars
  <2>2. ConnectorsTyped'
    BY <1>14 DEF ResetLkg, ConnectorsTyped, TypeOK, connVars, jobVars
  <2>3. ObserversTyped'
    BY <1>14 DEF ResetLkg, ObserversTyped, TypeOK, connVars, obsVars
  <2>4. job' \in Jobs
    BY <1>14, NoJobFacts DEF ResetLkg, TypeOK, jobVars
  <2> QED BY <2>1, <2>2, <2>3, <2>4 DEF TypeOK, FilesTyped, ConnectorsTyped,
      ObserversTyped
<1>15. ASSUME RpcRestartAll
  PROVE  TypeOK'
  <2>1. FilesTyped'
    BY <1>15 DEF RpcRestartAll, FilesTyped, TypeOK, connVars, jobVars
  <2>2. ConnectorsTyped'
    BY <1>15 DEF RpcRestartAll, ConnectorsTyped, TypeOK, connVars, jobVars, CloseAll
  <2>3. ObserversTyped'
    BY <1>15 DEF RpcRestartAll, ObserversTyped, TypeOK, connVars, obsVars, Enter
  <2>4. job' \in Jobs
    BY <1>15 DEF RpcRestartAll, TypeOK, jobVars
  <2> QED BY <2>1, <2>2, <2>3, <2>4 DEF TypeOK, FilesTyped, ConnectorsTyped,
      ObserversTyped
<1>16. ASSUME RpcClear
  PROVE  TypeOK'
  <2>1. FilesTyped'
    BY <1>16 DEF RpcClear, FilesTyped, TypeOK, connVars, jobVars
  <2>2. ConnectorsTyped'
    BY <1>16 DEF RpcClear, ConnectorsTyped, TypeOK, connVars, jobVars, Clear,
        ToStart, Configurations, Actors
  <2>3. ObserversTyped'
    BY <1>16 DEF RpcClear, ObserversTyped, TypeOK, connVars, obsVars
  <2>4. job' \in Jobs
    BY <1>16 DEF RpcClear, TypeOK, jobVars
  <2> QED BY <2>1, <2>2, <2>3, <2>4 DEF TypeOK, FilesTyped, ConnectorsTyped,
      ObserversTyped
<1>17. ASSUME NEW d \in Definitions, RpcRestartOne(d)
  PROVE  TypeOK'
  <2>1. FilesTyped'
    BY <1>17 DEF RpcRestartOne, FilesTyped, TypeOK, connVars, jobVars
  <2>2. ConnectorsTyped'
    <3>1. live[d] \in Nat /\ live[d] > 0
      BY <1>17 DEF RpcRestartOne, TypeOK
    <3>2. live' \in [Definitions -> Nat]
      BY <1>17, <3>1 DEF RpcRestartOne, TypeOK
    <3>3. todo' \in [Actors -> SUBSET Definitions]
      BY <1>17 DEF RpcRestartOne, TypeOK
    <3> QED BY <1>17, <3>2, <3>3 DEF RpcRestartOne, ConnectorsTyped, TypeOK
  <2>3. ObserversTyped'
    BY <1>17 DEF RpcRestartOne, ObserversTyped, TypeOK, connVars, obsVars, Enter
  <2>4. job' \in Jobs
    BY <1>17 DEF RpcRestartOne, TypeOK, jobVars
  <2> QED BY <2>1, <2>2, <2>3, <2>4 DEF TypeOK, FilesTyped, ConnectorsTyped,
      ObserversTyped
<1>18. ASSUME RpcRemove
  PROVE  TypeOK'
  <2>1. FilesTyped'
    BY <1>18 DEF RpcRemove, FilesTyped, TypeOK, connVars, jobVars
  <2>2. ConnectorsTyped'
    BY <1>18 DEF RpcRemove, ConnectorsTyped, TypeOK, connVars, jobVars, SameName,
        Configurations, Actors
  <2>3. ObserversTyped'
    BY <1>18 DEF RpcRemove, ObserversTyped, TypeOK, connVars, obsVars
  <2>4. job' \in Jobs
    BY <1>18 DEF RpcRemove, TypeOK, jobVars
  <2> QED BY <2>1, <2>2, <2>3, <2>4 DEF TypeOK, FilesTyped, ConnectorsTyped,
      ObserversTyped
<1>19. ASSUME NEW d \in Definitions, NEW ok \in BOOLEAN, RpcStart(d, ok)
  PROVE  TypeOK'
  <2>1. FilesTyped'
    BY <1>19 DEF RpcStart, FilesTyped, TypeOK, connVars, jobVars
  <2>2. ConnectorsTyped'
    BY <1>19, StartedTypes DEF RpcStart, ConnectorsTyped, TypeOK, connVars, jobVars,
        Actors
  <2>3. ObserversTyped'
    BY <1>19 DEF RpcStart, ObserversTyped, TypeOK, connVars, obsVars
  <2>4. job' \in Jobs
    BY <1>19 DEF RpcStart, TypeOK, jobVars
  <2> QED BY <2>1, <2>2, <2>3, <2>4 DEF TypeOK, FilesTyped, ConnectorsTyped,
      ObserversTyped
<1>20. ASSUME RpcDone
  PROVE  TypeOK'
  <2>1. FilesTyped'
    BY <1>20 DEF RpcDone, FilesTyped, TypeOK, connVars, jobVars
  <2>2. ConnectorsTyped'
    BY <1>20 DEF RpcDone, ConnectorsTyped, TypeOK, connVars, jobVars
  <2>3. ObserversTyped'
    BY <1>20 DEF RpcDone, ObserversTyped, TypeOK, connVars, obsVars
  <2>4. job' \in Jobs
    BY <1>20 DEF RpcDone, TypeOK, jobVars
  <2> QED BY <2>1, <2>2, <2>3, <2>4 DEF TypeOK, FilesTyped, ConnectorsTyped,
      ObserversTyped
<1>21. ASSUME MainBegin
  PROVE  TypeOK'
  <2>1. FilesTyped'
    BY <1>21 DEF MainBegin, FilesTyped, TypeOK, connVars, jobVars
  <2>2. ConnectorsTyped'
    BY <1>21 DEF MainBegin, ConnectorsTyped, TypeOK, connVars, jobVars, ToStart,
        Configurations, Actors
  <2>3. ObserversTyped'
    BY <1>21 DEF MainBegin, ObserversTyped, TypeOK, connVars, obsVars
  <2>4. job' \in Jobs
    BY <1>21 DEF MainBegin, TypeOK, jobVars
  <2> QED BY <2>1, <2>2, <2>3, <2>4 DEF TypeOK, FilesTyped, ConnectorsTyped,
      ObserversTyped
<1>22. ASSUME MainDone
  PROVE  TypeOK'
  <2>1. FilesTyped'
    BY <1>22 DEF MainDone, FilesTyped, TypeOK, connVars, jobVars
  <2>2. ConnectorsTyped'
    BY <1>22 DEF MainDone, ConnectorsTyped, TypeOK, connVars, jobVars
  <2>3. ObserversTyped'
    BY <1>22 DEF MainDone, ObserversTyped, TypeOK, connVars, obsVars
  <2>4. job' \in Jobs
    BY <1>22 DEF MainDone, TypeOK, jobVars
  <2> QED BY <2>1, <2>2, <2>3, <2>4 DEF TypeOK, FilesTyped, ConnectorsTyped,
      ObserversTyped
<1>23. ASSUME NEW readable \in BOOLEAN, Boot(readable)
  PROVE  TypeOK'
  <2>1. FilesTyped'
    BY <1>23, EmptyJournalFacts DEF Boot, FilesTyped, TypeOK, connVars, jobVars
  <2>2. ConnectorsTyped'
    BY <1>23 DEF Boot, ConnectorsTyped, TypeOK, connVars, jobVars
  <2>3. ObserversTyped'
    BY <1>23 DEF Boot, ObserversTyped, TypeOK, connVars, obsVars
  <2>4. job' \in Jobs
    BY <1>23 DEF Boot, TypeOK, jobVars
  <2> QED BY <2>1, <2>2, <2>3, <2>4 DEF TypeOK, FilesTyped, ConnectorsTyped,
      ObserversTyped
<1>24. ASSUME NEW d \in Definitions, NEW ok \in BOOLEAN, MainStart(d, ok)
  PROVE  TypeOK'
  <2>1. FilesTyped'
    BY <1>24 DEF MainStart, FilesTyped, TypeOK, connVars, jobVars
  <2>2. ConnectorsTyped'
    BY <1>24, StartedTypes DEF MainStart, ConnectorsTyped, TypeOK, connVars, jobVars,
        Actors
  <2>3. ObserversTyped'
    BY <1>24 DEF MainStart, ObserversTyped, TypeOK, connVars, obsVars
  <2>4. job' \in Jobs
    BY <1>24 DEF MainStart, TypeOK, jobVars
  <2> QED BY <2>1, <2>2, <2>3, <2>4 DEF TypeOK, FilesTyped, ConnectorsTyped,
      ObserversTyped
<1>25. ASSUME MainExit PROVE TypeOK'
  BY <1>25, ProcessEndsTypes DEF MainExit, TypeOK
<1>26. ASSUME Crash PROVE TypeOK'
  BY <1>26, ProcessEndsTypes DEF Crash, TypeOK
<1>27. ASSUME UNCHANGED vars PROVE TypeOK'
  BY <1>27 DEF TypeOK, vars, jobVars, connVars, obsVars
<1> QED BY <1>1, <1>2, <1>3, <1>4, <1>5, <1>6, <1>7, <1>8, <1>9, <1>10, <1>11, <1>12,
    <1>13, <1>14, <1>15, <1>16, <1>17, <1>18, <1>19, <1>20, <1>21, <1>22, <1>23,
        <1>24, <1>25, <1>26, <1>27
    DEF Next, ConfigStep, Deliver, RpcThread, MainThread, RefuseUpdate, IgnoreUpdate

\* Every step keeps the facts about the update in progress.
LEMMA JobStep ==
    ASSUME TypeOK, JobInv, [Next]_vars
    PROVE  JobInv'
<1>1. ASSUME NEW r \in Requests, AcceptUpdate(r) PROVE JobInv'
  BY <1>1, ConfigAssumption, CandidateType DEF AcceptUpdate, Receiving, Unseen,
      JobInv, TypeOK, Jobs, JobPcs, Journals, Updating, connVars, Configurations
<1>2. ASSUME NEW r \in Requests, ReplayUpdate(r) PROVE JobInv'
  BY <1>2, ConfigAssumption DEF ReplayUpdate, Receiving, Answer, JobInv, TypeOK,
      Jobs, JobPcs, Journals, Updating, connVars, jobVars
<1>3. ASSUME Raise PROVE JobInv'
  BY <1>3, ConfigAssumption, NoJobFacts DEF Raise, JobInv, TypeOK, Jobs, JobPcs,
      Journals, Updating, connVars
<1>4. ASSUME WriteNew PROVE JobInv'
  BY <1>4, ConfigAssumption DEF WriteNew, JobInv, TypeOK, Jobs, JobPcs, Journals,
      Updating, connVars
<1>5. ASSUME ConfigClose PROVE JobInv'
  <2>1. UNCHANGED <<file, jmem, forgotten, main>>
    BY <1>5 DEF ConfigClose, obsVars
  <2>2. CASE job.pc = "close" /\ job' = [job EXCEPT !.pc = "clear"]
    BY <2>1, <2>2 DEF JobInv, TypeOK, Jobs, Updating
  <2>3. CASE job.pc = "undo_close" /\ job' = [job EXCEPT !.pc = "undo_clear"]
    BY <2>1, <2>3 DEF JobInv, TypeOK, Jobs, Updating
  <2>4. CASE job.pc = "reset_close" /\ job' = [job EXCEPT !.pc = "reset_clear"]
    BY <2>1, <2>4 DEF JobInv, TypeOK, Jobs, Updating
  <2> QED BY <1>5, <2>2, <2>3, <2>4 DEF ConfigClose
<1>6. ASSUME ConfigClear PROVE JobInv'
  <2>1. UNCHANGED <<file, jmem, forgotten, main>>
    BY <1>6 DEF ConfigClear, obsVars
  <2>2. CASE job.pc = "clear" /\ job' = [job EXCEPT !.pc = "start"]
    BY <2>1, <2>2 DEF JobInv, TypeOK, Jobs, Updating
  <2>3. CASE job.pc = "undo_clear" /\ job' = [job EXCEPT !.pc = "restart"]
    BY <2>1, <2>3 DEF JobInv, TypeOK, Jobs, Updating
  <2>4. CASE job.pc = "reset_clear" /\ job' = [job EXCEPT !.pc = "reset_journal"]
    BY <2>1, <2>4 DEF JobInv, TypeOK, Jobs, Updating
  <2> QED BY <1>6, <2>2, <2>3, <2>4 DEF ConfigClear
<1>7. ASSUME NEW d \in Definitions, NEW ok \in BOOLEAN, ConfigStart(d, ok) PROVE JobInv'
  BY <1>7, ConfigAssumption DEF ConfigStart, JobInv, TypeOK, Jobs, JobPcs, Journals,
      Updating, connVars
<1>8. ASSUME ConfigDecide PROVE JobInv'
  BY <1>8, ConfigAssumption DEF ConfigDecide, JobInv, TypeOK, Jobs, JobPcs, Journals,
      Updating, connVars
<1>9. ASSUME UndoWrite PROVE JobInv'
  BY <1>9, ConfigAssumption DEF UndoWrite, JobInv, TypeOK, Jobs, JobPcs, Journals,
      Updating, connVars
<1>10. ASSUME KeepNew PROVE JobInv'
  BY <1>10, ConfigAssumption DEF KeepNew, JobInv, TypeOK, Jobs, JobPcs, Journals,
      Updating, connVars
<1>11. ASSUME NEW ok \in BOOLEAN, Record(ok) PROVE JobInv'
  BY <1>11, ConfigAssumption, NoJobFacts, RecordedFacts DEF Record, Answer, JobInv,
      TypeOK, Jobs, JobPcs, Journals, Updating, connVars
<1>12. ASSUME NEW ok \in BOOLEAN, ResetJournal(ok) PROVE JobInv'
  BY <1>12, ConfigAssumption, NoJobFacts DEF ResetJournal, JobInv, TypeOK, Jobs,
      JobPcs, Journals, Updating, connVars
<1>13. ASSUME NEW m \in Modes, BeginReset(m) PROVE JobInv'
  BY <1>13, ConfigAssumption, NoJobFacts DEF BeginReset, JobInv, TypeOK, Jobs,
      JobPcs, Journals, Updating, connVars, NoJob
<1>14. ASSUME ResetLkg PROVE JobInv'
  BY <1>14, ConfigAssumption, NoJobFacts DEF ResetLkg, JobInv, TypeOK, Jobs, JobPcs,
      Journals, Updating, connVars
<1>15. ASSUME ProcessEnds PROVE JobInv'
  BY <1>15, ConfigAssumption, NoJobFacts DEF ProcessEnds, JobInv, TypeOK, Jobs,
      JobPcs, Journals, Updating, connVars
<1>16. ASSUME NEW readable \in BOOLEAN, Boot(readable) PROVE JobInv'
  BY <1>16, ConfigAssumption DEF Boot, JobInv, TypeOK, Jobs, JobPcs, Journals,
      Updating, connVars
<1>17. ASSUME Quiet PROVE JobInv'
  BY <1>17 DEF Quiet, core, JobInv, TypeOK, Jobs, JobPcs, Journals, Updating, connVars
<1> QED BY StepCases, <1>1, <1>2, <1>3, <1>4, <1>5, <1>6, <1>7, <1>8, <1>9, <1>10,
    <1>11, <1>12, <1>13, <1>14, <1>15, <1>16, <1>17

\* A step that changes neither the files nor the journal, and no more of the
\* update in progress than how far it is.
Moved ==
    /\ UNCHANGED <<file, jmem, jdisk, answers, applied, interrupted, forgotten, overwritten>>
    /\ (Updating <=> Updating')
    /\ Updating => job'.req = job.req /\ job'.prev = job.prev
    /\ Updating => (job.pc = "write" <=> job'.pc = "write")

\* Every step is one of those, or one of ten that matter to what was recorded.
LEMMA UpdateCases ==
    ASSUME TypeOK, JobInv, [Next]_vars
    PROVE  \/ \E r \in Requests : AcceptUpdate(r) \/ ReplayUpdate(r)
           \/ Raise \/ WriteNew \/ UndoWrite
           \/ \E ok \in BOOLEAN : Record(ok) \/ ResetJournal(ok)
           \/ \E m \in Modes : BeginReset(m)
           \/ ProcessEnds
           \/ \E readable \in BOOLEAN : Boot(readable)
           \/ Moved
<1> USE DEF Moved, TypeOK, Jobs, Updating, obsVars
<1>1. ASSUME ConfigClose PROVE Moved
  BY <1>1 DEF ConfigClose
<1>2. ASSUME ConfigClear PROVE Moved
  BY <1>2 DEF ConfigClear
<1>3. ASSUME NEW d \in Definitions, NEW ok \in BOOLEAN, ConfigStart(d, ok) PROVE Moved
  BY <1>3 DEF ConfigStart
<1>4. ASSUME ConfigDecide PROVE Moved
  BY <1>4 DEF ConfigDecide
<1>5. ASSUME KeepNew PROVE Moved
  BY <1>5 DEF KeepNew
<1>6. ASSUME ResetLkg PROVE Moved
  BY <1>6, NoJobFacts DEF ResetLkg
<1>7. ASSUME Quiet PROVE Moved
  BY <1>7 DEF Quiet, core
<1> HIDE DEF Moved, TypeOK, Jobs, Updating, obsVars
<1> QED BY StepCases, <1>1, <1>2, <1>3, <1>4, <1>5, <1>6, <1>7

\* The revision of a configuration is a number; that of a request, above 0.
LEMMA RevisionFacts ==
    /\ \A r \in Requests : Revision[r] \in Nat /\ Revision[r] > 0
    /\ \A c \in Configurations : Rev(c) \in Nat /\ (Rev(c) > 0 => c.req \in Requests)
    /\ \A c : c.req \in Requests => Rev(c) = Revision[c.req]
BY ConfigAssumption DEF Rev, Configurations

\* record, seen from the other requests: what the file had stays anchored.
LEMMA RecordFacts ==
    ASSUME TypeOK, JobInv, NEW ok \in BOOLEAN, Record(ok)
    PROVE  /\ job.req \in Requests /\ ~Updating' /\ job.pc = "record" /\ Updating
           /\ UNCHANGED <<file, applied, interrupted, overwritten>>
           /\ jmem' \in Journals /\ jmem'.max >= jmem.max
           /\ jmem'.max >= Revision[job.req]
           /\ \A q \in Requests : q # job.req =>
                 jmem'.results[q] \in {jmem.results[q], "none"}
           /\ jmem'.results[job.req] \in {"none", "success", "rolled_back"}
           /\ job.failed => jmem'.results[job.req] \in {"none", "rolled_back"}
           /\ ~job.failed => jmem'.results[job.req] \in {"none", "success"}
           /\ \/ jdisk' = jmem' /\ forgotten' = forgotten
              \/ jdisk' = jdisk /\ forgotten' = forgotten \cup {job.req} /\ answers' = answers
           /\ \A r \in Requests \ forgotten' :
                 Anchored(r) \/ r = job.req => Anchored(r)'
<1>1. job.req \in Requests /\ Updating
  BY UpdateFacts DEF Record, Updating
<1>2. PICK result \in Results :
         /\ jmem' = Recorded(job.req, result)
         /\ result = IF job.failed THEN "rolled_back" ELSE "success"
  BY DEF Record, Results
<1>3. /\ jmem' \in Journals /\ jmem'.max >= jmem.max
      /\ jmem'.max >= Revision[job.req]
      /\ \A q \in Requests : q # job.req =>
            jmem'.results[q] \in {jmem.results[q], "none"}
      /\ jmem'.results[job.req] \in {result, "none"}
  BY <1>1, <1>2, RecordedFacts DEF TypeOK
<1>4. \/ jdisk' = jmem' /\ forgotten' = forgotten
      \/ jdisk' = jdisk /\ forgotten' = forgotten \cup {job.req} /\ answers' = answers
  BY DEF Record
<1>5. \A r \in Requests \ forgotten' : Anchored(r) \/ r = job.req => Anchored(r)'
  BY <1>1, <1>3, <1>4, RevisionFacts DEF Anchored, TypeOK, Journals
<1>6. ~Updating' /\ job.pc = "record" /\ UNCHANGED <<file, applied, interrupted, overwritten>>
  BY NoJobFacts DEF Record, Updating
<1>7. /\ job.failed => jmem'.results[job.req] \in {"none", "rolled_back"}
      /\ ~job.failed => jmem'.results[job.req] \in {"none", "success"}
  BY <1>2, <1>3
<1> QED BY <1>1, <1>2, <1>3, <1>4, <1>5, <1>6, <1>7 DEF Results

\* Every step keeps what was written anchored in the journal.
LEMMA AnchorStep ==
    ASSUME TypeOK, JobInv, AnchorInv, [Next]_vars
    PROVE  AnchorInv'
<1>1. ASSUME NEW r \in Requests, AcceptUpdate(r) PROVE AnchorInv'
  BY <1>1, UpdateFacts, NoJobFacts, RevisionFacts DEF AcceptUpdate, Receiving,
      Unseen, AnchorInv, Excused, Written, Anchored, Updating, TypeOK, Jobs, Journals
<1>2. ASSUME NEW r \in Requests, ReplayUpdate(r) PROVE AnchorInv'
  BY <1>2, UpdateFacts, NoJobFacts, RevisionFacts DEF ReplayUpdate, Receiving,
      Answer, AnchorInv, Excused, Written, Anchored, Updating, TypeOK, Jobs,
          Journals, jobVars
<1>3. ASSUME Raise PROVE AnchorInv'
  BY <1>3, UpdateFacts, NoJobFacts, RevisionFacts DEF Raise, AnchorInv, Excused,
      Written, Anchored, Updating, TypeOK, Jobs, Journals, JobInv
<1>4. ASSUME WriteNew PROVE AnchorInv'
  BY <1>4, UpdateFacts, NoJobFacts, RevisionFacts DEF WriteNew, AnchorInv, Excused,
      Written, Anchored, Updating, TypeOK, Jobs, Journals
<1>5. ASSUME UndoWrite PROVE AnchorInv'
  BY <1>5, UpdateFacts, NoJobFacts, RevisionFacts DEF UndoWrite, AnchorInv, Excused,
      Written, Anchored, Updating, TypeOK, Jobs, Journals, obsVars
<1>6. ASSUME NEW ok \in BOOLEAN, Record(ok) PROVE AnchorInv'
  BY <1>6, RecordFacts DEF AnchorInv, Excused, Written
<1>7. ASSUME NEW m \in Modes, BeginReset(m) PROVE AnchorInv'
  BY <1>7, UpdateFacts, NoJobFacts, RevisionFacts DEF BeginReset, AnchorInv, Excused,
      Written, Anchored, Updating, TypeOK, Jobs, Journals, NoJob
<1>8. ASSUME NEW ok \in BOOLEAN, ResetJournal(ok) PROVE AnchorInv'
  <2>1. ~Updating' /\ file' = file /\ file.req \notin Requests /\ forgotten = Requests
    BY <1>8, NoJobFacts, ConfigAssumption DEF ResetJournal, JobInv, Updating, TypeOK,
        Jobs
  <2>2. (\A r \in Requests : applied'[r] = 0) \/ forgotten' = Requests
    BY <1>8, <2>1 DEF ResetJournal
  <2> QED BY <2>1, <2>2 DEF AnchorInv, Excused
<1>9. ASSUME ProcessEnds PROVE AnchorInv'
  BY <1>9, UpdateFacts, NoJobFacts, RevisionFacts DEF ProcessEnds, AnchorInv,
      Excused, Written, Anchored, Updating, TypeOK, Jobs, Journals, JobInv
<1>10. ASSUME NEW readable \in BOOLEAN, Boot(readable) PROVE AnchorInv'
  BY <1>10, UpdateFacts, NoJobFacts, RevisionFacts DEF Boot, AnchorInv, Excused,
      Written, Anchored, Updating, TypeOK, Jobs, Journals, JobInv
<1>11. ASSUME Moved PROVE AnchorInv'
  BY <1>11 DEF Moved, AnchorInv, Excused, Written, Anchored, Updating, TypeOK, Jobs,
      Journals, JobInv
<1> QED BY UpdateCases, <1>1, <1>2, <1>3, <1>4, <1>5, <1>6, <1>7, <1>8, <1>9, <1>10,
    <1>11

\* When an update is about to be written, what the file holds, and the update
\* itself, are in the order of their revisions unless a record is missing.
LEMMA WriteOrder ==
    ASSUME TypeOK, JobInv, AnchorInv, job.pc = "write"
    PROVE  /\ job.req \in Requests
           /\ job.req \notin Excused => applied[job.req] = 0
           /\ Rev(file) > Revision[job.req] => file.req \in Excused
<1>1. Updating /\ \A r : ~Written(r)
  BY DEF Updating, Written
<1>2. job.req \in Requests /\ Revision[job.req] > jmem.max
  BY <1>1, UpdateFacts
<1>3. job.req \notin Excused => applied[job.req] = 0
  BY <1>1, <1>2, RevisionFacts DEF AnchorInv, Anchored, TypeOK, Journals
<1>4. ASSUME Rev(file) > Revision[job.req], file.req \notin Excused
      PROVE  FALSE
  <2>1. file \in Configurations /\ Rev(file) \in Nat /\ Rev(file) > 0
    BY <1>2, <1>4, RevisionFacts DEF TypeOK
  <2>2. file.req \in Requests /\ Rev(file) = Revision[file.req]
    BY <2>1, RevisionFacts
  <2>3. Revision[file.req] <= jmem.max
    BY <1>1, <1>4, <2>2 DEF AnchorInv, Anchored
  <2> QED BY <1>2, <1>4, <2>1, <2>2, <2>3, RevisionFacts DEF TypeOK, Journals
<1> QED BY <1>2, <1>3, <1>4

\* A step writes no request twice, and no older one over a newer, unless its
\* record is missing.
LEMMA OnceStep ==
    ASSUME TypeOK, JobInv, AnchorInv, AppliedOnce, OlderReplacesOnlyUnrecorded,
        [Next]_vars
    PROVE  AppliedOnce' /\ OlderReplacesOnlyUnrecorded'
<1>1. ASSUME NEW r \in Requests, AcceptUpdate(r)
    PROVE AppliedOnce' /\ OlderReplacesOnlyUnrecorded'
  BY <1>1 DEF AcceptUpdate, Receiving, Unseen, AppliedOnce,
      OlderReplacesOnlyUnrecorded, obsVars
<1>2. ASSUME NEW r \in Requests, ReplayUpdate(r)
    PROVE AppliedOnce' /\ OlderReplacesOnlyUnrecorded'
  BY <1>2 DEF ReplayUpdate, Receiving, Answer, AppliedOnce,
      OlderReplacesOnlyUnrecorded, obsVars
<1>3. ASSUME Raise PROVE AppliedOnce' /\ OlderReplacesOnlyUnrecorded'
  BY <1>3 DEF Raise, AppliedOnce, OlderReplacesOnlyUnrecorded, obsVars
<1>4. ASSUME WriteNew PROVE AppliedOnce' /\ OlderReplacesOnlyUnrecorded'
  BY <1>4, WriteOrder DEF WriteNew, AppliedOnce, OlderReplacesOnlyUnrecorded,
      obsVars, Excused, TypeOK
<1>5. ASSUME UndoWrite PROVE AppliedOnce' /\ OlderReplacesOnlyUnrecorded'
  BY <1>5 DEF UndoWrite, AppliedOnce, OlderReplacesOnlyUnrecorded, obsVars
<1>6. ASSUME NEW ok \in BOOLEAN, Record(ok)
    PROVE AppliedOnce' /\ OlderReplacesOnlyUnrecorded'
  BY <1>6, RecordFacts DEF AppliedOnce, OlderReplacesOnlyUnrecorded
<1>7. ASSUME NEW m \in Modes, BeginReset(m)
    PROVE AppliedOnce' /\ OlderReplacesOnlyUnrecorded'
  BY <1>7 DEF BeginReset, AppliedOnce, OlderReplacesOnlyUnrecorded, obsVars, TypeOK
<1>8. ASSUME NEW ok \in BOOLEAN, ResetJournal(ok)
    PROVE AppliedOnce' /\ OlderReplacesOnlyUnrecorded'
  BY <1>8 DEF ResetJournal, AppliedOnce, OlderReplacesOnlyUnrecorded, obsVars
<1>9. ASSUME ProcessEnds PROVE AppliedOnce' /\ OlderReplacesOnlyUnrecorded'
  BY <1>9 DEF ProcessEnds, AppliedOnce, OlderReplacesOnlyUnrecorded, obsVars
<1>10. ASSUME NEW readable \in BOOLEAN, Boot(readable)
    PROVE AppliedOnce' /\ OlderReplacesOnlyUnrecorded'
  BY <1>10 DEF Boot, AppliedOnce, OlderReplacesOnlyUnrecorded, obsVars, TypeOK
<1>11. ASSUME Moved PROVE AppliedOnce' /\ OlderReplacesOnlyUnrecorded'
  BY <1>11 DEF Moved, AppliedOnce, OlderReplacesOnlyUnrecorded, obsVars
<1> QED BY UpdateCases, <1>1, <1>2, <1>3, <1>4, <1>5, <1>6, <1>7, <1>8, <1>9, <1>10,
    <1>11

\* Every step keeps an update answered "success" in force.
LEMMA SuccessStep ==
    ASSUME TypeOK, JobInv, SuccessInv, [Next]_vars
    PROVE  SuccessInv'
<1>1. ASSUME NEW r \in Requests, AcceptUpdate(r) PROVE SuccessInv'
  <2>1. ~Updating /\ job'.prev = file /\ UNCHANGED <<file, jmem, jdisk, answers, forgotten>>
    BY <1>1 DEF AcceptUpdate, Receiving, Updating
  <2> QED BY <2>1 DEF SuccessInv, InForce, Anchored, Rev
<1>2. ASSUME NEW r \in Requests, ReplayUpdate(r) PROVE SuccessInv'
  BY <1>2 DEF ReplayUpdate, Receiving, Answer, SuccessInv, InForce, Anchored,
      Updating, TypeOK, Jobs, Journals, jobVars
<1>3. ASSUME Raise PROVE SuccessInv'
  BY <1>3, NoJobFacts DEF Raise, SuccessInv, InForce, Anchored, Updating, TypeOK,
      Jobs, Journals
<1>4. ASSUME WriteNew PROVE SuccessInv'
  <2> SUFFICES ASSUME NEW q \in Requests, InForce(q) PROVE InForce(q)'
    BY <1>4 DEF SuccessInv, WriteNew
  <2>1. Updating /\ job.req \in Requests /\ Revision[job.req] > jmem.max
    BY <1>4, UpdateFacts DEF WriteNew, Updating
  <2>2. file' = job.next /\ job.next.req = job.req
    BY <1>4, <2>1, UpdateFacts DEF WriteNew
  <2>3. Rev(file') = Revision[job.req]
    BY <2>1, <2>2, RevisionFacts
  <2>4. Rev(file') >= Revision[q]
    BY <2>1, <2>3, RevisionFacts DEF InForce, Anchored, TypeOK, Journals
  <2>5. job'.prev = job.prev /\ UNCHANGED <<jmem, jdisk>>
    BY <1>4 DEF WriteNew, TypeOK, Jobs
  <2> QED BY <2>1, <2>4, <2>5 DEF InForce, Anchored, Rev
<1>5. ASSUME UndoWrite PROVE SuccessInv'
  <2>1. Updating /\ file' = job.prev /\ job'.prev = job.prev
        /\ UNCHANGED <<jmem, jdisk, answers, forgotten>>
    BY <1>5 DEF UndoWrite, Updating, TypeOK, Jobs, obsVars
  <2> QED BY <2>1 DEF SuccessInv, InForce, Anchored, Rev
<1>6. ASSUME NEW ok \in BOOLEAN, Record(ok) PROVE SuccessInv'
  <2> SUFFICES ASSUME NEW q \in Requests \ forgotten',
                      \/ "success" \in answers'[q]
                      \/ jmem'.results[q] = "success"
                      \/ jdisk'.results[q] = "success"
               PROVE  InForce(q)'
    BY DEF SuccessInv
  <2>1. ~Updating' /\ file' = file
    BY <1>6, RecordFacts
  <2>2. CASE q = job.req /\ ~job.failed
    <3>1. file = job.next /\ job.next.req = q
      BY <1>6, <2>2, RecordFacts DEF JobInv
    <3>2. Rev(file) = Revision[q]
      BY <3>1, RevisionFacts
    <3> QED BY <1>6, <2>1, <2>2, <3>2, RecordFacts, RevisionFacts DEF InForce
  <2>3. CASE q # job.req \/ job.failed
    <3>1. "success" \in answers[q] \/ jmem.results[q] = "success" \/ jdisk.results[q] = "success"
      <4>1. CASE q # job.req
        <5>1. "success" \in answers'[q] => "success" \in answers[q]
          BY <1>6, <4>1 DEF Record, Answer, TypeOK
        <5> QED BY <1>6, <4>1, <5>1, RecordFacts
      <4>2. CASE q = job.req /\ job.failed
        <5>1. "success" \in answers'[q] => "success" \in answers[q]
          BY <1>6, <4>2 DEF Record, Answer, TypeOK
        <5>2. jmem'.results[q] # "success"
          BY <1>6, <4>2, RecordFacts
        <5> QED BY <1>6, <4>2, <5>1, <5>2, RecordFacts
      <4> QED BY <2>3, <4>1, <4>2
    <3>2. q \notin forgotten
      BY <1>6, RecordFacts
    <3>3. InForce(q)
      BY <3>1, <3>2 DEF SuccessInv
    <3> QED BY <1>6, <2>1, <3>3, RecordFacts DEF InForce
  <2> QED BY <2>2, <2>3
<1>7. ASSUME NEW m \in Modes, BeginReset(m) PROVE SuccessInv'
  BY <1>7 DEF BeginReset, SuccessInv, InForce, Anchored, Updating, TypeOK, Jobs,
      Journals, NoJob
<1>8. ASSUME NEW ok \in BOOLEAN, ResetJournal(ok) PROVE SuccessInv'
  <2>1. forgotten = Requests
    BY <1>8 DEF ResetJournal, JobInv
  <2>2. CASE forgotten' = forgotten
    BY <2>1, <2>2 DEF SuccessInv
  <2>3. CASE jmem' = EmptyJournal /\ jdisk' = EmptyJournal /\ answers' = [r \in Requests |-> {}]
    BY <2>3, EmptyJournalFacts DEF SuccessInv
  <2> QED BY <1>8, <2>2, <2>3 DEF ResetJournal
<1>9. ASSUME ProcessEnds PROVE SuccessInv'
  BY <1>9, NoJobFacts DEF ProcessEnds, SuccessInv, InForce, Anchored, Updating,
      TypeOK, Jobs, Journals
<1>10. ASSUME NEW readable \in BOOLEAN, Boot(readable) PROVE SuccessInv'
  <2>1. job.pc = "idle" /\ ~Updating /\ UNCHANGED <<file, job, jdisk, answers>>
    BY <1>10 DEF Boot, JobInv, Updating
  <2>2. (jmem' = jdisk /\ forgotten' = forgotten) \/ forgotten' = Requests
    BY <1>10 DEF Boot
  <2> QED BY <2>1, <2>2 DEF SuccessInv, InForce, Anchored, Updating, Rev
<1>11. ASSUME Moved PROVE SuccessInv'
  BY <1>11 DEF Moved, SuccessInv, InForce, Anchored, Rev
<1> QED BY UpdateCases, <1>1, <1>2, <1>3, <1>4, <1>5, <1>6, <1>7, <1>8, <1>9, <1>10,
    <1>11

\* Every step keeps the copies of a request's outcome the same.
LEMMA OutcomeStep ==
    ASSUME TypeOK, JobInv, OutcomeInv, [Next]_vars
    PROVE  OutcomeInv'
<1>1. ASSUME NEW r \in Requests, AcceptUpdate(r) PROVE OutcomeInv'
  BY <1>1 DEF AcceptUpdate, Receiving, Unseen, OutcomeInv, Excused, Anchored
<1>2. ASSUME NEW r \in Requests, ReplayUpdate(r) PROVE OutcomeInv'
  BY <1>2 DEF ReplayUpdate, Receiving, Answer, OutcomeInv, Excused, Anchored,
      jobVars, TypeOK, Journals
<1>3. ASSUME Raise PROVE OutcomeInv'
  BY <1>3 DEF Raise, OutcomeInv, Excused, Anchored
<1>4. ASSUME WriteNew PROVE OutcomeInv'
  BY <1>4 DEF WriteNew, OutcomeInv, Excused, Anchored
<1>5. ASSUME UndoWrite PROVE OutcomeInv'
  BY <1>5 DEF UndoWrite, OutcomeInv, Excused, Anchored, obsVars
<1>6. ASSUME NEW ok \in BOOLEAN, Record(ok) PROVE OutcomeInv'
  <2>1. /\ job.req \notin Excused => answers[job.req] = {} /\ jmem.results[job.req] = "none"
                                       /\ jdisk.results[job.req] = "none"
    <3>1. ~Anchored(job.req) /\ job.req \in Requests
      BY <1>6, RecordFacts, UpdateFacts, RevisionFacts DEF Anchored, TypeOK, Journals
    <3>2. job.req \notin Excused => answers[job.req] = {}
      BY <3>1 DEF OutcomeInv, TypeOK
    <3> QED BY <3>1, <3>2 DEF OutcomeInv
  <2> SUFFICES ASSUME NEW q \in Requests, q \notin Excused'
               PROVE  /\ \A o \in answers'[q] : /\ Anchored(q)'
                                                 /\ jmem'.results[q] \in {o, "none"}
                                                 /\ jdisk'.results[q] \in {o, "none"}
                      /\ jmem'.results[q] # "none" =>
                            Anchored(q)' /\ jdisk'.results[q] \in {jmem'.results[q], "none"}
                      /\ jdisk'.results[q] # "none" => Anchored(q)'
    BY DEF OutcomeInv
  <2>2. q \notin Excused /\ q \notin forgotten'
    BY <1>6, RecordFacts DEF Excused
  <2>3. CASE q # job.req
    <3>1. answers'[q] = answers[q]
      BY <1>6, <2>3 DEF Record, Answer, TypeOK
    <3> QED BY <1>6, <2>2, <2>3, <3>1, RecordFacts DEF OutcomeInv
  <2>4. CASE q = job.req
    <3>1. jdisk' = jmem'
      BY <1>6, <2>2, <2>4, RecordFacts
    <3>2. Anchored(q)'
      BY <1>6, <2>2, <2>4, RecordFacts
    <3>3. \A o \in answers'[q] : jmem'.results[q] \in {o, "none"}
      <4>1. answers'[q] \subseteq {IF job.failed THEN "rolled_back" ELSE "success"}
        BY <1>6, <2>1, <2>2, <2>4 DEF Record, Answer, TypeOK
      <4> QED BY <1>6, <2>4, <4>1, RecordFacts
    <3> QED BY <3>1, <3>2, <3>3
  <2> QED BY <2>3, <2>4
<1>7. ASSUME NEW m \in Modes, BeginReset(m) PROVE OutcomeInv'
  BY <1>7 DEF BeginReset, OutcomeInv, Excused, Anchored
<1>8. ASSUME NEW ok \in BOOLEAN, ResetJournal(ok) PROVE OutcomeInv'
  <2>1. forgotten = Requests
    BY <1>8 DEF ResetJournal, JobInv
  <2>2. CASE forgotten' = forgotten
    BY <2>1, <2>2 DEF OutcomeInv, Excused
  <2>3. CASE jmem' = EmptyJournal /\ jdisk' = EmptyJournal /\ answers' = [r \in Requests |-> {}]
    BY <2>3, EmptyJournalFacts DEF OutcomeInv
  <2> QED BY <1>8, <2>2, <2>3 DEF ResetJournal
<1>9. ASSUME ProcessEnds PROVE OutcomeInv'
  BY <1>9 DEF ProcessEnds, OutcomeInv, Excused, Anchored
<1>10. ASSUME NEW readable \in BOOLEAN, Boot(readable) PROVE OutcomeInv'
  <2>1. UNCHANGED <<jdisk, answers, interrupted>>
    BY <1>10 DEF Boot
  <2>2. (jmem' = jdisk /\ forgotten' = forgotten) \/ forgotten' = Requests
    BY <1>10 DEF Boot
  <2> QED BY <2>1, <2>2 DEF OutcomeInv, Excused, Anchored
<1>11. ASSUME Moved PROVE OutcomeInv'
  BY <1>11 DEF Moved, OutcomeInv, Excused, Anchored
<1> QED BY UpdateCases, <1>1, <1>2, <1>3, <1>4, <1>5, <1>6, <1>7, <1>8, <1>9, <1>10,
    <1>11

\* An outcome both "success" and "rolled_back" would be two copies that differ.
LEMMA OutcomesAgree ==
    ASSUME TypeOK, JobInv, OutcomeInv, OneOutcome, [Next]_vars
    PROVE  OneOutcome'
<1>1. ASSUME NEW r \in Requests, ReplayUpdate(r) PROVE OneOutcome'
  <2>1. jmem.results[r] \in Results
    BY <1>1 DEF ReplayUpdate, TypeOK, Journals
  <2>2. r \notin Excused => \A o \in answers[r] : o = jmem.results[r]
    BY <2>1 DEF OutcomeInv, Results
  <2>3. r \notin Excused => answers'[r] \subseteq {jmem.results[r]}
    BY <1>1, <2>2 DEF ReplayUpdate, Answer, TypeOK
  <2>4. \A q \in Requests : q # r => answers'[q] = answers[q]
    BY <1>1 DEF ReplayUpdate, Answer, TypeOK
  <2>5. UNCHANGED <<interrupted, forgotten>>
    BY <1>1 DEF ReplayUpdate
  <2> QED BY <2>3, <2>4, <2>5 DEF OneOutcome, Excused, Results
<1>2. ASSUME NEW ok \in BOOLEAN, Record(ok) PROVE OneOutcome'
  <2>1. OutcomeInv
    OBVIOUS
  <2>2. ~Anchored(job.req) /\ job.req \in Requests
    BY <1>2, RecordFacts, UpdateFacts, RevisionFacts DEF Anchored, TypeOK, Journals
  <2>3. job.req \notin Excused => answers[job.req] = {}
    BY <2>2 DEF OutcomeInv, TypeOK
  <2>4. job.req \notin Excused' => ~(Results \subseteq answers'[job.req])
    BY <1>2, <2>2, <2>3, RecordFacts DEF Record, Answer, TypeOK, Results, Excused
  <2>5. \A q \in Requests : q # job.req => answers'[q] = answers[q]
    BY <1>2 DEF Record, Answer, TypeOK
  <2> QED BY <1>2, <2>4, <2>5, RecordFacts DEF OneOutcome, Excused
<1>3. ASSUME NEW ok \in BOOLEAN, ResetJournal(ok) PROVE OneOutcome'
  BY <1>3 DEF ResetJournal, OneOutcome, Results
<1>4. ASSUME NEW m \in Modes, BeginReset(m) PROVE OneOutcome'
  BY <1>4 DEF BeginReset, OneOutcome
<1>5. ASSUME NEW readable \in BOOLEAN, Boot(readable) PROVE OneOutcome'
  BY <1>5 DEF Boot, OneOutcome
<1> QED BY UpdateCases, <1>1, <1>2, <1>3, <1>4, <1>5
    DEF OneOutcome, AcceptUpdate, Raise, WriteNew, UndoWrite, ProcessEnds, Moved,
        obsVars

-----------------------------------------------------------------------------
(* The connectors *)

\* Only a busy thread has entries to start: no other thread has any while two
\* threads have not overlapped.
LEMMA OthersIdle ==
    ASSUME TypeOK, OwnInv, NEW a \in Busy, NEW b \in Actors, b # a
    PROVE  todo[b] = {}
<1>1. Starting(b) => b \in Busy
  BY DEF Starting, Busy
<1> QED BY <1>1 DEF OwnInv, Alone

\* A step that touches no connector keeps OwnInv if nobody is joined and no
\* thread with entries to start leaves that part of its work.
LEMMA OwnKept ==
    ASSUME TypeOK, OwnInv, Alone', UNCHANGED <<orphan, live, gw, todo>>,
           Silent' => Silent,
           \A a \in Actors : Starting(a) /\ todo[a] # {} => Starting(a)'
    PROVE  OwnInv'
<1>1. \A a \in Actors : \A d \in todo[a] : Starting(a)'
  BY DEF OwnInv
<1> QED BY <1>1 DEF OwnInv

\* The same for a step that closes every connector in the list.
LEMMA OwnClosed ==
    ASSUME TypeOK, OwnInv, Alone', CloseAll, UNCHANGED <<gw, todo>>,
           \A a \in Actors : Starting(a) /\ todo[a] # {} => Starting(a)'
    PROVE  OwnInv'
<1>1. \A d \in Definitions : live'[d] = 0 /\ orphan'[d] = orphan[d]
  BY DEF CloseAll
<1>2. \A a \in Actors : \A d \in todo[a] : d \in Definitions /\ Starting(a)'
  BY DEF OwnInv, TypeOK
<1> QED BY <1>1, <1>2 DEF OwnInv

\* The list is cleared by thread a, and its entries are those of the
\* configuration.
LEMMA OwnCleared ==
    ASSUME TypeOK, OwnInv, Alone', Silent, Clear, NEW a \in Busy,
           todo'[a] \subseteq gw'.list /\ todo'[a] \subseteq Definitions,
           todo'[a] # {} => Starting(a)',
           \A b \in Actors \ {a} : todo'[b] = todo[b]
    PROVE  OwnInv'
<1>1. \A d \in Definitions : live'[d] = 0 /\ orphan'[d] = 0
  BY DEF Clear, OwnInv
<1>2. \A b \in Actors \ {a} : todo'[b] = {}
  BY OthersIdle
<1> QED BY <1>1, <1>2 DEF OwnInv

\* One entry is started, or fails to start.
LEMMA OwnStarted ==
    ASSUME TypeOK, OwnInv, NEW a \in Busy, NEW d \in Definitions, NEW ok \in BOOLEAN,
           Started(a, d, ok), gw' = gw, Starting(a)', ~Silent', Busy' = Busy
    PROVE  OwnInv'
<1>0. a \in Actors
  BY DEF Busy
<1>1. /\ d \in todo[a] /\ UNCHANGED orphan
      /\ todo'[a] = todo[a] \ {d}
      /\ \A b \in Actors \ {a} : todo'[b] = {}
  <2>1. d \in todo[a] /\ UNCHANGED orphan /\ todo' = [todo EXCEPT ![a] = @ \ {d}]
    BY DEF Started
  <2> QED BY <1>0, <2>1, OthersIdle DEF TypeOK
<1>2. /\ \A e \in Definitions : e # d => live'[e] = live[e]
      /\ live'[d] \in {live[d], live[d] + 1}
      /\ \A e \in Definitions : live[e] \in Nat /\ live'[e] \in Nat
  <2>1. live \in [Definitions -> Nat]
    BY DEF TypeOK
  <2>2. CASE ok
    BY <2>1, <2>2 DEF Started
  <2>3. CASE ~ok
    BY <2>1, <2>3 DEF Started
  <2> QED BY <2>2, <2>3
<1>3. /\ d \in gw.list
      /\ SameName(d, gw.list) = {d} => live[d] = 0
  BY <1>0, <1>1 DEF OwnInv
<1>4. Alone'
  BY DEF OwnInv, Alone
<1>5. ASSUME NEW e \in Definitions
      PROVE  /\ orphan'[e] = 0 /\ (live'[e] > 0 => e \in gw'.list)
             /\ SameName(e, gw'.list) = {e} => live'[e] <= 1
  <2>1. CASE e = d
    BY <1>1, <1>2, <1>3, <2>1 DEF OwnInv
  <2>2. CASE e # d
    BY <1>1, <1>2, <2>2 DEF OwnInv
  <2> QED BY <2>1, <2>2
<1>6. ASSUME NEW b \in Actors, NEW e \in todo'[b]
      PROVE  /\ Starting(b)' /\ e \in gw'.list
             /\ SameName(e, gw'.list) = {e} => live'[e] = 0
  <2>1. b = a /\ e \in todo[a] /\ e # d
    BY <1>1
  <2>2. e \in Definitions
    BY <1>0, <2>1 DEF TypeOK
  <2> QED BY <1>0, <1>2, <2>1, <2>2 DEF OwnInv
<1> QED BY <1>4, <1>5, <1>6 DEF OwnInv

\* A step that leaves the configuration in force, or finds it so.
GwFollows == main # "down" /\ ~Reloading => gw = file

\* While the process is down nothing runs.
DownInv ==
    main = "down" => /\ rpc = "idle" /\ \A a \in Actors : todo[a] = {}
                     /\ \A d \in Definitions : live[d] = 0 /\ orphan[d] = 0

\* The gateway's configuration follows the file.
LEMMA FollowsStep ==
    ASSUME TypeOK, JobInv, GwFollows, [Next]_vars
    PROVE  GwFollows'
<1> USE DEF GwFollows, Reloading, TypeOK, Jobs
<1>1. ASSUME NEW r \in Requests, AcceptUpdate(r) PROVE GwFollows'
  BY <1>1 DEF AcceptUpdate, Receiving, connVars
<1>2. ASSUME NEW r \in Requests, ReplayUpdate(r) PROVE GwFollows'
  BY <1>2 DEF ReplayUpdate, connVars, jobVars
<1>3. ASSUME Raise PROVE GwFollows'
  BY <1>3, NoJobFacts DEF Raise, connVars
<1>4. ASSUME WriteNew PROVE GwFollows'
  BY <1>4 DEF WriteNew
<1>5. ASSUME ConfigClose PROVE GwFollows'
  BY <1>5 DEF ConfigClose
<1>6. ASSUME ConfigClear PROVE GwFollows'
  BY <1>6 DEF ConfigClear
<1>7. ASSUME NEW d \in Definitions, NEW ok \in BOOLEAN, ConfigStart(d, ok)
      PROVE GwFollows'
  BY <1>7 DEF ConfigStart
<1>8. ASSUME ConfigDecide PROVE GwFollows'
  BY <1>8 DEF ConfigDecide, connVars
<1>9. ASSUME UndoWrite PROVE GwFollows'
  BY <1>9 DEF UndoWrite
<1>10. ASSUME KeepNew PROVE GwFollows'
  BY <1>10 DEF KeepNew, connVars
<1>11. ASSUME NEW ok \in BOOLEAN, Record(ok) PROVE GwFollows'
  BY <1>11, NoJobFacts DEF Record, connVars
<1>12. ASSUME NEW ok \in BOOLEAN, ResetJournal(ok) PROVE GwFollows'
  BY <1>12, NoJobFacts DEF ResetJournal, connVars
<1>13. ASSUME NEW m \in Modes, BeginReset(m) PROVE GwFollows'
  BY <1>13 DEF BeginReset, NoJob
<1>14. ASSUME ResetLkg PROVE GwFollows'
  BY <1>14, NoJobFacts DEF ResetLkg, connVars
<1>15. ASSUME ProcessEnds PROVE GwFollows'
  BY <1>15 DEF ProcessEnds
<1>16. ASSUME NEW readable \in BOOLEAN, Boot(readable) PROVE GwFollows'
  BY <1>16 DEF Boot
<1>17. ASSUME RpcThread \/ UNCHANGED vars PROVE GwFollows'
  BY <1>17 DEF RpcThread, RpcRestartAll, RpcClear, RpcRemove, RpcDone, RpcRestartOne,
      RpcStart, jobVars, vars, connVars
<1>18. ASSUME MainBegin \/ MainDone PROVE GwFollows'
  BY <1>18 DEF MainBegin, MainDone, jobVars
<1>19. ASSUME NEW d \in Definitions, NEW ok \in BOOLEAN, MainStart(d, ok)
       PROVE GwFollows'
  BY <1>19 DEF MainStart, jobVars
<1> HIDE DEF GwFollows, Reloading, TypeOK, Jobs
<1> QED BY <1>1, <1>2, <1>3, <1>4, <1>5, <1>6, <1>7, <1>8, <1>9, <1>10, <1>11, <1>12,
    <1>13, <1>14, <1>15, <1>16, <1>17, <1>18, <1>19
    DEF Next, ConfigStep, Deliver, MainThread, MainExit, Crash, RefuseUpdate,
        IgnoreUpdate

\* A process that has ended does nothing until it is started again.
LEMMA DownStep ==
    ASSUME TypeOK, JobInv, DownInv, [Next]_vars
    PROVE  DownInv'
<1> SUFFICES ASSUME main' = "down" PROVE DownInv'
  BY DEF DownInv
<1>1. CASE ProcessEnds
  <2>1. /\ rpc' = "idle" /\ todo' = [a \in Actors |-> {}]
        /\ live' = [d \in Definitions |-> 0] /\ orphan' = [d \in Definitions |-> 0]
    BY <1>1 DEF ProcessEnds
  <2> QED BY <2>1 DEF DownInv
<1>2. CASE main = "down"
  <2>1. job.pc = "idle" /\ rpc = "idle" /\ \A a \in Actors : todo[a] = {}
    BY <1>2 DEF JobInv, DownInv
  <2>2. UNCHANGED <<rpc, todo, live, orphan>>
    <3>1. CASE ConfigStep
      BY <2>1, <3>1 DEF ConfigStep, WriteNew, ConfigClose, ConfigClear, ConfigDecide,
          UndoWrite, KeepNew, ConfigStart, Record, ResetJournal, ResetLkg, Raise
    <3>2. CASE Deliver
      BY <1>2, <3>2 DEF Deliver, AcceptUpdate, ReplayUpdate, RefuseUpdate, Receiving,
          IgnoreUpdate, BeginReset
    <3>3. CASE RpcThread
      BY <1>2, <2>1, <3>3 DEF RpcThread, RpcRestartAll, RpcClear, RpcRemove, RpcDone,
          RpcRestartOne, RpcStart
    <3>4. CASE MainThread
      BY <1>2, <3>4 DEF MainThread, MainBegin, MainDone, MainExit, MainStart, Boot
    <3>5. CASE Crash \/ UNCHANGED vars
      BY <1>2, <3>5 DEF Crash, vars, connVars
    <3> QED BY <3>1, <3>2, <3>3, <3>4, <3>5 DEF Next
  <2> QED BY <1>2, <2>2 DEF DownInv
<1>3. CASE main # "down"
  <2>1. main' # main
    BY <1>3
  <2>2. \/ ConfigStep \/ Deliver \/ RpcThread \/ UNCHANGED vars => main' = main
    BY DEF ConfigStep, WriteNew, ConfigClose, ConfigClear, ConfigDecide, UndoWrite,
        KeepNew, ConfigStart, Record, ResetJournal, ResetLkg, Raise, Deliver,
        AcceptUpdate, ReplayUpdate, RefuseUpdate, IgnoreUpdate, BeginReset, RpcThread,
        RpcRestartAll, RpcClear, RpcRemove, RpcDone, RpcRestartOne, RpcStart, vars,
        connVars
  <2>3. CASE MainThread
    BY <1>1, <1>3, <2>3 DEF MainThread, MainBegin, MainDone, MainExit, MainStart, Boot
  <2> QED BY <1>1, <2>1, <2>2, <2>3 DEF Next, Crash
<1> QED BY <1>1, <1>2, <1>3

\* Every step of a thread that works alone keeps the connectors in order.
LEMMA OwnStep ==
    ASSUME TypeOK, JobInv, ConnectorInv, [Next]_vars, ~overlapped'
    PROVE  OwnInv'
<1>0. overlapped \in BOOLEAN /\ (~overlapped => OwnInv)
  BY DEF TypeOK, ConnectorInv
<1>1. ASSUME NEW r \in Requests, AcceptUpdate(r) PROVE OwnInv'
  <2>0. job'.pc = "write"
    BY <1>1 DEF AcceptUpdate
  <2>1. /\ ~overlapped /\ Busy \ {"config"} = {} /\ job.pc = "idle"
        /\ UNCHANGED <<gw, main, rpc, todo, live, orphan>>
    BY <1>0, <1>1 DEF AcceptUpdate, Enter, connVars, Receiving
  <2>2. Alone'
    BY <2>0, <2>1 DEF Alone, Busy, Actors
  <2> QED BY <1>0, <2>0, <2>1, <2>2, OwnKept DEF Silent, Starting
<1>2. ASSUME NEW m \in Modes, BeginReset(m) PROVE OwnInv'
  <2>1. /\ ~overlapped /\ Busy \ {"config"} = {} /\ job.pc = "idle"
        /\ job'.pc = "reset_close" /\ UNCHANGED <<gw, main, rpc, todo, live, orphan>>
    BY <1>0, <1>2 DEF BeginReset, Enter, connVars, NoJob
  <2>2. Alone'
    BY <2>1 DEF Alone, Busy, Actors
  <2> QED BY <1>0, <2>1, <2>2, OwnKept DEF Silent, Starting
<1>3. ASSUME \/ Raise \/ WriteNew \/ ConfigDecide \/ UndoWrite \/ KeepNew \/ ResetLkg
             \/ \E ok \in BOOLEAN : Record(ok) \/ ResetJournal(ok)
      PROVE  OwnInv'
  <2>1. /\ UNCHANGED <<overlapped, gw, main, rpc, todo, live, orphan>>
        /\ job.pc \in {"start", "restart"} => todo["config"] = {}
        /\ job.pc # "idle"
        /\ job'.pc \notin {"clear", "undo_clear", "reset_clear", "start", "restart"}
    BY <1>3, NoJobFacts DEF Raise, WriteNew, ConfigDecide, UndoWrite, KeepNew, ResetLkg,
        Record, ResetJournal, connVars, obsVars, TypeOK, Jobs
  <2>2. Alone'
    BY <1>0, <2>1 DEF OwnInv, Alone, Busy
  <2> QED BY <1>0, <2>1, <2>2, OwnKept DEF Silent, Starting
<1>4. ASSUME ConfigClose PROVE OwnInv'
  <2>1. /\ UNCHANGED <<overlapped, gw, main, rpc, todo>> /\ CloseAll
        /\ job.pc \in {"close", "undo_close", "reset_close"} /\ job'.pc # "idle"
    BY <1>4 DEF ConfigClose, obsVars, TypeOK, Jobs
  <2>2. Alone'
    BY <1>0, <2>1 DEF OwnInv, Alone, Busy
  <2> QED BY <1>0, <2>1, <2>2, OwnClosed DEF Starting
<1>5. ASSUME ConfigClear PROVE OwnInv'
  <2>1. /\ UNCHANGED <<overlapped, main, rpc>> /\ Clear /\ gw' = file
        /\ job.pc \in {"clear", "undo_clear", "reset_clear"} /\ job'.pc # "idle"
    BY <1>5 DEF ConfigClear, obsVars, TypeOK, Jobs
  <2>2. Alone' /\ Silent /\ "config" \in Busy /\ "config" \in Actors
    BY <1>0, <2>1 DEF OwnInv, Alone, Busy, Silent, Actors
  <2>3. /\ todo'["config"] \subseteq file.list
        /\ todo'["config"] # {} => job'.pc \in {"start", "restart"}
        /\ \A b \in Actors \ {"config"} : todo'[b] = todo[b]
    <3>1. CASE job.pc = "reset_clear"
      <4>1. todo' = todo
        BY <1>5, <3>1 DEF ConfigClear
      <4>2. todo["config"] = {}
        BY <1>0, <2>1, <2>2, <3>1 DEF OwnInv, Starting
      <4> QED BY <4>1, <4>2
    <3>2. CASE job.pc # "reset_clear"
      <4>1. /\ todo' = [todo EXCEPT !["config"] = ToStart(file)]
            /\ job' = [job EXCEPT !.pc = IF @ = "clear" THEN "start" ELSE "restart"]
        BY <1>5, <3>2 DEF ConfigClear
      <4>2. job'.pc \in {"start", "restart"}
        BY <4>1 DEF TypeOK, Jobs
      <4>3. ToStart(file) \subseteq file.list
        BY DEF ToStart
      <4> QED BY <2>2, <4>1, <4>2, <4>3 DEF TypeOK
    <3> QED BY <3>1, <3>2
  <2>4. file.list \subseteq Definitions
    BY DEF TypeOK, Configurations
  <2> QED BY <1>0, <2>1, <2>2, <2>3, <2>4, OwnCleared DEF Starting
<1>6. ASSUME NEW d \in Definitions, NEW ok \in BOOLEAN, ConfigStart(d, ok) PROVE OwnInv'
  <2>1. /\ UNCHANGED <<overlapped, gw, main, rpc>> /\ Started("config", d, ok)
        /\ job.pc \in {"start", "restart"} /\ job'.pc = job.pc
    BY <1>6 DEF ConfigStart, obsVars, TypeOK, Jobs
  <2>2. "config" \in Busy /\ Busy' = Busy /\ Starting("config")'
    BY <2>1 DEF Busy, Actors, Starting
  <2>3. ~Silent'
    <3>1. main \notin {"booting", "down"} /\ rpc # "closing"
      BY <1>0, <2>1, <2>2 DEF OwnInv, Alone, Busy, Actors, JobInv
    <3> QED BY <2>1, <3>1 DEF Silent
  <2> QED BY <1>0, <2>1, <2>2, <2>3, OwnStarted
<1>7. ASSUME RpcRestartAll PROVE OwnInv'
  <2>1. /\ ~overlapped /\ Busy \ {"rpc"} = {} /\ rpc = "idle" /\ rpc' = "closing"
        /\ UNCHANGED <<gw, main, todo, job>> /\ CloseAll
    BY <1>0, <1>7 DEF RpcRestartAll, Enter, jobVars
  <2>2. Alone'
    BY <2>1 DEF Alone, Busy, Actors
  <2> QED BY <1>0, <2>1, <2>2, OwnClosed DEF Starting
<1>8. ASSUME RpcClear PROVE OwnInv'
  <2>1. /\ UNCHANGED <<overlapped, main, gw, job>> /\ Clear
        /\ rpc = "closing" /\ rpc' = "starting"
        /\ todo' = [todo EXCEPT !["rpc"] = ToStart(gw)]
    BY <1>8 DEF RpcClear, obsVars, jobVars
  <2>2. Alone' /\ Silent /\ "rpc" \in Busy /\ "rpc" \in Actors
    BY <1>0, <2>1 DEF OwnInv, Alone, Busy, Silent, Actors
  <2>3. /\ todo'["rpc"] \subseteq gw.list
        /\ \A b \in Actors \ {"rpc"} : todo'[b] = todo[b]
    BY <2>1, <2>2 DEF TypeOK, ToStart
  <2>4. gw.list \subseteq Definitions
    BY DEF TypeOK, Configurations
  <2> QED BY <1>0, <2>1, <2>2, <2>3, <2>4, OwnCleared DEF Starting
<1>9. ASSUME NEW d \in Definitions, RpcRestartOne(d) PROVE OwnInv'
  <2>1. /\ ~overlapped /\ Busy \ {"rpc"} = {} /\ rpc = "idle" /\ rpc' = "removing"
        /\ UNCHANGED <<gw, main, job, orphan>> /\ main # "down"
        /\ live[d] > 0 /\ live' = [live EXCEPT ![d] = @ - 1]
        /\ todo' = [todo EXCEPT !["rpc"] = {d}]
    BY <1>0, <1>9 DEF RpcRestartOne, Enter, jobVars
  <2>2. Alone'
    BY <2>1 DEF Alone, Busy, Actors
  <2>3. ~Silent'
    BY <2>1 DEF Silent, Busy, Actors
  <2>4. /\ d \in gw.list /\ live[d] \in Nat /\ live'[d] = live[d] - 1
        /\ \A e \in Definitions \ {d} : live'[e] = live[e]
        /\ \A e \in Definitions : live[e] \in Nat
    BY <1>0, <2>1 DEF OwnInv, TypeOK
  <2>5. /\ todo'["rpc"] = {d} /\ \A b \in Actors \ {"rpc"} : todo'[b] = {}
    <3>1. \A b \in Actors \ {"rpc"} : ~Starting(b)
      BY <2>1 DEF Busy, Starting
    <3>2. \A b \in Actors \ {"rpc"} : todo[b] = {}
      BY <1>0, <2>1, <3>1 DEF OwnInv
    <3> QED BY <2>1, <3>2 DEF TypeOK, Actors
  <2>6. ASSUME NEW e \in Definitions
        PROVE  /\ orphan'[e] = 0 /\ (live'[e] > 0 => e \in gw'.list)
               /\ SameName(e, gw'.list) = {e} => live'[e] <= 1
    <3>1. CASE e = d
      BY <1>0, <2>1, <2>4, <3>1 DEF OwnInv
    <3>2. CASE e # d
      BY <1>0, <2>1, <2>4, <3>2 DEF OwnInv
    <3> QED BY <3>1, <3>2
  <2>7. SameName(d, gw'.list) = {d} => live'[d] = 0
    BY <1>0, <2>1, <2>4 DEF OwnInv
  <2>8. Starting("rpc")' /\ d \in gw'.list
    BY <2>1, <2>4 DEF Starting
  <2> QED BY <2>2, <2>3, <2>5, <2>6, <2>7, <2>8 DEF OwnInv
<1>10. ASSUME RpcRemove PROVE OwnInv'
  <2>1. UNCHANGED <<overlapped, gw, main, job, live, orphan>> /\ rpc = "removing"
    BY <1>10 DEF RpcRemove, obsVars, jobVars
  <2>2. rpc' = "starting"
    BY <1>10, <2>1 DEF RpcRemove
  <2>3. Alone' /\ ~Silent' /\ "rpc" \in Busy /\ "rpc" \in Actors
    <3>1. "rpc" \in Busy /\ "rpc" \in Actors
      BY <2>1 DEF Busy, Actors
    <3>2. Alone'
      BY <1>0, <2>1, <2>2 DEF OwnInv, Alone, Busy
    <3>3. main \notin {"booting", "down"} /\ job.pc = "idle"
      BY <1>0, <2>1, <3>1 DEF OwnInv, Alone, Busy, Actors, ConnectorInv
    <3> QED BY <2>1, <2>2, <3>1, <3>2, <3>3 DEF Silent
  <2>4. \A b \in Actors \ {"rpc"} : todo'[b] = {}
    <3>1. \A b \in Actors \ {"rpc"} : todo'[b] = todo[b]
      BY <1>10 DEF RpcRemove, TypeOK
    <3> QED BY <1>0, <2>1, <2>3, <3>1, OthersIdle
  <2>5. ASSUME NEW e \in todo'["rpc"]
        PROVE  \E d \in todo["rpc"] : e \in SameName(d, gw.list)
    <3> DEFINE found == UNION {SameName(d, gw.list) : d \in todo["rpc"]}
    <3>1. \/ todo' = [todo EXCEPT !["rpc"] = {}]
          \/ \E d \in found : todo' = [todo EXCEPT !["rpc"] = {d}]
      BY <1>10 DEF RpcRemove
    <3>2. e \in found
      BY <2>3, <3>1 DEF TypeOK
    <3> QED BY <3>2
  <2>6. ASSUME NEW e \in todo'["rpc"]
        PROVE  e \in gw.list /\ (SameName(e, gw.list) = {e} => live[e] = 0)
    <3>1. PICK d \in todo["rpc"] : e \in SameName(d, gw.list)
      BY <2>5
    <3>2. e \in gw.list /\ d \in gw.list /\ Name[e] = Name[d]
      BY <1>0, <2>1, <2>3, <3>1 DEF OwnInv, SameName
    <3>3. SameName(e, gw.list) = {e} => d = e
      BY <3>2 DEF SameName
    <3> QED BY <1>0, <2>1, <2>3, <3>2, <3>3 DEF OwnInv
  <2>7. Starting("rpc")'
    BY <2>2 DEF Starting
  <2> QED BY <1>0, <2>1, <2>3, <2>4, <2>6, <2>7 DEF OwnInv
<1>11. ASSUME NEW d \in Definitions, NEW ok \in BOOLEAN, RpcStart(d, ok) PROVE OwnInv'
  <2>1. /\ UNCHANGED <<overlapped, gw, main, rpc, job>> /\ Started("rpc", d, ok)
        /\ rpc = "starting"
    BY <1>11 DEF RpcStart, obsVars, jobVars
  <2>2. "rpc" \in Busy /\ Busy' = Busy /\ Starting("rpc")'
    BY <2>1 DEF Busy, Actors, Starting
  <2>3. ~Silent'
    <3>1. main \notin {"booting", "down"} /\ job.pc = "idle"
      BY <1>0, <2>1, <2>2 DEF OwnInv, Alone, Busy, Actors, ConnectorInv
    <3> QED BY <2>1, <3>1 DEF Silent
  <2> QED BY <1>0, <2>1, <2>2, <2>3, OwnStarted
<1>12. ASSUME RpcDone \/ MainDone PROVE OwnInv'
  <2>1. /\ UNCHANGED <<overlapped, gw, job, todo, live, orphan>>
        /\ \/ rpc = "starting" /\ rpc' = "idle" /\ todo["rpc"] = {} /\ main' = main
           \/ main = "starting" /\ main' = "up" /\ todo["main"] = {} /\ rpc' = rpc
    BY <1>12 DEF RpcDone, MainDone, obsVars, jobVars
  <2>2. Alone' /\ (Silent' => Silent)
    BY <1>0, <2>1 DEF OwnInv, Alone, Busy, Silent
  <2> QED BY <1>0, <2>1, <2>2, OwnKept DEF Starting
<1>13. ASSUME MainBegin PROVE OwnInv'
  <2>1. /\ UNCHANGED <<overlapped, gw, job, rpc, live, orphan>>
        /\ main = "booting" /\ main' = "starting"
        /\ todo' = [todo EXCEPT !["main"] = ToStart(gw)]
    BY <1>13 DEF MainBegin, obsVars, jobVars
  <2>2. "main" \in Busy /\ Busy' = Busy /\ "main" \in Actors /\ Silent
    BY <2>1 DEF Busy, Actors, Silent
  <2>3. Alone'
    BY <1>0, <2>1, <2>2 DEF OwnInv, Alone
  <2>4. /\ todo'["main"] \subseteq gw.list
        /\ \A b \in Actors \ {"main"} : todo'[b] = {}
    BY <1>0, <2>1, <2>2, OthersIdle DEF TypeOK, ToStart
  <2>5. gw.list \subseteq Definitions
    BY DEF TypeOK, Configurations
  <2>6. \A d \in Definitions : live[d] = 0 /\ orphan[d] = 0
    BY <1>0, <2>1, <2>2 DEF OwnInv
  <2>7. Starting("main")'
    BY <2>1 DEF Starting
  <2> QED BY <2>1, <2>3, <2>4, <2>5, <2>6, <2>7 DEF OwnInv
<1>14. ASSUME NEW d \in Definitions, NEW ok \in BOOLEAN, MainStart(d, ok) PROVE OwnInv'
  <2>1. /\ UNCHANGED <<overlapped, gw, rpc, job>> /\ Started("main", d, ok)
        /\ main \in {"starting", "failing"} /\ main' \in {"starting", "failing"}
    BY <1>14 DEF MainStart, obsVars, jobVars
  <2>2. "main" \in Busy /\ Busy' = Busy /\ Starting("main")'
    BY <2>1 DEF Busy, Actors, Starting
  <2>3. ~Silent'
    <3>1. rpc = "idle" /\ job.pc = "idle"
      BY <1>0, <2>1, <2>2 DEF OwnInv, Alone, Busy, Actors
    <3> QED BY <2>1, <3>1 DEF Silent
  <2> QED BY <1>0, <2>1, <2>2, <2>3, OwnStarted
<1>15. ASSUME ProcessEnds PROVE OwnInv'
  <2>1. /\ main' = "down" /\ rpc' = "idle" /\ job'.pc = "idle"
        /\ todo' = [a \in Actors |-> {}]
        /\ live' = [d \in Definitions |-> 0] /\ orphan' = [d \in Definitions |-> 0]
    BY <1>15, NoJobFacts DEF ProcessEnds
  <2>2. Alone'
    BY <2>1 DEF Alone, Busy
  <2> QED BY <2>1, <2>2 DEF OwnInv
<1>16. ASSUME NEW readable \in BOOLEAN, Boot(readable) PROVE OwnInv'
  <2>1. /\ main = "down" /\ main' = "booting"
        /\ UNCHANGED <<job, rpc, todo, live, orphan>>
    BY <1>16 DEF Boot
  <2>2. /\ rpc = "idle" /\ job.pc = "idle" /\ \A a \in Actors : todo[a] = {}
        /\ \A d \in Definitions : live[d] = 0 /\ orphan[d] = 0
    BY <2>1 DEF ConnectorInv, JobInv
  <2>3. Alone'
    BY <2>1, <2>2 DEF Alone, Busy
  <2> QED BY <2>1, <2>2, <2>3 DEF OwnInv
<1>17. ASSUME UNCHANGED vars \/ \E r \in Requests : ReplayUpdate(r) PROVE OwnInv'
  <2>1. UNCHANGED <<overlapped, gw, main, rpc, job, todo, live, orphan>>
    BY <1>17 DEF ReplayUpdate, vars, jobVars, connVars, obsVars
  <2>2. Alone'
    BY <1>0, <2>1 DEF OwnInv, Alone, Busy
  <2> QED BY <1>0, <2>1, <2>2, OwnKept DEF Silent, Starting
<1> QED BY <1>1, <1>2, <1>3, <1>4, <1>5, <1>6, <1>7, <1>8, <1>9, <1>10, <1>11, <1>12,
    <1>13, <1>14, <1>15, <1>16, <1>17
    DEF Next, ConfigStep, Deliver, RpcThread, MainThread, MainExit, Crash,
        RefuseUpdate, IgnoreUpdate

\* Every step keeps the connectors in order.
LEMMA ConnectorStep ==
    ASSUME TypeOK, JobInv, ConnectorInv, [Next]_vars
    PROVE  ConnectorInv'
<1>1. GwFollows'
  BY FollowsStep DEF ConnectorInv, GwFollows
<1>2. DownInv'
  BY DownStep DEF ConnectorInv, DownInv
<1>3. ~overlapped' => OwnInv'
  BY OwnStep
<1> QED BY <1>1, <1>2, <1>3 DEF ConnectorInv, GwFollows, DownInv

\* The initial states: nothing was delivered yet.
LEMMA InitInductive == Init => InductiveInv
<1> SUFFICES ASSUME Init PROVE InductiveInv
  OBVIOUS
<1>1. TypeOK
  <2>1. PICK list \in InitialLists :
           file = [list |-> list, req |-> None,
               mode |-> "operational"] /\ lkg = file /\ gw = file
    BY DEF Init
  <2>2. FilesTyped
    BY <2>1, ConfigAssumption, EmptyJournalFacts DEF Init, FilesTyped,
        Configurations, Modes
  <2>3. ConnectorsTyped
    <3>1. todo \in [Actors -> SUBSET Definitions]
      BY DEF Init
    <3>2. live \in [Definitions -> Nat] /\ orphan \in [Definitions -> Nat]
      BY DEF Init
    <3> QED BY <3>1, <3>2 DEF Init, ConnectorsTyped
  <2>4. ObserversTyped
    <3>1. answers \in [Requests -> SUBSET Results] /\ applied \in [Requests -> 0 .. 2]
      BY DEF Init
    <3>2. /\ interrupted = {} /\ forgotten = {} /\ overwritten = {}
          /\ faults \in Nat /\ restarts \in Nat
      BY DEF Init
    <3>3. overlapped \in BOOLEAN
      BY DEF Init
    <3> QED BY <3>1, <3>2, <3>3 DEF ObserversTyped
  <2>5. job \in Jobs
    BY NoJobFacts DEF Init
  <2> QED BY <2>2, <2>3, <2>4, <2>5 DEF TypeOK, FilesTyped, ConnectorsTyped,
      ObserversTyped
<1>2. JobInv
  BY NoJobFacts DEF Init, JobInv, Updating
<1>3. file.req \notin Requests
  BY ConfigAssumption DEF Init
<1>4. AnchorInv /\ AppliedOnce /\ OlderReplacesOnlyUnrecorded
  BY <1>3, NoJobFacts DEF Init, AnchorInv, AppliedOnce, OlderReplacesOnlyUnrecorded,
      Updating
<1>5. SuccessInv /\ OutcomeInv /\ OneOutcome
  BY EmptyJournalFacts DEF Init, SuccessInv, OutcomeInv, OneOutcome, Results
<1>6. ConnectorInv
  <2>1. /\ main = "booting" /\ rpc = "idle" /\ job.pc = "idle" /\ gw = file
        /\ todo = [a \in Actors |-> {}] /\ live = [d \in Definitions |-> 0]
        /\ orphan = [d \in Definitions |-> 0]
    BY NoJobFacts DEF Init
  <2>2. Alone
    BY <2>1 DEF Alone, Busy
  <2> QED BY <2>1, <2>2 DEF ConnectorInv, OwnInv
<1> QED BY <1>1, <1>2, <1>4, <1>5, <1>6 DEF InductiveInv

\* Every step keeps the inductive invariant.
LEMMA InductiveStep == InductiveInv /\ [Next]_vars => InductiveInv'
BY TypeStep, JobStep, AnchorStep, OnceStep, SuccessStep, OutcomeStep, OutcomesAgree,
   ConnectorStep
   DEF InductiveInv

\* The inductive invariant holds in every reachable state.
THEOREM Inductive == Spec => []InductiveInv
BY InitInductive, InductiveStep, PTL DEF Spec

\* The configuration files, the journal and the threads keep their types.
THEOREM TypeCorrectness == Spec => []TypeOK
<1>1. InductiveInv => TypeOK
  BY DEF InductiveInv
<1> QED BY <1>1, Inductive, PTL

\* A redelivered request is not applied again while its record exists.
THEOREM RedeliveryIsSafe == Spec => []AppliedOnce
<1>1. InductiveInv => AppliedOnce
  BY DEF InductiveInv
<1> QED BY <1>1, Inductive, PTL

\* An older configuration replaces a newer one only if the newer one's record
\* is missing from the journal.
THEOREM OlderConfigurations == Spec => []OlderReplacesOnlyUnrecorded
<1>1. InductiveInv => OlderReplacesOnlyUnrecorded
  BY DEF InductiveInv
<1> QED BY <1>1, Inductive, PTL

\* A configuration acknowledged as a success is never undone by an older one.
THEOREM SuccessesSurvive == Spec => []SuccessSurvives
<1>1. InductiveInv => SuccessSurvives
  BY DEF InductiveInv, SuccessInv, InForce, SuccessSurvives
<1> QED BY <1>1, Inductive, PTL

\* A request is never answered both "success" and "rolled_back".
THEOREM SingleOutcome == Spec => []OneOutcome
<1>1. InductiveInv => OneOutcome
  BY DEF InductiveInv
<1> QED BY <1>1, Inductive, PTL

\* When no thread works on the connectors the gateway runs what the file says,
\* each entry of a name of its own at most once, unless two of the three threads
\* that stop and start connectors had overlapped.
THEOREM QuietGatewayIsSettled == Spec => []Settled
<1>1. InductiveInv => Settled
  BY DEF InductiveInv, ConnectorInv, OwnInv, Settled, Busy, Reloading, Actors
<1> QED BY <1>1, Inductive, PTL

=============================================================================
