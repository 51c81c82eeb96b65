--------------------------- MODULE NodeAgentProofs ---------------------------
(***************************************************************************)
(* Proofs about NodeAgent, for any configs, offers and length of the event *)
(* trail.                                                                  *)
(*                                                                         *)
(* The argument: an apply that reached a step has everything the steps     *)
(* before it wrote (Progress), and only a config that passed the checks    *)
(* gets as far as the first write; a crash forgets the apply and with it   *)
(* all that was claimed of its progress, but never what is on the disk.    *)
(***************************************************************************)
EXTENDS NodeAgent, SequenceTheorems, TLAPS

-----------------------------------------------------------------------------
(* The order of the writes *)

\* The step that follows each write of an apply.
LEMMA Order ==
  /\ Files = {"revision_config", "revision_metadata", "staged_config",
              "staged_metadata", "active_metadata", "active_config"}
  /\ WriteOrder[1] = "revision_config"
  /\ NextStep("revision_config") = "revision_metadata"
  /\ NextStep("revision_metadata") = "staged_config"
  /\ NextStep("staged_config") = "staged_metadata"
  /\ NextStep("staged_metadata") = "active_metadata"
  /\ NextStep("active_metadata") = "active_config"
  /\ NextStep("active_config") = "state"
<1>1. /\ Len(WriteOrder) = 6
      /\ WriteOrder[1] = "revision_config"
      /\ WriteOrder[2] = "revision_metadata"
      /\ WriteOrder[3] = "staged_config"
      /\ WriteOrder[4] = "staged_metadata"
      /\ WriteOrder[5] = "active_metadata"
      /\ WriteOrder[6] = "active_config"
  BY DEF WriteOrder
<1>2. 1..6 = {1, 2, 3, 4, 5, 6}
  OBVIOUS
<1> HIDE DEF WriteOrder
<1>3. Files = {WriteOrder[i] : i \in {1, 2, 3, 4, 5, 6}}
  BY <1>1, <1>2 DEF Files
<1>4. Files = {"revision_config", "revision_metadata", "staged_config",
               "staged_metadata", "active_metadata", "active_config"}
  BY <1>1, <1>3
<1>5. ASSUME NEW i \in 1..6
      PROVE  NextStep(WriteOrder[i]) = IF i = 6 THEN "state" ELSE WriteOrder[i + 1]
  <2>1. \A k \in 1..6 : WriteOrder[k] = WriteOrder[i] => k = i
    BY <1>1, <1>2
  <2>2. (CHOOSE k \in 1..6 : WriteOrder[k] = WriteOrder[i]) = i
    BY <2>1
  <2> QED BY <1>1, <2>2 DEF NextStep
<1>6. /\ NextStep(WriteOrder[1]) = WriteOrder[2]
      /\ NextStep(WriteOrder[2]) = WriteOrder[3]
      /\ NextStep(WriteOrder[3]) = WriteOrder[4]
      /\ NextStep(WriteOrder[4]) = WriteOrder[5]
      /\ NextStep(WriteOrder[5]) = WriteOrder[6]
      /\ NextStep(WriteOrder[6]) = "state"
  BY <1>5
<1> QED BY <1>1, <1>4, <1>6

-----------------------------------------------------------------------------
(* The event trail *)

\* AppendRuntimeEvent keeps the trail within its limit, and the event is its
\* newest unless no event fits.
LEMMA TrailKept ==
  ASSUME NEW trail \in Seq(Event), Len(trail) <= TrailLimit,
         NEW type \in EventType, NEW number \in Nat
  PROVE  LET kept == WithEvent(trail, type, number)
         IN  /\ kept \in Seq(Event)
             /\ Len(kept) <= TrailLimit
             /\ TrailLimit > 0 => kept[Len(kept)] = [type |-> type, number |-> number]
<1> DEFINE event == [type |-> type, number |-> number]
           longer == Append(trail, event)
<1>1. event \in Event
  BY DEF Event
<1>2. TrailLimit \in Nat
  BY AgentAssumption
<1> HIDE DEF event
<1>3. /\ longer \in Seq(Event) /\ Len(longer) = Len(trail) + 1
      /\ longer[Len(longer)] = event /\ longer # << >> /\ Len(trail) \in Nat
  BY <1>1, AppendProperties, LenProperties
<1> HIDE DEF longer
<1>4. /\ Tail(longer) \in Seq(Event) /\ Len(Tail(longer)) = Len(longer) - 1
      /\ \A i \in 1..Len(Tail(longer)) : Tail(longer)[i] = longer[i + 1]
  BY <1>3, HeadTailProperties
<1>5. WithEvent(trail, type, number)
        = IF Len(longer) > TrailLimit THEN Tail(longer) ELSE longer
  BY DEF WithEvent, longer, event
<1>6. CASE Len(longer) > TrailLimit
  <2>1. Len(longer) = TrailLimit + 1
    BY <1>2, <1>3, <1>6
  <2>2. TrailLimit > 0 => Tail(longer)[Len(Tail(longer))] = event
    BY <1>2, <1>3, <1>4, <2>1
  <2> QED BY <1>2, <1>4, <1>5, <1>6, <2>1, <2>2 DEF event
<1>7. CASE ~(Len(longer) > TrailLimit)
  BY <1>2, <1>3, <1>5, <1>7 DEF event
<1> QED BY <1>6, <1>7

-----------------------------------------------------------------------------
(* Type correctness *)

\* From the answer of the panel to the report the poll has an offer, and it
\* persists a state that is ready.
HasOffer ==
  /\ job.step \notin {"down", "idle", "fetch"} => job.offer \in Offer
  /\ job.step = "persist" => status.runtimeState = "active_config_ready"

Typed == TypeOK /\ HasOffer

\* NewService's status.
LEMMA FreshTyped ==
  FreshStatus \in AgentState /\ Len(FreshStatus.events) <= TrailLimit
<1>1. << >> \in Seq(Event) /\ Len(<< >>) = 0
  BY EmptySeq
<1> QED BY <1>1, AgentAssumption DEF FreshStatus, AgentState

\* A failure of the poll keeps the types.
LEMMA FailTyped ==
  ASSUME Typed, NEW type \in EventType, job.step \notin {"down", "idle", "fetch"},
         Fail(type)
  PROVE  /\ status' \in AgentState /\ Len(status'.events) <= TrailLimit
         /\ job' \in Job /\ job'.offer \in Offer /\ job'.offer = job.offer
         /\ job'.step = "report" /\ job'.outcome = "failed"
<1> DEFINE kept == WithEvent(status.events, type, job.offer.number)
<1>1. status.events \in Seq(Event) /\ Len(status.events) <= TrailLimit
  BY DEF Typed, TypeOK, AgentState
<1>2. job.offer \in Offer /\ job.offer.number \in Nat
  BY AgentAssumption DEF Typed, HasOffer
<1>3. kept \in Seq(Event) /\ Len(kept) <= TrailLimit
  BY <1>1, <1>2, TrailKept
<1>4. status' = [status EXCEPT !.events = kept, !.runtimeState = "validation_failed",
                               !.lastValidation = "failed"]
  BY DEF Fail
<1> HIDE DEF kept
<1>5. status' \in AgentState /\ status'.events = kept
  BY <1>3, <1>4 DEF Typed, TypeOK, AgentState
<1>6. job' = [job EXCEPT !.step = "report", !.outcome = "failed"]
  BY DEF Fail
<1>7. /\ job' \in Job /\ job'.offer = job.offer
      /\ job'.step = "report" /\ job'.outcome = "failed"
  BY <1>6 DEF Typed, TypeOK, Job, Step
<1> QED BY <1>2, <1>3, <1>5, <1>7

\* The six files as record fields.
LEMMA WriteFileChanges ==
  ASSUME NEW file \in Files, WriteFile(file)
  PROVE  LET n == job.offer.number
         IN  \/ /\ job.step = "revision_config"
                /\ job' = [job EXCEPT !.step = "revision_metadata"]
                /\ disk' = [disk EXCEPT !.revision_config =
                              disk.revision_config \cup {n}]
                /\ status' = status
             \/ /\ job.step = "revision_metadata"
                /\ job' = [job EXCEPT !.step = "staged_config"]
                /\ disk' = [disk EXCEPT !.revision_metadata =
                              disk.revision_metadata \cup {n}]
                /\ status' = status
             \/ /\ job.step = "staged_config"
                /\ job' = [job EXCEPT !.step = "staged_metadata"]
                /\ disk' = [disk EXCEPT !.staged_config = n]
                /\ status' = status
             \/ /\ job.step = "staged_metadata"
                /\ job' = [job EXCEPT !.step = "active_metadata"]
                /\ disk' = [disk EXCEPT !.staged_metadata = n]
                /\ status' = [status EXCEPT !.stagedRevision = n,
                                            !.rollbackCandidate = job.offer.target]
             \/ /\ job.step = "active_metadata"
                /\ job' = [job EXCEPT !.step = "active_config"]
                /\ disk' = [disk EXCEPT !.active_metadata = disk.staged_metadata]
                /\ status' = status
             \/ /\ job.step = "active_config"
                /\ job' = [job EXCEPT !.step = "state"]
                /\ disk' = [disk EXCEPT !.active_config = disk.staged_config]
                /\ status' = status
<1>1. /\ job.step = file
      /\ disk' = [disk EXCEPT ![file] = Written(file)]
      /\ job' = [job EXCEPT !.step = NextStep(file)]
      /\ status' = IF file = "staged_metadata"
                     THEN [status EXCEPT !.stagedRevision = job.offer.number,
                                         !.rollbackCandidate = job.offer.target]
                     ELSE status
  BY DEF WriteFile, At
<1>2. CASE file = "revision_config"
  BY <1>1, <1>2, Order DEF Written
<1>3. CASE file = "revision_metadata"
  BY <1>1, <1>3, Order DEF Written
<1>4. CASE file = "staged_config"
  BY <1>1, <1>4, Order DEF Written
<1>5. CASE file = "staged_metadata"
  BY <1>1, <1>5, Order DEF Written
<1>6. CASE file = "active_metadata"
  BY <1>1, <1>6, Order DEF Written
<1>7. CASE file = "active_config"
  BY <1>1, <1>7, Order DEF Written
<1> QED BY <1>2, <1>3, <1>4, <1>5, <1>6, <1>7, Order

\* Every step keeps the types, and hands out an offer before it works on one.
LEMMA TypedStep ==
  ASSUME Typed, [Next]_agentVars
  PROVE  Typed'
<1> USE DEF At
<1> DEFINE T == /\ status' \in AgentState /\ Len(status'.events) <= TrailLimit
                /\ job' \in Job
                /\ disk' \in Disk /\ Len(disk'.state.events) <= TrailLimit
                /\ HasOffer'
<1>1. SUFFICES T
  BY DEF Typed, TypeOK
<1>2. /\ status \in AgentState /\ Len(status.events) <= TrailLimit
      /\ job \in Job /\ disk \in Disk /\ Len(disk.state.events) <= TrailLimit
      /\ HasOffer
  BY DEF Typed, TypeOK
<1>3. Idle \in Job /\ [Idle EXCEPT !.step = "down"] \in Job
  BY DEF Idle, Job, Step, NoOffer
<1>4. FreshStatus \in AgentState /\ Len(FreshStatus.events) <= TrailLimit
  BY FreshTyped
<1>5. CASE StartPoll
  BY <1>2, <1>5 DEF StartPoll, Job, Step, HasOffer
<1>6. CASE FetchNothing
  BY <1>2, <1>3, <1>6 DEF FetchNothing, HasOffer, Idle
<1>7. ASSUME NEW offer \in Offer, FetchOffer(offer) PROVE T
  BY <1>2, <1>7 DEF FetchOffer, Job, Step, HasOffer, Disk
<1>8. ASSUME NEW type \in EventType, job.step \notin {"down", "idle", "fetch"},
             Fail(type), UNCHANGED disk
      PROVE  T
  BY <1>2, <1>8, FailTyped DEF HasOffer
<1>9. CASE ValidateAndStore
  <2>1. CASE Fail("validation_failure")
    BY <1>8, <1>9, <2>1 DEF ValidateAndStore, EventType
  <2>2. CASE ~Fail("validation_failure")
    <3>1. /\ job' = [job EXCEPT !.step = "dry_run"]
          /\ status' = [status EXCEPT !.lastRollback = job.offer.target]
          /\ job.step = "validate" /\ UNCHANGED disk
      BY <1>9, <2>2 DEF ValidateAndStore
    <3>2. job.offer \in Offer /\ job.offer.target \in Nat
      BY <1>2, <3>1, AgentAssumption DEF HasOffer
    <3>3. status' \in AgentState /\ status'.events = status.events
      BY <1>2, <3>1, <3>2 DEF AgentState
    <3> QED BY <1>2, <3>1, <3>2, <3>3 DEF Job, Step, HasOffer
  <2> QED BY <2>1, <2>2
<1>10. CASE DryRun
  <2>1. CASE Fail("dry_run_failure")
    BY <1>8, <1>10, <2>1 DEF DryRun, EventType
  <2>2. CASE ~Fail("dry_run_failure")
    <3>1. /\ job' = [job EXCEPT !.step = "revision_config"]
          /\ job.step = "dry_run" /\ UNCHANGED <<status, disk>>
      BY <1>10, <2>2, Order DEF DryRun
    <3> QED BY <1>2, <3>1, Order DEF Job, Step, HasOffer
  <2> QED BY <2>1, <2>2
<1>11. ASSUME NEW file \in Files, WriteFile(file) PROVE T
  <2>1. job.step \in Files
    BY <1>11 DEF WriteFile
  <2>2. /\ job.offer \in Offer /\ job.offer.number \in Nat
        /\ job.offer.target \in Nat
    BY <1>2, <2>1, Order, AgentAssumption DEF HasOffer
  <2>3. disk' \in Disk /\ disk'.state = disk.state
    BY <1>2, <1>11, <2>2, WriteFileChanges DEF Disk
  <2>4. status' \in AgentState /\ status'.events = status.events
    BY <1>2, <1>11, <2>2, WriteFileChanges DEF AgentState
  <2>5. job' \in Job /\ job'.offer = job.offer /\ job'.step # "persist"
    BY <1>2, <1>11, WriteFileChanges, Order DEF Job, Step
  <2> QED BY <1>2, <2>2, <2>3, <2>4, <2>5 DEF HasOffer
<1>12. CASE WriteState
  <2>1. job.offer \in Offer /\ job.offer.number \in Nat
    BY <1>2, <1>12, AgentAssumption DEF HasOffer, WriteState
  <2> DEFINE new == [activeRevision |-> job.offer.number,
                     lastPrepared |-> job.offer.number,
                     runtimeState |-> "active_config_ready", events |-> << >>]
  <2>2. new \in StateFile /\ Len(new.events) = 0
    BY <2>1, EmptySeq DEF StateFile
  <2>3. disk' = [disk EXCEPT !.state = new]
    BY <1>12 DEF WriteState
  <2> HIDE DEF new
  <2>4. disk' \in Disk /\ Len(disk'.state.events) <= TrailLimit
    BY <1>2, <2>2, <2>3, AgentAssumption DEF Disk
  <2>5. job' = [job EXCEPT !.step = "prepare"] /\ status' = status
    BY <1>12 DEF WriteState
  <2> QED BY <1>2, <2>1, <2>4, <2>5 DEF Job, Step, HasOffer
<1>13. CASE WriteFails
  BY <1>8, <1>13, Order DEF WriteFails, EventType
<1>14. CASE PrepareActiveConfig
  <2>1. job.offer \in Offer /\ job.offer.number \in Nat
    BY <1>2, <1>14, AgentAssumption DEF HasOffer, PrepareActiveConfig
  <2> DEFINE number == job.offer.number
             intent == IF LocalProcess
                         THEN WithEvent(status.events,
                                        "process_prepare_start_intent", number)
                         ELSE status.events
             kept == WithEvent(intent, "apply_success", number)
  <2>2. status.events \in Seq(Event)
    BY <1>2 DEF AgentState
  <2>3. intent \in Seq(Event) /\ Len(intent) <= TrailLimit
    BY <1>2, <2>1, <2>2, TrailKept DEF EventType
  <2> HIDE DEF intent
  <2>4. kept \in Seq(Event) /\ Len(kept) <= TrailLimit
    BY <2>1, <2>3, TrailKept DEF EventType
  <2>5. status' = [status EXCEPT
           !.activeRevision = number, !.lastApplied = number,
           !.lastPrepared = number, !.runtimeState = "active_config_ready",
           !.events = kept]
    BY <1>14 DEF PrepareActiveConfig, intent
  <2> HIDE DEF kept
  <2>6. status' \in AgentState /\ status'.events = kept
    BY <1>2, <2>1, <2>4, <2>5 DEF AgentState
  <2>7. job' = [job EXCEPT !.step = "persist"] /\ disk' = disk
    BY <1>14 DEF PrepareActiveConfig
  <2>8. status'.runtimeState = "active_config_ready"
    BY <1>2, <2>5 DEF AgentState
  <2> QED BY <1>2, <2>1, <2>4, <2>6, <2>7, <2>8 DEF Job, Step, HasOffer
<1>15. CASE PersistRuntimeState
  <2>1. job.step = "persist" /\ job.offer \in Offer
    BY <1>2, <1>15 DEF HasOffer, PersistRuntimeState
  <2> DEFINE state == [disk.state EXCEPT !.lastPrepared = status.lastPrepared,
                                         !.runtimeState = status.runtimeState,
                                         !.events = status.events]
  <2>2. disk' = [disk EXCEPT !.state = state]
    BY <1>15, <1>2 DEF PersistRuntimeState, Disk
  <2>3. state \in StateFile /\ state.events = status.events
    BY <1>2, <1>15 DEF PersistRuntimeState, HasOffer, Disk, AgentState, StateFile
  <2> HIDE DEF state
  <2>4. disk' \in Disk /\ Len(disk'.state.events) <= TrailLimit
    BY <1>2, <2>2, <2>3 DEF Disk
  <2>5. job' = [job EXCEPT !.step = "report", !.outcome = "applied"]
    BY <1>15 DEF PersistRuntimeState
  <2>6. status' \in AgentState /\ status'.events = status.events
    BY <1>2, <1>15 DEF PersistRuntimeState, AgentState
  <2> QED BY <1>2, <2>1, <2>4, <2>5, <2>6 DEF Job, Step, HasOffer
<1>16. CASE PersistFails
  BY <1>8, <1>16 DEF PersistFails, EventType
<1>17. CASE ReportDone
  BY <1>2, <1>3, <1>17 DEF ReportDone, HasOffer, Idle
<1>18. CASE Crash
  BY <1>2, <1>3, <1>4, <1>18 DEF Crash, HasOffer, Idle
<1>19. CASE Restart
  BY <1>2, <1>3, <1>19 DEF Restart, HasOffer, Idle
<1>20. CASE UNCHANGED agentVars
  BY <1>2, <1>20 DEF agentVars, HasOffer
<1> QED
  BY <1>5, <1>6, <1>7, <1>9, <1>10, <1>11, <1>12, <1>13, <1>14, <1>15,
     <1>16, <1>17, <1>18, <1>19, <1>20 DEF Next, ApplyStep

\* The agent starts typed.
LEMMA InitTyped == Init => Typed
<1> SUFFICES ASSUME Init PROVE Typed
  OBVIOUS
<1>1. << >> \in Seq(Event) /\ Len(<< >>) = 0
  BY EmptySeq
<1>2. status \in AgentState /\ Len(status.events) <= TrailLimit
  BY FreshTyped DEF Init
<1>3. job \in Job /\ HasOffer
  BY DEF Init, Idle, NoOffer, Job, Step, HasOffer
<1>4. /\ EmptyDisk.state \in StateFile
      /\ Len(EmptyDisk.state.events) <= TrailLimit
  BY <1>1, AgentAssumption DEF EmptyDisk, StateFile
<1>5. EmptyDisk \in Disk
  BY <1>4 DEF EmptyDisk, Disk
<1> QED BY <1>2, <1>3, <1>4, <1>5 DEF Init, Typed, TypeOK

\* Types hold, and both event trails stay within runtimeEventTrailLimit.
THEOREM AgentTypes == Spec => []TypeOK
<1>2. Typed /\ [Next]_agentVars => Typed'
  BY TypedStep
<1>3. Typed => TypeOK
  BY DEF Typed
<1> QED BY InitTyped, <1>2, <1>3, PTL DEF Spec

-----------------------------------------------------------------------------
(* The progress of an apply *)

\* The steps an apply reaches with a verified config, and after each write.
AfterState    == {"prepare", "persist"}
AfterConfig   == {"state"} \cup AfterState
AfterMetadata == {"active_config"} \cup AfterConfig
AfterStaged   == {"active_metadata"} \cup AfterMetadata
AfterStagedConfig == {"staged_metadata"} \cup AfterStaged
AfterArchived == {"staged_config"} \cup AfterStagedConfig
AfterArchivedConfig == {"revision_metadata"} \cup AfterArchived
Verified      == {"dry_run", "revision_config"} \cup AfterArchivedConfig

Progress ==
  LET number == job.offer.number
  IN  /\ job.step \in Verified => job.offer.config \in Verifiable
      /\ job.step \in AfterArchivedConfig => number \in disk.revision_config
      /\ job.step \in AfterArchived => number \in disk.revision_metadata
      /\ job.step \in AfterStagedConfig => disk.staged_config = number
      /\ job.step \in AfterStaged => disk.staged_metadata = number
      /\ job.step \in AfterMetadata => disk.active_metadata = number
      /\ job.step \in AfterConfig => disk.active_config = number
      /\ job.step \in AfterState =>
           disk.state.activeRevision = number /\ disk.state.lastPrepared = number

\* What PrepareActiveConfig leaves in the status until it is persisted.
Prepared ==
  job.step = "persist" =>
    /\ {status.activeRevision, status.lastApplied, status.lastPrepared}
         = {job.offer.number}
    /\ TrailLimit > 0 =>
         status.events[Len(status.events)]
           = [type |-> "apply_success", number |-> job.offer.number]

AgentInv ==
  /\ Typed /\ Progress /\ Prepared
  /\ ActiveIsVerifiedAndArchived
  /\ ReadyMeansConsistent
  /\ TrailLimit > 0 => VerdictMatchesDisk

\* Steps that write no file, and leave the step where nothing is claimed of the
\* progress, keep it.
LEMMA ProgressStep ==
  ASSUME AgentInv, Next
  PROVE  Progress'
<1> USE DEF At, AfterState, AfterConfig, AfterMetadata, AfterStaged,
            AfterStagedConfig, AfterArchived, AfterArchivedConfig, Verified
<1>1. /\ status \in AgentState /\ job \in Job /\ disk \in Disk
      /\ HasOffer /\ Progress
  BY DEF AgentInv, Typed, TypeOK
<1>2. ASSUME job'.step \in {"down", "idle", "fetch", "validate", "report"}
      PROVE  Progress'
  BY <1>2 DEF Progress
<1>3. CASE StartPoll \/ FetchNothing \/ ReportDone \/ Restart \/ Crash
  <2>1. StartPoll => job'.step = "fetch"
    BY <1>1 DEF StartPoll, Job
  <2>2. Idle.step = "idle" /\ [Idle EXCEPT !.step = "down"].step = "down"
    BY DEF Idle
  <2> QED BY <1>2, <1>3, <2>1, <2>2 DEF FetchNothing, ReportDone, Restart, Crash
<1>4. ASSUME NEW offer \in Offer, FetchOffer(offer) PROVE Progress'
  BY <1>1, <1>2, <1>4 DEF FetchOffer, Job
<1>5. ASSUME NEW type, Fail(type) PROVE Progress'
  BY <1>1, <1>2, <1>5 DEF Fail, Job
<1>6. CASE WriteFails \/ PersistFails
  BY <1>5, <1>6 DEF WriteFails, PersistFails
<1>7. CASE ValidateAndStore
  BY <1>1, <1>5, <1>7 DEF ValidateAndStore, Progress, Job
<1>8. CASE DryRun
  BY <1>1, <1>5, <1>8, Order DEF DryRun, Progress, Job
<1>9. ASSUME NEW file \in Files, WriteFile(file) PROVE Progress'
  <2> DEFINE n == job.offer.number
  <2>1. /\ \A step : job' = [job EXCEPT !.step = step] =>
             job'.step = step /\ job'.offer = job.offer
        /\ job.step \in Verified => job.offer.config \in Verifiable
    BY <1>1 DEF Job, Progress
  <2>2. CASE job.step = "revision_config"
    BY <1>1, <1>9, <2>1, <2>2, WriteFileChanges DEF Progress, Disk
  <2>3. CASE job.step = "revision_metadata"
    BY <1>1, <1>9, <2>1, <2>3, WriteFileChanges DEF Progress, Disk
  <2>4. CASE job.step = "staged_config"
    BY <1>1, <1>9, <2>1, <2>4, WriteFileChanges DEF Progress, Disk
  <2>5. CASE job.step = "staged_metadata"
    BY <1>1, <1>9, <2>1, <2>5, WriteFileChanges DEF Progress, Disk
  <2>6. CASE job.step = "active_metadata"
    BY <1>1, <1>9, <2>1, <2>6, WriteFileChanges DEF Progress, Disk
  <2>7. CASE job.step = "active_config"
    BY <1>1, <1>9, <2>1, <2>7, WriteFileChanges DEF Progress, Disk
  <2> QED BY <1>9, <2>2, <2>3, <2>4, <2>5, <2>6, <2>7, WriteFileChanges
<1>10. CASE WriteState
  BY <1>1, <1>10 DEF WriteState, Progress, Job, Disk
<1>11. CASE PrepareActiveConfig
  BY <1>1, <1>11 DEF PrepareActiveConfig, Progress, Job
<1>12. CASE PersistRuntimeState
  BY <1>1, <1>2, <1>12 DEF PersistRuntimeState, Job
<1> QED
  BY <1>3, <1>4, <1>6, <1>7, <1>8, <1>9, <1>10, <1>11, <1>12 DEF Next, ApplyStep

\* What the failure of a poll does to the claims about the status.
LEMMA FailClaims ==
  ASSUME AgentInv, NEW type \in EventType \ {"apply_success"},
         job.step \notin {"down", "idle", "fetch"}, Fail(type), UNCHANGED disk
  PROVE  /\ Prepared' /\ ActiveIsVerifiedAndArchived' /\ ReadyMeansConsistent'
         /\ TrailLimit > 0 => VerdictMatchesDisk'
<1> USE DEF At
<1> DEFINE kept == WithEvent(status.events, type, job.offer.number)
<1>1. /\ status \in AgentState /\ job \in Job
      /\ status.events \in Seq(Event) /\ Len(status.events) <= TrailLimit
      /\ job.offer \in Offer /\ job.offer.number \in Nat
  BY AgentAssumption DEF AgentInv, Typed, HasOffer, TypeOK, AgentState
<1>2. TrailLimit > 0 => kept[Len(kept)] = [type |-> type, number |-> job.offer.number]
  BY <1>1, TrailKept
<1>3. /\ status' = [status EXCEPT !.events = kept,
                                  !.runtimeState = "validation_failed",
                                  !.lastValidation = "failed"]
      /\ job' = [job EXCEPT !.step = "report", !.outcome = "failed"]
  BY DEF Fail
<1> HIDE DEF kept
<1>4. /\ status'.events = kept /\ status'.runtimeState = "validation_failed"
      /\ status'.lastValidation = "failed"
      /\ job'.step = "report" /\ job'.outcome = "failed" /\ job'.offer = job.offer
  BY <1>1, <1>3 DEF AgentState, Job
<1>5. Prepared' /\ ReadyMeansConsistent'
  BY <1>4 DEF Prepared, ReadyMeansConsistent
<1>6. ActiveIsVerifiedAndArchived'
  BY DEF AgentInv, ActiveIsVerifiedAndArchived
<1>7. TrailLimit > 0 => VerdictMatchesDisk'
  BY <1>2, <1>4 DEF VerdictMatchesDisk
<1> QED BY <1>5, <1>6, <1>7

\* The failures of the apply path.
LEMMA Failures ==
  ASSUME AgentInv, Next
  PROVE  \/ /\ \E type \in EventType \ {"apply_success"} : Fail(type)
            /\ job.step \notin {"down", "idle", "fetch"}
            /\ UNCHANGED disk
         \/ StartPoll \/ FetchNothing \/ (\E offer \in Offer : FetchOffer(offer))
         \/ /\ job.step = "validate" /\ job.offer.config \in Verifiable
            /\ job' = [job EXCEPT !.step = "dry_run"]
            /\ status' = [status EXCEPT !.lastRollback = job.offer.target]
            /\ UNCHANGED disk
         \/ /\ job.step = "dry_run" /\ job' = [job EXCEPT !.step = "revision_config"]
            /\ UNCHANGED <<status, disk>>
         \/ (\E file \in Files : WriteFile(file))
         \/ WriteState \/ PrepareActiveConfig \/ PersistRuntimeState
         \/ ReportDone \/ Crash \/ Restart
<1> USE DEF At
<1>1. CASE ValidateAndStore
  BY <1>1 DEF ValidateAndStore, EventType
<1>2. CASE DryRun
  BY <1>2, Order DEF DryRun, EventType
<1>3. CASE WriteFails \/ PersistFails
  BY <1>3, Order DEF WriteFails, PersistFails, EventType
<1> QED BY <1>1, <1>2, <1>3 DEF Next, ApplyStep

\* The archive holds what is active, and only verified configs.
LEMMA ArchivedStep ==
  ASSUME AgentInv, Next
  PROVE  ActiveIsVerifiedAndArchived'
<1> USE DEF At
<1>1. /\ job \in Job /\ disk \in Disk /\ HasOffer /\ Progress
      /\ ActiveIsVerifiedAndArchived
  BY DEF AgentInv, Typed, TypeOK
<1>2. ASSUME /\ disk'.active_config = disk.active_config
             /\ disk'.active_metadata = disk.active_metadata
             /\ disk'.state.activeRevision = disk.state.activeRevision
             /\ disk'.revision_config = disk.revision_config
             /\ disk'.revision_metadata = disk.revision_metadata
      PROVE  ActiveIsVerifiedAndArchived'
  BY <1>1, <1>2 DEF ActiveIsVerifiedAndArchived
<1>3. ASSUME NEW file \in Files, WriteFile(file) PROVE ActiveIsVerifiedAndArchived'
  <2>1. job.step \in Files /\ job.offer \in Offer /\ job.offer.number \in Nat
    BY <1>1, <1>3, Order, AgentAssumption DEF WriteFile, HasOffer
  <2>2. job.offer.config \in Verifiable
    BY <1>1, <2>1, Order DEF Progress, Verified, AfterArchivedConfig, AfterArchived,
       AfterStagedConfig, AfterStaged, AfterMetadata
  <2>3. CASE job.step = "revision_config"
    <3>1. disk' = [disk EXCEPT !.revision_config =
                     disk.revision_config \cup {job.offer.number}]
      BY <1>3, <2>3, WriteFileChanges
    <3>2. /\ disk'.revision_config = disk.revision_config \cup {job.offer.number}
          /\ disk'.revision_metadata = disk.revision_metadata
          /\ disk'.active_config = disk.active_config
          /\ disk'.active_metadata = disk.active_metadata
          /\ disk'.state = disk.state
      BY <1>1, <3>1 DEF Disk
    <3> QED BY <1>1, <2>1, <2>2, <3>2 DEF ActiveIsVerifiedAndArchived
  <2>4. CASE job.step = "revision_metadata"
    <3>1. disk' = [disk EXCEPT !.revision_metadata =
                     disk.revision_metadata \cup {job.offer.number}]
      BY <1>3, <2>4, WriteFileChanges
    <3>2. /\ disk'.revision_metadata = disk.revision_metadata \cup {job.offer.number}
          /\ disk'.revision_config = disk.revision_config
          /\ disk'.active_config = disk.active_config
          /\ disk'.active_metadata = disk.active_metadata
          /\ disk'.state = disk.state
      BY <1>1, <3>1 DEF Disk
    <3> QED BY <1>1, <3>2 DEF ActiveIsVerifiedAndArchived
  <2>5. CASE job.step = "staged_config" \/ job.step = "staged_metadata"
    <3>1. \/ disk' = [disk EXCEPT !.staged_config = job.offer.number]
          \/ disk' = [disk EXCEPT !.staged_metadata = job.offer.number]
      BY <1>3, <2>5, WriteFileChanges
    <3> QED BY <1>1, <1>2, <3>1 DEF Disk
  <2>6. CASE job.step = "active_metadata"
    <3>1. disk' = [disk EXCEPT !.active_metadata = disk.staged_metadata]
      BY <1>3, <2>6, WriteFileChanges
    <3>2. disk.staged_metadata \in disk.revision_config \cap disk.revision_metadata
      BY <1>1, <2>6 DEF Progress, AfterArchivedConfig, AfterArchived,
         AfterStagedConfig, AfterStaged, AfterMetadata
    <3>3. /\ disk'.active_metadata = disk.staged_metadata
          /\ disk'.revision_config = disk.revision_config
          /\ disk'.revision_metadata = disk.revision_metadata
          /\ disk'.active_config = disk.active_config
          /\ disk'.state = disk.state
      BY <1>1, <3>1 DEF Disk
    <3> QED BY <1>1, <3>2, <3>3 DEF ActiveIsVerifiedAndArchived
  <2>7. CASE job.step = "active_config"
    <3>1. disk' = [disk EXCEPT !.active_config = disk.staged_config]
      BY <1>3, <2>7, WriteFileChanges
    <3>2. disk.staged_config \in disk.revision_config \cap disk.revision_metadata
      BY <1>1, <2>7 DEF Progress, AfterArchivedConfig, AfterArchived,
         AfterStagedConfig, AfterStaged, AfterMetadata
    <3>3. /\ disk'.active_config = disk.staged_config
          /\ disk'.revision_config = disk.revision_config
          /\ disk'.revision_metadata = disk.revision_metadata
          /\ disk'.active_metadata = disk.active_metadata
          /\ disk'.state = disk.state
      BY <1>1, <3>1 DEF Disk
    <3> QED BY <1>1, <3>2, <3>3 DEF ActiveIsVerifiedAndArchived
  <2> QED BY <2>1, <2>3, <2>4, <2>5, <2>6, <2>7, Order
<1>4. CASE WriteState
  <2>1. job.offer.number \in disk.revision_config \cap disk.revision_metadata
    BY <1>1, <1>4 DEF WriteState, Progress, AfterArchivedConfig, AfterArchived,
       AfterStagedConfig, AfterStaged, AfterMetadata, AfterConfig
  <2>2. /\ disk'.state.activeRevision = job.offer.number
        /\ disk'.active_config = disk.active_config
        /\ disk'.active_metadata = disk.active_metadata
        /\ disk'.revision_config = disk.revision_config
        /\ disk'.revision_metadata = disk.revision_metadata
    BY <1>1, <1>4 DEF WriteState, Disk
  <2> QED BY <1>1, <2>1, <2>2 DEF ActiveIsVerifiedAndArchived
<1>5. CASE PersistRuntimeState
  BY <1>1, <1>2, <1>5 DEF PersistRuntimeState, Disk, StateFile
<1>6. CASE UNCHANGED disk
  BY <1>2, <1>6
<1> QED
  BY <1>3, <1>4, <1>5, <1>6, Failures DEF StartPoll, FetchNothing, FetchOffer,
     PrepareActiveConfig, ReportDone, Crash, Restart

\* The claims about the status behind /status.
LEMMA StatusStep ==
  ASSUME AgentInv, Next
  PROVE  Prepared' /\ ReadyMeansConsistent' /\ (TrailLimit > 0 => VerdictMatchesDisk')
<1> USE DEF At
<1>1. /\ status \in AgentState /\ job \in Job /\ disk \in Disk
      /\ status.events \in Seq(Event) /\ Len(status.events) <= TrailLimit
      /\ HasOffer /\ Progress /\ Prepared /\ ReadyMeansConsistent
  BY DEF AgentInv, Typed, TypeOK, AgentState
<1>2. ASSUME job'.step \notin {"persist", "report", "active_config", "state", "prepare"},
             \/ status'.runtimeState # "active_config_ready"
             \/ /\ job.step \notin {"active_config", "state", "prepare"}
                /\ status'.runtimeState = status.runtimeState
                /\ status'.activeRevision = status.activeRevision
                /\ status'.lastPrepared = status.lastPrepared
                /\ disk'.active_config = disk.active_config
                /\ disk'.active_metadata = disk.active_metadata
                /\ disk'.state = disk.state
      PROVE  Prepared' /\ ReadyMeansConsistent' /\ VerdictMatchesDisk'
  BY <1>1, <1>2 DEF Prepared, ReadyMeansConsistent, VerdictMatchesDisk
<1>3. ASSUME job'.step \in {"active_config", "state", "prepare"}
      PROVE  Prepared' /\ ReadyMeansConsistent' /\ VerdictMatchesDisk'
  BY <1>3 DEF Prepared, ReadyMeansConsistent, VerdictMatchesDisk
<1>4. CASE \E type \in EventType \ {"apply_success"} :
             /\ Fail(type) /\ job.step \notin {"down", "idle", "fetch"}
             /\ UNCHANGED disk
  BY <1>4, FailClaims
<1>5. CASE StartPoll
  BY <1>1, <1>2, <1>5 DEF StartPoll, Job
<1>6. CASE FetchNothing \/ ReportDone \/ Restart
  <2>1. job' = Idle /\ UNCHANGED <<status, disk>>
    BY <1>6 DEF FetchNothing, ReportDone, Restart
  <2>2. job.step \in {"fetch", "report", "down"}
    BY <1>6 DEF FetchNothing, ReportDone, Restart
  <2>3. job'.step = "idle"
    BY <2>1 DEF Idle
  <2> QED BY <1>2, <2>1, <2>2, <2>3
<1>7. ASSUME NEW offer \in Offer, FetchOffer(offer)
      PROVE  Prepared' /\ ReadyMeansConsistent' /\ VerdictMatchesDisk'
  BY <1>1, <1>2, <1>7 DEF FetchOffer, Job
<1>8. ASSUME job.step = "validate",
             job' = [job EXCEPT !.step = "dry_run"],
             status' = [status EXCEPT !.lastRollback = job.offer.target],
             UNCHANGED disk
      PROVE  Prepared' /\ ReadyMeansConsistent' /\ VerdictMatchesDisk'
  BY <1>1, <1>2, <1>8 DEF Job, AgentState
<1>9. ASSUME job.step = "dry_run", job' = [job EXCEPT !.step = "revision_config"],
             UNCHANGED <<status, disk>>
      PROVE  Prepared' /\ ReadyMeansConsistent' /\ VerdictMatchesDisk'
  BY <1>1, <1>2, <1>9 DEF Job
<1>10. ASSUME NEW file \in Files, WriteFile(file)
       PROVE  Prepared' /\ ReadyMeansConsistent' /\ VerdictMatchesDisk'
  <2>1. \A step : job' = [job EXCEPT !.step = step] => job'.step = step
    BY <1>1 DEF Job
  <2>2. CASE job.step \in {"active_metadata", "active_config"}
    BY <1>3, <1>10, <2>1, <2>2, WriteFileChanges
  <2>3. CASE job.step \in {"revision_config", "revision_metadata", "staged_config",
                           "staged_metadata"}
    <3>1. job'.step \in {"revision_metadata", "staged_config", "staged_metadata",
                         "active_metadata"}
      BY <1>10, <2>1, <2>3, WriteFileChanges
    <3>2. /\ disk'.active_config = disk.active_config
          /\ disk'.active_metadata = disk.active_metadata
          /\ disk'.state = disk.state
      BY <1>1, <1>10, <2>3, WriteFileChanges DEF Disk
    <3>3. /\ status'.runtimeState = status.runtimeState
          /\ status'.activeRevision = status.activeRevision
          /\ status'.lastPrepared = status.lastPrepared
      BY <1>1, <1>10, <2>3, WriteFileChanges DEF AgentState
    <3> QED BY <1>2, <2>3, <3>1, <3>2, <3>3
  <2> QED BY <1>10, <2>2, <2>3, WriteFileChanges
<1>11. CASE WriteState
  BY <1>1, <1>3, <1>11 DEF WriteState, Job
<1>12. CASE PrepareActiveConfig
  <2> DEFINE number == job.offer.number
             intent == IF LocalProcess
                         THEN WithEvent(status.events,
                                        "process_prepare_start_intent", number)
                         ELSE status.events
             kept == WithEvent(intent, "apply_success", number)
  <2>1. job.offer \in Offer /\ number \in Nat /\ number # 0
    BY <1>1, <1>12, AgentAssumption DEF HasOffer, PrepareActiveConfig
  <2>2. intent \in Seq(Event) /\ Len(intent) <= TrailLimit
    BY <1>1, <2>1, TrailKept DEF EventType
  <2> HIDE DEF intent
  <2>3. TrailLimit > 0 =>
          kept[Len(kept)] = [type |-> "apply_success", number |-> number]
    BY <2>1, <2>2, TrailKept DEF EventType
  <2>4. /\ status' = [status EXCEPT
             !.activeRevision = number, !.lastApplied = number,
             !.lastPrepared = number, !.runtimeState = "active_config_ready",
             !.events = kept]
        /\ job' = [job EXCEPT !.step = "persist"] /\ disk' = disk
    BY <1>12 DEF PrepareActiveConfig, intent
  <2> HIDE DEF kept
  <2>5. /\ status'.activeRevision = number /\ status'.lastApplied = number
        /\ status'.lastPrepared = number /\ status'.events = kept
        /\ job'.step = "persist" /\ job'.offer = job.offer
    BY <1>1, <2>4 DEF AgentState, Job
  <2>6. /\ disk.active_config = number /\ disk.state.activeRevision = number
        /\ disk.state.lastPrepared = number
        /\ disk.active_metadata = number
    BY <1>1, <1>12
    DEF PrepareActiveConfig, Progress, AfterMetadata, AfterConfig, AfterState
  <2>7. Prepared' /\ VerdictMatchesDisk'
    BY <2>3, <2>5 DEF Prepared, VerdictMatchesDisk
  <2>8. ReadyMeansConsistent'
    BY <2>1, <2>4, <2>5, <2>6 DEF ReadyMeansConsistent
  <2> QED BY <2>7, <2>8
<1>13. CASE PersistRuntimeState
  <2> DEFINE number == job.offer.number
  <2>1. /\ job.step = "persist"
        /\ job.offer \in Offer /\ number \in Nat /\ number # 0
        /\ status.runtimeState = "active_config_ready"
        /\ status.activeRevision = number /\ status.lastApplied = number
        /\ status.lastPrepared = number
        /\ TrailLimit > 0 => status.events[Len(status.events)]
                               = [type |-> "apply_success", number |-> number]
    BY <1>1, <1>13, AgentAssumption DEF HasOffer, PersistRuntimeState, Prepared
  <2>2. /\ disk.active_config = number /\ disk.active_metadata = number
        /\ disk.state.activeRevision = number
    BY <1>1, <2>1 DEF Progress, AfterMetadata, AfterConfig, AfterState
  <2>3. /\ job'.step = "report" /\ job'.outcome = "applied"
        /\ job'.offer = job.offer
        /\ status' = [status EXCEPT !.lastValidation = "applied"]
    BY <1>1, <1>13 DEF PersistRuntimeState, Job
  <2>4. /\ disk'.active_config = number /\ disk'.active_metadata = number
        /\ disk'.state.activeRevision = number
        /\ disk'.state.lastPrepared = number
        /\ disk'.state.events = status.events
    BY <1>1, <1>13, <2>1, <2>2 DEF PersistRuntimeState, Disk, StateFile
  <2>5. /\ status'.activeRevision = number /\ status'.lastApplied = number
        /\ status'.lastPrepared = number /\ status'.events = status.events
        /\ status'.lastValidation = "applied"
    BY <1>1, <2>1, <2>3 DEF AgentState
  <2>6. Prepared' /\ ReadyMeansConsistent'
    BY <2>1, <2>3, <2>4, <2>5 DEF Prepared, ReadyMeansConsistent
  <2>7. TrailLimit > 0 => VerdictMatchesDisk'
    BY <2>1, <2>3, <2>4, <2>5 DEF VerdictMatchesDisk
  <2> QED BY <2>6, <2>7
<1>14. CASE Crash
  BY <1>1, <1>2, <1>14 DEF Crash, Idle, FreshStatus
<1> QED
  BY <1>4, <1>5, <1>6, <1>7, <1>8, <1>9, <1>10, <1>11, <1>12, <1>13, <1>14, Failures

-----------------------------------------------------------------------------
(* The theorems *)

\* The agent starts with nothing on disk and no poll.
LEMMA AgentInvInit == Init => AgentInv
<1> SUFFICES ASSUME Init PROVE AgentInv
  OBVIOUS
<1>1. Typed
  BY InitTyped
<1>2. /\ job.step = "idle" /\ status.runtimeState = "not_prepared"
      /\ disk.revision_config = {} /\ disk.revision_metadata = {}
      /\ disk.active_config = 0 /\ disk.active_metadata = 0
      /\ disk.state.activeRevision = 0
  BY DEF Init, Idle, FreshStatus, EmptyDisk
<1>3. Progress
  BY <1>2 DEF Progress, AfterState, AfterConfig, AfterMetadata, AfterStaged,
              AfterStagedConfig, AfterArchived, AfterArchivedConfig, Verified
<1>4. Prepared /\ ReadyMeansConsistent /\ VerdictMatchesDisk
  BY <1>2 DEF Prepared, ReadyMeansConsistent, VerdictMatchesDisk, At
<1>5. ActiveIsVerifiedAndArchived
  BY <1>2 DEF ActiveIsVerifiedAndArchived
<1> QED BY <1>1, <1>3, <1>4, <1>5 DEF AgentInv

\* Every step of the agent keeps the invariant.
LEMMA AgentInvStep == AgentInv /\ [Next]_agentVars => AgentInv'
<1> SUFFICES ASSUME AgentInv, [Next]_agentVars PROVE AgentInv'
  OBVIOUS
<1>1. Typed'
  BY TypedStep DEF AgentInv
<1>2. CASE Next
  BY <1>1, <1>2, ProgressStep, ArchivedStep, StatusStep DEF AgentInv
<1>3. CASE UNCHANGED agentVars
  <2>1. UNCHANGED <<status, job, disk>>
    BY <1>3 DEF agentVars
  <2>2. Progress' /\ Prepared'
    BY <2>1 DEF AgentInv, Progress, Prepared
  <2>3. ActiveIsVerifiedAndArchived' /\ ReadyMeansConsistent'
    BY <2>1 DEF AgentInv, ActiveIsVerifiedAndArchived, ReadyMeansConsistent
  <2>4. TrailLimit > 0 => VerdictMatchesDisk'
    BY <2>1 DEF AgentInv, VerdictMatchesDisk, At
  <2> QED BY <1>1, <2>2, <2>3, <2>4 DEF AgentInv
<1> QED BY <1>2, <1>3

\* The inductive invariant holds of every run of the agent.
THEOREM AgentCorrect == Spec => []AgentInv
BY AgentInvInit, AgentInvStep, PTL DEF Spec

\* Whatever the agent has active passed the checks and is archived, whichever
\* writes failed and whenever it crashed.
THEOREM ActiveVerified == Spec => []ActiveIsVerifiedAndArchived
<1>1. AgentInv => ActiveIsVerifiedAndArchived
  BY DEF AgentInv
<1> QED BY <1>1, AgentCorrect, PTL

\* runtime_state active_config_ready is never shown over files that disagree.
THEOREM ReadyConsistent == Spec => []ReadyMeansConsistent
<1>1. AgentInv => ReadyMeansConsistent
  BY DEF AgentInv
<1> QED BY <1>1, AgentCorrect, PTL

\* What the agent reports of an apply is what the apply left on disk, as long
\* as the event trail holds an event at all (runtimeEventTrailLimit is 20).
THEOREM VerdictTrue == Spec => [](TrailLimit > 0 => VerdictMatchesDisk)
<1>1. AgentInv => (TrailLimit > 0 => VerdictMatchesDisk)
  BY DEF AgentInv
<1> QED BY <1>1, AgentCorrect, PTL

-----------------------------------------------------------------------------
(* The switch *)

\* The first conjunct of SwitchComesLast forbids what no step does.
LEMMA SwitchStep ==
  ASSUME AgentInv, Next
  PROVE  /\ disk'.active_config # disk.active_config =>
              /\ job.offer.config \in Verifiable
              /\ {disk'.active_config, disk.active_metadata, disk.staged_config,
                   disk.staged_metadata} = {job.offer.number}
         /\ disk'.state.activeRevision # disk.state.activeRevision =>
              disk'.state.activeRevision = disk.active_config
<1> USE DEF At
<1>1. job \in Job /\ disk \in Disk /\ Progress
  BY DEF AgentInv, Typed, TypeOK
<1>2. CASE UNCHANGED disk
  BY <1>2
<1>3. ASSUME NEW file \in Files, WriteFile(file), job.step # "active_config"
      PROVE  disk'.active_config = disk.active_config /\ disk'.state = disk.state
  BY <1>1, <1>3, WriteFileChanges DEF Disk
<1>4. ASSUME NEW file \in Files, WriteFile(file), job.step = "active_config"
      PROVE  /\ disk'.state = disk.state
             /\ disk'.active_config = disk.staged_config
  BY <1>1, <1>4, WriteFileChanges DEF Disk
<1>5. job.step = "active_config" =>
        /\ job.offer.config \in Verifiable
        /\ {disk.active_metadata, disk.staged_config, disk.staged_metadata}
             = {job.offer.number}
  BY <1>1 DEF Progress, Verified, AfterState, AfterConfig, AfterMetadata,
              AfterStaged, AfterStagedConfig, AfterArchived, AfterArchivedConfig
<1>6. CASE WriteState
  <2>1. disk.active_config = job.offer.number
    BY <1>1, <1>6 DEF WriteState, Progress, AfterConfig, AfterState
  <2>2. /\ disk'.active_config = disk.active_config
        /\ disk'.state.activeRevision = job.offer.number
    BY <1>1, <1>6 DEF WriteState, Disk
  <2> QED BY <2>1, <2>2
<1>7. CASE PersistRuntimeState
  <2>1. /\ disk'.active_config = disk.active_config
        /\ disk'.state.activeRevision = disk.state.activeRevision
    BY <1>1, <1>7 DEF PersistRuntimeState, Disk, StateFile
  <2> QED BY <2>1
<1>8. UNCHANGED disk \/ WriteState \/ PersistRuntimeState
        \/ \E file \in Files : WriteFile(file)
  BY DEF Next, ApplyStep, StartPoll, FetchNothing, FetchOffer, ValidateAndStore,
         DryRun, WriteFails, PrepareActiveConfig, PersistFails, ReportDone,
         Crash, Restart
<1> QED BY <1>2, <1>3, <1>4, <1>5, <1>6, <1>7, <1>8

\* The active config is switched last, and only to a verified offer.
THEOREM SwitchLast == Spec => SwitchComesLast
<1>1. AgentInv /\ [Next]_agentVars =>
        [/\ disk'.active_config # disk.active_config =>
              /\ job.offer.config \in Verifiable
              /\ {disk'.active_config, disk.active_metadata, disk.staged_config,
                   disk.staged_metadata} = {job.offer.number}
         /\ disk'.state.activeRevision # disk.state.activeRevision =>
              disk'.state.activeRevision = disk.active_config]_agentVars
  BY SwitchStep
<1> QED BY <1>1, AgentCorrect, PTL DEF Spec, SwitchComesLast

-----------------------------------------------------------------------------
(* What the panel may rely on *)

\* The revisions whose artifacts the node holds.
Held == disk.revision_config \cap disk.revision_metadata

\* What a report says is true when it is sent, and stays true.
Truthful ==
  job.step = "report" =>
    /\ job.outcome \in {"applied", "failed"}
    /\ job.outcome = "applied" =>
         /\ job.offer.number \in Held /\ job.offer.config \in Verifiable
         /\ disk.active_config = job.offer.number
    /\ job.outcome = "failed" => status.runtimeState # "active_config_ready"

\* The disk of a write.
LEMMA HeldGrows ==
  ASSUME AgentInv, [Next]_agentVars
  PROVE  \/ Held' = Held
         \/ /\ Held' = Held \cup {job.offer.number}
            /\ job.step \in Files
<1>1. job \in Job /\ disk \in Disk
  BY DEF AgentInv, Typed, TypeOK
<1>2. CASE UNCHANGED disk
  BY <1>2 DEF Held
<1>3. ASSUME NEW file \in Files, WriteFile(file)
      PROVE  \/ Held' = Held
             \/ Held' = Held \cup {job.offer.number} /\ job.step \in Files
  <2>1. job.step \in Files
    BY <1>3 DEF WriteFile, At
  <2>2. CASE job.step = "revision_config"
    <3>1. /\ disk'.revision_config = disk.revision_config \cup {job.offer.number}
          /\ disk'.revision_metadata = disk.revision_metadata
      BY <1>1, <1>3, <2>2, WriteFileChanges DEF Disk
    <3> QED BY <2>1, <3>1 DEF Held
  <2>3. CASE job.step = "revision_metadata"
    <3>1. /\ disk'.revision_metadata = disk.revision_metadata \cup {job.offer.number}
          /\ disk'.revision_config = disk.revision_config
      BY <1>1, <1>3, <2>3, WriteFileChanges DEF Disk
    <3> QED BY <2>1, <3>1 DEF Held
  <2>4. CASE job.step \notin {"revision_config", "revision_metadata"}
    <3>1. /\ disk'.revision_metadata = disk.revision_metadata
          /\ disk'.revision_config = disk.revision_config
      BY <1>1, <1>3, <2>4, WriteFileChanges DEF Disk
    <3> QED BY <3>1 DEF Held
  <2> QED BY <2>2, <2>3, <2>4
<1>4. CASE WriteState \/ PersistRuntimeState
  BY <1>1, <1>4 DEF WriteState, PersistRuntimeState, Held, Disk
<1>5. UNCHANGED disk \/ WriteState \/ PersistRuntimeState
        \/ \E file \in Files : WriteFile(file)
  BY DEF Next, ApplyStep, StartPoll, FetchNothing, FetchOffer, ValidateAndStore,
         DryRun, WriteFails, PrepareActiveConfig, PersistFails, ReportDone,
         Crash, Restart, agentVars
<1> QED BY <1>2, <1>3, <1>4, <1>5

\* A poll works on one offer.
LEMMA OneOffer ==
  ASSUME AgentInv, Next
  PROVE  \/ job'.step \in {"down", "idle", "fetch"}
         \/ job'.offer = job.offer /\ job.step \notin {"down", "idle", "fetch"}
         \/ \E offer \in Offer : FetchOffer(offer)
<1> USE DEF At
<1>1. job \in Job
  BY DEF AgentInv, Typed, TypeOK
<1>2. \A type : Fail(type) => job'.offer = job.offer
  BY <1>1 DEF Fail, Job
<1>3. StartPoll => job'.step = "fetch"
  BY <1>1 DEF StartPoll, Job
<1>4. FetchNothing \/ ReportDone \/ Crash \/ Restart => job'.step \in {"down", "idle"}
  <2>1. Idle.step = "idle" /\ [Idle EXCEPT !.step = "down"].step = "down"
    BY DEF Idle
  <2> QED BY <2>1 DEF FetchNothing, ReportDone, Crash, Restart
<1>5. \A step : job' = [job EXCEPT !.step = step] => job'.offer = job.offer
  BY <1>1 DEF Job
<1>6. \A file \in Files :
        WriteFile(file) => job'.offer = job.offer /\ job.step \notin {"down", "idle", "fetch"}
  BY <1>5, WriteFileChanges
<1>7. WriteState \/ PrepareActiveConfig
        => job'.offer = job.offer /\ job.step \notin {"down", "idle", "fetch"}
  BY <1>5 DEF WriteState, PrepareActiveConfig
<1>8. PersistRuntimeState
        => job'.offer = job.offer /\ job.step \notin {"down", "idle", "fetch"}
  BY <1>1 DEF PersistRuntimeState, Job
<1> QED BY <1>2, <1>3, <1>4, <1>5, <1>6, <1>7, <1>8, Failures

\* Persisting is the last step of an apply, and any failure ends it.
LEMMA TruthfulStep == AgentInv /\ Truthful /\ [Next]_agentVars => Truthful'
<1> SUFFICES ASSUME AgentInv, Truthful, [Next]_agentVars PROVE Truthful'
  OBVIOUS
<1> USE DEF At
<1>1. status \in AgentState /\ job \in Job /\ disk \in Disk /\ Progress
  BY DEF AgentInv, Typed, TypeOK
<1>2. CASE UNCHANGED agentVars
  BY <1>2 DEF agentVars, Truthful, Held
<1>3. ASSUME NEW type, Fail(type) PROVE Truthful'
  <2>1. job'.outcome = "failed"
    BY <1>1, <1>3 DEF Fail, Job
  <2>2. \A kept : [status EXCEPT !.events = kept, !.runtimeState = "validation_failed",
                                 !.lastValidation = "failed"].runtimeState
                    = "validation_failed"
    BY <1>1 DEF AgentState
  <2>3. status'.runtimeState = "validation_failed"
    BY <1>3, <2>2 DEF Fail
  <2> QED BY <2>1, <2>3 DEF Truthful
<1>4. CASE PersistRuntimeState
  <2>1. job'.outcome = "applied" /\ job'.offer = job.offer
    BY <1>1, <1>4 DEF PersistRuntimeState, Job
  <2>2. /\ job.offer.number \in Held /\ job.offer.config \in Verifiable
        /\ disk.active_config = job.offer.number
    BY <1>1, <1>4 DEF PersistRuntimeState, Progress, Held, Verified,
       AfterArchivedConfig, AfterArchived, AfterStagedConfig, AfterStaged,
       AfterMetadata, AfterConfig, AfterState
  <2>3. Held' = Held /\ disk'.active_config = disk.active_config
    BY <1>1, <1>4 DEF PersistRuntimeState, Held, Disk
  <2> QED BY <2>1, <2>2, <2>3 DEF Truthful
<1>5. ASSUME job'.step # "report" PROVE Truthful'
  BY <1>5 DEF Truthful
<1>6. StartPoll \/ FetchNothing \/ ReportDone \/ Crash \/ Restart
        => job'.step # "report"
  <2>1. Idle.step = "idle" /\ [Idle EXCEPT !.step = "down"].step = "down"
    BY DEF Idle
  <2>2. StartPoll => job'.step = "fetch"
    BY <1>1 DEF StartPoll, Job
  <2> QED BY <2>1, <2>2 DEF FetchNothing, ReportDone, Crash, Restart
<1>7. ASSUME NEW offer \in Offer, FetchOffer(offer) PROVE job'.step # "report"
  BY <1>1, <1>7 DEF FetchOffer, Job
<1>8. \A step : job' = [job EXCEPT !.step = step] => job'.step = step
  BY <1>1 DEF Job
<1>9. WriteState \/ PrepareActiveConfig \/ (\E file \in Files : WriteFile(file))
        => job'.step # "report"
  BY <1>8, WriteFileChanges DEF WriteState, PrepareActiveConfig
<1> QED BY <1>2, <1>3, <1>4, <1>5, <1>6, <1>7, <1>8, <1>9, Failures

\* Only the sixth write of an apply switches the active config.
LEMMA ActiveMoves ==
  ASSUME AgentInv, [Next]_agentVars
  PROVE  \/ disk'.active_config = disk.active_config
         \/ /\ job.step = "active_config"
            /\ job'.step # "report"
            /\ disk'.active_config = job.offer.number
<1>1. job \in Job /\ disk \in Disk /\ Progress
  BY DEF AgentInv, Typed, TypeOK
<1>2. CASE UNCHANGED disk
  BY <1>2
<1>3. ASSUME NEW file \in Files, WriteFile(file)
      PROVE  \/ disk'.active_config = disk.active_config
             \/ /\ job.step = "active_config"
                /\ job'.step # "report"
                /\ disk'.active_config = job.offer.number
  <2>1. CASE job.step = "active_config"
    <3>1. job' = [job EXCEPT !.step = "state"]
          /\ disk' = [disk EXCEPT !.active_config = disk.staged_config]
      BY <1>3, <2>1, WriteFileChanges
    <3>2. disk.staged_config = job.offer.number
      BY <1>1, <2>1 DEF Progress, AfterStagedConfig, AfterStaged, AfterMetadata
    <3> QED BY <1>1, <2>1, <3>1, <3>2 DEF Job, Disk
  <2>2. CASE job.step # "active_config"
    BY <1>1, <1>3, <2>2, WriteFileChanges DEF Disk
  <2> QED BY <2>1, <2>2
<1>4. CASE WriteState \/ PersistRuntimeState
  BY <1>1, <1>4 DEF WriteState, PersistRuntimeState, Disk
<1>5. UNCHANGED disk \/ WriteState \/ PersistRuntimeState
        \/ \E file \in Files : WriteFile(file)
  BY DEF Next, ApplyStep, StartPoll, FetchNothing, FetchOffer, ValidateAndStore,
         DryRun, WriteFails, PrepareActiveConfig, PersistFails, ReportDone,
         Crash, Restart, agentVars
<1> QED BY <1>2, <1>3, <1>4, <1>5
=============================================================================
