------------------------------ MODULE NodeAgent ------------------------------
(***************************************************************************)
(* node-agent: one poll of PollPendingConfigRevision after the other, from *)
(* the fetch to the report, with the files the apply path writes and the   *)
(* Status struct it keeps in memory.                                       *)
(*                                                                         *)
(* The polling loop is one goroutine, so a poll is a sequence of steps;    *)
(* what happens between two of them is a crash (SIGTERM included: the      *)
(* cancelled context makes the poll fail without a report and the process  *)
(* exits).  writeFileAtomic renames a finished temporary file, so a write  *)
(* happens or fails as a whole; any of them may fail (a full disk).        *)
(* A file is known by the number of the revision it was written for, 0 if  *)
(* it does not exist.                                                      *)
(***************************************************************************)
EXTENDS Naturals, Sequences

CONSTANTS Config,      \* rendered Xray configs, opaque
          Verifiable,  \* those that pass ValidateAndStoreConfigRevision
          Offer,       \* revisions the panel may hand out
          TrailLimit,  \* runtimeEventTrailLimit
          LocalProcess \* LENKER_AGENT_RUNTIME_PROCESS_MODE=local

\* An offer is a config_revisions row as far as the agent acts on it; its
\* config stands for the whole signed bundle.
ASSUME AgentAssumption ==
  /\ Offer \subseteq [number : Nat \ {0}, target : Nat, config : Config]
  /\ Verifiable \subseteq Config
  /\ TrailLimit \in Nat
  /\ LocalProcess \in BOOLEAN

VARIABLES status,  \* Service.status
          job,     \* the poll in progress
          disk     \* LENKER_AGENT_STATE_DIR

agentVars == <<status, job, disk>>

-----------------------------------------------------------------------------
(* State *)

\* Mutation: the config is switched before the metadata.
ConfigFirstOrder ==
  <<"revision_config", "revision_metadata", "staged_config",
    "staged_metadata", "active_config", "active_metadata">>

\* The four files StageConfigRevision writes and the two that
\* ActivateStagedConfigRevision writes before state.json, in this order.
WriteOrder == <<"revision_config", "revision_metadata", "staged_config",
                "staged_metadata", "active_metadata", "active_config">>

Files == {WriteOrder[i] : i \in 1..Len(WriteOrder)}

Step == {"down", "idle", "fetch", "validate", "dry_run", "state", "prepare",
         "persist", "report"} \cup Files

EventType == {"apply_success", "apply_failure", "validation_failure",
              "dry_run_failure", "process_prepare_start_intent"}

FreshStatus ==
  [activeRevision |-> 0, lastApplied |-> 0, lastPrepared |-> 0,
   stagedRevision |-> 0, rollbackCandidate |-> 0, lastRollback |-> 0,
   runtimeState |-> "not_prepared", lastValidation |-> "", events |-> <<>>]

Event == [type : EventType, number : Nat]

NoOffer  == [number |-> 0]
Idle     == [step |-> "idle", offer |-> NoOffer, outcome |-> "", before |-> 0]

\* revision_config and revision_metadata live in a directory per revision: the
\* set of revisions they were written for.
EmptyDisk ==
  [revision_config |-> {}, revision_metadata |-> {}, staged_config |-> 0,
   staged_metadata |-> 0, active_metadata |-> 0, active_config |-> 0,
   state |-> [activeRevision |-> 0, lastPrepared |-> 0,
              runtimeState |-> "not_prepared", events |-> <<>>]]

Init ==
  /\ status = FreshStatus
  /\ job = Idle
  /\ disk = EmptyDisk

At(step) == job.step = step

\* Mutation: one event too many.
TrailOneLonger(trail, type, number) ==
  LET longer == Append(trail, [type |-> type, number |-> number])
  IN  IF Len(longer) > TrailLimit + 1 THEN Tail(longer) ELSE longer

\* AppendRuntimeEvent: the newest TrailLimit events are kept.
WithEvent(trail, type, number) ==
  LET longer == Append(trail, [type |-> type, number |-> number])
  IN  IF Len(longer) > TrailLimit THEN Tail(longer) ELSE longer

\* Mutation: TrackRuntimeFailure is not called.
FailStaysReady(type) ==
  /\ job' = [job EXCEPT !.step = "report", !.outcome = "failed"]
  /\ status' = [status EXCEPT
       !.events = WithEvent(@, type, job.offer.number),
       !.lastValidation = "failed"]

\* The error return of ApplyConfigRevisionWithContext, followed in the poll by
\* TrackValidationResult and TrackRuntimeFailure.
Fail(type) ==
  /\ job' = [job EXCEPT !.step = "report", !.outcome = "failed"]
  /\ status' = [status EXCEPT
       !.events = WithEvent(@, type, job.offer.number),
       !.runtimeState = "validation_failed",
       !.lastValidation = "failed"]

-----------------------------------------------------------------------------
(* One poll *)

StartPoll ==
  /\ At("idle")
  /\ job' = [job EXCEPT !.step = "fetch"]
  /\ UNCHANGED <<status, disk>>

\* 404, an error status, a timeout: nothing to do before the next tick.
FetchNothing ==
  /\ At("fetch")
  /\ job' = Idle
  /\ UNCHANGED <<status, disk>>

FetchOffer(offer) ==
  /\ At("fetch")
  /\ job' = [job EXCEPT !.step = "validate", !.offer = offer,
                        !.before = disk.active_config]
  /\ UNCHANGED <<status, disk>>

\* Mutation: the result of the checks is ignored.
StoreUnverified ==
  /\ At("validate")
  /\ job' = [job EXCEPT !.step = "dry_run"]
  /\ status' = [status EXCEPT !.lastRollback = job.offer.target]
  /\ UNCHANGED disk

ValidateAndStore ==
  /\ At("validate")
  /\ IF job.offer.config \in Verifiable
       THEN /\ job' = [job EXCEPT !.step = "dry_run"]
            /\ status' = [status EXCEPT !.lastRollback = job.offer.target]
       ELSE Fail("validation_failure")
  /\ UNCHANGED disk

\* Without an Xray binary there is no dry run and only the first disjunct.
DryRun ==
  /\ At("dry_run")
  /\ \/ /\ job' = [job EXCEPT !.step = WriteOrder[1]]
        /\ UNCHANGED status
     \/ Fail("dry_run_failure")
  /\ UNCHANGED disk

\* Staging is over once staged_metadata is written; activation copies what it
\* reads back from the staged files.
NextStep(file) ==
  LET i == CHOOSE k \in 1..Len(WriteOrder) : WriteOrder[k] = file
  IN  IF i = Len(WriteOrder) THEN "state" ELSE WriteOrder[i + 1]

Written(file) ==
  IF file \in {"revision_config", "revision_metadata"}
    THEN disk[file] \cup {job.offer.number}
  ELSE IF file \in {"staged_config", "staged_metadata"} THEN job.offer.number
  ELSE IF file = "active_metadata" THEN disk.staged_metadata
  ELSE disk.staged_config

WriteFile(file) ==
  /\ At(file)
  /\ disk' = [disk EXCEPT ![file] = Written(file)]
  /\ job' = [job EXCEPT !.step = NextStep(file)]
  /\ status' = IF file = "staged_metadata"
                 THEN [status EXCEPT !.stagedRevision = job.offer.number,
                                     !.rollbackCandidate = job.offer.target]
                 ELSE status

\* state.json as ActivateStagedConfigRevision writes it: a new document, which
\* says prepared in advance and has no event trail yet.
WriteState ==
  /\ At("state")
  /\ disk' = [disk EXCEPT !.state =
       [activeRevision |-> job.offer.number, lastPrepared |-> job.offer.number,
        runtimeState |-> "active_config_ready", events |-> <<>>]]
  /\ job' = [job EXCEPT !.step = "prepare"]
  /\ UNCHANGED status

\* Mutation: a failed write ends the writing and is not returned.
WriteErrorDropped ==
  /\ job.step \in Files \cup {"state"}
  /\ job' = [job EXCEPT !.step = "prepare"]
  /\ UNCHANGED <<status, disk>>

WriteFails ==
  /\ job.step \in Files \cup {"state"}
  /\ Fail("apply_failure")
  /\ UNCHANGED disk

\* PrepareActiveConfig of the no-process supervisor and of the local skeleton
\* fails only when the context is cancelled; then TrackAppliedRevision,
\* TrackRuntimePrepared and the success events.
PrepareActiveConfig ==
  LET number == job.offer.number
      intent == IF LocalProcess
                  THEN WithEvent(status.events, "process_prepare_start_intent",
                                 number)
                  ELSE status.events
  IN  /\ At("prepare")
      /\ status' = [status EXCEPT
           !.activeRevision = number, !.lastApplied = number,
           !.lastPrepared = number, !.runtimeState = "active_config_ready",
           !.events = WithEvent(intent, "apply_success", number)]
      /\ job' = [job EXCEPT !.step = "persist"]
      /\ UNCHANGED disk

PersistRuntimeState ==
  /\ At("persist")
  /\ disk' = [disk EXCEPT !.state.lastPrepared = status.lastPrepared,
                          !.state.runtimeState = status.runtimeState,
                          !.state.events = status.events]
  /\ job' = [job EXCEPT !.step = "report", !.outcome = "applied"]
  /\ status' = [status EXCEPT !.lastValidation = "applied"]

\* Mutation: the error of PersistRuntimeState is dropped.
PersistErrorDropped ==
  /\ At("persist")
  /\ job' = [job EXCEPT !.step = "report", !.outcome = "applied"]
  /\ status' = [status EXCEPT !.lastValidation = "applied"]
  /\ UNCHANGED disk

\* The revision is active by now, in memory and on disk.
PersistFails ==
  /\ At("persist")
  /\ Fail("apply_failure")
  /\ UNCHANGED disk

\* The report was answered, refused or lost: the poll is over in every case.
ReportDone ==
  /\ At("report")
  /\ job' = Idle
  /\ UNCHANGED <<status, disk>>

Crash ==
  /\ ~At("down")
  /\ job' = [Idle EXCEPT !.step = "down"]
  /\ status' = FreshStatus
  /\ UNCHANGED disk

\* NewService: nothing is read back from the state directory.
Restart ==
  /\ At("down")
  /\ job' = Idle
  /\ UNCHANGED <<status, disk>>

ApplyStep ==
  \/ ValidateAndStore
  \/ DryRun
  \/ \E file \in Files : WriteFile(file)
  \/ WriteState
  \/ WriteFails
  \/ PrepareActiveConfig
  \/ PersistRuntimeState
  \/ PersistFails

Next ==
  \/ StartPoll
  \/ FetchNothing
  \/ \E offer \in Offer : FetchOffer(offer)
  \/ ApplyStep
  \/ ReportDone
  \/ Crash
  \/ Restart

Spec == Init /\ [][Next]_agentVars

-----------------------------------------------------------------------------
(* Properties *)

AgentState ==
  [activeRevision : Nat, lastApplied : Nat, lastPrepared : Nat,
   stagedRevision : Nat, rollbackCandidate : Nat, lastRollback : Nat,
   runtimeState : {"not_prepared", "active_config_ready", "validation_failed"},
   lastValidation : {"", "applied", "failed"},
   events : Seq(Event)]

Job ==
  [step : Step, offer : Offer \cup {NoOffer},
   outcome : {"", "applied", "failed"}, before : Nat]

StateFile ==
  [activeRevision : Nat, lastPrepared : Nat,
   runtimeState : {"not_prepared", "active_config_ready"}, events : Seq(Event)]

Disk ==
  [revision_config : SUBSET Nat, revision_metadata : SUBSET Nat,
   staged_config : Nat, staged_metadata : Nat,
   active_metadata : Nat, active_config : Nat, state : StateFile]

\* Type invariant.  The trail is bounded in memory and on disk.
TypeOK ==
  /\ status \in AgentState /\ Len(status.events) <= TrailLimit
  /\ job \in Job
  /\ disk \in Disk /\ Len(disk.state.events) <= TrailLimit

\* Whatever is active was archived under revisions/<n> and passed the checks of
\* ValidateAndStoreConfigRevision, crashes and failed writes included: an
\* offer that was refused never reaches the disk.
ActiveIsVerifiedAndArchived ==
  /\ {disk.active_config, disk.active_metadata, disk.state.activeRevision}
       \subseteq {0} \cup (disk.revision_config \cap disk.revision_metadata)
  /\ \A k \in disk.revision_config :
       \E offer \in Offer : offer.number = k /\ offer.config \in Verifiable

\* When the agent reports applied, both active files, state.json and the status
\* behind /status all speak of the revision of this poll, and its newest event
\* says so; when it reports failed, the newest event is a failure of this poll.
VerdictMatchesDisk ==
  At("report") =>
    LET number == job.offer.number
        newest == status.events[Len(status.events)]
    IN  /\ newest.number = number
        /\ (newest.type = "apply_success") <=> (job.outcome = "applied")
        /\ job.outcome = status.lastValidation
        /\ job.outcome = "applied" =>
             /\ {disk.active_config, disk.active_metadata,
                  disk.state.activeRevision, disk.state.lastPrepared,
                  status.activeRevision, status.lastApplied} = {number}
             /\ disk.state.events = status.events

\* runtime_state active_config_ready is cleared by every failure: outside an
\* activation it is shown only while the active files, state.json and the
\* status agree on the revision.
ReadyMeansConsistent ==
  (/\ status.runtimeState = "active_config_ready"
   /\ job.step \notin {"active_config", "state", "prepare"}) =>
    /\ status.activeRevision # 0
    /\ {disk.active_config, disk.active_metadata, disk.state.activeRevision,
         disk.state.lastPrepared, status.lastPrepared} = {status.activeRevision}

\* The active config changes only in a poll whose offer it is, after everything
\* else of that revision is on disk; state.json never runs ahead of it.
SwitchComesLast ==
  [][/\ disk'.active_config # disk.active_config =>
          /\ job.offer.config \in Verifiable
          /\ {disk'.active_config, disk.active_metadata, disk.staged_config,
               disk.staged_metadata} = {job.offer.number}
     /\ disk'.state.activeRevision # disk.state.activeRevision =>
          disk'.state.activeRevision = disk.active_config]_agentVars

\* What TestActivateFailureLeavesActiveArtifactUntouched says of a failed apply:
\* the active config is the one the poll began with.
FailureKeepsActive ==
  At("report") /\ job.outcome = "failed" => disk.active_config = job.before
=============================================================================
