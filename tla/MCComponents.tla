---------------------------- MODULE MCComponents ----------------------------
(* The components whose interest is in what they compute and keep, of gsbench *)
(* and of gstop, one of them in each behaviour: they share no variable, so a  *)
(* behaviour of several would only interleave what is checked here.           *)
EXTENDS LoadController, WorkMemCalibration, Dataset, LegacyMigration,
        BlockAnalysis, PlanChange, EmergencyKills, DetectionWindows,
        InstancePanel, DbPanel, EventPanel, AlarmPolicy, DataLogFiles,
        SelectionView

VARIABLE part  \* the component this behaviour is about

Parts == {"controller", "workmem", "dataset", "legacy", "blocks", "plans",
          "kills", "windows", "instance", "database", "events", "alarms", "datalog",
          "selection"}

\* Two configurations of the controller: the shipped shape, and one whose steps
\* do not divide its range.
Shipped == [min |-> 1, max |-> 6, step |-> 1, exploration |-> 0, required |-> 3,
            adjusting |-> 1, maxSamples |-> 14, target |-> 10, tolerance |-> 1]
MCControllerConfig ==
  {Shipped, [Shipped EXCEPT !.min = 2, !.max = 7, !.step = 3, !.required = 2,
                            !.exploration = 2, !.adjusting = 2]}

MCDivisor == [sort |-> 14, hash |-> 8]
MCSlope == {<<1, 1>>, <<1, 3>>, <<1, 16>>, <<1, 60>>, <<3, 2>>, <<16, 1>>, <<200, 1>>}

MCBatches ==
  << [table |-> "plan_data", weight |-> 30, rowBytes |-> 10, rows |-> 6, size |-> 4],
     [table |-> "dim_store", weight |-> 0, rowBytes |-> 10, rows |-> 3, size |-> 2],
     [table |-> "orders", weight |-> 40, rowBytes |-> 10, rows |-> 8, size |-> 5] >>

MCLegacyFields ==
  << [new |-> "action_id", old |-> "id"],
     [new |-> "forward_action", old |-> "forward_sql"],
     [new |-> "action_kind", old |-> ""] >>

MCStrategies ==
  <<[from |-> 0, to |-> 2, every |-> 1], [from |-> 4, to |-> 10, every |-> 3]>>

MCUserOf == <<"app", "dba">>
MCWhitelist == [f \in FullScenario |-> {"dba"}]

MCRateCells == <<"TPS", "XLOG">>
MCMaxWork == [TPS |-> 3, XLOG |-> 2]

\* The other components rest in an initial state.
ComponentsInit ==
  /\ part \in Parts
  /\ ControllerInit
  /\ CalibrationInit
  /\ DatasetInit
  /\ LegacyInit
  /\ BlockInit
  /\ part # "blocks" => blocker = [q \in Backend |-> Nobody]
  /\ PlanInit
  /\ KillsInit
  /\ WindowsInit
  /\ InstanceInit
  /\ DbPanelInit
  /\ part # "database" => cluster.primary = HostNode
  /\ EventInit
  /\ AlarmInit
  /\ part # "alarms" => policy.consecutive
  /\ DataLogInit
  /\ SelectionInit
  /\ part # "selection" => panel.view = "session"

ControllerSteps ==
  /\ part = "controller" /\ ControllerNext
  /\ UNCHANGED <<part, cal, datasetVars, legacyVars, blockVars, planVars, killVars,
                 windowVars, instanceVars, dbPanelVars, eventVars,
                 alarmVars, dataLogVars, selectionVars>>

CalibrationSteps ==
  /\ part = "workmem" /\ CalibrationNext
  /\ UNCHANGED <<part, controllerVars, datasetVars, legacyVars, blockVars,
                 planVars, killVars, windowVars, instanceVars, dbPanelVars,
                 eventVars, alarmVars, dataLogVars,
                 selectionVars>>

DatasetSteps ==
  /\ part = "dataset" /\ DatasetNext
  /\ UNCHANGED <<part, controllerVars, cal, legacyVars, blockVars, planVars, killVars,
                 windowVars, instanceVars, dbPanelVars, eventVars,
                 alarmVars, dataLogVars, selectionVars>>

LegacySteps ==
  /\ part = "legacy" /\ LegacyNext
  /\ UNCHANGED <<part, controllerVars, cal, datasetVars, blockVars, planVars, killVars,
                 windowVars, instanceVars, dbPanelVars, eventVars,
                 alarmVars, dataLogVars, selectionVars>>

BlockSteps ==
  /\ part = "blocks" /\ BlockNext
  /\ UNCHANGED <<part, controllerVars, cal, datasetVars, legacyVars, planVars, killVars,
                 windowVars, instanceVars, dbPanelVars, eventVars,
                 alarmVars, dataLogVars, selectionVars>>

\* Statements are alike: the first samples of all are taken in one order only.
Rank(sample) == 3 * sample.acs + sample.lat

FirstInOrder ==
  DOMAIN history.sql = {} =>
    \A q, r \in Sql : q < r => Rank(round'.sample[q]) >= Rank(round'.sample[r])

\* Bounds: a refresh samples at most two of the statements; the seven refreshes
\* come at moments of their own, and with two at one moment there are five.
FewAtATime ==
  /\ Cardinality({q \in Sql : round'.sample[q] # None}) <= 2
  /\ snap'.id - snap'.at <= IF snap'.id <= 5 THEN 1 ELSE 0

PlanSteps ==
  /\ part = "plans" /\ PlanNext /\ FirstInOrder /\ FewAtATime
  /\ UNCHANGED <<part, controllerVars, cal, datasetVars, legacyVars,
                 blockVars, killVars, windowVars, instanceVars, dbPanelVars,
                 eventVars, alarmVars, dataLogVars,
                 selectionVars>>

\* Threads are alike: the first session of all comes to thread 1.
KillSteps ==
  /\ part = "kills" /\ KillsNext
  /\ opened = {} /\ opened' # {} => session'[1] # NoOne
  /\ UNCHANGED <<part, controllerVars, cal, datasetVars, legacyVars,
                 blockVars, planVars, windowVars, instanceVars, dbPanelVars,
                 eventVars, alarmVars, dataLogVars,
                 selectionVars>>

WindowSteps ==
  /\ part = "windows" /\ WindowsNext
  /\ UNCHANGED <<part, controllerVars, cal, datasetVars, legacyVars,
                 blockVars, planVars, killVars, instanceVars, dbPanelVars,
                 eventVars, alarmVars, dataLogVars,
                 selectionVars>>

InstanceSteps ==
  /\ part = "instance" /\ InstanceNext
  /\ UNCHANGED <<part, controllerVars, cal, datasetVars, legacyVars,
                 blockVars, planVars, killVars, windowVars, dbPanelVars,
                 eventVars, alarmVars, dataLogVars,
                 selectionVars>>

DatabaseSteps ==
  /\ part = "database" /\ DbPanelNext
  /\ UNCHANGED <<part, controllerVars, cal, datasetVars, legacyVars,
                 blockVars, planVars, killVars, windowVars, instanceVars,
                 eventVars, alarmVars, dataLogVars,
                 selectionVars>>

EventSteps ==
  /\ part = "events" /\ EventNext
  /\ UNCHANGED <<part, controllerVars, cal, datasetVars, legacyVars,
                 blockVars, planVars, killVars, windowVars, instanceVars,
                 dbPanelVars, alarmVars, dataLogVars,
                 selectionVars>>

AlarmSteps ==
  /\ part = "alarms" /\ AlarmNext
  /\ UNCHANGED <<part, controllerVars, cal, datasetVars, legacyVars,
                 blockVars, planVars, killVars, windowVars, instanceVars,
                 dbPanelVars, eventVars, dataLogVars,
                 selectionVars>>

DataLogSteps ==
  /\ part = "datalog" /\ DataLogNext
  /\ UNCHANGED <<part, controllerVars, cal, datasetVars, legacyVars,
                 blockVars, planVars, killVars, windowVars, instanceVars,
                 dbPanelVars, eventVars, alarmVars,
                 selectionVars>>

SelectionSteps ==
  /\ part = "selection" /\ SelectionNext
  /\ UNCHANGED <<part, controllerVars, cal, datasetVars, legacyVars,
                 blockVars, planVars, killVars, windowVars, instanceVars,
                 dbPanelVars, eventVars, alarmVars, dataLogVars>>

ComponentsNext ==
  \/ ControllerSteps
  \/ CalibrationSteps
  \/ DatasetSteps
  \/ LegacySteps
  \/ BlockSteps
  \/ PlanSteps
  \/ KillSteps
  \/ WindowSteps
  \/ InstanceSteps
  \/ DatabaseSteps
  \/ EventSteps
  \/ AlarmSteps
  \/ DataLogSteps
  \/ SelectionSteps

componentsVars == <<part, controllerVars, cal, datasetVars, legacyVars,
              blockVars, planVars, killVars, windowVars, instanceVars,
              dbPanelVars, eventVars, alarmVars, dataLogVars,
              selectionVars>>

ComponentsSpec == ComponentsInit /\ [][ComponentsNext]_componentsVars
=============================================================================
