---------------------------- MODULE MCProgress ----------------------------
(* The components that somebody waits for, of gsbench and of gstop, one of    *)
(* them in each behaviour: they share no variable, so a behaviour of several  *)
(* would only interleave what is checked here.                                *)
EXTENDS ScenarioRuns, FixedRun, LockEngine, DbGateway, HealthCollector,
        DetailPipeline, DetailRequests, GstopRefresher, SelectionView,
        EmergencyPanel

CONSTANTS s1, s2, m1, m2

VARIABLE part  \* the component this behaviour is about

Parts == {"scenarios", "fixed", "locks", "gateway", "collector", "pipeline",
          "requests", "refresher", "selection", "panel"}

\* One scenario of each kind, and two that wait for each other at the barrier.
MCPlans ==
  [{s1} -> Kinds] \cup {[s \in Slot |-> IF s = s1 THEN "fixed" ELSE "vacuum"]}

MCLayouts == {<<"chain", 4, 2>>, <<"chain", 3, 1>>, <<"direct", 3, 1>>,
              <<"command", 2, 1>>, <<"deadlock", 2, 1>>}

MCFirst == [s \in Scenario |-> IF s = "plan" THEN 1 ELSE 2]

\* The other components rest in an initial state.
ProgressInit ==
  /\ part \in Parts
  /\ ScenariosInit
  /\ FixedInit
  /\ LockInit
  /\ GatewayInit
  /\ CollectorInit
  /\ PipelineInit
  /\ RequestsInit
  /\ RefresherInit
  /\ SelectionInit
  /\ part # "selection" => panel.view = "session"
  /\ PanelInit

ScenarioSteps ==
  /\ part = "scenarios" /\ ScenariosNext
  /\ UNCHANGED <<part, fixedVars, lockVars, gatewayVars, collectorVars,
                 pipelineVars, requestVars, refresherVars, selectionVars,
                 panelVars>>

FixedSteps ==
  /\ part = "fixed" /\ FixedNext
  /\ UNCHANGED <<part, scenarioVars, lockVars, gatewayVars, collectorVars,
                 pipelineVars, requestVars, refresherVars, selectionVars,
                 panelVars>>

LockSteps ==
  /\ part = "locks" /\ LockNext
  /\ UNCHANGED <<part, scenarioVars, fixedVars, gatewayVars, collectorVars,
                 pipelineVars, requestVars, refresherVars, selectionVars,
                 panelVars>>

GatewaySteps ==
  /\ part = "gateway" /\ GatewayNext
  /\ UNCHANGED <<part, scenarioVars, fixedVars, lockVars, collectorVars,
                 pipelineVars, requestVars, refresherVars, selectionVars,
                 panelVars>>

CollectorSteps ==
  /\ part = "collector" /\ CollectorNext
  /\ UNCHANGED <<part, scenarioVars, fixedVars, lockVars, gatewayVars,
                 pipelineVars, requestVars, refresherVars, selectionVars,
                 panelVars>>

PipelineSteps ==
  /\ part = "pipeline" /\ PipelineNext
  /\ UNCHANGED <<part, scenarioVars, fixedVars, lockVars, gatewayVars,
                 collectorVars, requestVars, refresherVars, selectionVars,
                 panelVars>>

RequestsSteps ==
  /\ part = "requests" /\ RequestsNext
  /\ UNCHANGED <<part, scenarioVars, fixedVars, lockVars, gatewayVars,
                 collectorVars, pipelineVars, refresherVars, selectionVars,
                 panelVars>>

RefresherSteps ==
  /\ part = "refresher" /\ RefresherNext
  /\ UNCHANGED <<part, scenarioVars, fixedVars, lockVars, gatewayVars,
                 collectorVars, pipelineVars, requestVars, selectionVars,
                 panelVars>>

SelectionSteps ==
  /\ part = "selection" /\ SelectionNext
  /\ UNCHANGED <<part, scenarioVars, fixedVars, lockVars, gatewayVars,
                 collectorVars, pipelineVars, requestVars, refresherVars,
                 panelVars>>

PanelSteps ==
  /\ part = "panel" /\ PanelNext
  /\ UNCHANGED <<part, scenarioVars, fixedVars, lockVars, gatewayVars,
                 collectorVars, pipelineVars, requestVars, refresherVars,
                 selectionVars>>

ProgressNext ==
  \/ ScenarioSteps
  \/ FixedSteps
  \/ LockSteps
  \/ GatewaySteps
  \/ CollectorSteps
  \/ PipelineSteps
  \/ RequestsSteps
  \/ RefresherSteps
  \/ SelectionSteps
  \/ PanelSteps

progressVars == <<part, scenarioVars, fixedVars, lockVars, gatewayVars,
              collectorVars, pipelineVars, requestVars, refresherVars,
              selectionVars, panelVars>>

\* The state of the component the behaviour is about.
moving ==
  CASE part = "scenarios" -> scenarioVars
    [] part = "fixed"     -> fixedVars
    [] part = "locks"     -> lockVars
    [] part = "gateway"   -> gatewayVars
    [] part = "collector" -> collectorVars
    [] part = "pipeline"  -> pipelineVars
    [] part = "requests"  -> requestVars
    [] part = "refresher" -> refresherVars
    [] part = "selection" -> selectionVars
    [] part = "panel"     -> panelVars

\* The k-th weakly and the k-th strongly fair action of each component.
WeaklyFair(k) ==
  CASE part = "scenarios" -> \/ k = 1 /\ RunClock
                             \/ k = 2 /\ Advances(s1)
                             \/ k = 3 /\ Joins(s1)
                             \/ k = 4 /\ Advances(s2)
                             \/ k = 5 /\ Joins(s2)
    [] part = "fixed"     -> k = 1 /\ FixedGoesOn
    [] part = "locks"     -> k = 1 /\ LocksGoOn
    [] part = "gateway"   -> \/ k = 1 /\ CallGoesOn(m1)
                             \/ k = 2 /\ CallGoesOn(m2)
    [] part = "collector" -> k = 1 /\ CollectorGoesOn
    [] part = "pipeline"  -> k = 1 /\ Delivers
    [] part = "requests"  -> k = 1 /\ RequestsGoOn
    [] part = "refresher" -> \/ k = 1 /\ MainGoesOn
                             \/ k = 2 /\ HookStep
                             \/ \E p \in Panel, t \in Turn : k = 2 + t /\ RefreshStep(p, t)
    [] part = "selection" -> \/ k = 1 /\ PumpStep
                             \/ k = 2 /\ KeyStep
    [] part = "panel"     -> k = 1 /\ ScreenSteps

StronglyFair(k) ==
  CASE part = "gateway" -> \/ k = 1 /\ LockGateway(m1)
                           \/ k = 2 /\ LockGateway(m2)
                           \/ k = 3 /\ MarkUnhealthy(m1)
                           \/ k = 4 /\ MarkUnhealthy(m2)
    [] part = "panel"   -> k = 1 /\ BackToMain
    [] OTHER            -> FALSE

\* That of the component the behaviour is about, stated once for all components:
\* part never changes, so fairness of the k-th actions together is fairness of
\* the k-th action of that component.
ProgressFairness ==
  /\ \A k \in 1..5 : WF_moving(part' = part /\ WeaklyFair(k))
  /\ \A k \in 1..4 : SF_moving(part' = part /\ StronglyFair(k))

ProgressSpec == ProgressInit /\ [][ProgressNext]_progressVars /\ ProgressFairness

-----------------------------------------------------------------------------
\* Nobody waits for the component.  The callers of the gateway are alike, so
\* that one of them stands for all.
Settled ==
  CASE part = "scenarios" -> ScenariosSettled
    [] part = "fixed"     -> FixedSettled
    [] part = "locks"     -> LocksSettled
    [] part = "gateway"   -> GatewaySettled(m1)
    [] part = "collector" -> CollectorSettled
    [] part = "pipeline"  -> PipelineSettled
    [] part = "requests"  -> RequestsSettled
    [] part = "refresher" -> RefresherSettled
    [] part = "selection" -> SelectionSettled
    [] part = "panel"     -> PanelSettled

\* Whoever waits for a run, a Stop, a call, a page, a frame or the exit waits in
\* vain in no component, whatever was cancelled, dropped or skipped on the way.
WaitsEnd == []<>Settled
=============================================================================
