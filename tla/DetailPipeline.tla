---------------------------- MODULE DetailPipeline ----------------------------
(***************************************************************************)
(* One SQL detail page of the health dashboard: LoadStream in              *)
(* src/internal/healthdash/detail_pipeline.go and the page it fills        *)
(* through MergeDetailPatch (detail.go).  The captured session is tried    *)
(* first; then six sources run at once, four that may bring a plan and two *)
(* that bring evidence, and each answers, fails or times out in any order. *)
(* The page shows the plan of the best quality; the catalog diagnosis uses *)
(* the plan of the best catalog rank and all evidence so far, and is       *)
(* started again, numbered by serial, revision and generation, whenever    *)
(* either changes.  Patches are merged in the order they are emitted.      *)
(***************************************************************************)
EXTENDS Naturals, Sequences, FiniteSets

CONSTANT Source   \* the sources that run at once

ASSUME SourceAssumption ==
         Source \subseteq {"history", "relocation", "preflight", "estimate", "cpu", "ash"}

Evidence == {"cpu", "ash"}

VARIABLES page,     \* the Detail: quality, identity, revision, generation,
                    \* tables (the serial that filled them, 0: none), stage
                    \* of the catalog and complete
          load,     \* LoadStream: pc, whether the server has runtime plans,
                    \* the accepted plan and catalog plan, revision,
                    \* generation, whether the latest diagnosis is in
          waiting,  \* sources that have not delivered their event
          got,      \* candidates that arrived with plan lines
          launches, \* the diagnoses started, in order of serial
          running   \* serials of diagnoses that have not delivered

pipelineVars == <<page, load, waiting, got, launches, running>>

NoPlan == [quality |-> 0, rank |-> 0, identity |-> "none", nodes |-> FALSE]

PipelineInit ==
  /\ page = [quality |-> 0, identity |-> "none", revision |-> 0, generation |-> 0,
             tables |-> 0, stage |-> "loading", complete |-> FALSE]
  /\ load = [pc |-> "captured", runtime |-> FALSE, canceled |-> FALSE,
             shown |-> NoPlan, catalog |-> NoPlan, revision |-> 0,
             generation |-> 0, latestDone |-> TRUE]
  /\ waiting = {} /\ got = {} /\ launches = <<>> /\ running = {}

\* PlanQuality and catalogPlanRank: what a source's plan is worth on the page
\* and for the catalog.  A running session shows its runtime plan where the
\* server can, and is explained otherwise; identity tells one plan from
\* another of the same quality.
Quality(s) ==
  CASE s = "captured" -> 5
    [] s = "history" -> 4
    [] s = "relocation" -> IF load.runtime THEN 3 ELSE 1
    [] s = "preflight" -> 2
    [] s = "estimate" -> 1

catalogPlanRank(s) ==
  CASE s = "captured" -> 5
    [] s = "relocation" -> IF load.runtime THEN 4 ELSE 3
    [] s = "estimate" -> 2
    [] s \in {"history", "preflight"} -> 1

\* An explained session and the estimate explain the same statement, unless
\* the session runs it with another text.
Identities(s) ==
  IF s = "relocation" /\ ~load.runtime THEN {"estimate", "relocation"} ELSE {s}

Candidates(s) ==
  {[quality |-> Quality(s), rank |-> catalogPlanRank(s), identity |-> i, nodes |-> n] :
     i \in Identities(s), n \in BOOLEAN}

----------------------------------------------------------------------------
\* MergeDetailPatch.

ReplacesPlan(p, c, revision) ==
  \/ c.quality > p.quality
  \/ c.quality = p.quality /\ c.identity = p.identity /\ revision > p.revision

\* Mutant: the old plan's tables stay on the page under the new plan.
KeepTables(p, c, revision) ==
  IF ReplacesPlan(p, c, revision)
  THEN [p EXCEPT !.quality = c.quality, !.identity = c.identity,
                 !.revision = revision, !.generation = 0]
  ELSE p

MergePlan(p, c, revision) ==
  IF ReplacesPlan(p, c, revision)
  THEN [p EXCEPT !.quality = c.quality, !.identity = c.identity,
                 !.revision = revision, !.generation = 0, !.tables = 0]
  ELSE p

\* A catalog patch of another revision or an older generation is refused.
MergeCatalog(p, launch, state, tables) ==
  IF launch.revision # p.revision \/ launch.generation < p.generation THEN p
  ELSE [p EXCEPT !.stage = state, !.tables = tables, !.generation = launch.generation]

----------------------------------------------------------------------------
\* The evidence that has arrived when w is still waiting.
Seen(w) == (Source \cap Evidence) \ w

\* launchCatalog: cancels the running diagnosis, blanks the tables and starts
\* one of the catalog plan.  A plan no node of which could be parsed starts
\* none, and whatever is running is stale.
Launch(l, p, w) ==
  IF ~l.catalog.nodes
  THEN /\ load' = [l EXCEPT !.latestDone = TRUE]
       /\ page' = p
       /\ UNCHANGED <<launches, running>>
  ELSE LET launch == [revision |-> l.revision, generation |-> l.generation,
                      plan |-> l.catalog, evidence |-> Seen(w)]
       IN /\ load' = [l EXCEPT !.latestDone = FALSE]
          /\ launches' = Append(launches, launch)
          /\ running' = running \cup {Len(launches) + 1}
          /\ page' = MergeCatalog(p, launch, "loading", 0)

DisplayReplaces(c) ==
  \/ c.quality > load.shown.quality
  \/ c.quality = load.shown.quality /\ c.identity = load.shown.identity

CatalogReplaces(c) ==
  \/ c.rank > load.catalog.rank
  \/ c.rank = load.catalog.rank /\ c.identity = load.catalog.identity

\* acceptCandidate for a candidate with plan lines.
Accept(c, w) ==
  LET shows == DisplayReplaces(c)
      serves == CatalogReplaces(c)
      revision == IF shows THEN load.revision + 1 ELSE load.revision
      next == [load EXCEPT
                 !.shown = IF shows THEN c ELSE @,
                 !.revision = revision,
                 !.generation = IF serves /\ Len(launches) > 0 /\ ~shows THEN @ + 1 ELSE @,
                 !.catalog = IF serves THEN c ELSE @]
      merged == IF shows THEN MergePlan(page, c, revision) ELSE page
  IN IF shows \/ serves THEN Launch(next, merged, w)
     ELSE /\ load' = next /\ page' = merged
          /\ UNCHANGED <<launches, running>>

\* The captured session: gone, without runtime plans, or with its plan.
CapturedPlan(runtime) ==
  /\ load.pc = "captured"
  /\ \E n \in BOOLEAN :
       LET c == [quality |-> 5, rank |-> 5, identity |-> "captured", nodes |-> n]
           l == [load EXCEPT !.pc = "sources", !.runtime = runtime, !.shown = c,
                             !.catalog = c, !.revision = 1]
       IN /\ runtime
          /\ got' = {c}
          /\ Launch(l, MergePlan(page, c, 1), Source)
  /\ waiting' = Source

CapturedNothing(runtime) ==
  /\ load.pc = "captured"
  /\ load' = [load EXCEPT !.pc = "sources", !.runtime = runtime]
  /\ waiting' = Source
  /\ UNCHANGED <<page, got, launches, running>>

\* A source delivers a plan,
PlanArrives(s) ==
  /\ load.pc = "sources" /\ s \in waiting \ Evidence
  /\ waiting' = waiting \ {s}
  /\ \E c \in Candidates(s) : got' = got \cup {c} /\ Accept(c, waiting \ {s})

\* or nothing: no row, an error, a timeout.
SourceEmpty(s) ==
  /\ load.pc = "sources" /\ s \in waiting \ Evidence
  /\ waiting' = waiting \ {s}
  /\ UNCHANGED <<page, load, got, launches, running>>

\* Evidence makes every diagnosis so far old, and starts a new one.
EvidenceArrives(s) ==
  /\ load.pc = "sources" /\ s \in waiting \cap Evidence
  /\ waiting' = waiting \ {s}
  /\ LET next == [load EXCEPT !.generation = @ + 1]
     IN IF load.revision > 0 THEN Launch(next, page, waiting \ {s})
        ELSE /\ load' = next
             /\ UNCHANGED <<page, launches, running>>
  /\ UNCHANGED got

Current(n) ==
  /\ n = Len(launches)
  /\ launches[n].revision = load.revision
  /\ launches[n].generation = load.generation

\* A diagnosis delivers; a stale one (cancelled or not) is dropped.
DiagnosisArrives(n, ready) ==
  /\ load.pc = "sources" /\ n \in running
  /\ running' = running \ {n}
  /\ IF Current(n)
     THEN /\ load' = [load EXCEPT !.latestDone = TRUE]
          /\ page' = MergeCatalog(page, launches[n], IF ready THEN "ready" ELSE "failed",
                                  IF ready THEN n ELSE 0)
     ELSE UNCHANGED <<load, page>>
  /\ UNCHANGED <<waiting, got, launches>>

\* Every source delivered and the latest diagnosis is in.
PipelineComplete ==
  /\ load.pc = "sources" /\ waiting = {} /\ load.latestDone
  /\ load' = [load EXCEPT !.pc = "complete"]
  /\ page' = [page EXCEPT !.complete = TRUE,
                          !.stage = IF launches = <<>> THEN "done" ELSE @]
  /\ UNCHANGED <<waiting, got, launches, running>>

\* The page was closed or left: the loader returns without another patch.
CancelPipeline ==
  /\ load.pc \in {"captured", "sources"} /\ ~load.canceled
  /\ load' = [load EXCEPT !.canceled = TRUE]
  /\ UNCHANGED <<page, waiting, got, launches, running>>

PipelineCanceled ==
  /\ load.canceled /\ load.pc \in {"captured", "sources"}
  /\ load' = [load EXCEPT !.pc = "ending"]
  /\ UNCHANGED <<page, waiting, got, launches, running>>

\* The deferred function: cancels, then waits for sources and diagnoses.
WorkerEnds ==
  /\ load.pc \in {"ending", "complete"}
  /\ \/ \E s \in waiting : waiting' = waiting \ {s} /\ UNCHANGED running
     \/ \E n \in running : running' = running \ {n} /\ UNCHANGED waiting
  /\ UNCHANGED <<page, load, got, launches>>

LoadReturns ==
  /\ load.pc \in {"ending", "complete"} /\ waiting = {} /\ running = {}
  /\ load' = [load EXCEPT !.pc = "returned"]
  /\ UNCHANGED <<page, waiting, got, launches, running>>

Delivers ==
  \/ \E runtime \in BOOLEAN : CapturedPlan(runtime) \/ CapturedNothing(runtime)
  \/ \E s \in waiting :
       \/ PlanArrives(s)
       \/ SourceEmpty(s)
       \/ EvidenceArrives(s)
  \/ \E n \in running, ready \in BOOLEAN : DiagnosisArrives(n, ready)
  \/ PipelineComplete
  \/ PipelineCanceled
  \/ WorkerEnds
  \/ LoadReturns

PipelineNext == Delivers \/ CancelPipeline

\* Every stage has its own timeout, so every goroutine delivers.
PipelineFairness == WF_pipelineVars(Delivers)

PipelineSpec == PipelineInit /\ [][PipelineNext]_pipelineVars /\ PipelineFairness

----------------------------------------------------------------------------
\* The tables on the page diagnose the plan on the page, not an earlier one,
\* and page and loader agree on which plan that is: with MergeDetailPatch's
\* own rules a patch the loader counts on is never refused.
TablesMatchPlan ==
  /\ page.revision = load.revision
  /\ page.tables # 0 => launches[page.tables].revision = page.revision

\* However the sources interleave, a complete page shows a plan of the best
\* quality that arrived.
BestPlanShown ==
  page.complete => \A c \in got : c.quality <= page.quality

\* A complete page's tables come from the last diagnosis: of a plan of the
\* best catalog rank that arrived, with all the evidence that arrived.  (When
\* no node of that plan could be parsed nothing is diagnosed any more, and
\* the page keeps the tables of a lesser plan that came before it.)
DiagnosisIsFinal ==
  page.complete /\ page.tables # 0 /\ load.catalog.nodes =>
    /\ \A c \in got : c.rank <= launches[page.tables].plan.rank
    /\ launches[page.tables].evidence = Source \cap Evidence

\* The loader always returns, complete or cancelled, with no goroutine left.
PipelineSettled == load.pc = "returned"

\* What a page shows, in whatever order its sources answer: the best plan that
\* arrived, with the tables of that plan and all the evidence.
PipelineSafety ==
  /\ TablesMatchPlan
  /\ BestPlanShown
  /\ DiagnosisIsFinal
=============================================================================
