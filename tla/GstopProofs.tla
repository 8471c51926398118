---------------------------- MODULE GstopProofs -----------------------------
(* Proofs about gstop's pages and goroutines.  The detail page shows plan,   *)
(* tables and diagnosis that belong together, the database panel shares what *)
(* it shows, the rates of the instance panel are ones that were worked, and  *)
(* the wait events of a refresh add up to its total.  The health collector,  *)
(* the loaders of details and the refreshers keep their samples, requests    *)
(* and slots in order, and the gateway has one pool and one stream.  Each    *)
(* result rests on an inductive invariant.                                   *)
EXTENDS DetailPipeline, DbPanel, InstancePanel, HealthCollector, DetailRequests,
        DbGateway, GstopRefresher, EventPanel,
        SequenceTheorems, FiniteSetTheorems, WellFoundedInduction, TLAPS

-----------------------------------------------------------------------------
(* The detail page (DetailPipeline).                                         *)

\* Where a plan on the page comes from (PlanIdentity of the patch).
Identity == {"none", "captured", "history", "relocation", "preflight", "estimate"}

\* The values of the state: a plan, the page, a loader and what it diagnoses.
PlanValue == [quality : 0..5, rank : 0..5, identity : Identity, nodes : BOOLEAN]

PlanPage == [quality : 0..5, identity : Identity, revision : Nat, generation : Nat,
         tables : Nat, stage : {"loading", "ready", "failed", "done"}, complete : BOOLEAN]

Loader == [pc : {"captured", "sources", "ending", "complete", "returned"},
           runtime : BOOLEAN, canceled : BOOLEAN, shown : PlanValue, catalog : PlanValue, revision : Nat,
           generation : Nat, latestDone : BOOLEAN]

Diagnosis == [revision : Nat, generation : Nat, plan : PlanValue, evidence : SUBSET Source]

PipelineTypes ==
  /\ page \in PlanPage /\ load \in Loader
  /\ waiting \in SUBSET Source /\ got \in SUBSET PlanValue
  /\ launches \in Seq(Diagnosis) /\ running \in SUBSET (1..Len(launches))

\* Page p and loader l agree on the plan shown, and l refuses no patch of l.
Agree(p, l) ==
  /\ p.revision = l.revision /\ p.generation <= l.generation
  /\ p.quality = l.shown.quality /\ p.identity = l.shown.identity

\* Loader l has kept the best of the plans in g.
KeptBest(l, g) ==
  /\ \A c \in g : c.quality <= l.shown.quality /\ c.rank <= l.catalog.rank
  /\ l.catalog.nodes \/ l.shown.quality > 0 => l.revision > 0

\* The tables on page p were filled by a diagnosis of the plan it shows.
TablesOf(p, ls) ==
  p.tables # 0 => p.tables <= Len(ls) /\ ls[p.tables].revision = p.revision

\* The last diagnosis is of the catalog plan, when that one can be diagnosed.
LastIsCurrent ==
  LET n == Len(launches) IN
  load.catalog.nodes =>
    /\ n > 0 /\ page.tables \in {0, n}
    /\ launches[n].plan = load.catalog
    /\ load.pc = "sources" \/ page.complete => launches[n].evidence = Seen(waiting)

\* A page is complete when nothing is awaited; the captured session comes first.
InPhase ==
  /\ page.complete => waiting = {} /\ load.pc \in {"complete", "returned"}
  /\ load.pc = "captured" =>
       /\ load.shown = NoPlan /\ load.catalog = NoPlan /\ load.revision = 0
       /\ got = {}

\* The inductive invariant of the pipeline.
PipelineInv ==
  /\ PipelineTypes
  /\ Agree(page, load) /\ KeptBest(load, got) /\ TablesOf(page, launches)
  /\ LastIsCurrent /\ InPhase

\* A fresh page has no plan and no tables, and its loader has none to diagnose.
LEMMA PipelineInvInit ==
  ASSUME PipelineInit
  PROVE  PipelineInv
  <1>1. PipelineTypes
    BY DEF PipelineInit, PipelineTypes, PlanPage, Loader, PlanValue, Identity, NoPlan
  <1> QED
    BY <1>1 DEF PipelineInit, PipelineInv, Agree, KeptBest, TablesOf, LastIsCurrent, InPhase,
      NoPlan

\* A diagnosis is started, or none, for a loader and a page that agree.
LEMMA LaunchKeepsInv ==
  ASSUME PipelineInv, NEW l \in Loader, NEW p \in PlanPage, NEW w \in SUBSET Source,
         got' \in SUBSET PlanValue, waiting' = w, l.pc = "sources", ~p.complete,
         Agree(p, l), KeptBest(l, got'), TablesOf(p, launches), Launch(l, p, w)
  PROVE  PipelineInv'
  <1>1. CASE ~l.catalog.nodes
    <2>1. /\ load' = [l EXCEPT !.latestDone = TRUE] /\ page' = p
          /\ UNCHANGED <<launches, running>>
      BY <1>1 DEF Launch
    <2>2. load' \in Loader /\ load'.catalog = l.catalog /\ load'.pc = l.pc
          /\ load'.shown = l.shown /\ load'.revision = l.revision
          /\ load'.generation = l.generation
      BY <2>1 DEF Loader
    <2>3. PipelineTypes'
      BY <2>1, <2>2 DEF PipelineInv, PipelineTypes
    <2>4. (Agree(page, load) /\ KeptBest(load, got) /\ TablesOf(page, launches))'
      BY <2>1, <2>2 DEF Agree, KeptBest, TablesOf
    <2> QED
      BY <1>1, <2>1, <2>2, <2>3, <2>4 DEF PipelineInv, LastIsCurrent, InPhase
  <1>2. CASE l.catalog.nodes
    <2> DEFINE launch == [revision |-> l.revision, generation |-> l.generation,
                          plan |-> l.catalog, evidence |-> Seen(w)]
    <2>1. /\ load' = [l EXCEPT !.latestDone = FALSE]
          /\ launches' = Append(launches, launch)
          /\ running' = running \cup {Len(launches) + 1}
          /\ page' = MergeCatalog(p, launch, "loading", 0)
      BY <1>2 DEF Launch
    <2>2. launch \in Diagnosis
      BY DEF Loader, Diagnosis, Seen
    <2> HIDE DEF launch
    <2>3. load' \in Loader /\ load'.catalog = l.catalog /\ load'.pc = l.pc
          /\ load'.shown = l.shown /\ load'.revision = l.revision
          /\ load'.generation = l.generation
      BY <2>1 DEF Loader
    <2>4. launch.revision = l.revision /\ launch.generation = l.generation
          /\ launch.plan = l.catalog /\ launch.evidence = Seen(w)
      BY DEF launch
    <2>5. page' = [p EXCEPT !.stage = "loading", !.tables = 0, !.generation = l.generation]
      BY <2>1, <2>4 DEF MergeCatalog, Agree, Loader, PlanPage
    <2>6. /\ page' \in PlanPage /\ ~page'.complete /\ page'.tables = 0
          /\ page'.revision = p.revision /\ page'.quality = p.quality
          /\ page'.identity = p.identity /\ page'.generation = l.generation
      BY <2>5 DEF PlanPage, Loader
    <2>7. /\ launches' \in Seq(Diagnosis) /\ Len(launches') = Len(launches) + 1
          /\ launches'[Len(launches')] = launch /\ Len(launches) \in Nat
      BY <2>1, <2>2 DEF PipelineInv, PipelineTypes
    <2>8. running' \in SUBSET (1..Len(launches'))
      BY <2>1, <2>7 DEF PipelineInv, PipelineTypes
    <2>9. PipelineTypes'
      BY <2>3, <2>6, <2>7, <2>8 DEF PipelineTypes
    <2>10. (Agree(page, load) /\ KeptBest(load, got) /\ TablesOf(page, launches))'
      BY <2>3, <2>6 DEF Agree, KeptBest, TablesOf, Loader
    <2>11. LastIsCurrent' /\ InPhase'
      BY <2>3, <2>4, <2>6, <2>7 DEF LastIsCurrent, InPhase, Seen
    <2> QED
      BY <2>9, <2>10, <2>11 DEF PipelineInv
  <1> QED
    BY <1>1, <1>2

\* What a source can deliver is a plan of some quality and rank.
LEMMA CandidatesArePlans ==
  ASSUME NEW s \in Source \ Evidence, NEW c \in Candidates(s)
  PROVE  c \in PlanValue /\ c.quality > 0
  <1>1. s \in {"history", "relocation", "preflight", "estimate"}
    BY SourceAssumption DEF Evidence
  <1>2. Quality(s) \in 1..5 /\ catalogPlanRank(s) \in 1..5
    BY <1>1 DEF Quality, catalogPlanRank
  <1>3. Identities(s) \in SUBSET {"history", "relocation", "preflight", "estimate"}
    BY <1>1 DEF Identities
  <1> QED
    BY <1>2, <1>3 DEF Candidates, PlanValue, Identity

\* acceptCandidate shows the better plan, and diagnoses the one of the higher rank.
LEMMA AcceptKeepsInv ==
  ASSUME PipelineInv, NEW w \in SUBSET Source, waiting' = w, load.pc = "sources",
         NEW c \in PlanValue, c.quality > 0, got' = got \cup {c}, Accept(c, w),
         w \in SUBSET waiting,
         Seen(w) = Seen(waiting)
  PROVE  PipelineInv'
  <1> DEFINE shows == DisplayReplaces(c)
             serves == CatalogReplaces(c)
             revision == IF shows THEN load.revision + 1 ELSE load.revision
             next == [load EXCEPT
                        !.shown = IF shows THEN c ELSE @,
                        !.revision = revision,
                        !.generation = IF serves /\ Len(launches) > 0 /\ ~shows
                                       THEN @ + 1 ELSE @,
                        !.catalog = IF serves THEN c ELSE @]
             merged == IF shows THEN MergePlan(page, c, revision) ELSE page
  <1>1. /\ next \in Loader /\ next.pc = load.pc /\ revision \in Nat
        /\ next.shown = IF shows THEN c ELSE load.shown
        /\ next.catalog = IF serves THEN c ELSE load.catalog
        /\ next.revision = revision /\ next.generation >= load.generation
    <2>1. /\ (IF shows THEN c ELSE load.shown) \in PlanValue
          /\ (IF serves THEN c ELSE load.catalog) \in PlanValue
          /\ revision \in Nat /\ load \in Loader
      BY DEF PipelineInv, PipelineTypes, Loader
    <2>2. PICK gen \in Nat : /\ gen = IF serves /\ Len(launches) > 0 /\ ~shows
                                      THEN load.generation + 1 ELSE load.generation
                             /\ gen >= load.generation
      BY <2>1 DEF Loader
    <2>3. next = [load EXCEPT !.shown = IF shows THEN c ELSE load.shown,
                              !.revision = revision, !.generation = gen,
                              !.catalog = IF serves THEN c ELSE load.catalog]
      BY <2>2, Zenon
    <2> HIDE DEF next, revision, shows, serves
    <2> QED
      BY <2>1, <2>2, <2>3 DEF Loader
  <1>2. KeptBest(next, got')
    <2>1. /\ shows <=> \/ c.quality > load.shown.quality
                       \/ /\ c.quality = load.shown.quality
                          /\ c.identity = load.shown.identity
          /\ serves <=> \/ c.rank > load.catalog.rank
                        \/ /\ c.rank = load.catalog.rank
                           /\ c.identity = load.catalog.identity
      BY DEF DisplayReplaces, CatalogReplaces
    <2>2. /\ load.shown.quality \in Nat /\ load.catalog.rank \in Nat
          /\ load.revision \in Nat /\ c.quality \in Nat /\ c.rank \in Nat
      BY DEF PipelineInv, PipelineTypes, Loader, PlanValue
    <2>3. \A d \in got : /\ d.quality \in Nat /\ d.quality <= load.shown.quality
                         /\ d.rank \in Nat /\ d.rank <= load.catalog.rank
      BY DEF PipelineInv, PipelineTypes, KeptBest, PlanValue
    <2> HIDE DEF next, shows, serves
    <2>4. ASSUME NEW d \in got'
          PROVE  d.quality <= next.shown.quality /\ d.rank <= next.catalog.rank
      BY <1>1, <2>1, <2>2, <2>3
    <2>5. load.shown.quality > 0 => load.revision > 0
      BY DEF PipelineInv, KeptBest
    <2>6. next.revision > 0
      BY <1>1, <2>1, <2>2, <2>5
    <2> QED
      BY <2>4, <2>6 DEF KeptBest
  <1>3. ~page.complete
    BY DEF PipelineInv, InPhase
  <1>4. /\ merged \in PlanPage /\ ~merged.complete /\ Agree(merged, next)
        /\ TablesOf(merged, launches)
    <2>1. CASE shows
      <3>1. ReplacesPlan(page, c, revision)
        BY <2>1 DEF PipelineInv, PipelineTypes, Agree, DisplayReplaces, ReplacesPlan, PlanPage,
          Loader, PlanValue
      <3>2. merged = [page EXCEPT !.quality = c.quality, !.identity = c.identity,
                                  !.revision = revision, !.generation = 0, !.tables = 0]
        BY <2>1, <3>1 DEF MergePlan
      <3>3. /\ merged \in PlanPage /\ ~merged.complete /\ merged.quality = c.quality
            /\ merged.identity = c.identity /\ merged.revision = revision
            /\ merged.generation = 0 /\ merged.tables = 0
        <4> HIDE DEF revision, merged
        <4>1. page \in PlanPage /\ revision \in Nat /\ c.quality \in 0..5
              /\ c.identity \in Identity
          BY <1>1 DEF PipelineInv, PipelineTypes, PlanValue
        <4> QED
          BY <1>3, <3>2, <4>1 DEF PlanPage
      <3> HIDE DEF next, merged, revision
      <3> QED
        BY <1>1, <2>1, <3>3 DEF Agree, TablesOf, Loader
    <2>2. CASE ~shows
      <3>1. merged = page
        BY <2>2
      <3>2. revision = load.revision
        BY <2>2
      <3> HIDE DEF next, merged, revision
      <3> QED
        BY <1>1, <1>3, <2>2, <3>1, <3>2 DEF PipelineInv, PipelineTypes, Agree, PlanPage, Loader
    <2> QED
      BY <2>1, <2>2
  <1>5. got' \in SUBSET PlanValue
    BY DEF PipelineInv, PipelineTypes
  <1>6. CASE shows \/ serves
    <2>1. Launch(next, merged, w)
      BY <1>6 DEF Accept
    <2> HIDE DEF next, merged
    <2> QED
      BY <1>1, <1>2, <1>4, <1>5, <2>1, LaunchKeepsInv
  <1>7. CASE ~(shows \/ serves)
    <2>1. /\ load' = next /\ page' = page /\ UNCHANGED <<launches, running>>
      BY <1>7 DEF Accept
    <2>2. next.generation = load.generation /\ next.shown = load.shown
          /\ next.catalog = load.catalog /\ revision = load.revision
      BY <1>7 DEF PipelineInv, PipelineTypes, Loader
    <2> HIDE DEF next, merged, revision
    <2>3. PipelineTypes'
      BY <1>1, <1>5, <2>1 DEF PipelineInv, PipelineTypes
    <2>4. (Agree(page, load) /\ TablesOf(page, launches))'
      BY <1>1, <2>1, <2>2 DEF PipelineInv, Agree, TablesOf
    <2>5. LastIsCurrent' /\ InPhase'
      BY <1>1, <1>3, <2>1, <2>2 DEF PipelineInv, LastIsCurrent, InPhase, Seen
    <2> QED
      BY <1>2, <2>1, <2>3, <2>4, <2>5 DEF PipelineInv
  <1> QED
    BY <1>6, <1>7

\* The captured session is the first to bring a plan, or brings none.
LEMMA CapturedKeepsInv ==
  ASSUME PipelineInv, NEW runtime \in BOOLEAN,
         CapturedPlan(runtime) \/ CapturedNothing(runtime)
  PROVE  PipelineInv'
  <1>1. /\ load.shown = NoPlan /\ load.catalog = NoPlan /\ load.revision = 0 /\ got = {}
        /\ load.pc = "captured" /\ ~page.complete
    BY DEF PipelineInv, InPhase, CapturedPlan, CapturedNothing
  <1>2. CASE CapturedNothing(runtime)
    <2>1. /\ load' = [load EXCEPT !.pc = "sources", !.runtime = runtime]
          /\ waiting' = Source
          /\ UNCHANGED <<page, got, launches, running>>
      BY <1>2 DEF CapturedNothing
    <2>2. /\ load' \in Loader /\ load'.pc = "sources" /\ load'.shown = load.shown
          /\ load'.catalog = load.catalog /\ load'.revision = load.revision
          /\ load'.generation = load.generation
      BY <2>1 DEF PipelineInv, PipelineTypes, Loader
    <2>3. PipelineTypes'
      BY <2>1, <2>2 DEF PipelineInv, PipelineTypes
    <2> QED
      BY <1>1, <2>1, <2>2, <2>3 DEF PipelineInv, Agree, KeptBest, TablesOf, LastIsCurrent,
        InPhase, NoPlan
  <1>3. CASE CapturedPlan(runtime)
    <2> DEFINE plan(n) == [quality |-> 5, rank |-> 5, identity |-> "captured", nodes |-> n]
               capturing(n) == [load EXCEPT !.pc = "sources", !.runtime = runtime,
                                         !.shown = plan(n), !.catalog = plan(n),
                                         !.revision = 1]
    <2>1. PICK n \in BOOLEAN : /\ got' = {plan(n)} /\ waiting' = Source
                               /\ Launch(capturing(n), MergePlan(page, plan(n), 1), Source)
      BY <1>3 DEF CapturedPlan
    <2>2. /\ plan(n) \in PlanValue /\ plan(n).quality = 5 /\ plan(n).rank = 5
          /\ plan(n).identity = "captured"
      BY DEF PlanValue, Identity
    <2> HIDE DEF plan
    <2>3. /\ capturing(n) \in Loader /\ capturing(n).pc = "sources"
          /\ capturing(n).shown = plan(n) /\ capturing(n).catalog = plan(n)
          /\ capturing(n).revision = 1 /\ capturing(n).generation \in Nat
      BY <2>2 DEF PipelineInv, PipelineTypes, Loader
    <2>4. /\ MergePlan(page, plan(n), 1) \in PlanPage /\ ~MergePlan(page, plan(n), 1).complete
          /\ Agree(MergePlan(page, plan(n), 1), capturing(n))
          /\ TablesOf(MergePlan(page, plan(n), 1), launches)
      <3>1. page.quality = 0
        BY <1>1 DEF PipelineInv, Agree, NoPlan
      <3>2. MergePlan(page, plan(n), 1) =
              [page EXCEPT !.quality = 5, !.identity = "captured", !.revision = 1,
                           !.generation = 0, !.tables = 0]
        BY <2>2, <3>1 DEF MergePlan, ReplacesPlan
      <3>3. /\ MergePlan(page, plan(n), 1) \in PlanPage
            /\ MergePlan(page, plan(n), 1).quality = 5
            /\ MergePlan(page, plan(n), 1).identity = "captured"
            /\ MergePlan(page, plan(n), 1).revision = 1
            /\ MergePlan(page, plan(n), 1).generation = 0
            /\ MergePlan(page, plan(n), 1).tables = 0
            /\ ~MergePlan(page, plan(n), 1).complete
        <4>1. PICK m : m = MergePlan(page, plan(n), 1)
          OBVIOUS
        <4>2. page \in PlanPage /\ ~page.complete
          BY <1>1 DEF PipelineInv, PipelineTypes
        <4>3. m = [page EXCEPT !.quality = 5, !.identity = "captured", !.revision = 1,
                               !.generation = 0, !.tables = 0]
          BY <3>2, <4>1, Zenon
        <4>4. /\ m \in PlanPage /\ m.quality = 5 /\ m.identity = "captured" /\ m.revision = 1
              /\ m.generation = 0 /\ m.tables = 0 /\ ~m.complete
          <5>1. "captured" \in Identity /\ 5 \in 0..5 /\ 0 \in Nat /\ 1 \in Nat
            BY DEF Identity
          <5> QED
            BY <4>2, <4>3, <5>1 DEF PlanPage
        <4> QED
          BY <4>1, <4>4, Zenon
      <3> HIDE DEF capturing
      <3> QED
        BY <2>2, <2>3, <3>3 DEF Agree, TablesOf
    <2>5. KeptBest(capturing(n), got')
      <3> HIDE DEF capturing
      <3> QED
        BY <2>1, <2>2, <2>3 DEF KeptBest
    <2>6. got' \in SUBSET PlanValue
      BY <2>1, <2>2
    <2> HIDE DEF capturing
    <2> QED
      BY <2>1, <2>3, <2>4, <2>5, <2>6, LaunchKeepsInv
  <1> QED
    BY <1>2, <1>3

\* A source answers with a plan, with nothing or with evidence.
LEMMA SourceKeepsInv ==
  ASSUME PipelineInv, NEW s \in waiting,
         PlanArrives(s) \/ SourceEmpty(s) \/ EvidenceArrives(s)
  PROVE  PipelineInv'
  <1>1. load.pc = "sources" /\ waiting' = waiting \ {s} /\ ~page.complete
    BY DEF PipelineInv, InPhase, PlanArrives, SourceEmpty, EvidenceArrives
  <1>2. s \in Source /\ waiting \ {s} \in SUBSET Source
    BY DEF PipelineInv, PipelineTypes
  <1>3. CASE PlanArrives(s)
    <2>1. s \in Source \ Evidence
      BY <1>2, <1>3 DEF PlanArrives
    <2>2. PICK c \in Candidates(s) : got' = got \cup {c} /\ Accept(c, waiting \ {s})
      BY <1>3 DEF PlanArrives
    <2>3. c \in PlanValue /\ c.quality > 0
      BY <2>1, CandidatesArePlans
    <2>4. Seen(waiting \ {s}) = Seen(waiting)
      BY <2>1 DEF Seen
    <2> QED
      BY <1>1, <1>2, <2>2, <2>3, <2>4, AcceptKeepsInv
  <1>4. CASE SourceEmpty(s)
    <2>1. /\ Seen(waiting) = Seen(waiting \ {s})
          /\ UNCHANGED <<page, load, got, launches, running>>
      BY <1>4 DEF Seen, SourceEmpty
    <2> QED
      BY <1>1, <1>2, <2>1 DEF PipelineInv, PipelineTypes, Agree, KeptBest, TablesOf,
        LastIsCurrent, InPhase, Seen
  <1>5. CASE EvidenceArrives(s)
    <2> DEFINE next == [load EXCEPT !.generation = @ + 1]
    <2>1. /\ UNCHANGED got
          /\ IF load.revision > 0 THEN Launch(next, page, waiting \ {s})
             ELSE load' = next /\ UNCHANGED <<page, launches, running>>
      BY <1>5 DEF EvidenceArrives
    <2>2. /\ next \in Loader /\ next.pc = load.pc /\ next.shown = load.shown
          /\ next.catalog = load.catalog /\ next.revision = load.revision
          /\ next.generation = load.generation + 1
      BY DEF PipelineInv, PipelineTypes, Loader
    <2> HIDE DEF next
    <2>3. Agree(page, next) /\ KeptBest(next, got') /\ TablesOf(page, launches)
      BY <2>1, <2>2 DEF PipelineInv, PipelineTypes, Agree, KeptBest, PlanPage, Loader
    <2>4. page \in PlanPage /\ got' \in SUBSET PlanValue
      BY <2>1 DEF PipelineInv, PipelineTypes
    <2>5. CASE load.revision > 0
      BY <1>1, <1>2, <2>1, <2>2, <2>3, <2>4, <2>5, LaunchKeepsInv
    <2>6. CASE ~(load.revision > 0)
      <3>1. load' = next /\ UNCHANGED <<page, launches, running>>
        BY <2>1, <2>6
      <3>2. ~load.catalog.nodes
        BY <2>6 DEF PipelineInv, KeptBest
      <3>3. PipelineTypes'
        BY <1>1, <2>1, <2>2, <3>1 DEF PipelineInv, PipelineTypes
      <3> QED
        BY <1>1, <2>1, <2>2, <2>3, <3>1, <3>2, <3>3 DEF PipelineInv, Agree, KeptBest, TablesOf,
          LastIsCurrent, InPhase
    <2> QED
      BY <2>5, <2>6
  <1> QED
    BY <1>3, <1>4, <1>5

\* A diagnosis fills the tables only when it is the latest, and of the plan shown.
LEMMA DiagnosisKeepsInv ==
  ASSUME PipelineInv, NEW n \in running, NEW ready \in BOOLEAN, DiagnosisArrives(n, ready)
  PROVE  PipelineInv'
  <1>1. /\ load.pc = "sources" /\ ~page.complete
        /\ running' = running \ {n} /\ UNCHANGED <<waiting, got, launches>>
    BY DEF PipelineInv, InPhase, DiagnosisArrives
  <1>2. n \in 1..Len(launches) /\ Len(launches) \in Nat /\ launches[n] \in Diagnosis
    BY DEF PipelineInv, PipelineTypes
  <1>3. CASE ~Current(n)
    <2>1. UNCHANGED <<page, load>>
      BY <1>3 DEF DiagnosisArrives
    <2>2. PipelineTypes'
      BY <1>1, <2>1 DEF PipelineInv, PipelineTypes
    <2> QED
      BY <1>1, <2>1, <2>2 DEF PipelineInv, Agree, KeptBest, TablesOf, LastIsCurrent, InPhase,
        Seen
  <1>4. CASE Current(n)
    <2> DEFINE state == IF ready THEN "ready" ELSE "failed"
               tables == IF ready THEN n ELSE 0
    <2>1. /\ load' = [load EXCEPT !.latestDone = TRUE]
          /\ page' = MergeCatalog(page, launches[n], state, tables)
      BY <1>4 DEF DiagnosisArrives
    <2>2. /\ load' \in Loader /\ load'.pc = load.pc /\ load'.shown = load.shown
          /\ load'.catalog = load.catalog /\ load'.revision = load.revision
          /\ load'.generation = load.generation
      BY <2>1 DEF PipelineInv, PipelineTypes, Loader
    <2>3. n = Len(launches) /\ launches[n].revision = load.revision
          /\ launches[n].generation = load.generation
      BY <1>4 DEF Current
    <2>4. state \in {"ready", "failed"} /\ tables \in {0, n} /\ tables \in Nat
      BY <1>2
    <2> HIDE DEF state, tables
    <2>5. page' = [page EXCEPT !.stage = state, !.tables = tables,
                               !.generation = load.generation]
      BY <2>1, <2>3 DEF MergeCatalog, PipelineInv, PipelineTypes, Agree, PlanPage, Loader
    <2>6. /\ page' \in PlanPage /\ ~page'.complete /\ page'.tables = tables
          /\ page'.revision = page.revision /\ page'.quality = page.quality
          /\ page'.identity = page.identity /\ page'.generation = load.generation
      BY <1>1, <2>4, <2>5 DEF PipelineInv, PipelineTypes, PlanPage, Loader
    <2>7. PipelineTypes'
      BY <1>1, <2>2, <2>6 DEF PipelineInv, PipelineTypes
    <2>8. (Agree(page, load) /\ KeptBest(load, got) /\ TablesOf(page, launches))'
      BY <1>1, <1>2, <2>2, <2>3, <2>4, <2>6 DEF PipelineInv, PipelineTypes, Agree, KeptBest,
        TablesOf, Loader
    <2>9. LastIsCurrent' /\ InPhase'
      BY <1>1, <2>2, <2>3, <2>4, <2>6 DEF PipelineInv, LastIsCurrent, InPhase, Seen
    <2> QED
      BY <2>7, <2>8, <2>9 DEF PipelineInv
  <1> QED
    BY <1>3, <1>4

\* The end of a load, complete or cancelled, changes neither plan nor tables.
LEMMA EndKeepsInv ==
  ASSUME PipelineInv,
         \/ PipelineComplete \/ CancelPipeline \/ PipelineCanceled \/ WorkerEnds
         \/ LoadReturns
  PROVE  PipelineInv'
  <1>1. /\ load' \in Loader /\ load'.shown = load.shown /\ load'.catalog = load.catalog
        /\ load'.revision = load.revision /\ load'.generation = load.generation
        /\ UNCHANGED <<got, launches>>
    BY DEF PipelineInv, PipelineTypes, Loader, PipelineComplete, CancelPipeline,
      PipelineCanceled, WorkerEnds, LoadReturns
  <1>2. /\ page' \in PlanPage /\ page'.tables = page.tables /\ page'.revision = page.revision
        /\ page'.quality = page.quality /\ page'.identity = page.identity
        /\ page'.generation = page.generation
        /\ waiting' \in SUBSET waiting /\ running' \in SUBSET running
    <2>1. CASE PipelineComplete
      BY <2>1 DEF PipelineInv, PipelineTypes, PlanPage, PipelineComplete
    <2>2. CASE CancelPipeline \/ PipelineCanceled \/ WorkerEnds \/ LoadReturns
      BY <2>2 DEF PipelineInv, PipelineTypes, CancelPipeline, PipelineCanceled, WorkerEnds,
        LoadReturns
    <2> QED
      BY <2>1, <2>2
  <1>3. PipelineTypes'
    BY <1>1, <1>2 DEF PipelineInv, PipelineTypes
  <1>4. (Agree(page, load) /\ KeptBest(load, got) /\ TablesOf(page, launches))'
    BY <1>1, <1>2 DEF PipelineInv, Agree, KeptBest, TablesOf
  <1>5. LastIsCurrent' /\ InPhase'
    <2>1. CASE PipelineComplete
      <3>1. page'.complete /\ load'.pc = "complete" /\ load.pc = "sources" /\ waiting = {}
            /\ waiting' = {}
        BY <2>1 DEF PipelineComplete, PipelineInv, PipelineTypes, PlanPage, Loader
      <3> QED
        BY <1>1, <1>2, <3>1 DEF PipelineInv, LastIsCurrent, InPhase, Seen
    <2>2. CASE CancelPipeline
      <3>1. load'.pc = load.pc /\ UNCHANGED <<page, waiting>>
        BY <2>2 DEF CancelPipeline, PipelineInv, PipelineTypes, Loader
      <3> QED
        BY <1>1, <3>1 DEF PipelineInv, LastIsCurrent, InPhase, Seen
    <2>3. CASE PipelineCanceled
      <3>1. load'.pc = "ending" /\ load.pc \in {"captured", "sources"}
            /\ UNCHANGED <<page, waiting>>
        BY <2>3 DEF PipelineCanceled, PipelineInv, PipelineTypes, Loader
      <3> QED
        BY <1>1, <3>1 DEF PipelineInv, LastIsCurrent, InPhase, Seen
    <2>4. CASE WorkerEnds
      <3>1. load.pc \in {"ending", "complete"} /\ UNCHANGED <<page, load>>
            /\ (waiting = {} => waiting' = {})
        BY <2>4 DEF WorkerEnds
      <3> QED
        BY <1>1, <3>1 DEF PipelineInv, LastIsCurrent, InPhase, Seen
    <2>5. CASE LoadReturns
      <3>1. load'.pc = "returned" /\ load.pc \in {"ending", "complete"}
            /\ UNCHANGED <<page, waiting>>
        BY <2>5 DEF LoadReturns, PipelineInv, PipelineTypes, Loader
      <3> QED
        BY <1>1, <3>1 DEF PipelineInv, LastIsCurrent, InPhase, Seen
    <2> QED
      BY <2>1, <2>2, <2>3, <2>4, <2>5
  <1> QED
    BY <1>3, <1>4, <1>5 DEF PipelineInv

\* The steps above are all there are.
LEMMA PipelineInvNext ==
  ASSUME PipelineInv, [PipelineNext]_pipelineVars
  PROVE  PipelineInv'
  <1>1. CASE PipelineNext
    BY <1>1, CapturedKeepsInv, SourceKeepsInv, DiagnosisKeepsInv, EndKeepsInv
    DEF PipelineNext, Delivers
  <1>2. CASE UNCHANGED pipelineVars
    BY <1>2 DEF pipelineVars, PipelineInv, PipelineTypes, Agree, KeptBest, TablesOf,
      LastIsCurrent, InPhase, Seen
  <1> QED
    BY <1>1, <1>2

\* Whatever the sources and diagnoses deliver, and in whatever order, the tables on
\* the page are of its plan, a complete page shows the best plan that arrived, and
\* its diagnosis rests on the plan of the best rank and all the evidence
\* (acceptCandidate, launchCatalog, MergeDetailPatch).
THEOREM PageIsConsistent == PipelineSpec => []PipelineSafety
  <1>1. PipelineInv => PipelineSafety
    <2> SUFFICES ASSUME PipelineInv PROVE PipelineSafety
      OBVIOUS
    <2>1. TablesMatchPlan
      BY DEF PipelineInv, Agree, TablesOf, TablesMatchPlan
    <2>2. BestPlanShown
      BY DEF PipelineInv, Agree, KeptBest, BestPlanShown
    <2>3. DiagnosisIsFinal
      <3> SUFFICES ASSUME page.complete, page.tables # 0, load.catalog.nodes
                   PROVE  /\ \A c \in got : c.rank <= launches[page.tables].plan.rank
                          /\ launches[page.tables].evidence = Source \cap Evidence
        BY DEF DiagnosisIsFinal
      <3>1. launches[page.tables].plan = load.catalog
            /\ launches[page.tables].evidence = Seen(waiting) /\ waiting = {}
        BY DEF PipelineInv, LastIsCurrent, InPhase
      <3> QED
        BY <3>1 DEF PipelineInv, KeptBest, Seen
    <2> QED
      BY <2>1, <2>2, <2>3 DEF PipelineSafety
  <1> QED
    BY <1>1, PipelineInvInit, PipelineInvNext, PTL DEF PipelineSpec

-----------------------------------------------------------------------------
(* The database panel (DbPanel).                                             *)

\* The values of the state: times, nodes, what is kept, shown and shared.
Tick == 0..LastTick
Node == ClusterNode \cup {NoNode}
Info == [version : BOOLEAN, role : {"unknown", "primary", "standby"}]
Memory == [read : Tick, shown : Tick]
Samples == [newest : Tick, rate : Tick, wait : Tick]
Span == [from : Tick, to : Tick]
Rates == [rate : Span, wait : Span]
Cache == [version : BOOLEAN, node : Node, counter : 0..(PriEvery + 1), pcache : Memory,
          busy : Samples]
Refresh == [cell : 0..6, saved : Cache, info : Info, commits : BOOLEAN,
            checked : Tick, rates : Rates]
Tiles == [version : BOOLEAN, node : Node, pcache : Memory, checked : Tick, rates : Rates]

PanelTypes ==
  /\ cluster \in [now : 1..LastTick, primary : ClusterNode, busy : BOOLEAN]
  /\ gate \in 0..cluster.now
  /\ dbCache \in Cache /\ dbRefresh \in Refresh /\ dbInfo \in Info /\ dbTiles \in Tiles

\* Cache c is as the last refresh shown left it: it agrees with the panel, with the
\* shared metadata and with the gate.
Settled(c) ==
  /\ c.version = dbTiles.version /\ c.node = dbTiles.node
  /\ c.counter <= PriEvery
  /\ c.version \/ c.node # NoNode => dbInfo.role = RoleOf(c.node)
  /\ dbInfo.version = c.version
  /\ gate # 0 => c.pcache.read # 0 /\ c.pcache.shown = gate
  /\ c.busy.rate = dbTiles.rates.rate.to /\ c.busy.wait = c.busy.rate

\* What the rates of a refresh under way are computed from.
Measured ==
  LET r == dbRefresh IN
  /\ dbTiles.rates.rate = dbTiles.rates.wait
  /\ r.cell \in 1..4 => dbCache.busy = r.saved.busy
  /\ r.cell = 5 => /\ dbCache.busy.rate = dbCache.busy.newest
                   /\ dbCache.busy.wait = r.saved.busy.wait
                   /\ r.rates.rate = [from |-> r.saved.busy.rate, to |-> dbCache.busy.rate]
  /\ r.cell = 6 => /\ dbCache.busy.wait = dbCache.busy.rate
                   /\ r.rates.rate.to = dbCache.busy.rate
                   /\ r.rates.wait = r.rates.rate

\* A refresh under way can be undone, and knows what it will commit.
Undoable ==
  LET r == dbRefresh IN
  /\ Settled(IF r.cell = 0 THEN dbCache ELSE r.saved)
  /\ r.cell > 0 =>
       /\ r.info.version = dbCache.version
       /\ dbCache.node # NoNode => r.info.role = RoleOf(dbCache.node)
       /\ r.cell >= 3 => r.info.role = RoleOf(dbCache.node) /\ dbCache.counter <= PriEvery
       /\ IF r.commits
          THEN dbCache.pcache.read # 0 /\ r.checked <= cluster.now
          ELSE /\ dbCache.pcache = r.saved.pcache
               /\ r.checked # 0 => gate # 0 /\ gate > r.checked - GateInterval

\* The inductive invariant of the panel.
PanelInv == PanelTypes /\ Undoable /\ Measured /\ MemoryIsPaced

\* Nothing is known, shown or shared before the first refresh.
LEMMA PanelInvInit ==
  ASSUME DbPanelInit
  PROVE  PanelInv
  <1>1. 0 \in Tick /\ 0 \in 0..(PriEvery + 1) /\ 1 \in 1..LastTick
    BY DbPanelAssumption DEF Tick
  <1>2. Idle.saved \in Cache /\ NoInfo \in Info
    BY <1>1 DEF Idle, NoInfo, NoMemory, NoSamples, Cache, Memory, Samples, Info, Node
  <1>3. Idle \in Refresh
    BY <1>1, <1>2 DEF Idle, NoInfo, NoMemory, NoRates, Refresh, Rates, Span
  <1>4. PanelTypes
    <2>1. /\ cluster \in [now : 1..LastTick, primary : ClusterNode, busy : BOOLEAN]
          /\ gate \in 0..cluster.now
      <3>1. /\ cluster = [now |-> cluster.now, primary |-> cluster.primary,
                          busy |-> cluster.busy]
            /\ cluster.now = 1 /\ cluster.primary \in ClusterNode /\ cluster.busy = FALSE
        BY DEF DbPanelInit
      <3>2. gate \in 0..cluster.now
        BY <3>1 DEF DbPanelInit
      <3>3. cluster.now \in 1..LastTick /\ cluster.busy \in BOOLEAN
        BY <1>1, <3>1
      <3> QED
        BY <3>1, <3>2, <3>3
    <2>2. dbTiles \in Tiles
      BY <1>1 DEF DbPanelInit, Tiles, Memory, NoMemory, NoRates, Rates, Span, Node
    <2> QED
      BY <1>2, <1>3, <2>1, <2>2 DEF DbPanelInit, PanelTypes
  <1>5. Settled(dbCache)
    <2>1. /\ dbCache.version = FALSE /\ dbCache.node = NoNode /\ dbCache.counter = 0
          /\ dbTiles.version = FALSE /\ dbTiles.node = NoNode /\ dbInfo.version = FALSE
          /\ gate = 0 /\ dbCache.busy.rate = 0 /\ dbCache.busy.wait = 0
          /\ dbTiles.rates.rate.to = 0
      BY DEF DbPanelInit, Idle, NoInfo, NoSamples, NoRates
    <2>2. 0 <= PriEvery
      BY DbPanelAssumption
    <2> QED
      BY <2>1, <2>2, Zenon DEF Settled
  <1>6. dbRefresh.cell = 0 /\ dbTiles.checked = 0 /\ dbTiles.rates.rate = dbTiles.rates.wait
    BY DEF DbPanelInit, Idle, NoRates
  <1> QED
    BY <1>4, <1>5, <1>6 DEF PanelInv, Undoable, Measured, MemoryIsPaced

\* The fields of an idle refresh.
LEMMA IdleFields ==
  Idle \in Refresh /\ Idle.cell = 0 /\ Idle.commits = FALSE /\ Idle.checked = 0
  <1>1. 0 \in Tick /\ 0 \in 0..(PriEvery + 1)
    BY DbPanelAssumption DEF Tick
  <1>2. Idle.saved \in Cache /\ NoInfo \in Info
    BY <1>1 DEF Idle, NoInfo, NoMemory, NoSamples, Cache, Memory, Samples, Info, Node
  <1> QED
    BY <1>1, <1>2 DEF Idle, NoInfo, NoMemory, NoRates, Refresh, Rates, Span

\* What the cluster does is seen only when a cell is read.
LEMMA ClusterKeepsInv ==
  ASSUME PanelInv, ClusterMoves
  PROVE  PanelInv'
  <1>1. UNCHANGED <<gate, dbCache, dbRefresh, dbInfo, dbTiles>>
    BY DEF ClusterMoves
  <1>2. cluster'.now >= cluster.now
        /\ cluster' \in [now : 1..LastTick, primary : ClusterNode, busy : BOOLEAN]
    <2>1. CASE cluster.now < LastTick /\ cluster' = [cluster EXCEPT !.now = @ + 1]
      <3>1. PICK t \in Nat : t = cluster.now + 1
        BY DEF PanelInv, PanelTypes
      <3>2. t \in 1..LastTick /\ t >= cluster.now
        BY <2>1, <3>1, DbPanelAssumption DEF PanelInv, PanelTypes
      <3>3. cluster' = [cluster EXCEPT !.now = t]
        BY <2>1, <3>1, Zenon
      <3> QED
        BY <3>2, <3>3 DEF PanelInv, PanelTypes
    <2>2. CASE \E n \in ClusterNode \ {cluster.primary} :
                 cluster' = [cluster EXCEPT !.primary = n]
      BY <2>2 DEF PanelInv, PanelTypes
    <2>3. CASE cluster' = [cluster EXCEPT !.busy = ~@]
      <3>1. PICK b \in BOOLEAN : b = ~cluster.busy
        BY Zenon
      <3>2. cluster' = [cluster EXCEPT !.busy = b]
        BY <2>3, <3>1, Zenon
      <3> QED
        BY <3>2 DEF PanelInv, PanelTypes
    <2> QED
      BY <2>1, <2>2, <2>3 DEF ClusterMoves
  <1>3. PanelTypes'
    BY <1>1, <1>2 DEF PanelInv, PanelTypes
  <1> QED
    BY <1>1, <1>2, <1>3 DEF PanelInv, PanelTypes, Undoable, Settled, Measured, MemoryIsPaced,
      Refresh, Tick

\* A refresh that starts saves what one that fails puts back.
LEMMA StartAndFailKeepInv ==
  ASSUME PanelInv, DbRefreshStarts \/ DbCellFails
  PROVE  PanelInv'
  <1>1. UNCHANGED <<cluster, gate, dbInfo, dbTiles>>
    BY DEF DbRefreshStarts, DbCellFails
  <1>2. CASE DbRefreshStarts
    <2>1. /\ dbRefresh.cell = 0
          /\ dbRefresh' = [Idle EXCEPT !.cell = 1, !.saved = dbCache, !.info = dbInfo]
          /\ dbCache' = [dbCache EXCEPT !.counter = @ + 1]
      BY <1>2 DEF DbRefreshStarts
    <2>2. dbCache.counter \in 0..PriEvery
      BY <2>1 DEF PanelInv, PanelTypes, Undoable, Settled, Cache
    <2>3. /\ dbCache' \in Cache /\ dbCache'.version = dbCache.version
          /\ dbCache'.node = dbCache.node /\ dbCache'.pcache = dbCache.pcache
          /\ dbCache'.busy = dbCache.busy
      BY <2>1, <2>2, DbPanelAssumption DEF PanelInv, PanelTypes, Cache
    <2>4. /\ dbRefresh' \in Refresh /\ dbRefresh'.cell = 1 /\ dbRefresh'.saved = dbCache
          /\ dbRefresh'.info = dbInfo /\ ~dbRefresh'.commits /\ dbRefresh'.checked = 0
      <3>1. 1 \in 0..(Len(DbCells) + 1)
        BY DEF DbCells
      <3> QED
        <4>1. dbInfo \in Info /\ dbCache \in Cache /\ 1 \in 0..6
          BY DEF PanelInv, PanelTypes
        <4> QED
          BY <2>1, <4>1, IdleFields DEF Refresh
    <2>5. PanelTypes' /\ MemoryIsPaced'
      BY <1>1, <2>3, <2>4 DEF PanelInv, PanelTypes, MemoryIsPaced
    <2>6. Undoable'
      BY <1>1, <2>1, <2>3, <2>4 DEF PanelInv, Undoable, Settled
    <2>7. Measured'
      BY <1>1, <2>3, <2>4 DEF PanelInv, Measured
    <2> QED
      BY <2>5, <2>6, <2>7 DEF PanelInv
  <1>3. CASE DbCellFails
    <2>1. dbRefresh.cell > 0 /\ dbCache' = dbRefresh.saved /\ dbRefresh' = Idle
      BY <1>3 DEF DbCellFails, Restores, DbCells
    <2> QED
      BY <1>1, <2>1, IdleFields DEF PanelInv, PanelTypes, Refresh, Undoable, Settled,
        Measured, MemoryIsPaced
  <1> QED
    BY <1>2, <1>3

\* A cell that is read changes the cache, not what the refresh saved.
LEMMA CellsKeepInv ==
  ASSUME PanelInv, VersionCell \/ NodeCell \/ MemoryCell \/ BusyCell \/ WaitCell
  PROVE  PanelInv'
  <1>1. UNCHANGED <<cluster, gate, dbInfo, dbTiles>>
    BY DEF VersionCell, NodeCell, MemoryCell, BusyCell, WaitCell, CommitsLater
  <1>2. Len(DbCells) = 5 /\ DbCells[1] = "version" /\ DbCells[2] = "PRI"
        /\ DbCells[3] = "pcache" /\ DbCells[4] = "db%" /\ DbCells[5] = "WTR%"
        /\ DOMAIN DbCells = 1..5
    BY DEF DbCells
  <1>a. 2 \in 0..6 /\ 3 \in 0..6 /\ 4 \in 0..6 /\ 5 \in 0..6 /\ 6 \in 0..6
      /\ TRUE \in BOOLEAN
    OBVIOUS
  <1>3. CASE VersionCell
    <2>1. /\ dbCache' = [dbCache EXCEPT !.version = TRUE]
          /\ dbRefresh' = [dbRefresh EXCEPT
                 !.cell = @ + 1,
                 !.info.version = IF dbCache.version THEN @ ELSE TRUE]
      BY <1>3 DEF VersionCell
    <2>2. dbRefresh.cell = 1
      BY <1>2, <1>3 DEF VersionCell, DbAt
    <2>3. dbRefresh.info.version = dbCache.version
      BY <2>2 DEF PanelInv, Undoable
    <2>4. /\ dbCache' \in Cache /\ dbCache'.version = TRUE /\ dbCache'.node = dbCache.node
          /\ dbCache'.counter = dbCache.counter /\ dbCache'.pcache = dbCache.pcache
          /\ dbCache'.busy = dbCache.busy
      BY <2>1 DEF PanelInv, PanelTypes, Cache
    <2>5. /\ dbRefresh' = [dbRefresh EXCEPT !.cell = 2,
                                           !.info = [dbRefresh.info EXCEPT !.version = TRUE]]
          /\ [dbRefresh.info EXCEPT !.version = TRUE] \in Info
          /\ [dbRefresh.info EXCEPT !.version = TRUE].version = TRUE
          /\ [dbRefresh.info EXCEPT !.version = TRUE].role = dbRefresh.info.role
      <3>1. /\ (IF dbCache.version THEN dbRefresh.info.version ELSE TRUE) = TRUE
            /\ dbRefresh.cell + 1 = 2
        BY <2>2, <2>3 DEF PanelInv, PanelTypes, Cache
      <3>2. dbRefresh' = [dbRefresh EXCEPT !.cell = 2, !.info.version = TRUE]
        BY <2>1, <3>1, Zenon
      <3>3. dbRefresh' = [dbRefresh EXCEPT !.cell = 2,
                                         !.info = [dbRefresh.info EXCEPT !.version = TRUE]]
        BY <3>2 DEF PanelInv, PanelTypes, Refresh
      <3> QED
        BY <3>3 DEF PanelInv, PanelTypes, Refresh, Info
    <2>6. /\ dbRefresh' \in Refresh /\ dbRefresh'.cell = 2
          /\ dbRefresh'.saved = dbRefresh.saved /\ dbRefresh'.commits = dbRefresh.commits
          /\ dbRefresh'.checked = dbRefresh.checked /\ dbRefresh'.info.version = TRUE
          /\ dbRefresh'.info.role = dbRefresh.info.role
          /\ dbRefresh'.rates = dbRefresh.rates
      <3>1. PICK i \in Info : /\ i = [dbRefresh.info EXCEPT !.version = TRUE]
                              /\ i.version = TRUE /\ i.role = dbRefresh.info.role
        BY <2>5
      <3>2. dbRefresh' = [dbRefresh EXCEPT !.cell = 2, !.info = i]
        BY <2>5, <3>1, Zenon
      <3>3. i \in Info /\ i.version = TRUE /\ i.role = dbRefresh.info.role
        BY <3>1
      <3> QED
        BY <1>a, <3>2, <3>3 DEF PanelInv, PanelTypes, Refresh
    <2> QED
      <3>1. PanelTypes' /\ MemoryIsPaced'
        BY <1>1, <2>4, <2>6 DEF PanelInv, PanelTypes, MemoryIsPaced
      <3>2. Undoable'
        <4>1. Settled(dbRefresh.saved)
          BY <2>2 DEF PanelInv, Undoable
        <4>2. Settled(dbRefresh.saved)'
          BY <1>1, <2>6, <4>1 DEF Settled
        <4> QED
          <5>1. /\ dbCache.node # NoNode => dbRefresh.info.role = RoleOf(dbCache.node)
                /\ IF dbRefresh.commits
                   THEN dbCache.pcache.read # 0 /\ dbRefresh.checked <= cluster.now
                   ELSE /\ dbCache.pcache = dbRefresh.saved.pcache
                        /\ dbRefresh.checked # 0
                             => gate # 0 /\ gate > dbRefresh.checked - GateInterval
            BY <2>2 DEF PanelInv, Undoable
          <5>2. dbRefresh'.info.version = dbCache'.version
            BY <2>4, <2>6
          <5>3. /\ dbCache'.node # NoNode => dbRefresh'.info.role = RoleOf(dbCache'.node)
                /\ IF dbRefresh'.commits
                   THEN dbCache'.pcache.read # 0 /\ dbRefresh'.checked <= cluster'.now
                   ELSE /\ dbCache'.pcache = dbRefresh'.saved.pcache
                        /\ dbRefresh'.checked # 0
                             => gate' # 0 /\ gate' > dbRefresh'.checked - GateInterval
            BY <1>1, <2>4, <2>6, <5>1
          <5>4. dbRefresh'.cell = 2
            BY <2>6
          <5> QED
            BY <4>2, <5>2, <5>3, <5>4 DEF Undoable
      <3>3. Measured'
        BY <1>1, <2>2, <2>4, <2>6 DEF PanelInv, Measured
      <3> QED
        BY <3>1, <3>2, <3>3 DEF PanelInv
  <1>4. CASE NodeCell
    <2>1. dbRefresh.cell = 2
      BY <1>2, <1>4 DEF NodeCell, DbAt
    <2>2. CASE /\ NodeIsCached
               /\ dbRefresh' = [dbRefresh EXCEPT !.cell = @ + 1] /\ UNCHANGED dbCache
      <3>1. /\ dbRefresh' \in Refresh /\ dbRefresh'.cell = 3
            /\ dbRefresh'.saved = dbRefresh.saved /\ dbRefresh'.commits = dbRefresh.commits
            /\ dbRefresh'.checked = dbRefresh.checked /\ dbRefresh'.info = dbRefresh.info
            /\ dbRefresh'.rates = dbRefresh.rates
        BY <1>2, <2>1, <2>2 DEF PanelInv, PanelTypes, Refresh
      <3> QED
        BY <1>1, <2>1, <2>2, <3>1 DEF PanelInv, PanelTypes, Undoable, Settled, Measured,
          MemoryIsPaced, NodeIsCached
    <2>3. CASE \E node \in {cluster.primary, NoNode} :
                 /\ dbCache' = [dbCache EXCEPT !.node = node, !.counter = 0]
                 /\ dbRefresh' = [dbRefresh EXCEPT !.cell = @ + 1, !.info.role = RoleOf(node)]
      <3>1. PICK node \in Node :
                 /\ dbCache' = [dbCache EXCEPT !.node = node, !.counter = 0]
                 /\ dbRefresh' = [dbRefresh EXCEPT !.cell = @ + 1, !.info.role = RoleOf(node)]
        BY <2>3 DEF PanelInv, PanelTypes, Node
      <3>a. dbCache' = [dbCache EXCEPT !.node = node, !.counter = 0] /\ node \in Node
            /\ 0 \in 0..(PriEvery + 1)
        BY <3>1, DbPanelAssumption
      <3>b. PICK i \in Info : /\ i = [dbRefresh.info EXCEPT !.role = RoleOf(node)]
                              /\ i.version = dbRefresh.info.version /\ i.role = RoleOf(node)
        <4>1. RoleOf(node) \in {"unknown", "primary", "standby"}
          BY DEF RoleOf
        <4>2. PICK role \in {"unknown", "primary", "standby"} : role = RoleOf(node)
          BY <4>1
        <4>3. role \in {"unknown", "primary", "standby"}
          BY <4>2
        <4>4. PICK i \in Info : /\ i = [dbRefresh.info EXCEPT !.role = role]
                                /\ i.version = dbRefresh.info.version /\ i.role = role
          <5>1. dbRefresh.info \in Info
            BY DEF PanelInv, PanelTypes, Refresh
          <5> QED
            <6>1. /\ [dbRefresh.info EXCEPT !.role = role] \in Info
                  /\ [dbRefresh.info EXCEPT !.role = role].version = dbRefresh.info.version
                  /\ [dbRefresh.info EXCEPT !.role = role].role = role
              BY <4>3, <5>1 DEF Info
            <6> QED
              BY <6>1, Zenon
        <4> QED
          BY <4>2, <4>4, Zenon
      <3>c. dbRefresh' = [dbRefresh EXCEPT !.cell = 3,
                                         !.info = [dbRefresh.info EXCEPT !.role = RoleOf(node)]]
        <4>1. dbRefresh.cell + 1 = 3
          BY <2>1
        <4>2. dbRefresh' = [dbRefresh EXCEPT !.cell = 3, !.info.role = RoleOf(node)]
          BY <3>1, <4>1, Zenon
        <4> QED
          BY <4>2 DEF PanelInv, PanelTypes, Refresh
      <3>d. dbRefresh' = [dbRefresh EXCEPT !.cell = 3, !.info = i]
        BY <3>b, <3>c, Zenon
      <3>e. i \in Info /\ i.version = dbRefresh.info.version /\ i.role = RoleOf(node)
        BY <3>b
      <3>3. /\ dbCache' \in Cache /\ dbCache'.version = dbCache.version
            /\ dbCache'.node = node /\ dbCache'.counter = 0
            /\ dbCache'.pcache = dbCache.pcache /\ dbCache'.busy = dbCache.busy
        BY <3>a DEF PanelInv, PanelTypes, Cache
      <3>4. /\ dbRefresh' \in Refresh /\ dbRefresh'.cell = 3
            /\ dbRefresh'.saved = dbRefresh.saved /\ dbRefresh'.commits = dbRefresh.commits
            /\ dbRefresh'.checked = dbRefresh.checked
            /\ dbRefresh'.info.role = RoleOf(node)
            /\ dbRefresh'.info.version = dbRefresh.info.version
            /\ dbRefresh'.rates = dbRefresh.rates
        BY <1>a, <3>d, <3>e DEF PanelInv, PanelTypes, Refresh
      <3> QED
        BY <1>1, <2>1, <3>3, <3>4, DbPanelAssumption DEF PanelInv, PanelTypes, Undoable,
          Settled, Measured, MemoryIsPaced
    <2> QED
      BY <1>4, <2>2, <2>3 DEF NodeCell
  <1>5. CASE MemoryCell
    <2>1. dbRefresh.cell = 3
      BY <1>2, <1>5 DEF MemoryCell, DbAt
    <2>2. CASE /\ GateIsOpen
               /\ dbCache' = [dbCache EXCEPT !.pcache = [read |-> cluster.now, shown |-> 0]]
               /\ CommitsLater
      <3>1. cluster.now \in Tick /\ cluster.now > 0 /\ 0 \in Tick
        BY DbPanelAssumption DEF PanelInv, PanelTypes, Tick
      <3>2. /\ dbCache' \in Cache /\ dbCache'.version = dbCache.version
            /\ dbCache'.node = dbCache.node /\ dbCache'.counter = dbCache.counter
            /\ dbCache'.pcache.read = cluster.now /\ dbCache'.busy = dbCache.busy
        BY <2>2, <3>1 DEF PanelInv, PanelTypes, Cache, Memory
      <3>3. /\ dbRefresh' \in Refresh /\ dbRefresh'.cell = 4
            /\ dbRefresh'.saved = dbRefresh.saved /\ dbRefresh'.commits = TRUE
            /\ dbRefresh'.checked = cluster.now /\ dbRefresh'.info = dbRefresh.info
            /\ dbRefresh'.rates = dbRefresh.rates
        <4>1. /\ dbRefresh' = [dbRefresh EXCEPT !.cell = @ + 1, !.checked = cluster.now,
                                                !.commits = TRUE]
              /\ dbRefresh.cell + 1 = 4
          BY <2>1, <2>2 DEF CommitsLater
        <4>2. dbRefresh' = [dbRefresh EXCEPT !.cell = 4, !.checked = cluster.now,
                                             !.commits = TRUE]
          BY <4>1, Zenon
        <4> QED
          BY <1>a, <3>1, <4>2 DEF PanelInv, PanelTypes, Refresh
      <3> QED
        BY <1>1, <2>1, <3>1, <3>2, <3>3 DEF PanelInv, PanelTypes, Undoable, Settled,
          Measured, MemoryIsPaced, Tick
    <2>3. CASE /\ ~GateIsOpen
               /\ dbRefresh' = [dbRefresh EXCEPT
                      !.cell = @ + 1,
                      !.checked = IF cluster.busy THEN 0 ELSE cluster.now]
               /\ UNCHANGED <<gate, dbCache>>
      <3>1. PICK at \in Tick : /\ at = IF cluster.busy THEN 0 ELSE cluster.now
                               /\ at # 0 => gate # 0 /\ gate > at - GateInterval
        BY <2>3, DbPanelAssumption DEF PanelInv, PanelTypes, Tick, GateIsOpen
      <3>2. dbRefresh' = [dbRefresh EXCEPT !.cell = @ + 1, !.checked = at]
        BY <2>3, <3>1, Zenon
      <3>3. /\ dbRefresh' \in Refresh /\ dbRefresh'.cell = 4
            /\ dbRefresh'.saved = dbRefresh.saved /\ dbRefresh'.commits = dbRefresh.commits
            /\ dbRefresh'.checked = at /\ dbRefresh'.info = dbRefresh.info
            /\ dbRefresh'.rates = dbRefresh.rates
        <4>1. at \in Tick
          BY <3>1
        <4> QED
          <5>1. dbRefresh.cell + 1 = 4
            BY <2>1
          <5>2. dbRefresh' = [dbRefresh EXCEPT !.cell = 4, !.checked = at]
            BY <3>2, <5>1, Zenon
          <5> QED
            BY <1>a, <5>2, <4>1 DEF PanelInv, PanelTypes, Refresh
      <3>4. /\ at # 0 => gate # 0 /\ gate > at - GateInterval
            /\ at <= cluster.now
        BY <3>1 DEF PanelInv, PanelTypes
      <3> QED
        BY <1>1, <2>1, <2>3, <3>3, <3>4 DEF PanelInv, PanelTypes, Undoable, Settled,
          Measured, MemoryIsPaced
    <2> QED
      BY <1>5, <2>2, <2>3 DEF MemoryCell
  <1>6. CASE BusyCell
    <2>1. dbRefresh.cell = 4
      BY <1>2, <1>6 DEF BusyCell, DbAt
    <2>2. PICK now \in Tick, samples \in Samples, rates \in Rates :
               /\ now = cluster.now
               /\ samples = [newest |-> now, rate |-> now, wait |-> dbCache.busy.wait]
               /\ rates = [rate |-> [from |-> dbCache.busy.rate, to |-> now],
                           wait |-> NoRates.wait]
      <3>1. PICK now \in Tick : now = cluster.now
        BY DEF PanelInv, PanelTypes, Tick
      <3>2. dbCache.busy.rate \in Tick /\ dbCache.busy.wait \in Tick /\ 0 \in Tick
        BY DbPanelAssumption DEF PanelInv, PanelTypes, Cache, Samples, Tick
      <3>3. [newest |-> now, rate |-> now, wait |-> dbCache.busy.wait] \in Samples
        BY <3>1, <3>2 DEF Samples
      <3>4. [rate |-> [from |-> dbCache.busy.rate, to |-> now], wait |-> NoRates.wait]
              \in Rates
        BY <3>1, <3>2 DEF Rates, Span, NoRates
      <3> QED
        BY <3>1, <3>3, <3>4
    <2>3. dbCache' = [dbCache EXCEPT !.busy = samples]
          /\ dbRefresh' = [dbRefresh EXCEPT !.cell = 5, !.rates = rates]
      <3>1. dbRefresh.cell + 1 = 5
        BY <2>1
      <3> QED
        BY <1>6, <2>2, <3>1, Zenon DEF BusyCell
    <2>4. samples \in Samples /\ rates \in Rates
      BY <2>2
    <2>5. /\ dbCache' \in Cache /\ dbCache'.version = dbCache.version
          /\ dbCache'.node = dbCache.node /\ dbCache'.counter = dbCache.counter
          /\ dbCache'.pcache = dbCache.pcache /\ dbCache'.busy = samples
      BY <2>3, <2>4 DEF PanelInv, PanelTypes, Cache
    <2>6. /\ dbRefresh' \in Refresh /\ dbRefresh'.cell = 5
          /\ dbRefresh'.saved = dbRefresh.saved /\ dbRefresh'.commits = dbRefresh.commits
          /\ dbRefresh'.checked = dbRefresh.checked /\ dbRefresh'.info = dbRefresh.info
          /\ dbRefresh'.rates = rates
      BY <1>a, <2>3, <2>4 DEF PanelInv, PanelTypes, Refresh
    <2>7. Measured'
      <3>1. dbCache.busy = dbRefresh.saved.busy
        BY <2>1 DEF PanelInv, Measured
      <3>2. /\ dbCache'.busy.rate = dbCache'.busy.newest
            /\ dbCache'.busy.wait = dbRefresh'.saved.busy.wait
            /\ dbRefresh'.rates.rate = [from |-> dbRefresh'.saved.busy.rate,
                                        to |-> dbCache'.busy.rate]
        BY <2>2, <2>5, <2>6, <3>1
      <3> QED
        BY <1>1, <2>6, <3>2 DEF PanelInv, Measured
    <2> QED
      BY <1>1, <2>1, <2>5, <2>6, <2>7 DEF PanelInv, PanelTypes, Undoable, Settled,
        MemoryIsPaced
  <1>7. CASE WaitCell
    <2>1. dbRefresh.cell = 5
      BY <1>2, <1>7 DEF WaitCell, DbAt
    <2>2. PICK samples \in Samples, rates \in Rates :
               /\ samples = [newest |-> dbCache.busy.newest, rate |-> dbCache.busy.rate,
                             wait |-> dbCache.busy.newest]
               /\ rates = [rate |-> dbRefresh.rates.rate,
                           wait |-> [from |-> dbCache.busy.wait,
                                     to |-> dbCache.busy.newest]]
      BY DEF PanelInv, PanelTypes, Cache, Refresh, Samples, Rates, Span
    <2>3. dbCache' = [dbCache EXCEPT !.busy = samples]
          /\ dbRefresh' = [dbRefresh EXCEPT !.cell = 6, !.rates = rates]
      <3>1. dbRefresh.cell + 1 = 6
        BY <2>1
      <3> QED
        BY <1>7, <2>2, <3>1, Zenon DEF WaitCell
    <2>4. samples \in Samples /\ rates \in Rates
      BY <2>2
    <2>5. /\ dbCache' \in Cache /\ dbCache'.version = dbCache.version
          /\ dbCache'.node = dbCache.node /\ dbCache'.counter = dbCache.counter
          /\ dbCache'.pcache = dbCache.pcache /\ dbCache'.busy = samples
      BY <2>3, <2>4 DEF PanelInv, PanelTypes, Cache
    <2>6. /\ dbRefresh' \in Refresh /\ dbRefresh'.cell = 6
          /\ dbRefresh'.saved = dbRefresh.saved /\ dbRefresh'.commits = dbRefresh.commits
          /\ dbRefresh'.checked = dbRefresh.checked /\ dbRefresh'.info = dbRefresh.info
          /\ dbRefresh'.rates = rates
      BY <1>a, <2>3, <2>4 DEF PanelInv, PanelTypes, Refresh
    <2>7. Measured'
      <3>1. /\ dbCache.busy.rate = dbCache.busy.newest
            /\ dbCache.busy.wait = dbRefresh.saved.busy.wait
            /\ dbRefresh.rates.rate = [from |-> dbRefresh.saved.busy.rate,
                                       to |-> dbCache.busy.rate]
        BY <2>1 DEF PanelInv, Measured
      <3>2. dbRefresh.saved.busy.wait = dbRefresh.saved.busy.rate
        BY <2>1 DEF PanelInv, Undoable, Settled
      <3>3. /\ dbCache'.busy.wait = dbCache'.busy.rate
            /\ dbRefresh'.rates.rate.to = dbCache'.busy.rate
            /\ dbRefresh'.rates.wait = dbRefresh'.rates.rate
        BY <2>2, <2>5, <2>6, <3>1, <3>2
      <3> QED
        BY <1>1, <2>6, <3>3 DEF PanelInv, Measured
    <2> QED
      BY <1>1, <2>1, <2>5, <2>6, <2>7 DEF PanelInv, PanelTypes, Undoable, Settled,
        MemoryIsPaced
  <1> QED
    BY <1>3, <1>4, <1>5, <1>6, <1>7

\* What is shown, shared and told the gate comes from one refresh.
LEMMA ShownKeepsInv ==
  ASSUME PanelInv, DbRefreshShown
  PROVE  PanelInv'
  <1> DEFINE memory == IF dbRefresh.commits
                       THEN [dbCache.pcache EXCEPT !.shown = cluster.now]
                       ELSE dbCache.pcache
  <1>1. /\ dbRefresh.cell = 6
        /\ dbCache' = [dbCache EXCEPT !.pcache = memory]
        /\ dbTiles' = [version |-> dbCache.version, node |-> dbCache.node,
                       pcache |-> memory, checked |-> dbRefresh.checked,
                       rates |-> dbRefresh.rates]
        /\ dbInfo' = dbRefresh.info
        /\ gate' = IF dbRefresh.commits THEN cluster.now ELSE gate
        /\ dbRefresh' = Idle
        /\ UNCHANGED cluster
    BY DEF DbRefreshShown, DbCells
  <1>2. /\ memory \in Memory
        /\ memory.read = dbCache.pcache.read
        /\ memory.shown = IF dbRefresh.commits THEN cluster.now ELSE dbCache.pcache.shown
    BY DEF PanelInv, PanelTypes, Cache, Memory, Tick
  <1> HIDE DEF memory
  <1>3. /\ dbCache' \in Cache /\ dbCache'.version = dbCache.version
        /\ dbCache'.node = dbCache.node /\ dbCache'.counter = dbCache.counter
        /\ dbCache'.pcache = memory /\ dbCache'.busy = dbCache.busy
    BY <1>1, <1>2 DEF PanelInv, PanelTypes, Cache
  <1>4. PanelTypes'
    <2>1. dbTiles' \in Tiles /\ dbInfo' \in Info
      BY <1>1, <1>2 DEF PanelInv, PanelTypes, Cache, Refresh, Tiles
    <2> QED
      BY <1>1, <1>3, <2>1, IdleFields DEF PanelInv, PanelTypes
  <1>a. /\ dbTiles'.rates = dbRefresh.rates /\ dbRefresh.rates.wait = dbRefresh.rates.rate
        /\ dbRefresh.rates.rate.to = dbCache'.busy.rate
        /\ dbCache'.busy.wait = dbCache'.busy.rate
    BY <1>1, <1>3 DEF PanelInv, Measured
  <1>5. Undoable'
    BY <1>1, <1>2, <1>3, <1>a, IdleFields DEF PanelInv, PanelTypes, Undoable, Settled, Cache,
      Refresh
  <1>7. Measured'
    BY <1>1, <1>a, IdleFields DEF Measured
  <1>6. MemoryIsPaced'
    BY <1>1, <1>2, DbPanelAssumption DEF PanelInv, PanelTypes, Undoable, Settled, Refresh,
      Tick, MemoryIsPaced
  <1> QED
    BY <1>4, <1>5, <1>6, <1>7 DEF PanelInv

\* Whatever refreshes fail at whichever cell, the metadata the panel shares are those
\* it shows, memory that is shown is as fresh as the gate asks, and the rates leave no
\* gap (restoreRefreshState, dbRefreshCommit, CommitMemoryRefresh, busyPercent).
THEOREM PanelIsConsistent == DbPanelSpec => []DbPanelSafety
  <1>1. PanelInv => DbPanelSafety
    <2> SUFFICES ASSUME PanelInv PROVE DbPanelSafety
      OBVIOUS
    <2>1. DbPanelTypeOK
      <3>1. Len(DbCells) + 1 = 6
        BY DEF DbCells
      <3>2. dbRefresh.cell \in 0..(Len(DbCells) + 1) /\ gate \in 0..LastTick
        <4>1. dbRefresh.cell \in 0..6 /\ gate \in 0..LastTick
          <5>1. dbRefresh \in Refresh /\ gate \in 0..cluster.now
                /\ cluster.now \in 1..LastTick
            BY DEF PanelInv, PanelTypes
          <5>2. dbRefresh.cell \in 0..6
            BY <5>1 DEF Refresh
          <5> QED
            BY <5>1, <5>2, DbPanelAssumption
        <4> QED
          BY <3>1, <4>1, Zenon
      <3> QED
        BY <3>2 DEF PanelInv, PanelTypes, Cache, Info, Memory, Samples, Node, Tick,
          DbPanelTypeOK
    <2>2. InfoMatchesPanel
      BY DEF PanelInv, Undoable, Settled, InfoMatchesPanel
    <2>3. RatesGoOn
      BY DEF PanelInv, Undoable, Settled, Measured, RatesGoOn
    <2> QED
      BY <2>1, <2>2, <2>3 DEF PanelInv, DbPanelSafety
  <1>2. PanelInv /\ [DbPanelNext]_dbPanelVars => PanelInv'
    <2> SUFFICES ASSUME PanelInv, [DbPanelNext]_dbPanelVars PROVE PanelInv'
      OBVIOUS
    <2>1. CASE DbPanelNext
      BY <2>1, ClusterKeepsInv, StartAndFailKeepInv, CellsKeepInv, ShownKeepsInv
      DEF DbPanelNext
    <2>2. CASE UNCHANGED dbPanelVars
      BY <2>2 DEF dbPanelVars, PanelInv, PanelTypes, Undoable, Settled, Measured,
        MemoryIsPaced
    <2> QED
      BY <2>1, <2>2
  <1> QED
    BY <1>1, <1>2, PanelInvInit, PTL DEF DbPanelSpec

-----------------------------------------------------------------------------
(* The rates of the instance panel (InstancePanel).                          *)

\* The values of the state: rates, what a refresh has read, and the panel's memory.
Rate == [by : Nat, over : 0..LastSecond]
Reading == [at : Nat, of : [Counter -> Nat], work : [Counter -> Nat]]
Meter == [lastTime : Nat, interval : 0..LastSecond, prev : [Counter -> Nat]]
Server == [now : 1..LastSecond, count : [Counter -> Nat], work : [Counter -> Nat],
           boot : 0..1]
Sweep == [cell : 0..(Len(RateCells) + 3), saved : Meter, cells : [Counter -> Rate],
          read : Reading]

InstanceTypes ==
  /\ dbms \in Server /\ meter \in Meter /\ sweepOf \in Sweep
  /\ tiles \in [Counter -> Rate]
  /\ readings \in Seq(Reading) /\ Len(readings) <= 2

\* Work that a restart undid is counted no more.
CountsAreWork ==
  \A c \in Counter : dbms.count[c] <= dbms.work[c] /\ dbms.work[c] <= MaxWork[c]

LastShown == readings[Len(readings)]

\* Since the reading n of counter c, with work w behind it, the counter grew by the
\* work done at most.
Grown(c, n, w) ==
  w <= dbms.work[c] /\ dbms.count[c] - n <= dbms.work[c] - w

\* Meter m is as the last refresh shown left it.
OfLastShown(m) ==
  IF readings = << >>
  THEN m.lastTime = 0 /\ \A c \in Counter : m.prev[c] = 0
  ELSE /\ m.lastTime = LastShown.at /\ m.lastTime >= 1
       /\ \A c \in Counter :
            m.prev[c] = LastShown.of[c] /\ Grown(c, LastShown.of[c], LastShown.work[c])

\* Meter m is of the past.
OfPast(m) == m.lastTime <= dbms.now /\ \A c \in Counter : m.prev[c] <= MaxWork[c]

\* A rate r of c that fits what two refreshes have read.
Fits(r, c, old, new) ==
  /\ r.by <= new.work[c] - old.work[c]
  /\ r.by > 0 => r.over = new.at - old.at
  /\ /\ new.of[c] - old.of[c] = new.work[c] - old.work[c]
     /\ old.of[c] # 0
     /\ new.at > old.at
     => r.by = new.work[c] - old.work[c]

\* The refresh under way has read counter c.
IsRead(c) == \E i \in DOMAIN RateCells : RateCells[i] = c /\ i + 3 <= sweepOf.cell

\* A refresh can be undone at each of its cells, and what it has read so far will do
\* for the next one.
SweepIsSound ==
  /\ OfPast(meter) /\ OfPast(sweepOf.saved)
  /\ OfLastShown(IF sweepOf.cell = 0 THEN meter ELSE sweepOf.saved)
  /\ sweepOf.cell = 1 => meter = sweepOf.saved
  /\ sweepOf.cell >= 2 =>
       /\ meter.lastTime = sweepOf.read.at /\ sweepOf.read.at >= 1
       /\ readings # << >> => meter.interval = sweepOf.read.at - LastShown.at
       /\ \A c \in Counter :
            IF IsRead(c)
            THEN /\ meter.prev[c] = sweepOf.read.of[c]
                 /\ Grown(c, sweepOf.read.of[c], sweepOf.read.work[c])
                 /\ readings # << >> =>
                      Fits(sweepOf.cells[c], c, LastShown, sweepOf.read)
            ELSE meter.prev[c] = sweepOf.saved.prev[c]

\* What is shown fits the last two refreshes shown.
TilesFit ==
  Len(readings) = 2 => \A c \in Counter : Fits(tiles[c], c, Older, Newer)

\* The inductive invariant of the instance panel.
InstanceInv == InstanceTypes /\ CountsAreWork /\ SweepIsSound /\ TilesFit

\* Nothing was read and nothing is shown before the first refresh.
LEMMA InstanceInvInit ==
  ASSUME InstanceInit
  PROVE  InstanceInv
  <1>1. NoRate \in Rate /\ NothingRead \in Reading /\ 0 \in 0..LastSecond /\ 1 \in 1..LastSecond
        /\ 0 \in 0..1 /\ 0 \in 0..(Len(RateCells) + 3) /\ Len(RateCells) \in Nat
    BY PanelCellsAssumption DEF NoRate, NothingRead, Rate, Reading
  <1>2. meter \in Meter
    BY <1>1 DEF InstanceInit, Meter
  <1>3. InstanceTypes
    BY <1>1, <1>2 DEF InstanceInit, InstanceTypes, Server, Sweep
  <1>4. /\ sweepOf.cell = 0 /\ sweepOf.saved = meter /\ readings = << >>
        /\ meter.lastTime = 0 /\ \A c \in Counter : meter.prev[c] = 0
    BY DEF InstanceInit
  <1>5. /\ \A c \in Counter : MaxWork[c] \in Nat /\ MaxWork[c] >= 1
        /\ \A c \in Counter : dbms.count[c] = 1 /\ dbms.work[c] = 1
        /\ dbms.now = 1
    BY PanelCellsAssumption DEF InstanceInit
  <1>6. CountsAreWork
    BY <1>5 DEF CountsAreWork
  <1>7. SweepIsSound
    BY <1>4, <1>5 DEF SweepIsSound, OfPast, OfLastShown
  <1>8. TilesFit
    BY <1>4 DEF TilesFit
  <1> QED
    BY <1>3, <1>6, <1>7, <1>8 DEF InstanceInv

\* What the server does, a restart included, keeps readings possible.
LEMMA ServerKeepsInv ==
  ASSUME InstanceInv, ServerMoves
  PROVE  InstanceInv'
  <1>1. UNCHANGED <<meter, sweepOf, tiles, readings>>
    BY DEF ServerMoves
  <1>2. dbms \in Server /\ CountsAreWork
    BY DEF InstanceInv, InstanceTypes
  <1> DEFINE Onward ==
        /\ dbms' \in Server /\ dbms.now <= dbms'.now
        /\ \A c \in Counter :
             /\ dbms.work[c] <= dbms'.work[c] /\ dbms'.work[c] <= MaxWork[c]
             /\ dbms'.count[c] - dbms.count[c] <= dbms'.work[c] - dbms.work[c]
             /\ dbms'.count[c] <= dbms'.work[c]
  <1>3. Onward
    <2>0. \A c \in Counter : MaxWork[c] \in Nat /\ dbms.work[c] \in Nat /\ dbms.count[c] \in Nat
      BY <1>2, PanelCellsAssumption DEF Server
    <2>1. CASE Elapse
      <3>1. PICK n \in Nat : n = dbms.now + 1
        BY <1>2 DEF Server
      <3>2. n \in 1..LastSecond /\ dbms' = [dbms EXCEPT !.now = n] /\ dbms.now <= n
        BY <1>2, <2>1, <3>1, PanelCellsAssumption DEF Server, Elapse
      <3>3. /\ dbms' \in Server /\ dbms'.now = n /\ dbms'.count = dbms.count
            /\ dbms'.work = dbms.work
        BY <1>2, <3>2 DEF Server
      <3> QED
        BY <1>2, <2>0, <3>2, <3>3 DEF CountsAreWork
    <2>2. ASSUME NEW c \in Counter, ServerWorks(c)
          PROVE  Onward
      <3>1. PICK n \in Nat, m \in Nat : n = dbms.work[c] + 1 /\ m = dbms.count[c] + 1
        BY <2>0
      <3>2. PICK worked \in [Counter -> Nat], count \in [Counter -> Nat] :
              worked = [dbms.work EXCEPT ![c] = n] /\ count = [dbms.count EXCEPT ![c] = m]
        BY <1>2, <3>1 DEF Server
      <3>3. dbms' = [dbms EXCEPT !.work = worked, !.count = count]
        BY <1>2, <2>2, <3>1, <3>2 DEF ServerWorks
      <3>4. /\ dbms' \in Server /\ dbms'.now = dbms.now /\ dbms'.count = count
            /\ dbms'.work = worked
        BY <1>2, <3>2, <3>3 DEF Server
      <3>5. dbms.work[c] < MaxWork[c] /\ dbms.now \in Nat
        BY <1>2, <2>2 DEF ServerWorks, Server
      <3>6. \A d \in Counter : /\ worked[d] = IF d = c THEN n ELSE dbms.work[d]
                               /\ count[d] = IF d = c THEN m ELSE dbms.count[d]
        BY <1>2, <3>2 DEF Server
      <3> QED
        BY <1>2, <2>0, <3>1, <3>4, <3>5, <3>6 DEF CountsAreWork
    <2>3. CASE ServerRestarts
      <3>1. PICK count \in [Counter -> Nat] :
              count = [c \in Counter |-> IF c \in DurableCells THEN dbms.count[c] ELSE 0]
        BY <2>0
      <3>2. PICK b \in 0..1 : dbms' = [dbms EXCEPT !.boot = b, !.count = count]
        BY <2>3, <3>1 DEF ServerRestarts
      <3>3. /\ dbms' \in Server /\ dbms'.now = dbms.now /\ dbms'.count = count
            /\ dbms'.work = dbms.work /\ dbms.now \in Nat
        <4>1. /\ count \in [Counter -> Nat] /\ b \in 0..1 /\ dbms \in Server
              /\ dbms' = [dbms EXCEPT !.boot = b, !.count = count]
          BY <1>2, <3>1, <3>2
        <4>2. dbms' = [now |-> dbms.now, count |-> count, work |-> dbms.work, boot |-> b]
          BY <4>1 DEF Server
        <4> QED
          BY <4>1, <4>2 DEF Server
      <3>4. \A c \in Counter : count[c] = dbms.count[c] \/ count[c] = 0
        BY <3>1
      <3> QED
        BY <1>2, <2>0, <3>3, <3>4 DEF CountsAreWork
    <2> QED
      BY <2>1, <2>2, <2>3 DEF ServerMoves
  <1>4. /\ dbms.now \in Nat /\ dbms'.now \in Nat
        /\ \A c \in Counter : /\ dbms.work[c] \in Nat /\ dbms'.work[c] \in Nat
                              /\ dbms.count[c] \in Nat /\ dbms'.count[c] \in Nat
    BY <1>2, <1>3 DEF Server
  <1>5. \A c \in Counter, n \in Nat, w \in Nat : Grown(c, n, w) => Grown(c, n, w)'
    BY <1>3, <1>4 DEF Grown
  <1>6. InstanceTypes' /\ CountsAreWork'
    BY <1>1, <1>3 DEF InstanceInv, InstanceTypes, CountsAreWork
  <1>7. TilesFit'
    BY <1>1 DEF InstanceInv, TilesFit, Older, Newer
  <1>8. \A m \in Meter : OfPast(m) => OfPast(m)'
    BY <1>3, <1>4 DEF OfPast, Meter
  <1>9. \A m \in Meter : OfLastShown(m) => OfLastShown(m)'
    <2>1. readings # << >> => LastShown \in Reading
      BY DEF LastShown, InstanceInv, InstanceTypes
    <2>2. readings # << >> =>
            \A c \in Counter : LastShown.of[c] \in Nat /\ LastShown.work[c] \in Nat
      BY <2>1 DEF Reading
    <2>3. LastShown' = LastShown
      BY <1>1 DEF LastShown
    <2> QED
      BY <1>1, <1>5, <2>2, <2>3 DEF OfLastShown
  <1>10. SweepIsSound'
    <2>1. /\ meter \in Meter /\ sweepOf.saved \in Meter
          /\ \A c \in Counter : sweepOf.read.of[c] \in Nat /\ sweepOf.read.work[c] \in Nat
      BY DEF InstanceInv, InstanceTypes, Sweep, Reading
    <2>2. \A c \in Counter : IsRead(c)' <=> IsRead(c)
      BY <1>1 DEF IsRead
    <2>3. LastShown' = LastShown
      BY <1>1 DEF LastShown
    <2> QED
      BY <1>1, <1>5, <1>8, <1>9, <2>1, <2>2, <2>3 DEF InstanceInv, SweepIsSound
  <1> QED
    BY <1>6, <1>7, <1>10 DEF InstanceInv

\* A refresh begins, or fails at any of its cells.
LEMMA SweepStartAndFailKeepInv ==
  ASSUME InstanceInv, RefreshStarts \/ CellFails
  PROVE  InstanceInv'
  <1>1. UNCHANGED <<dbms, tiles, readings>>
    BY DEF RefreshStarts, CellFails
  <1>2. /\ meter \in Meter /\ sweepOf \in Sweep /\ tiles \in [Counter -> Rate]
        /\ Len(RateCells) \in Nat
    BY PanelCellsAssumption DEF InstanceInv, InstanceTypes
  <1>3. NothingRead \in Reading /\ [c \in Counter |-> NoRate] \in [Counter -> Rate]
    BY PanelCellsAssumption DEF NothingRead, Reading, NoRate, Rate
  <1>4. /\ meter' \in Meter /\ sweepOf' \in Sweep /\ OfPast(meter') /\ OfPast(sweepOf'.saved)
        /\ OfLastShown(meter')
        /\ \/ sweepOf'.cell = 0
           \/ sweepOf'.cell = 1 /\ meter' = sweepOf'.saved
    <2>1. CASE RefreshStarts
      <3>1. /\ meter' = meter /\ sweepOf.cell = 0
            /\ sweepOf' = [cell |-> 1, saved |-> meter, cells |-> [c \in Counter |-> NoRate],
                           read |-> NothingRead]
        BY <2>1 DEF RefreshStarts
      <3>2. 1 \in 0..(Len(RateCells) + 3)
        BY <1>2
      <3>3. /\ sweepOf' \in Sweep /\ sweepOf'.cell = 1 /\ sweepOf'.saved = meter
        BY <1>2, <1>3, <3>1, <3>2 DEF Sweep
      <3> QED
        BY <1>2, <3>1, <3>3 DEF InstanceInv, SweepIsSound
    <2>2. CASE CellFails
      <3>1. /\ meter' = sweepOf.saved /\ sweepOf.cell # 0
            /\ sweepOf' = [sweepOf EXCEPT !.cell = 0, !.cells = tiles, !.read = NothingRead]
        BY <1>2, <2>2 DEF CellFails, PutsReadingsBack
      <3>2. 0 \in 0..(Len(RateCells) + 3)
        BY <1>2
      <3>3. sweepOf' \in Sweep /\ sweepOf'.cell = 0 /\ sweepOf'.saved = sweepOf.saved
        BY <1>2, <1>3, <3>1, <3>2 DEF Sweep
      <3>4. sweepOf.saved \in Meter
        BY <1>2 DEF Sweep
      <3> QED
        BY <3>1, <3>3, <3>4 DEF InstanceInv, SweepIsSound
    <2> QED
      BY <2>1, <2>2
  <1>5. InstanceTypes' /\ CountsAreWork' /\ TilesFit'
    BY <1>1, <1>4 DEF InstanceInv, InstanceTypes, CountsAreWork, TilesFit, Older,
                      Newer
  <1>6. \A m : (OfPast(m) => OfPast(m)') /\ (OfLastShown(m) => OfLastShown(m)')
    BY <1>1 DEF OfPast, OfLastShown, LastShown, Grown
  <1>7. SweepIsSound'
    BY <1>1, <1>4 DEF SweepIsSound, OfPast, OfLastShown, LastShown, Grown
  <1> QED
    BY <1>5, <1>7 DEF InstanceInv

\* The time is read: it is the first cell, and the interval is the one to the last
\* refresh shown.
LEMMA TimeAndGaugeKeepInv ==
  ASSUME InstanceInv, TimeRead \/ GaugeRead
  PROVE  InstanceInv'
  <1>1. UNCHANGED <<dbms, tiles, readings>>
    BY DEF TimeRead, GaugeRead
  <1>2. /\ meter \in Meter /\ sweepOf \in Sweep /\ dbms \in Server
        /\ dbms.now \in 1..LastSecond /\ LastSecond \in Nat /\ Len(RateCells) \in Nat
        /\ readings \in Seq(Reading)
    BY PanelCellsAssumption DEF InstanceInv, InstanceTypes, Server
  <1>3. \A c \in Counter : ~IsRead(c) \/ sweepOf.cell >= 4
    BY <1>2, PanelCellsAssumption DEF IsRead, Sweep
  <1>4. /\ meter' \in Meter /\ sweepOf' \in Sweep /\ OfPast(meter')
        /\ sweepOf.cell \in {1, 2} /\ sweepOf'.saved = sweepOf.saved
        /\ sweepOf'.cell = sweepOf.cell + 1
        /\ meter'.lastTime = sweepOf'.read.at /\ sweepOf'.read.at >= 1
        /\ readings # << >> => meter'.interval = sweepOf'.read.at - LastShown.at
        /\ \A c \in Counter : meter'.prev[c] = sweepOf'.saved.prev[c]
    <2>1. CASE TimeRead
      <3>1. /\ sweepOf.cell = 1 /\ meter = sweepOf.saved /\ OfPast(meter) /\ OfLastShown(meter)
        BY <2>1 DEF TimeRead, InstanceInv, SweepIsSound
      <3>2. PICK n \in Nat : n = dbms.now
        BY <1>2
      <3>3. PICK read \in Reading : read = [sweepOf.read EXCEPT !.at = n] /\ read.at = n
        <4>1. sweepOf.read \in Reading /\ n \in Nat
          BY <1>2, <3>2 DEF Sweep
        <4>2. /\ [sweepOf.read EXCEPT !.at = n] \in Reading
              /\ [sweepOf.read EXCEPT !.at = n].at = n
          BY <4>1 DEF Reading
        <4> QED
          BY <4>2
      <3>4. PICK cell \in 0..(Len(RateCells) + 3) : cell = 2
        BY <1>2
      <3>5. sweepOf' = [sweepOf EXCEPT !.cell = cell, !.read = read]
        BY <1>2, <2>1, <3>2, <3>3, <3>4 DEF TimeRead
      <3>6. /\ sweepOf' \in Sweep /\ sweepOf'.cell = 2 /\ sweepOf'.saved = sweepOf.saved
            /\ sweepOf'.read = read
        BY <1>2, <3>3, <3>4, <3>5 DEF Sweep
      <3>7. PICK span \in 0..LastSecond :
              span = IF meter.lastTime = 0 THEN meter.interval ELSE dbms.now - meter.lastTime
        BY <1>2, <3>1 DEF Meter, OfPast
      <3>8. meter' = [meter EXCEPT !.interval = span, !.lastTime = n]
        BY <1>2, <2>1, <3>2, <3>7 DEF TimeRead
      <3>9. /\ meter' \in Meter /\ meter'.interval = span /\ meter'.lastTime = n
            /\ meter'.prev = meter.prev
        BY <1>2, <3>8 DEF Meter
      <3>10. OfPast(meter')
        BY <1>2, <3>1, <3>2, <3>9 DEF OfPast
      <3>11. readings # << >> => span = n - LastShown.at
        BY <3>1, <3>2, <3>7 DEF OfLastShown
      <3> QED
        BY <1>2, <3>1, <3>2, <3>3, <3>6, <3>9, <3>10, <3>11
    <2>2. CASE GaugeRead
      <3>1. /\ sweepOf.cell = 2 /\ meter' = meter /\ sweepOf' = [sweepOf EXCEPT !.cell = 3]
        BY <2>2 DEF GaugeRead
      <3>2. 3 \in 0..(Len(RateCells) + 3)
        BY <1>2
      <3>3. /\ sweepOf' \in Sweep /\ sweepOf'.cell = 3 /\ sweepOf'.saved = sweepOf.saved
            /\ sweepOf'.read = sweepOf.read
        BY <1>2, <3>1, <3>2 DEF Sweep
      <3> QED
        BY <1>2, <1>3, <3>1, <3>3 DEF InstanceInv, SweepIsSound
    <2> QED
      BY <2>1, <2>2
  <1>5. InstanceTypes' /\ CountsAreWork' /\ TilesFit'
    BY <1>1, <1>4 DEF InstanceInv, InstanceTypes, CountsAreWork, TilesFit, Older,
                      Newer
  <1>6. \A c \in Counter : ~IsRead(c)'
    BY <1>2, <1>4, PanelCellsAssumption DEF IsRead
  <1>7. /\ OfPast(sweepOf.saved) /\ OfLastShown(sweepOf.saved)
    BY <1>4 DEF InstanceInv, SweepIsSound
  <1>8. sweepOf'.cell # 0 /\ sweepOf'.cell # 1
    BY <1>4
  <1>9. OfPast(meter)' /\ OfPast(sweepOf.saved)' /\ OfLastShown(sweepOf.saved)'
    BY <1>1, <1>4, <1>7 DEF OfPast, OfLastShown, LastShown, Grown
  <1>10. LastShown' = LastShown
    BY <1>1 DEF LastShown
  <1>11. SweepIsSound'
    BY <1>1, <1>4, <1>6, <1>8, <1>9, <1>10 DEF SweepIsSound
  <1> QED
    BY <1>5, <1>11 DEF InstanceInv

\* A counter is read: its rate is told from what the last refresh shown read of it.
LEMMA CounterKeepsInv ==
  ASSUME InstanceInv, CounterRead
  PROVE  InstanceInv'
  <1>1. UNCHANGED <<dbms, tiles, readings>>
    BY DEF CounterRead
  <1>2. /\ meter \in Meter /\ sweepOf \in Sweep /\ dbms \in Server
        /\ LastSecond \in Nat /\ Len(RateCells) \in Nat /\ readings \in Seq(Reading)
        /\ DOMAIN RateCells = 1..Len(RateCells)
    BY PanelCellsAssumption DEF InstanceInv, InstanceTypes
  <1>3. PICK k \in DOMAIN RateCells : k = sweepOf.cell - 2
    BY <1>2 DEF CounterRead
  <1>4. /\ k \in DOMAIN RateCells /\ k \in Nat /\ sweepOf.cell = k + 2 /\ sweepOf.cell \in Nat
        /\ sweepOf.cell >= 3 /\ sweepOf.cell + 1 \in 0..(Len(RateCells) + 3)
    BY <1>2, <1>3 DEF Sweep
  <1> DEFINE c == RateCells[k]
             cur == dbms.count[c]
             done == dbms.work[c]
  <1>5. /\ c \in Counter /\ cur \in Nat /\ done \in Nat /\ cur <= done /\ done <= MaxWork[c]
        /\ MaxWork[c] \in Nat
    BY <1>2, <1>4, PanelCellsAssumption DEF Server, InstanceInv, CountsAreWork
  <1>6. /\ meter' = [meter EXCEPT !.prev[c] = cur]
        /\ sweepOf' = [sweepOf EXCEPT !.cell = @ + 1, !.cells[c] = RateOf(c, cur),
                                      !.read.of[c] = cur, !.read.work[c] = done]
    BY <1>3 DEF CounterRead
  <1> HIDE DEF done
  <1>7. /\ meter' \in Meter /\ meter'.lastTime = meter.lastTime
        /\ meter'.interval = meter.interval
        /\ \A d \in Counter : meter'.prev[d] = IF d = c THEN cur ELSE meter.prev[d]
    <2>1. PICK prev \in [Counter -> Nat] : prev = [meter.prev EXCEPT ![c] = cur]
      BY <1>2, <1>5 DEF Meter
    <2>2. meter' = [meter EXCEPT !.prev = prev]
      BY <1>2, <1>6, <2>1 DEF Meter
    <2>3. meter' \in Meter /\ meter'.prev = prev
      BY <1>2, <2>1, <2>2 DEF Meter
    <2> QED
      BY <1>2, <1>5, <2>1, <2>2, <2>3 DEF Meter
  <1>8. RateOf(c, cur) \in Rate
    BY <1>2, <1>5 DEF RateOf, NoRate, Rate, Meter
  <1>9. /\ sweepOf' \in Sweep /\ sweepOf'.cell = sweepOf.cell + 1
        /\ sweepOf'.saved = sweepOf.saved /\ sweepOf'.read.at = sweepOf.read.at
        /\ \A d \in Counter :
             /\ sweepOf'.cells[d] = IF d = c THEN RateOf(c, cur) ELSE sweepOf.cells[d]
             /\ sweepOf'.read.of[d] = IF d = c THEN cur ELSE sweepOf.read.of[d]
             /\ sweepOf'.read.work[d] = IF d = c THEN done ELSE sweepOf.read.work[d]
    <2>1. PICK n \in 0..(Len(RateCells) + 3) : n = sweepOf.cell + 1
      BY <1>4
    <2>2. PICK cells \in [Counter -> Rate] : cells = [sweepOf.cells EXCEPT ![c] = RateOf(c, cur)]
      BY <1>2, <1>5, <1>8 DEF Sweep
    <2>3. PICK of \in [Counter -> Nat], worked \in [Counter -> Nat] :
            /\ of = [sweepOf.read.of EXCEPT ![c] = cur]
            /\ worked = [sweepOf.read.work EXCEPT ![c] = done]
      BY <1>2, <1>5 DEF Sweep, Reading
    <2>4. PICK read \in Reading : read = [sweepOf.read EXCEPT !.of = of, !.work = worked]
      BY <1>2, <2>3 DEF Sweep, Reading
    <2>5. read.at = sweepOf.read.at /\ read.of = of /\ read.work = worked
      BY <1>2, <2>3, <2>4 DEF Sweep
    <2>6. sweepOf' = [sweepOf EXCEPT !.cell = n, !.cells = cells, !.read = read]
      <3>1. PICK z : z = [sweepOf EXCEPT !.cell = @ + 1, !.cells[c] = RateOf(c, cur)]
        OBVIOUS
      <3>2. z = [sweepOf EXCEPT !.cell = n, !.cells = cells]
        BY <1>2, <2>1, <2>2, <3>1 DEF Sweep
      <3>3. sweepOf' = [z EXCEPT !.read.of[c] = cur, !.read.work[c] = done]
        BY <1>6, <3>1
      <3>4. z \in Sweep /\ z.read = sweepOf.read
        BY <1>2, <2>1, <2>2, <3>2 DEF Sweep
      <3>5. [z EXCEPT !.read.of[c] = cur, !.read.work[c] = done] = [z EXCEPT !.read = read]
        BY <1>2, <2>3, <2>4, <3>4 DEF Sweep, Reading
      <3>6. sweepOf' = [z EXCEPT !.read = read]
        BY <3>3, <3>5
      <3> QED
        BY <1>2, <3>2, <3>6 DEF Sweep
    <2>7. /\ sweepOf' \in Sweep /\ sweepOf'.cell = n /\ sweepOf'.saved = sweepOf.saved
          /\ sweepOf'.cells = cells /\ sweepOf'.read = read
      BY <1>2, <2>1, <2>2, <2>4, <2>6 DEF Sweep
    <2>8. \A d \in Counter :
             /\ cells[d] = IF d = c THEN RateOf(c, cur) ELSE sweepOf.cells[d]
             /\ of[d] = IF d = c THEN cur ELSE sweepOf.read.of[d]
             /\ worked[d] = IF d = c THEN done ELSE sweepOf.read.work[d]
      BY <1>2, <1>5, <2>2, <2>3 DEF Sweep
    <2> QED
      BY <2>1, <2>5, <2>7, <2>8
  <1>10. \A d \in Counter : IsRead(d)' <=> d = c \/ IsRead(d)
    <2>1. \A i \in DOMAIN RateCells : i + 3 <= sweepOf'.cell <=> i = k \/ i + 3 <= sweepOf.cell
      BY <1>2, <1>4, <1>9
    <2> QED
      BY <1>3, <2>1 DEF IsRead
  <1>11. ~IsRead(c)
    BY <1>2, <1>4, PanelCellsAssumption DEF IsRead
  <1>12. InstanceTypes' /\ CountsAreWork' /\ TilesFit'
    BY <1>1, <1>7, <1>9 DEF InstanceInv, InstanceTypes, CountsAreWork, TilesFit,
                            Older, Newer
  <1>13. /\ OfPast(meter) /\ OfPast(sweepOf.saved) /\ OfLastShown(sweepOf.saved)
         /\ meter.lastTime = sweepOf.read.at /\ sweepOf.read.at >= 1
         /\ readings # << >> => meter.interval = sweepOf.read.at - LastShown.at
         /\ meter.prev[c] = sweepOf.saved.prev[c]
    BY <1>4, <1>5, <1>11 DEF InstanceInv, SweepIsSound
  <1>14. LastShown' = LastShown
    BY <1>1 DEF LastShown
  <1>15. OfPast(meter)'
    BY <1>1, <1>5, <1>7, <1>13 DEF OfPast
  <1>16. OfPast(sweepOf.saved)' /\ OfLastShown(sweepOf.saved)'
    BY <1>1, <1>9, <1>13, <1>14 DEF OfPast, OfLastShown, Grown
  <1>17. Grown(c, sweepOf.read.of[c], sweepOf.read.work[c])'
    BY <1>1, <1>5, <1>9 DEF Grown, done
  <1>18. readings # << >> => Fits(sweepOf'.cells[c], c, LastShown, sweepOf'.read)
    <2> SUFFICES ASSUME readings # << >>
                 PROVE  Fits(sweepOf'.cells[c], c, LastShown, sweepOf'.read)
      OBVIOUS
    <2>1. LastShown \in Reading
      BY <1>2 DEF LastShown
    <2>2. /\ LastShown.at \in Nat /\ LastShown.of[c] \in Nat /\ LastShown.work[c] \in Nat
      BY <1>5, <2>1 DEF Reading
    <2>3. /\ meter.prev[c] = LastShown.of[c] /\ LastShown.work[c] <= done
          /\ cur - LastShown.of[c] <= done - LastShown.work[c]
      BY <1>5, <1>13 DEF OfLastShown, Grown, done
    <2>4. meter.interval \in Nat /\ sweepOf.read.at \in Nat
      BY <1>2 DEF Meter, Sweep, Reading
    <2>5. RateOf(c, cur) = IF LastShown.of[c] # 0 /\ cur >= LastShown.of[c] /\ meter.interval > 0
                           THEN [by |-> cur - LastShown.of[c], over |-> meter.interval]
                           ELSE [by |-> 0, over |-> 0]
      BY <2>3 DEF RateOf, NoRate
    <2>6. /\ sweepOf'.cells[c] = RateOf(c, cur) /\ sweepOf'.read.of[c] = cur
          /\ sweepOf'.read.work[c] = done /\ sweepOf'.read.at = sweepOf.read.at
      BY <1>5, <1>9
    <2>7. meter.interval = sweepOf.read.at - LastShown.at
      BY <1>13
    <2> QED
      BY SMTT(30), <1>5, <2>2, <2>3, <2>4, <2>5, <2>6, <2>7 DEF Fits
  <1>19. SweepIsSound'
    <2>1. ASSUME NEW d \in Counter
          PROVE  IF IsRead(d)'
                 THEN /\ meter'.prev[d] = sweepOf'.read.of[d]
                      /\ Grown(d, sweepOf.read.of[d], sweepOf.read.work[d])'
                      /\ readings # << >> =>
                           Fits(sweepOf'.cells[d], d, LastShown, sweepOf'.read)
                 ELSE meter'.prev[d] = sweepOf'.saved.prev[d]
      <3>1. CASE d = c
        BY <1>5, <1>7, <1>9, <1>10, <1>17, <1>18, <3>1
      <3>2. CASE d # c
        <4>1. IF IsRead(d)
              THEN /\ meter.prev[d] = sweepOf.read.of[d]
                   /\ Grown(d, sweepOf.read.of[d], sweepOf.read.work[d])
                   /\ readings # << >> =>
                        Fits(sweepOf.cells[d], d, LastShown, sweepOf.read)
              ELSE meter.prev[d] = sweepOf.saved.prev[d]
          BY <1>4 DEF InstanceInv, SweepIsSound
        <4>2. /\ meter'.prev[d] = meter.prev[d] /\ sweepOf'.cells[d] = sweepOf.cells[d]
              /\ sweepOf'.read.of[d] = sweepOf.read.of[d]
              /\ sweepOf'.read.work[d] = sweepOf.read.work[d]
              /\ sweepOf'.read.at = sweepOf.read.at /\ sweepOf'.saved = sweepOf.saved
              /\ IsRead(d)' <=> IsRead(d)
          BY <1>7, <1>9, <1>10, <3>2
        <4> QED
          BY <1>1, <4>1, <4>2 DEF Fits, Grown
      <3> QED
        BY <3>1, <3>2
    <2>2. sweepOf'.cell # 0 /\ sweepOf'.cell # 1
      BY <1>4, <1>9
    <2>3. /\ meter'.lastTime = sweepOf'.read.at /\ sweepOf'.read.at >= 1
          /\ readings # << >> => meter'.interval = sweepOf'.read.at - LastShown.at
      BY <1>7, <1>9, <1>13
    <2> QED
      BY <1>1, <1>14, <1>15, <1>16, <2>1, <2>2, <2>3 DEF SweepIsSound
  <1> QED
    BY <1>12, <1>19 DEF InstanceInv

\* All counters were read: what is shown now fits the readings of both refreshes.
LEMMA RatesShownKeepInv ==
  ASSUME InstanceInv, RefreshShown
  PROVE  InstanceInv'
  <1>1. /\ UNCHANGED <<dbms, meter>> /\ tiles' = sweepOf.cells
        /\ sweepOf.cell = Len(RateCells) + 3
        /\ sweepOf' = [sweepOf EXCEPT !.cell = 0, !.read = NothingRead]
    BY DEF RefreshShown
  <1>2. /\ meter \in Meter /\ sweepOf \in Sweep /\ dbms \in Server
        /\ Len(RateCells) \in Nat /\ readings \in Seq(Reading) /\ Len(readings) <= 2
        /\ DOMAIN RateCells = 1..Len(RateCells) /\ sweepOf.read \in Reading
    BY PanelCellsAssumption DEF InstanceInv, InstanceTypes, Sweep
  <1>3. NothingRead \in Reading /\ 0 \in 0..(Len(RateCells) + 3)
    BY <1>2 DEF NothingRead, Reading
  <1>4. sweepOf' \in Sweep /\ sweepOf'.cell = 0 /\ sweepOf'.saved = sweepOf.saved
    BY <1>1, <1>2, <1>3 DEF Sweep
  <1>5. tiles' \in [Counter -> Rate]
    BY <1>1, <1>2 DEF Sweep
  <1>6. \A c \in Counter : IsRead(c)
    BY <1>1, <1>2 DEF IsRead, Counter
  <1>7. /\ OfPast(meter) /\ OfPast(sweepOf.saved)
        /\ meter.lastTime = sweepOf.read.at /\ sweepOf.read.at >= 1
        /\ \A c \in Counter :
             /\ meter.prev[c] = sweepOf.read.of[c]
             /\ Grown(c, sweepOf.read.of[c], sweepOf.read.work[c])
             /\ readings # << >> => Fits(sweepOf.cells[c], c, LastShown, sweepOf.read)
    BY <1>1, <1>2, <1>6 DEF InstanceInv, SweepIsSound
  <1>8. /\ readings' \in Seq(Reading) /\ readings' # << >> /\ Len(readings') <= 2
        /\ readings'[Len(readings')] = sweepOf.read
        /\ Len(readings') = 2 => /\ readings # << >> /\ readings'[1] = LastShown
                                 /\ readings'[2] = sweepOf.read
    <2>1. CASE readings = << >>
      BY <1>2, <2>1 DEF RefreshShown
    <2>2. CASE readings # << >>
      <3>1. LastShown \in Reading
        BY <1>2, <2>2 DEF LastShown
      <3>2. readings' = <<LastShown, sweepOf.read>>
        BY <2>2 DEF RefreshShown, LastShown
      <3> QED
        BY <1>2, <2>2, <3>1, <3>2
    <2> QED
      BY <2>1, <2>2
  <1>9. InstanceTypes' /\ CountsAreWork'
    BY <1>1, <1>4, <1>5, <1>8 DEF InstanceInv, InstanceTypes, CountsAreWork
  <1>10. TilesFit'
    BY <1>1, <1>7, <1>8 DEF TilesFit, Older, Newer
  <1>11. OfPast(meter)' /\ OfPast(sweepOf.saved)'
    BY <1>1, <1>4, <1>7 DEF OfPast
  <1>12. OfLastShown(meter)'
    BY <1>1, <1>7, <1>8 DEF OfLastShown, LastShown, Grown
  <1>13. SweepIsSound'
    BY <1>4, <1>11, <1>12 DEF SweepIsSound
  <1> QED
    BY <1>9, <1>10, <1>13 DEF InstanceInv

\* Whatever refreshes fail, and whatever the server does between two queries: a rate
\* shown is of work done between the two refreshes shown last, and of all of it
\* unless the server restarted (captureSampleState, failRefresh, refreshCounter).
THEOREM RatesAreReal == InstanceSpec => []InstanceSafety
  <1>1. InstanceInv /\ [InstanceNext]_instanceVars => InstanceInv'
    <2> SUFFICES ASSUME InstanceInv, [InstanceNext]_instanceVars
                 PROVE  InstanceInv'
      OBVIOUS
    <2>1. CASE InstanceNext
      BY <2>1, ServerKeepsInv, SweepStartAndFailKeepInv, TimeAndGaugeKeepInv, CounterKeepsInv,
        RatesShownKeepInv DEF InstanceNext, RefreshMoves
    <2>2. CASE UNCHANGED instanceVars
      BY <2>2 DEF instanceVars, InstanceInv, InstanceTypes, CountsAreWork,
                  SweepIsSound, TilesFit, OfPast, OfLastShown, Grown, IsRead,
                  LastShown, Older, Newer
    <2> QED
      BY <2>1, <2>2
  <1>2. InstanceInv => InstanceSafety
    <2> SUFFICES ASSUME InstanceInv PROVE InstanceSafety
      OBVIOUS
    <2>1. /\ dbms \in Server /\ meter \in Meter /\ sweepOf \in Sweep
          /\ tiles \in [Counter -> Rate] /\ readings \in Seq(Reading) /\ Len(readings) <= 2
      BY DEF InstanceInv, InstanceTypes
    <2>2. InstanceTypeOK
      <3>1. \A c \in Counter : MaxWork[c] \in Nat
        BY PanelCellsAssumption
      <3> QED
        BY <2>1, <3>1 DEF InstanceInv, CountsAreWork, SweepIsSound, OfPast,
                          InstanceTypeOK, Server, Meter, Sweep, Rate
    <2>3. ASSUME Len(readings) = 2, NEW c \in Counter
          PROVE  /\ tiles[c].by \in Nat /\ Fits(tiles[c], c, Older, Newer)
                 /\ Older.work[c] \in Nat /\ Newer.work[c] \in Nat
      <3>1. Older \in Reading /\ Newer \in Reading
        <4>0. 1 \in 1..Len(readings) /\ 2 \in 1..Len(readings)
          BY <2>3
        <4>1. readings[1] \in Reading /\ readings[2] \in Reading
          BY <2>1, <4>0, ElementOfSeq
        <4> QED
          BY <2>3, <4>1 DEF Older, Newer
      <3> QED
        BY <2>1, <2>3, <3>1 DEF InstanceInv, TilesFit, Rate, Reading
    <2>4. RateIsReal /\ RateIsComplete
      BY <2>3 DEF RateIsReal, RateIsComplete, Fits
    <2> QED
      BY <2>2, <2>4 DEF InstanceSafety
  <1> QED
    BY <1>1, <1>2, InstanceInvInit, PTL DEF InstanceSpec

-----------------------------------------------------------------------------
(* The health dashboard's collector (HealthCollector).                       *)

Count == [SqlId -> Nat]

\* What a refresh of one class is at.
WorkState == [pc : {"idle", "query", "publish", "blank", "memory", "slow", "end"},
            sample : Nat, read : Count]

CollectorTypes ==
  /\ counters \in [calls : Count, resets : Nat]
  /\ shown \in [delta : Count, memory : Nat, slowRefreshing : BOOLEAN]
  /\ memo \in [baseline : Count, last : Count, set : BOOLEAN, sample : Nat]
  /\ work \in [Class -> WorkState]
  /\ ending \in {"open", "canceled", "stopped"}

\* Samples are taken one after another: the memory list shown and the one under
\* way are of the samples up to the newest, the one under way of the newer.
SamplesInOrder ==
  /\ shown.memory <= memo.sample
  /\ work["fast"].pc # "idle" => work["fast"].sample = memo.sample
  /\ work["memory"].pc = "query" => shown.memory <= work["memory"].sample
  /\ work["memory"].sample <= memo.sample

CollectorInv ==
  /\ CollectorTypes /\ SamplesInOrder
  /\ BaselineBehind /\ SlowFlagHonest /\ CollectorQuiet

\* Setting fields of what one class is at leaves the others alone.
LEMMA FieldsSet ==
  ASSUME work \in [Class -> WorkState], NEW c \in Class
  PROVE  /\ work[c] = [pc |-> work[c].pc, sample |-> work[c].sample, read |-> work[c].read]
         /\ work[c].pc \in {"idle", "query", "publish", "blank", "memory", "slow", "end"}
         /\ work[c].sample \in Nat /\ work[c].read \in Count
         /\ \A x : [work EXCEPT ![c].pc = x]
                  = [work EXCEPT ![c] = [pc |-> x, sample |-> work[c].sample, read |-> work[c].read]]
         /\ \A x, y : [work EXCEPT ![c].pc = x, ![c].read = y]
                     = [work EXCEPT ![c] = [pc |-> x, sample |-> work[c].sample, read |-> y]]
         /\ \A x, y : [work EXCEPT ![c].pc = x, ![c].sample = y]
                     = [work EXCEPT ![c] = [pc |-> x, sample |-> y, read |-> work[c].read]]
<1>1. PICK p \in {"idle", "query", "publish", "blank", "memory", "slow", "end"},
           n \in Nat, q \in Count : work[c] = [pc |-> p, sample |-> n, read |-> q]
  BY DEF WorkState
<1>2. work[c].pc = p /\ work[c].sample = n /\ work[c].read = q
  BY <1>1
<1>3. ASSUME NEW f, NEW g, f = g  PROVE [work EXCEPT ![c] = f] = [work EXCEPT ![c] = g]
  BY <1>3
<1>4. ASSUME NEW x
      PROVE  [work EXCEPT ![c].pc = x] = [work EXCEPT ![c] = [pc |-> x, sample |-> n, read |-> q]]
  <2>1. [work[c] EXCEPT !.pc = x] = [pc |-> x, sample |-> n, read |-> q]
    BY <1>1
  <2> QED  BY <2>1
<1>5. ASSUME NEW f, NEW g
      PROVE  [[work EXCEPT ![c] = f] EXCEPT ![c] = g] = [work EXCEPT ![c] = g]
  OBVIOUS
<1>6. ASSUME NEW x, NEW y
      PROVE  [work EXCEPT ![c].pc = x, ![c].read = y]
             = [work EXCEPT ![c] = [pc |-> x, sample |-> n, read |-> y]]
  <2> DEFINE first == [work EXCEPT ![c] = [pc |-> x, sample |-> n, read |-> q]]
  <2>1. [work EXCEPT ![c].pc = x, ![c].read = y] = [first EXCEPT ![c].read = y]
    BY <1>4
  <2>2. first[c] = [pc |-> x, sample |-> n, read |-> q]
    OBVIOUS
  <2>3. [first[c] EXCEPT !.read = y] = [pc |-> x, sample |-> n, read |-> y]
    BY <2>2
  <2>4. [first EXCEPT ![c].read = y] = [first EXCEPT ![c] = [pc |-> x, sample |-> n, read |-> y]]
    BY <2>3
  <2> QED  BY <1>5, <2>1, <2>4
<1>7. ASSUME NEW x, NEW y
      PROVE  [work EXCEPT ![c].pc = x, ![c].sample = y]
             = [work EXCEPT ![c] = [pc |-> x, sample |-> y, read |-> q]]
  <2> DEFINE first == [work EXCEPT ![c] = [pc |-> x, sample |-> n, read |-> q]]
  <2>1. [work EXCEPT ![c].pc = x, ![c].sample = y] = [first EXCEPT ![c].sample = y]
    BY <1>4
  <2>2. first[c] = [pc |-> x, sample |-> n, read |-> q]
    OBVIOUS
  <2>3. [first[c] EXCEPT !.sample = y] = [pc |-> x, sample |-> y, read |-> q]
    BY <2>2
  <2>4. [first EXCEPT ![c].sample = y] = [first EXCEPT ![c] = [pc |-> x, sample |-> y, read |-> q]]
    BY <2>3
  <2> QED  BY <1>5, <2>1, <2>4
<1>8. work[c] = [pc |-> work[c].pc, sample |-> work[c].sample, read |-> work[c].read]
  BY <1>1, <1>2
<1>9. \A x : [work EXCEPT ![c].pc = x]
             = [work EXCEPT ![c] = [pc |-> x, sample |-> work[c].sample, read |-> work[c].read]]
  BY <1>2, <1>4
<1>10. \A x, y : [work EXCEPT ![c].pc = x, ![c].read = y]
                 = [work EXCEPT ![c] = [pc |-> x, sample |-> work[c].sample, read |-> y]]
  BY <1>2, <1>6
<1>11. \A x, y : [work EXCEPT ![c].pc = x, ![c].sample = y]
                 = [work EXCEPT ![c] = [pc |-> x, sample |-> y, read |-> work[c].read]]
  BY <1>2, <1>7
<1> QED  BY <1>2, <1>8, <1>9, <1>10, <1>11

\* Nothing is counted, shown or under way at the start.
LEMMA CollectorInvInit ==
  ASSUME CollectorInit
  PROVE  CollectorInv
<1>1. Quiet \in WorkState /\ Quiet.pc = "idle" /\ Quiet.sample = 0
  BY DEF Quiet, WorkState, Count
<1>2. CollectorTypes
  BY <1>1 DEF CollectorInit, CollectorTypes, Count, Class
<1>3. SamplesInOrder
  BY <1>1 DEF CollectorInit, SamplesInOrder, Class
<1>4. BaselineBehind
  <2>1. PICK none \in Nat : none = 0
    OBVIOUS
  <2>2. \A s \in SqlId : memo.baseline[s] = none /\ memo.last[s] = none
    BY <2>1 DEF CollectorInit
  <2> SUFFICES ASSUME NEW s \in SqlId  PROVE memo.baseline[s] <= memo.last[s]
    BY DEF BaselineBehind
  <2> QED  BY <2>2
<1> QED  BY <1>2, <1>3, <1>4 DEF CollectorInv, CollectorInit, SlowFlagHonest, CollectorQuiet

\* The server's counters are nothing the collector remembers.
LEMMA CountersKeepInv ==
  ASSUME CollectorInv, NEW s \in SqlId,
         RunStatement(s) \/ \E to \in {0, 1} : ResetStatement(s, to)
  PROVE  CollectorInv'
<1>1. PICK c \in Count, r \in Nat : counters = [calls |-> c, resets |-> r]
  BY DEF CollectorInv, CollectorTypes
<1>2. counters' \in [calls : Count, resets : Nat]
  <2>1. CASE RunStatement(s)
    <3>1. counters' = [calls |-> [c EXCEPT ![s] = c[s] + 1], resets |-> r]
      BY <1>1, <2>1 DEF RunStatement
    <3> QED  BY <3>1, <1>1 DEF Count
  <2>2. ASSUME NEW to \in {0, 1}, ResetStatement(s, to) PROVE counters' \in [calls : Count, resets : Nat]
    <3>1. counters' = [calls |-> [c EXCEPT ![s] = to], resets |-> r + 1]
      BY <1>1, <2>2 DEF ResetStatement
    <3> QED  BY <3>1, <1>1, <2>2 DEF Count
  <2> QED  BY <2>1, <2>2
<1>3. UNCHANGED <<shown, memo, work, ending>>
  BY DEF RunStatement, ResetStatement
<1> QED
  BY <1>2, <1>3 DEF CollectorInv, CollectorTypes, SamplesInOrder, BaselineBehind,
     SlowFlagHonest, CollectorQuiet, Busy

\* A sample begins: it is the newest.
LEMMA BeginKeepsInv ==
  ASSUME CollectorInv, BeginFast
  PROVE  CollectorInv'
<1>1. PICK b \in Count, l \in Count, t \in BOOLEAN, n \in Nat :
        memo = [baseline |-> b, last |-> l, set |-> t, sample |-> n]
  BY DEF CollectorInv, CollectorTypes
<1>2. memo' = [baseline |-> b, last |-> l, set |-> t, sample |-> n + 1]
  BY <1>1 DEF BeginFast
<1>3. /\ work' \in [Class -> WorkState]
      /\ work'["fast"].pc = "query" /\ work'["fast"].sample = n + 1
      /\ work'["memory"] = work["memory"] /\ work'["slow"] = work["slow"]
  <2>1. work["fast"].read \in Count
    BY FieldsSet DEF CollectorInv, CollectorTypes, Class
  <2> DEFINE fast == [pc |-> "query", sample |-> n + 1, read |-> work["fast"].read]
  <2>2. work' = [work EXCEPT !["fast"] = fast]
    <3>1. work' = [work EXCEPT !["fast"].pc = "query", !["fast"].sample = n + 1]
      BY <1>1 DEF BeginFast
    <3> QED  BY <3>1, FieldsSet DEF CollectorInv, CollectorTypes, Class
  <2>3. fast \in WorkState
    BY <2>1 DEF WorkState
  <2> QED  BY <2>2, <2>3 DEF CollectorInv, CollectorTypes, Class
<1>4. UNCHANGED <<counters, shown, ending>> /\ ending = "open"
  BY DEF BeginFast, MayBegin, Canceling
<1>5. CollectorTypes'
  BY <1>2, <1>3, <1>4 DEF CollectorInv, CollectorTypes
<1>6. SamplesInOrder'
  <2>1. shown.memory \in Nat /\ shown.memory <= n /\ work["memory"].sample \in Nat
        /\ work["memory"].sample <= n
    BY <1>1 DEF CollectorInv, CollectorTypes, SamplesInOrder, Class, WorkState
  <2> QED  BY <1>2, <1>3, <1>4, <2>1 DEF CollectorInv, SamplesInOrder
<1>7. BaselineBehind' /\ SlowFlagHonest' /\ CollectorQuiet'
  BY <1>1, <1>2, <1>3, <1>4 DEF CollectorInv, BaselineBehind, SlowFlagHonest, CollectorQuiet
<1> QED  BY <1>5, <1>6, <1>7 DEF CollectorInv

\* The statement query answers.
LEMMA ReadKeepsInv ==
  ASSUME CollectorInv, NEW ok \in BOOLEAN, ReadStatements(ok)
  PROVE  CollectorInv'
<1>1. PICK m \in Nat, q \in Count : work["fast"] = [pc |-> "query", sample |-> m, read |-> q]
  BY DEF CollectorInv, CollectorTypes, Class, WorkState, ReadStatements
<1>2. counters.calls \in Count
  BY DEF CollectorInv, CollectorTypes
<1> DEFINE fast == [pc |-> IF ok THEN "publish" ELSE "blank", sample |-> m, read |-> counters.calls]
<1>3. work' = [work EXCEPT !["fast"] = fast] /\ fast \in WorkState
  <2>1. work' = [work EXCEPT !["fast"].pc = IF ok THEN "publish" ELSE "blank",
                             !["fast"].read = counters.calls]
    BY DEF ReadStatements
  <2>2. work["fast"].sample = m
    BY <1>1
  <2>3. work' = [work EXCEPT !["fast"] = fast]
    <3>1. work \in [Class -> WorkState] /\ "fast" \in Class
      BY DEF CollectorInv, CollectorTypes, Class
    <3>2. \A x, y : [work EXCEPT !["fast"].pc = x, !["fast"].read = y]
                    = [work EXCEPT !["fast"] = [pc |-> x, sample |-> work["fast"].sample, read |-> y]]
      BY <3>1, FieldsSet
    <3>3. PICK x, y : x = (IF ok THEN "publish" ELSE "blank") /\ y = counters.calls
      OBVIOUS
    <3>4. work' = [work EXCEPT !["fast"].pc = x, !["fast"].read = y]
      BY <2>1, <3>3
    <3>5. work' = [work EXCEPT !["fast"] = [pc |-> x, sample |-> work["fast"].sample, read |-> y]]
      BY <3>2, <3>4
    <3>6. fast = [pc |-> x, sample |-> work["fast"].sample, read |-> y]
      BY <2>2, <3>3
    <3> QED  BY <3>5, <3>6
  <2> QED  BY <1>2, <2>3 DEF WorkState
<1>4. /\ work' \in [Class -> WorkState] /\ work'["fast"] = fast
      /\ work'["memory"] = work["memory"] /\ work'["slow"] = work["slow"]
  BY <1>3 DEF CollectorInv, CollectorTypes, Class
<1>5. UNCHANGED <<counters, shown, memo, ending>>
  BY DEF ReadStatements
<1>6. ending # "stopped"
  BY <1>1 DEF CollectorInv, CollectorQuiet, Busy, Class
<1>7. CollectorTypes' /\ BaselineBehind' /\ SlowFlagHonest' /\ CollectorQuiet'
  BY <1>4, <1>5, <1>6 DEF CollectorInv, CollectorTypes, BaselineBehind, SlowFlagHonest, CollectorQuiet
<1>8. SamplesInOrder'
  BY <1>1, <1>4, <1>5 DEF CollectorInv, SamplesInOrder
<1> QED  BY <1>7, <1>8 DEF CollectorInv

\* The baselines follow the counters back.
LEMMA PublishFastKeepsInv ==
  ASSUME CollectorInv, PublishFast
  PROVE  CollectorInv'
<1>1. PICK p \in {"publish", "blank"}, m \in Nat, q \in Count :
        work["fast"] = [pc |-> p, sample |-> m, read |-> q]
  <2>1. work["fast"].pc \in {"publish", "blank"}
    BY DEF PublishFast
  <2>2. /\ work["fast"] = [pc |-> work["fast"].pc, sample |-> work["fast"].sample,
                           read |-> work["fast"].read]
        /\ work["fast"].sample \in Nat /\ work["fast"].read \in Count
    BY FieldsSet DEF CollectorInv, CollectorTypes, Class
  <2> QED  BY <2>1, <2>2, Zenon
<1>2. PICK b \in Count, l \in Count, t \in BOOLEAN, n \in Nat :
        memo = [baseline |-> b, last |-> l, set |-> t, sample |-> n]
  BY DEF CollectorInv, CollectorTypes
<1>3. PICK d \in Count, e \in Nat, f \in BOOLEAN :
        shown = [delta |-> d, memory |-> e, slowRefreshing |-> f]
  BY DEF CollectorInv, CollectorTypes
<1> DEFINE fast == [pc |-> "memory", sample |-> m, read |-> Quiet.read]
<1>4. work' = [work EXCEPT !["fast"] = fast] /\ fast \in WorkState
  <2>1. work' = [work EXCEPT !["fast"].pc = "memory", !["fast"].read = Quiet.read]
    BY DEF PublishFast
  <2>2. work["fast"].sample = m /\ Quiet.read \in Count
    BY <1>1 DEF Quiet, Count
  <2>3. work' = [work EXCEPT !["fast"] = fast]
    <3>1. work \in [Class -> WorkState] /\ "fast" \in Class
      BY DEF CollectorInv, CollectorTypes, Class
    <3>2. \A x, y : [work EXCEPT !["fast"].pc = x, !["fast"].read = y]
                    = [work EXCEPT !["fast"] = [pc |-> x, sample |-> work["fast"].sample, read |-> y]]
      BY <3>1, FieldsSet
    <3>3. work' = [work EXCEPT !["fast"] = [pc |-> "memory",
                                             sample |-> work["fast"].sample, read |-> Quiet.read]]
      BY <2>1, <3>2, Zenon
    <3> QED  BY <2>2, <3>3
  <2> QED  BY <2>2, <2>3 DEF WorkState
<1>5. /\ work' \in [Class -> WorkState] /\ work'["fast"] = fast
      /\ work'["memory"] = work["memory"] /\ work'["slow"] = work["slow"]
  BY <1>4 DEF CollectorInv, CollectorTypes, Class
<1>6. UNCHANGED <<counters, ending>> /\ ending # "stopped"
  BY <1>1 DEF PublishFast, CollectorInv, CollectorQuiet, Busy, Class
<1>7. \A s \in SqlId : b[s] \in Nat /\ l[s] \in Nat /\ q[s] \in Nat /\ b[s] <= l[s]
  BY <1>2 DEF Count, CollectorInv, BaselineBehind
<1>8. Baseline(q) \in Count /\ Remembered(q) \in Count /\ Delta(q, Baseline(q)) \in Count
  <2>1. Rebased(q) \in Count
    BY <1>2, <1>7 DEF Rebased, Count
  <2>2. Baseline(q) \in Count
    BY <2>1 DEF Baseline
  <2>3. Remembered(q) \in Count
    BY <1>2, <1>7 DEF Remembered, Count
  <2>4. ASSUME NEW s \in SqlId
        PROVE  (IF q[s] > Baseline(q)[s] THEN q[s] - Baseline(q)[s] ELSE 0) \in Nat
    <3>1. Baseline(q)[s] \in Nat /\ q[s] \in Nat
      BY <2>2, <1>7 DEF Count
    <3> QED  BY <3>1
  <2>5. Delta(q, Baseline(q)) \in Count
    BY <2>4 DEF Delta, Count
  <2> QED  BY <2>2, <2>3, <2>5
<1>9. ASSUME NEW s \in SqlId PROVE Baseline(q)[s] <= Remembered(q)[s]
  <2>1. b[s] \in Nat /\ l[s] \in Nat /\ q[s] \in Nat /\ b[s] <= l[s]
    BY <1>7
  <2>2. Remembered(q)[s] = IF q[s] # 0 THEN q[s] ELSE l[s]
    BY <1>2 DEF Remembered
  <2>3. CASE t
    <3>1. Baseline(q)[s] = IF q[s] # 0 /\ q[s] < l[s] THEN q[s] ELSE b[s]
      BY <1>2, <2>3 DEF Baseline, Rebased
    <3> QED  BY <2>1, <2>2, <3>1
  <2>4. CASE ~t
    <3>1. Baseline(q)[s] = q[s]
      BY <1>2, <2>4 DEF Baseline
    <3> QED  BY <2>1, <2>2, <3>1
  <2> QED  BY <2>3, <2>4
<1>10. \/ /\ memo' = memo
          /\ shown' = [delta |-> [s \in SqlId |-> 0], memory |-> e, slowRefreshing |-> f]
       \/ /\ memo' = [baseline |-> Baseline(q), last |-> Remembered(q), set |-> TRUE, sample |-> n]
          /\ shown' = [delta |-> Delta(q, Baseline(q)), memory |-> e, slowRefreshing |-> f]
  <2>1. CASE p = "publish"
    <3>1. memo' = [baseline |-> Baseline(q), last |-> Remembered(q), set |-> TRUE, sample |-> n]
      <4>1. memo' = [memo EXCEPT !.baseline = Baseline(q), !.set = TRUE, !.last = Remembered(q)]
        BY <1>1, <2>1 DEF PublishFast
      <4> QED  BY <1>2, <4>1
    <3>2. shown' = [delta |-> Delta(q, Baseline(q)), memory |-> e, slowRefreshing |-> f]
      BY <1>1, <1>3, <2>1 DEF PublishFast
    <3> QED  BY <3>1, <3>2
  <2>2. CASE p = "blank"
    BY <1>1, <1>3, <2>2 DEF PublishFast
  <2> QED  BY <1>1, <2>1, <2>2
<1>11. /\ shown' \in [delta : Count, memory : Nat, slowRefreshing : BOOLEAN]
       /\ memo' \in [baseline : Count, last : Count, set : BOOLEAN, sample : Nat]
       /\ shown'.memory = e /\ shown'.slowRefreshing = f /\ memo'.sample = n
  <2>1. [s \in SqlId |-> 0] \in Count
    BY DEF Count
  <2>2. CASE memo' = memo /\ shown' = [delta |-> [s \in SqlId |-> 0], memory |-> e, slowRefreshing |-> f]
    BY <1>2, <1>3, <2>1, <2>2
  <2>3. CASE /\ memo' = [baseline |-> Baseline(q), last |-> Remembered(q), set |-> TRUE, sample |-> n]
             /\ shown' = [delta |-> Delta(q, Baseline(q)), memory |-> e, slowRefreshing |-> f]
    BY <1>2, <1>3, <1>8, <2>3
  <2> QED  BY <1>10, <2>2, <2>3
<1>12. BaselineBehind'
  BY <1>2, <1>7, <1>9, <1>10 DEF BaselineBehind
<1>13. CollectorTypes'
  BY <1>5, <1>6, <1>11 DEF CollectorInv, CollectorTypes
<1>14. SamplesInOrder'
  BY <1>1, <1>2, <1>3, <1>5, <1>11 DEF CollectorInv, SamplesInOrder
<1>15. SlowFlagHonest' /\ CollectorQuiet'
  BY <1>3, <1>5, <1>6, <1>11 DEF CollectorInv, SlowFlagHonest, CollectorQuiet
<1> QED  BY <1>12, <1>13, <1>14, <1>15 DEF CollectorInv

\* The sample goes on to the other classes, or a refresh ends.
LEMMA SkipAndEndKeepInv ==
  ASSUME CollectorInv, SkipMemory \/ SkipSlow \/ \E c \in Class : EndWork(c)
  PROVE  CollectorInv'
<1>1. PICK c \in Class, r \in WorkState :
        /\ work' = [work EXCEPT ![c] = r]
        /\ c = "fast" /\ r.pc # "idle" => r.sample = work[c].sample
        /\ c = "slow" => work["slow"].pc # "query"
        /\ c = "memory" => r.pc = "idle" /\ r.sample = 0
        /\ work[c].pc # "idle"
  <2>1. CASE SkipMemory
    <3>1. PICK m \in Nat, q \in Count : work["fast"] = [pc |-> "memory", sample |-> m, read |-> q]
      BY <2>1 DEF CollectorInv, CollectorTypes, Class, WorkState, SkipMemory
    <3> DEFINE after == [pc |-> "slow", sample |-> m, read |-> q]
    <3>2. work' = [work EXCEPT !["fast"] = after]
      <4>1. work["fast"].sample = m /\ work["fast"].read = q
        BY <3>1
      <4> QED  BY <2>1, <4>1, FieldsSet DEF SkipMemory, CollectorInv, CollectorTypes, Class
    <3>3. after \in WorkState /\ after.sample = work["fast"].sample /\ work["fast"].pc # "idle"
      BY <3>1 DEF WorkState
    <3>4. "fast" \in Class /\ "fast" # "slow" /\ "fast" # "memory"
      BY DEF Class
    <3> HIDE DEF after
    <3> QED  BY <3>2, <3>3, <3>4, Zenon
  <2>2. CASE SkipSlow
    <3>1. PICK m \in Nat, q \in Count : work["fast"] = [pc |-> "slow", sample |-> m, read |-> q]
      BY <2>2 DEF CollectorInv, CollectorTypes, Class, WorkState, SkipSlow
    <3> DEFINE after == [pc |-> "end", sample |-> m, read |-> q]
    <3>2. work' = [work EXCEPT !["fast"] = after]
      <4>1. work["fast"].sample = m /\ work["fast"].read = q
        BY <3>1
      <4> QED  BY <2>2, <4>1, FieldsSet DEF SkipSlow, CollectorInv, CollectorTypes, Class
    <3>3. after \in WorkState /\ after.sample = work["fast"].sample /\ work["fast"].pc # "idle"
      BY <3>1 DEF WorkState
    <3>4. "fast" \in Class /\ "fast" # "slow" /\ "fast" # "memory"
      BY DEF Class
    <3> HIDE DEF after
    <3> QED  BY <3>2, <3>3, <3>4, Zenon
  <2>3. ASSUME NEW d \in Class, EndWork(d)
        PROVE  \E c \in Class, r \in WorkState :
                 /\ work' = [work EXCEPT ![c] = r]
                 /\ c = "fast" /\ r.pc # "idle" => r.sample = work[c].sample
                 /\ c = "slow" => work["slow"].pc # "query"
                 /\ c = "memory" => r.pc = "idle" /\ r.sample = 0
                 /\ work[c].pc # "idle"
    <3>1. Quiet \in WorkState /\ Quiet.pc = "idle" /\ Quiet.sample = 0
      BY DEF Quiet, WorkState, Count
    <3> QED  BY <2>3, <3>1 DEF EndWork
  <2> QED  BY <2>1, <2>2, <2>3
<1>2. UNCHANGED <<counters, shown, memo, ending>> /\ ending # "stopped"
  BY <1>1 DEF SkipMemory, SkipSlow, EndWork, CollectorInv, CollectorQuiet, Busy
<1>3. /\ work' \in [Class -> WorkState] /\ work'[c] = r
      /\ \A d \in Class \ {c} : work'[d] = work[d]
  BY <1>1 DEF CollectorInv, CollectorTypes
<1>4. CollectorTypes' /\ BaselineBehind' /\ CollectorQuiet'
  BY <1>2, <1>3 DEF CollectorInv, CollectorTypes, BaselineBehind, CollectorQuiet
<1>5. SlowFlagHonest'
  BY <1>1, <1>2, <1>3 DEF CollectorInv, SlowFlagHonest, Class
<1>6. SamplesInOrder'
  <2>1. memo.sample \in Nat
    BY DEF CollectorInv, CollectorTypes
  <2>2. CASE c = "fast"
    BY <1>1, <1>2, <1>3, <2>2 DEF CollectorInv, SamplesInOrder, Class
  <2>3. CASE c = "memory"
    BY <1>1, <1>2, <1>3, <2>1, <2>3 DEF CollectorInv, SamplesInOrder, Class
  <2>4. CASE c = "slow"
    BY <1>1, <1>2, <1>3, <2>4 DEF CollectorInv, SamplesInOrder, Class
  <2> QED  BY <2>2, <2>3, <2>4 DEF Class
<1> QED  BY <1>4, <1>5, <1>6 DEF CollectorInv

\* A memory refresh begins for the newest sample.
LEMMA StartMemoryKeepsInv ==
  ASSUME CollectorInv, StartMemory
  PROVE  CollectorInv'
<1>1. PICK m \in Nat, q \in Count : work["fast"] = [pc |-> "memory", sample |-> m, read |-> q]
  BY DEF CollectorInv, CollectorTypes, Class, WorkState, StartMemory
<1> DEFINE fast == [pc |-> "slow", sample |-> m, read |-> q]
           memory == [pc |-> "query", sample |-> m, read |-> Quiet.read]
<1>2. fast \in WorkState /\ memory \in WorkState /\ memory = [Quiet EXCEPT !.pc = "query", !.sample = m]
  <2>1. Quiet.read \in Count
    BY DEF Quiet, Count
  <2>2. PICK none \in Nat : none = 0
    OBVIOUS
  <2>3. Quiet = [pc |-> "idle", sample |-> none, read |-> Quiet.read]
    BY <2>2 DEF Quiet
  <2>4. PICK r \in Count : r = Quiet.read
    BY <2>1
  <2>5. [Quiet EXCEPT !.pc = "query"] = [pc |-> "query", sample |-> none, read |-> r]
    BY <2>3, <2>4
  <2>6. [Quiet EXCEPT !.pc = "query", !.sample = m] = [pc |-> "query", sample |-> m, read |-> r]
    <3>1. PICK z : z = [Quiet EXCEPT !.pc = "query"]
      OBVIOUS
    <3>2. z = [pc |-> "query", sample |-> none, read |-> r]
      BY <2>5, <3>1
    <3>3. [z EXCEPT !.sample = m] = [pc |-> "query", sample |-> m, read |-> r]
      BY <3>2
    <3> QED  BY <3>1, <3>3
  <2> QED  BY <2>1, <2>4, <2>6 DEF WorkState
<1>3. work' = [[work EXCEPT !["fast"] = fast] EXCEPT !["memory"] = memory]
  <2>1. work' = [[work EXCEPT !["fast"].pc = "slow"]
                  EXCEPT !["memory"] = [Quiet EXCEPT !.pc = "query", !.sample = m]]
    BY <1>1 DEF StartMemory
  <2>2. work["fast"].sample = m /\ work["fast"].read = q
    BY <1>1
  <2>3. [work EXCEPT !["fast"].pc = "slow"] = [work EXCEPT !["fast"] = fast]
    BY <2>2, FieldsSet DEF CollectorInv, CollectorTypes, Class
  <2> QED  BY <1>2, <2>1, <2>3
<1>4. /\ work' \in [Class -> WorkState]
      /\ work'["fast"] = fast /\ work'["memory"] = memory /\ work'["slow"] = work["slow"]
  BY <1>2, <1>3 DEF CollectorInv, CollectorTypes, Class
<1>5. UNCHANGED <<counters, shown, memo, ending>> /\ ending = "open"
  BY DEF StartMemory, MayBegin, Canceling
<1>6. CollectorTypes' /\ BaselineBehind' /\ SlowFlagHonest' /\ CollectorQuiet'
  BY <1>4, <1>5 DEF CollectorInv, CollectorTypes, BaselineBehind, SlowFlagHonest, CollectorQuiet
<1>7. SamplesInOrder'
  <2>1. memo.sample \in Nat /\ m = memo.sample /\ shown.memory <= m
    BY <1>1 DEF CollectorInv, CollectorTypes, SamplesInOrder
  <2> QED  BY <1>4, <1>5, <2>1 DEF SamplesInOrder
<1> QED  BY <1>6, <1>7 DEF CollectorInv

\* "Refreshing" is shown from here.
LEMMA StartSlowKeepsInv ==
  ASSUME CollectorInv, NEW by \in {"fast", "user"}, StartSlow(by)
  PROVE  CollectorInv'
<1> DEFINE first == [work EXCEPT !["fast"].pc = IF by = "fast" THEN "end" ELSE work["fast"].pc]
<1>1. /\ first \in [Class -> WorkState]
      /\ first["fast"].sample = work["fast"].sample
      /\ by = "user" => first["fast"].pc = work["fast"].pc
      /\ by = "fast" => work["fast"].pc = "slow"
      /\ first["memory"] = work["memory"] /\ first["slow"] = work["slow"]
  <2> DEFINE p == IF by = "fast" THEN "end" ELSE work["fast"].pc
             fast == [pc |-> p, sample |-> work["fast"].sample, read |-> work["fast"].read]
  <2>1. first = [work EXCEPT !["fast"] = fast]
    <3>1. \A x : [work EXCEPT !["fast"].pc = x]
               = [work EXCEPT !["fast"] = [pc |-> x, sample |-> work["fast"].sample,
                                           read |-> work["fast"].read]]
      BY FieldsSet DEF CollectorInv, CollectorTypes, Class
    <3> QED  BY <3>1
  <2>2. fast \in WorkState
    BY FieldsSet DEF CollectorInv, CollectorTypes, Class, WorkState
  <2> QED  BY <2>1, <2>2 DEF CollectorInv, CollectorTypes, Class, StartSlow
<1>2. work' = [first EXCEPT !["slow"].pc = "query"]
  BY DEF StartSlow
<1>3. PICK m \in Nat, q \in Count : work["slow"] = [pc |-> "idle", sample |-> m, read |-> q]
  BY DEF CollectorInv, CollectorTypes, Class, WorkState, StartSlow, MayBegin, Busy
<1>4. /\ work' \in [Class -> WorkState]
      /\ work'["fast"] = first["fast"] /\ work'["memory"] = work["memory"]
      /\ work'["slow"].pc = "query"
  <2> DEFINE slow == [pc |-> "query", sample |-> m, read |-> q]
  <2>1. work' = [first EXCEPT !["slow"] = slow]
    <3>1. first["slow"] = [pc |-> "idle", sample |-> m, read |-> q]
      BY <1>1, <1>3
    <3>2. [first["slow"] EXCEPT !.pc = "query"] = slow
      BY <3>1
    <3>3. work' = [first EXCEPT !["slow"] = [first["slow"] EXCEPT !.pc = "query"]]
      BY <1>2
    <3> QED  BY <3>2, <3>3
  <2>2. slow \in WorkState
    BY DEF WorkState
  <2> QED  BY <1>1, <2>1, <2>2 DEF Class
<1>5. PICK d \in Count, e \in Nat, f \in BOOLEAN :
        shown = [delta |-> d, memory |-> e, slowRefreshing |-> f]
  BY DEF CollectorInv, CollectorTypes
<1>6. /\ shown' = [delta |-> d, memory |-> e, slowRefreshing |-> TRUE]
      /\ UNCHANGED <<counters, memo, ending>> /\ ending = "open"
  BY <1>5 DEF StartSlow, MayBegin, Canceling
<1>7. CollectorTypes' /\ BaselineBehind' /\ SlowFlagHonest' /\ CollectorQuiet'
  BY <1>4, <1>6 DEF CollectorInv, CollectorTypes, BaselineBehind, SlowFlagHonest, CollectorQuiet
<1>8. SamplesInOrder'
  BY <1>1, <1>4, <1>5, <1>6 DEF CollectorInv, SamplesInOrder
<1> QED  BY <1>7, <1>8 DEF CollectorInv

\* A memory list is published: of the sample it was read for, never an older
\* one than is shown.
LEMMA PublishMemoryKeepsInv ==
  ASSUME CollectorInv, NEW ok \in BOOLEAN, PublishMemory(ok)
  PROVE  CollectorInv' /\ (shown.memory' # shown.memory => shown.memory' \notin 1 .. shown.memory)
<1>1. PICK m \in Nat, q \in Count : work["memory"] = [pc |-> "query", sample |-> m, read |-> q]
  BY DEF CollectorInv, CollectorTypes, Class, WorkState, PublishMemory
<1>2. PICK d \in Count, e \in Nat, f \in BOOLEAN :
        shown = [delta |-> d, memory |-> e, slowRefreshing |-> f]
  BY DEF CollectorInv, CollectorTypes
<1> DEFINE memory == [pc |-> "end", sample |-> m, read |-> q]
<1>3. work' = [work EXCEPT !["memory"] = memory] /\ memory \in WorkState
  <2>1. work' = [work EXCEPT !["memory"].pc = "end"]
    BY DEF PublishMemory
  <2>2. work["memory"].sample = m /\ work["memory"].read = q
    BY <1>1
  <2> QED  BY <2>1, <2>2, FieldsSet DEF CollectorInv, CollectorTypes, Class, WorkState
<1>4. /\ work' \in [Class -> WorkState] /\ work'["memory"] = memory
      /\ work'["fast"] = work["fast"] /\ work'["slow"] = work["slow"]
  BY <1>3 DEF CollectorInv, CollectorTypes, Class
<1>5. PICK k \in Nat : k = (IF ok THEN m ELSE 0)
  OBVIOUS
<1>6. /\ shown' = [delta |-> d, memory |-> k, slowRefreshing |-> f]
      /\ UNCHANGED <<counters, memo, ending>>
  BY <1>1, <1>2, <1>5 DEF PublishMemory
<1>7. /\ memo.sample \in Nat /\ e <= m /\ m <= memo.sample /\ ending # "stopped"
  BY <1>1, <1>2 DEF CollectorInv, CollectorTypes, SamplesInOrder, CollectorQuiet, Busy, Class
<1>8. CollectorTypes' /\ BaselineBehind' /\ SlowFlagHonest' /\ CollectorQuiet'
  BY <1>2, <1>4, <1>6, <1>7
     DEF CollectorInv, CollectorTypes, BaselineBehind, SlowFlagHonest, CollectorQuiet
<1>9. SamplesInOrder'
  BY <1>4, <1>5, <1>6, <1>7 DEF CollectorInv, SamplesInOrder
<1>10. shown.memory' # shown.memory => shown.memory' \notin 1 .. shown.memory
  BY <1>2, <1>5, <1>6, <1>7
<1> QED  BY <1>8, <1>9, <1>10 DEF CollectorInv

\* The slow refresh ends: "refreshing" goes.
LEMMA PublishSlowKeepsInv ==
  ASSUME CollectorInv, PublishSlow
  PROVE  CollectorInv'
<1>1. PICK m \in Nat, q \in Count : work["slow"] = [pc |-> "query", sample |-> m, read |-> q]
  BY DEF CollectorInv, CollectorTypes, Class, WorkState, PublishSlow
<1>2. PICK d \in Count, e \in Nat, f \in BOOLEAN :
        shown = [delta |-> d, memory |-> e, slowRefreshing |-> f]
  BY DEF CollectorInv, CollectorTypes
<1> DEFINE slow == [pc |-> "end", sample |-> m, read |-> q]
<1>3. work' = [work EXCEPT !["slow"] = slow] /\ slow \in WorkState
  <2>1. work' = [work EXCEPT !["slow"].pc = "end"]
    BY DEF PublishSlow
  <2>2. work["slow"].sample = m /\ work["slow"].read = q
    BY <1>1
  <2> QED  BY <2>1, <2>2, FieldsSet DEF CollectorInv, CollectorTypes, Class, WorkState
<1>4. /\ work' \in [Class -> WorkState]
      /\ work'["fast"] = work["fast"] /\ work'["memory"] = work["memory"]
  BY <1>3 DEF CollectorInv, CollectorTypes, Class
<1>5. /\ shown' = [delta |-> d, memory |-> e, slowRefreshing |-> FALSE]
      /\ UNCHANGED <<counters, memo, ending>>
  BY <1>2 DEF PublishSlow
<1>6. ending # "stopped"
  BY <1>1 DEF CollectorInv, CollectorQuiet, Busy, Class
<1>7. CollectorTypes' /\ BaselineBehind' /\ SlowFlagHonest' /\ CollectorQuiet'
  BY <1>4, <1>5, <1>6 DEF CollectorInv, CollectorTypes, BaselineBehind, SlowFlagHonest, CollectorQuiet
<1>8. SamplesInOrder'
  BY <1>2, <1>4, <1>5 DEF CollectorInv, SamplesInOrder
<1> QED  BY <1>7, <1>8 DEF CollectorInv

\* Only a memory refresh replaces the memory list.
LEMMA OthersLeaveMemory ==
  ASSUME CollectorInv, PublishFast \/ (\E by \in {"fast", "user"} : StartSlow(by)) \/ PublishSlow
  PROVE  shown.memory' = shown.memory
<1>1. PICK d \in Count, e \in Nat, f \in BOOLEAN :
        shown = [delta |-> d, memory |-> e, slowRefreshing |-> f]
  BY DEF CollectorInv, CollectorTypes
<1> QED  BY <1>1 DEF PublishFast, StartSlow, PublishSlow

LEMMA CollectorInvNext ==
  ASSUME CollectorInv, [CollectorNext]_collectorVars
  PROVE  CollectorInv' /\ (shown.memory' # shown.memory => shown.memory' \notin 1 .. shown.memory)
<1>1. CASE BeginFast
  BY <1>1, BeginKeepsInv DEF BeginFast
<1>2. CASE FastWorks
  <2>1. ASSUME NEW ok \in BOOLEAN, ReadStatements(ok)
        PROVE  CollectorInv' /\ shown' = shown
    BY <2>1, ReadKeepsInv DEF ReadStatements
  <2>2. CASE PublishFast
    BY <2>2, PublishFastKeepsInv, OthersLeaveMemory
  <2>3. CASE SkipMemory \/ SkipSlow
    BY <2>3, SkipAndEndKeepInv DEF SkipMemory, SkipSlow
  <2> QED  BY <1>2, <2>1, <2>2, <2>3 DEF FastWorks
<1>3. CASE MemoryWorks
  BY <1>3, PublishMemoryKeepsInv DEF MemoryWorks
<1>4. CASE PublishSlow
  BY <1>4, PublishSlowKeepsInv, OthersLeaveMemory
<1>5. CASE StartMemory
  BY <1>5, StartMemoryKeepsInv DEF StartMemory
<1>6. ASSUME NEW by \in {"fast", "user"}, StartSlow(by)
      PROVE  CollectorInv' /\ shown.memory' = shown.memory
  BY <1>6, StartSlowKeepsInv, OthersLeaveMemory
<1>7. ASSUME NEW c \in Class, EndWork(c)
      PROVE  CollectorInv' /\ shown' = shown
  BY <1>7, SkipAndEndKeepInv DEF EndWork
<1>8. ASSUME NEW s \in SqlId, RunStatement(s) \/ \E to \in {0, 1} : ResetStatement(s, to)
      PROVE  CollectorInv' /\ shown' = shown
  BY <1>8, CountersKeepInv DEF RunStatement, ResetStatement
<1>9. CASE CancelCollector \/ CollectorStopped
  BY <1>9 DEF CancelCollector, CollectorStopped, CollectorInv, CollectorTypes, SamplesInOrder,
     BaselineBehind, SlowFlagHonest, CollectorQuiet, Busy
<1>10. CASE UNCHANGED collectorVars
  BY <1>10 DEF collectorVars, CollectorInv, CollectorTypes, SamplesInOrder, BaselineBehind,
     SlowFlagHonest, CollectorQuiet, Busy
<1> QED
  BY <1>1, <1>2, <1>3, <1>4, <1>5, <1>6, <1>7, <1>8, <1>9, <1>10 DEF CollectorNext

\* The health dashboard counts no statement's calls against a baseline ahead of
\* its counter, shows "refreshing" only during a slow refresh, replaces a memory
\* list by no older one, and is quiet after Stop (collector.go).
THEOREM CollectorIsSafe == CollectorSpec => CollectorSafety
<1>1. CollectorInit => CollectorInv
  BY CollectorInvInit
<1>2. CollectorInv /\ [CollectorNext]_collectorVars => CollectorInv'
  BY CollectorInvNext
<1>3. CollectorInv => BaselineBehind /\ SlowFlagHonest /\ CollectorQuiet
  BY DEF CollectorInv
<1>4. CollectorInv /\ [CollectorNext]_collectorVars
        => [shown.memory' # shown.memory => shown.memory' \notin 1 .. shown.memory]_collectorVars
  BY CollectorInvNext
<1> QED  BY <1>1, <1>2, <1>3, <1>4, PTL DEF CollectorSpec, CollectorSafety, MemoryNeverOlder

-----------------------------------------------------------------------------
(* The health dashboard's detail requests (DetailRequests).                  *)

HealthView == [shown : BOOLEAN, selecting : BOOLEAN, detail : Nat, merged : Nat,
               entered : Nat, last : BOOLEAN]

Requests == [id : Nat, cancel : Nat, opened : 0 .. MaxRequests, exit : BOOLEAN,
             canceled : BOOLEAN]

PageLoader == [id : Nat, sent : 0 .. PatchCount, canceled : BOOLEAN, ended : BOOLEAN]

RequestsTypes ==
  /\ view \in HealthView /\ request \in Requests
  /\ patches \in Seq(Nat \X (1 .. PatchCount)) /\ Len(patches) <= Capacity
  /\ loader \in [Page -> PageLoader]

\* Pages are opened one after another, each under a greater request number.
Numbered ==
  /\ \A n \in Page : n > request.opened => loader[n].ended /\ loader[n].sent = 0
  /\ \A n \in 1 .. request.opened : 0 < loader[n].id /\ loader[n].id <= request.id
  /\ \A n, m \in 1 .. request.opened : n < m => loader[n].id < loader[m].id

\* The open page is the last one opened; a cancel that is kept is its.
OpenPage ==
  /\ view.detail # 0 => /\ view.shown /\ request.opened > 0
                        /\ loader[request.opened].id = view.detail
                        /\ ~request.exit => request.id = view.detail
  /\ request.cancel # 0 => request.cancel = view.detail /\ request.id = view.detail
  /\ request.canceled => request.exit /\ request.cancel = 0

Working(n) == ~loader[n].ended /\ ~loader[n].canceled /\ loader[n].sent # PatchCount

\* A loader that works is the one the kept cancel stops.
Stoppable == \A n \in Page : Working(n) => loader[n].id = request.cancel

\* The channel holds what loaders sent, of each loader in the order sent.
InChannel ==
  /\ \A j \in 1 .. Len(patches) : \E m \in 1 .. request.opened :
        patches[j][1] = loader[m].id /\ patches[j][2] <= loader[m].sent
  /\ \A i, j \in 1 .. Len(patches) :
        i < j /\ patches[i][1] = patches[j][1] => patches[i][2] < patches[j][2]

\* What the open page has not merged of its patches is in the channel.
Awaited ==
  view.detail # 0 /\ ~request.exit =>
    /\ view.merged <= loader[request.opened].sent
    /\ \A j \in 1 .. Len(patches) : patches[j][1] = view.detail => view.merged < patches[j][2]
    /\ \A k \in view.merged + 1 .. loader[request.opened].sent :
          \E j \in 1 .. Len(patches) : patches[j] = <<view.detail, k>>

RequestsInv ==
  /\ RequestsTypes /\ Numbered /\ OpenPage /\ Stoppable /\ InChannel /\ Awaited

MergedNext ==
  view.detail # 0 /\ view'.detail = view.detail /\ view'.merged # view.merged
    => view'.merged = view.merged + 1

\* No page has been opened at the start.
LEMMA RequestsInvInit ==
  ASSUME RequestsInit
  PROVE  RequestsInv
<1>1. PICK none \in Nat : none = 0
  OBVIOUS
<1>2. MaxRequests \in Nat /\ PatchCount \in Nat /\ Capacity \in Nat
  BY RequestsAssumption
<1>3. /\ view = [shown |-> FALSE, selecting |-> FALSE, detail |-> none, merged |-> none,
                 entered |-> none, last |-> FALSE]
      /\ request = [id |-> none, cancel |-> none, opened |-> none, exit |-> FALSE, canceled |-> FALSE]
      /\ patches = <<>> /\ Len(patches) = none
      /\ loader = [n \in Page |-> [id |-> none, sent |-> none, canceled |-> FALSE, ended |-> TRUE]]
  BY <1>1 DEF RequestsInit
<1>4. RequestsTypes
  <2>1. none \in 0 .. MaxRequests /\ none \in 0 .. PatchCount /\ none <= Capacity
    BY <1>1, <1>2
  <2>2. view \in HealthView /\ request \in Requests
    BY <1>3, <2>1 DEF HealthView, Requests
  <2>3. loader \in [Page -> PageLoader]
    BY <1>3, <2>1 DEF PageLoader
  <2>4. patches \in Seq(Nat \X (1 .. PatchCount))
    BY <1>3
  <2>5. Len(patches) <= Capacity
    BY <1>3, <2>1
  <2> QED  BY <2>2, <2>3, <2>4, <2>5 DEF RequestsTypes
<1>5. request.opened = 0 /\ view.detail = 0 /\ request.cancel = 0 /\ ~request.canceled
  BY <1>1, <1>3
<1>6. \A n \in Page : loader[n].ended /\ loader[n].sent = 0
  BY <1>1, <1>3
<1>7. Numbered /\ OpenPage /\ Stoppable /\ Awaited
  BY <1>5, <1>6 DEF Numbered, OpenPage, Stoppable, Awaited, Working
<1>8. InChannel
  BY <1>3, <1>1 DEF InChannel
<1> QED  BY <1>4, <1>7, <1>8 DEF RequestsInv

\* The fields of the state are what their names say.
LEMMA RequestFields ==
  ASSUME RequestsTypes
  PROVE  /\ view.shown \in BOOLEAN /\ view.detail \in Nat /\ view.merged \in Nat
         /\ request.id \in Nat /\ request.cancel \in Nat /\ request.opened \in 0 .. MaxRequests
         /\ request.exit \in BOOLEAN /\ request.canceled \in BOOLEAN
         /\ \A n \in Page : /\ loader[n].id \in Nat /\ loader[n].sent \in 0 .. PatchCount
                            /\ loader[n].canceled \in BOOLEAN /\ loader[n].ended \in BOOLEAN
                            /\ loader[n].sent \in Nat
         /\ 1 .. request.opened \subseteq Page
         /\ request.opened > 0 => request.opened \in Page /\ request.opened \in 1 .. request.opened
         /\ \A j \in 1 .. Len(patches) : /\ patches[j] \in Nat \X (1 .. PatchCount)
                                         /\ patches[j][1] \in Nat
                                         /\ patches[j][2] \in Nat \ {0}
         /\ Len(patches) \in Nat /\ MaxRequests \in Nat /\ PatchCount \in Nat
<1>1. MaxRequests \in Nat /\ PatchCount \in Nat
  BY RequestsAssumption
<1>2. request.opened \in 0 .. MaxRequests
  BY DEF RequestsTypes, Requests
<1>3. 1 .. request.opened \subseteq Page
  BY <1>1, <1>2 DEF Page
<1>4. request.opened > 0 => request.opened \in Page /\ request.opened \in 1 .. request.opened
  BY <1>1, <1>2 DEF Page
<1>5. ASSUME NEW n \in Page
      PROVE  /\ loader[n].id \in Nat /\ loader[n].sent \in 0 .. PatchCount
             /\ loader[n].canceled \in BOOLEAN /\ loader[n].ended \in BOOLEAN
             /\ loader[n].sent \in Nat
  BY <1>1 DEF RequestsTypes, PageLoader
<1>6. Len(patches) \in Nat
  BY DEF RequestsTypes
<1>7. ASSUME NEW j \in 1 .. Len(patches)
      PROVE  patches[j] \in Nat \X (1 .. PatchCount) /\ patches[j][1] \in Nat /\ patches[j][2] \in Nat \ {0}
  <2>1. patches[j] \in Nat \X (1 .. PatchCount)
    BY DEF RequestsTypes
  <2> QED  BY <1>1, <2>1
<1>8. view.shown \in BOOLEAN /\ view.detail \in Nat /\ view.merged \in Nat
  BY DEF RequestsTypes, HealthView
<1>9. request.id \in Nat /\ request.cancel \in Nat /\ request.exit \in BOOLEAN /\ request.canceled \in BOOLEAN
  BY DEF RequestsTypes, Requests
<1> QED  BY <1>1, <1>2, <1>3, <1>4, <1>5, <1>6, <1>7, <1>8, <1>9

\* A loader that works is one of an opened page, which has a number.
LEMMA WorkingIsOpen ==
  ASSUME RequestsTypes, Numbered, NEW p \in Page, Working(p)
  PROVE  p \in 1 .. request.opened /\ p <= request.opened /\ loader[p].id # 0
<1>1. ~(p > request.opened)
  BY DEF Numbered, Working
<1>2. p \in Nat /\ p >= 1 /\ request.opened \in Nat
  BY RequestFields DEF Page
<1>3. p \in 1 .. request.opened /\ p <= request.opened
  BY <1>1, <1>2
<1>4. 0 < loader[p].id
  BY <1>3 DEF Numbered
<1> QED
  BY <1>3, <1>4

\* Calling a cancel touches no request number, no count of patches and no end.
LEMMA CanceledFields ==
  ASSUME RequestsTypes, NEW id \in Nat
  PROVE  /\ Canceled(id) \in [Page -> PageLoader]
         /\ \A n \in Page :
              /\ Canceled(id)[n].id = loader[n].id
              /\ Canceled(id)[n].sent = loader[n].sent
              /\ Canceled(id)[n].ended = loader[n].ended
              /\ Canceled(id)[n].canceled \in BOOLEAN
              /\ Canceled(id)[n].canceled = (loader[n].canceled \/ (id # 0 /\ loader[n].id = id))
<1>1. ASSUME NEW n \in Page
      PROVE  /\ Canceled(id)[n] \in PageLoader
             /\ Canceled(id)[n].id = loader[n].id
             /\ Canceled(id)[n].sent = loader[n].sent
             /\ Canceled(id)[n].ended = loader[n].ended
             /\ Canceled(id)[n].canceled \in BOOLEAN
             /\ Canceled(id)[n].canceled = (loader[n].canceled \/ (id # 0 /\ loader[n].id = id))
  <2>1. PICK i \in Nat, s \in 0 .. PatchCount, c \in BOOLEAN, e \in BOOLEAN :
          loader[n] = [id |-> i, sent |-> s, canceled |-> c, ended |-> e]
    BY DEF RequestsTypes, PageLoader
  <2>2. CASE id # 0 /\ loader[n].id = id
    <3>1. PICK t \in BOOLEAN : t = TRUE
      OBVIOUS
    <3>2. Canceled(id)[n] = [loader[n] EXCEPT !.canceled = t]
      BY <2>2, <3>1 DEF Canceled
    <3>3. Canceled(id)[n] = [id |-> i, sent |-> s, canceled |-> t, ended |-> e]
      BY <2>1, <3>2
    <3>4. Canceled(id)[n] \in PageLoader
      BY <3>3 DEF PageLoader
    <3>5. /\ Canceled(id)[n].id = loader[n].id /\ Canceled(id)[n].sent = loader[n].sent
          /\ Canceled(id)[n].ended = loader[n].ended /\ Canceled(id)[n].canceled = t
      BY <2>1, <3>3
    <3> QED  BY <2>2, <3>1, <3>4, <3>5
  <2>3. CASE ~(id # 0 /\ loader[n].id = id)
    <3>1. Canceled(id)[n] = [id |-> i, sent |-> s, canceled |-> c, ended |-> e]
      BY <2>1, <2>3 DEF Canceled
    <3> QED  BY <2>1, <2>3, <3>1 DEF PageLoader
  <2> QED  BY <2>2, <2>3
<1>2. Canceled(id) = [n \in Page |-> Canceled(id)[n]]
  BY DEF Canceled
<1> QED  BY <1>1, <1>2

\* A step that keeps the channel, the numbers and the counts, and after which
\* no page is open or the open page's patches are refused, keeps their order.
LEMMA ChannelStays ==
  ASSUME RequestsInv, RequestsTypes', patches' = patches, request.opened' = request.opened,
         request.id' >= request.id,
         \A n \in Page : /\ loader[n].id' = loader[n].id /\ loader[n].sent' = loader[n].sent
                         /\ loader[n].ended => loader[n].ended'
  PROVE  Numbered' /\ InChannel'
<1>1. /\ 1 .. request.opened \subseteq Page
      /\ request.id \in Nat /\ request.id' \in Nat
      /\ \A n \in Page : loader[n].id \in Nat
  BY RequestFields DEF RequestsInv, RequestsTypes, Requests
<1>2. Numbered'
  <2>1. \A n \in Page : n > request.opened => loader[n].ended' /\ loader[n].sent' = 0
    BY DEF RequestsInv, Numbered
  <2>2. \A n \in 1 .. request.opened : 0 < loader[n].id' /\ loader[n].id' <= request.id'
    BY <1>1 DEF RequestsInv, Numbered
  <2>3. \A n, m \in 1 .. request.opened : n < m => loader[n].id' < loader[m].id'
    BY <1>1 DEF RequestsInv, Numbered
  <2> QED  BY <2>1, <2>2, <2>3 DEF Numbered
<1>3. InChannel'
  BY <1>1 DEF RequestsInv, InChannel
<1> QED  BY <1>2, <1>3

\* The request number advances: no loader goes on uncancelled.
LEMMA AdvanceKeepsInv ==
  ASSUME RequestsInv, view' \in HealthView, request' \in Requests, patches' = patches,
         loader' = Canceled(request.cancel),
         request.id' = request.id + 1, request.cancel' = 0,
         request.opened' = request.opened, request.exit' = request.exit,
         request.canceled' => request.exit,
         view.detail' # 0 => view' = view /\ request.exit
  PROVE  RequestsInv'
<1>1. request.cancel \in Nat /\ request.id \in Nat
  BY RequestFields DEF RequestsInv
<1>2. /\ loader' \in [Page -> PageLoader]
      /\ \A n \in Page :
           /\ loader[n].id' = loader[n].id /\ loader[n].sent' = loader[n].sent
           /\ loader[n].ended' = loader[n].ended
           /\ loader[n].canceled' = (loader[n].canceled \/ (request.cancel # 0 /\ loader[n].id = request.cancel))
  BY <1>1, CanceledFields DEF RequestsInv
<1>3. RequestsTypes'
  BY <1>2 DEF RequestsInv, RequestsTypes
<1>4. Numbered' /\ InChannel'
  BY <1>1, <1>2, <1>3, ChannelStays
<1>5. \A n \in Page : ~Working(n)'
  <2> SUFFICES ASSUME NEW n \in Page, Working(n)'  PROVE FALSE
    OBVIOUS
  <2>1. Working(n)
    BY <1>2 DEF Working
  <2>2. loader[n].id = request.cancel
    BY <2>1 DEF RequestsInv, Stoppable
  <2>3. loader[n].id # 0
    BY <2>1, WorkingIsOpen DEF RequestsInv
  <2> QED  BY <1>2, <2>2, <2>3 DEF Working
<1>6. Stoppable'
  BY <1>5 DEF Stoppable
<1>7. OpenPage' /\ Awaited'
  <2>1. CASE view.detail' = 0
    BY <2>1 DEF OpenPage, Awaited, RequestsInv
  <2>2. CASE view.detail' # 0
    <3>1. view' = view /\ request.exit /\ request.exit'
      BY <2>2
    <3>2. /\ view.shown /\ request.opened > 0 /\ loader[request.opened].id = view.detail
          /\ request.opened \in Page
      BY <2>2, <3>1, RequestFields DEF RequestsInv, OpenPage
    <3> QED  BY <1>2, <3>1, <3>2 DEF OpenPage, Awaited
  <2> QED  BY <2>1, <2>2
<1> QED  BY <1>3, <1>4, <1>6, <1>7 DEF RequestsInv

\* A view without an open page is entered or its selection toggled.
LEMMA ViewKeepsInv ==
  ASSUME RequestsInv, EnterHealthView \/ ToggleSelection
  PROVE  RequestsInv' /\ view.detail = 0
<1>1. PICK sh \in BOOLEAN, se \in BOOLEAN, d \in Nat, m \in Nat, e \in Nat, la \in BOOLEAN :
        view = [shown |-> sh, selecting |-> se, detail |-> d, merged |-> m, entered |-> e, last |-> la]
  BY DEF RequestsInv, RequestsTypes, HealthView
<1>2. PICK none \in Nat, no \in BOOLEAN, yes \in BOOLEAN, x \in BOOLEAN, un \in BOOLEAN :
        none = 0 /\ no = FALSE /\ yes = TRUE /\ x = request.exit /\ un = ~se
  BY RequestFields DEF RequestsInv
<1>3. view.detail = 0 /\ d = 0
  BY <1>1 DEF EnterHealthView, ToggleSelection, RequestsInv, OpenPage
<1>4. view' \in HealthView /\ view.detail' = 0
  <2>1. CASE EnterHealthView
    <3>1. view' = [[view EXCEPT !.shown = yes, !.selecting = no, !.detail = none,
                                !.merged = none, !.entered = @ + 1] EXCEPT !.last = x]
      BY <2>1, <1>2 DEF EnterHealthView, Handled
    <3>2. view' = [shown |-> yes, selecting |-> no, detail |-> none, merged |-> none,
                   entered |-> e + 1, last |-> x]
      BY <1>1, <3>1
    <3> QED  BY <1>2, <3>2 DEF HealthView
  <2>2. CASE ToggleSelection
    <3>1. view' = [[view EXCEPT !.selecting = un] EXCEPT !.last = x]
      BY <1>1, <1>2, <2>2 DEF ToggleSelection, Handled
    <3>2. view' = [shown |-> sh, selecting |-> un, detail |-> d, merged |-> m,
                   entered |-> e, last |-> x]
      BY <1>1, <3>1
    <3> QED  BY <1>2, <1>3, <3>2 DEF HealthView
  <2> QED  BY <2>1, <2>2
<1>5. UNCHANGED <<request, patches, loader>>
  BY DEF EnterHealthView, ToggleSelection
<1>6. request.cancel = 0
  BY <1>3 DEF RequestsInv, OpenPage
<1>7. RequestsTypes' /\ Numbered' /\ InChannel' /\ Stoppable'
  BY <1>4, <1>5 DEF RequestsInv, RequestsTypes, Numbered, InChannel, Stoppable, Working
<1>8. OpenPage' /\ Awaited'
  BY <1>4, <1>5, <1>6 DEF RequestsInv, OpenPage, Awaited
<1> QED  BY <1>3, <1>7, <1>8 DEF RequestsInv

\* The view is left, a page closed or refused, or the exit cancels.
LEMMA AdvancedKeepsInv ==
  ASSUME RequestsInv, ExitHealthView \/ CloseDetail \/ OpenRefused \/ ExitCancels
  PROVE  RequestsInv' /\ (view.detail # 0 /\ view.detail' = view.detail => view' = view)
<1>1. PICK sh \in BOOLEAN, se \in BOOLEAN, d \in Nat, m \in Nat, e \in Nat, la \in BOOLEAN :
        view = [shown |-> sh, selecting |-> se, detail |-> d, merged |-> m, entered |-> e, last |-> la]
  BY DEF RequestsInv, RequestsTypes, HealthView
<1>2. PICK id \in Nat, c \in Nat, o \in 0 .. MaxRequests, x \in BOOLEAN, k \in BOOLEAN :
        request = [id |-> id, cancel |-> c, opened |-> o, exit |-> x, canceled |-> k]
  BY DEF RequestsInv, RequestsTypes, Requests
<1>3. PICK none \in Nat, no \in BOOLEAN, yes \in BOOLEAN :
        none = 0 /\ no = FALSE /\ yes = TRUE
  OBVIOUS
<1>4. /\ Advanced = [id |-> id + 1, cancel |-> none, opened |-> o, exit |-> x, canceled |-> k]
      /\ [Advanced EXCEPT !.canceled = TRUE]
           = [id |-> id + 1, cancel |-> none, opened |-> o, exit |-> x, canceled |-> yes]
  <2>1. Advanced = [request EXCEPT !.id = @ + 1, !.cancel = none]
    BY <1>3 DEF Advanced
  <2>2. Advanced = [id |-> id + 1, cancel |-> none, opened |-> o, exit |-> x, canceled |-> k]
    BY <1>2, <2>1
  <2>3. [Advanced EXCEPT !.canceled = yes]
          = [id |-> id + 1, cancel |-> none, opened |-> o, exit |-> x, canceled |-> yes]
    BY <2>2
  <2> QED  BY <1>3, <2>2, <2>3
<1>5. patches' = patches /\ loader' = Canceled(request.cancel)
  BY DEF ExitHealthView, CloseDetail, OpenRefused, ExitCancels
<1>6. request.canceled => request.exit
  BY DEF RequestsInv, OpenPage
<1>7. CASE ExitCancels
  <2>1. request' = [id |-> id + 1, cancel |-> none, opened |-> o, exit |-> x, canceled |-> yes]
    BY <1>4, <1>7 DEF ExitCancels
  <2>2. view' = view /\ request.exit
    BY <1>7 DEF ExitCancels
  <2>3. request' \in Requests
    BY <2>1 DEF Requests
  <2>4. /\ request.id' = request.id + 1 /\ request.cancel' = 0 /\ request.opened' = request.opened
        /\ request.exit' = request.exit
    BY <1>2, <1>3, <2>1
  <2>5. view' \in HealthView
    BY <2>2 DEF RequestsInv, RequestsTypes
  <2> QED  BY <1>5, <2>2, <2>3, <2>4, <2>5, AdvanceKeepsInv
<1>8. CASE ExitHealthView \/ CloseDetail \/ OpenRefused
  <2>1. request' = [id |-> id + 1, cancel |-> none, opened |-> o, exit |-> x, canceled |-> k]
    BY <1>4, <1>8 DEF ExitHealthView, CloseDetail, OpenRefused
  <2>2. view' \in HealthView /\ view.detail' = 0
    <3>1. CASE ExitHealthView
      <4>1. view' = [[view EXCEPT !.shown = no, !.selecting = no] EXCEPT !.last = x] /\ view.detail = 0
        BY <1>2, <1>3, <3>1 DEF ExitHealthView, Handled
      <4>2. view' = [shown |-> no, selecting |-> no, detail |-> d, merged |-> m, entered |-> e, last |-> x]
        BY <1>1, <4>1
      <4> QED  BY <1>1, <4>1, <4>2 DEF HealthView
    <3>2. CASE CloseDetail
      <4>1. view' = [[view EXCEPT !.detail = none, !.merged = none] EXCEPT !.last = x]
        BY <1>2, <1>3, <3>2 DEF CloseDetail, Handled
      <4>2. view' = [shown |-> sh, selecting |-> se, detail |-> none, merged |-> none, entered |-> e, last |-> x]
        BY <1>1, <4>1
      <4> QED  BY <1>3, <4>2 DEF HealthView
    <3>3. CASE OpenRefused
      <4>1. view' = [view EXCEPT !.last = x] /\ view.detail = 0
        BY <1>2, <3>3 DEF OpenRefused, Handled
      <4>2. view' = [shown |-> sh, selecting |-> se, detail |-> d, merged |-> m, entered |-> e, last |-> x]
        BY <1>1, <4>1
      <4> QED  BY <1>1, <4>1, <4>2 DEF HealthView
    <3> QED  BY <1>8, <3>1, <3>2, <3>3
  <2>3. request' \in Requests
    BY <2>1 DEF Requests
  <2>4. /\ request.id' = request.id + 1 /\ request.cancel' = 0 /\ request.opened' = request.opened
        /\ request.exit' = request.exit /\ request.canceled' = request.canceled
    BY <1>2, <1>3, <2>1
  <2>5. RequestsInv'
    BY <1>5, <1>6, <2>2, <2>3, <2>4, AdvanceKeepsInv
  <2> QED  BY <2>2, <2>5
<1> QED  BY <1>7, <1>8

\* A page is opened: its loader is the only one left uncancelled.
LEMMA OpenDetailKeepsInv ==
  ASSUME RequestsInv, OpenDetail
  PROVE  RequestsInv' /\ view.detail = 0
<1>1. PICK sh \in BOOLEAN, se \in BOOLEAN, d \in Nat, m \in Nat, e \in Nat, la \in BOOLEAN :
        view = [shown |-> sh, selecting |-> se, detail |-> d, merged |-> m, entered |-> e, last |-> la]
  BY DEF RequestsInv, RequestsTypes, HealthView
<1>2. PICK id \in Nat, c \in Nat, o \in 0 .. MaxRequests, x \in BOOLEAN, k \in BOOLEAN :
        request = [id |-> id, cancel |-> c, opened |-> o, exit |-> x, canceled |-> k]
  BY DEF RequestsInv, RequestsTypes, Requests
<1>3. PICK none \in Nat, no \in BOOLEAN : none = 0 /\ no = FALSE
  OBVIOUS
<1>4. /\ view.shown /\ view.detail = 0 /\ o < MaxRequests /\ ~request.exit /\ patches' = patches
      /\ MaxRequests \in Nat /\ PatchCount \in Nat /\ ~request.canceled
  BY <1>2, RequestsAssumption DEF OpenDetail, RequestsInv, OpenPage
<1>5. PICK n \in Nat, new \in Nat : n = o + 1 /\ new = id + 2
  BY <1>2
<1>6. n \in Page /\ n \in 1 .. n /\ n \in 0 .. MaxRequests
  BY <1>4, <1>5 DEF Page
<1>7. request' = [id |-> new, cancel |-> new, opened |-> n, exit |-> x, canceled |-> k]
  <2>1. request' = [request EXCEPT !.id = new, !.cancel = new, !.opened = n]
    BY <1>2, <1>5 DEF OpenDetail
  <2> QED  BY <1>2, <2>1
<1>8. view' = [shown |-> sh, selecting |-> se, detail |-> new, merged |-> none, entered |-> e, last |-> x]
  <2>1. view' = [[view EXCEPT !.detail = new, !.merged = none] EXCEPT !.last = x]
    BY <1>2, <1>3, <1>5 DEF OpenDetail, Handled
  <2> QED  BY <1>1, <2>1
<1> DEFINE fresh == [id |-> new, sent |-> none, canceled |-> no, ended |-> no]
<1>9. /\ loader' \in [Page -> PageLoader] /\ loader'[n] = fresh
      /\ \A p \in Page \ {n} : loader'[p] = Canceled(c)[p]
  <2>1. loader' = [Canceled(c) EXCEPT ![n] = fresh]
    BY <1>2, <1>3, <1>5 DEF OpenDetail
  <2>2. fresh \in PageLoader
    BY <1>3, <1>4 DEF PageLoader
  <2>3. Canceled(c) \in [Page -> PageLoader]
    BY <1>2, CanceledFields DEF RequestsInv
  <2> QED  BY <1>6, <2>1, <2>2, <2>3
<1>10. \A p \in Page \ {n} :
         /\ loader'[p].id = loader[p].id /\ loader'[p].sent = loader[p].sent
         /\ loader'[p].ended = loader[p].ended
         /\ loader'[p].canceled = (loader[p].canceled \/ (c # 0 /\ loader[p].id = c))
  BY <1>2, <1>9, CanceledFields DEF RequestsInv
<1>11. RequestsTypes'
  <2>1. view' \in HealthView /\ request' \in Requests
    BY <1>6, <1>7, <1>8 DEF HealthView, Requests
  <2> QED  BY <1>4, <1>9, <2>1 DEF RequestsInv, RequestsTypes
<1>12. \A p \in 1 .. o : p \in Page \ {n} /\ loader[p].id \in Nat /\ 0 < loader[p].id /\ loader[p].id <= id
  <2>1. request.opened = o /\ request.id = id
    BY <1>2
  <2>2. \A p \in 1 .. o : 0 < loader[p].id /\ loader[p].id <= id
    BY <2>1 DEF RequestsInv, Numbered
  <2>3. \A p \in Page : loader[p].id \in Nat
    BY RequestFields DEF RequestsInv
  <2>4. \A p \in 1 .. o : p \in Page \ {n}
    BY <1>4, <1>5 DEF Page
  <2> QED  BY <2>2, <2>3, <2>4
<1>13. Numbered'
  <2>1. ASSUME NEW p \in Page, p > n  PROVE loader'[p].ended /\ loader'[p].sent = 0
    BY <1>2, <1>5, <1>10, <2>1 DEF RequestsInv, Numbered, Page
  <2>2. ASSUME NEW p \in 1 .. n  PROVE 0 < loader'[p].id /\ loader'[p].id <= new
    BY <1>5, <1>9, <1>10, <1>12, <2>2
  <2>3. ASSUME NEW p \in 1 .. n, NEW q \in 1 .. n, p < q  PROVE loader'[p].id < loader'[q].id
    <3>1. CASE q = n
      BY <1>5, <1>9, <1>10, <1>12, <2>3, <3>1
    <3>2. CASE q # n
      BY <1>2, <1>5, <1>10, <1>12, <2>3, <3>2 DEF RequestsInv, Numbered
    <3> QED  BY <3>1, <3>2
  <2> QED  BY <1>7, <2>1, <2>2, <2>3 DEF Numbered
<1>14. OpenPage'
  BY <1>1, <1>2, <1>4, <1>5, <1>6, <1>7, <1>8, <1>9 DEF OpenPage
<1>15. Stoppable'
  <2> SUFFICES ASSUME NEW p \in Page, Working(p)', p # n  PROVE FALSE
    BY <1>7, <1>9 DEF Stoppable
  <2>1. Working(p)
    BY <1>10 DEF Working
  <2>2. loader[p].id = c
    BY <1>2, <2>1 DEF RequestsInv, Stoppable
  <2>3. loader[p].id # 0
    BY <2>1, WorkingIsOpen DEF RequestsInv
  <2>4. c # 0
    BY <2>2, <2>3
  <2>5. loader'[p].canceled = TRUE /\ ~loader'[p].canceled
    BY <1>10, <2>2, <2>4 DEF Working
  <2> QED  BY <2>5
<1>16. InChannel'
  <2>1. ASSUME NEW j \in 1 .. Len(patches)
        PROVE  \E p \in 1 .. n : patches[j][1] = loader'[p].id /\ patches[j][2] <= loader'[p].sent
    <3>1. PICK p \in 1 .. o : patches[j][1] = loader[p].id /\ patches[j][2] <= loader[p].sent
      BY <1>2 DEF RequestsInv, InChannel
    <3>2. p \in 1 .. n /\ p \in Page \ {n}
      BY <1>5, <1>12
    <3> QED  BY <1>10, <3>1, <3>2
  <2> QED  BY <1>4, <1>7, <2>1 DEF RequestsInv, InChannel
<1>17. Awaited'
  <2>1. \A j \in 1 .. Len(patches) : patches[j][1] # new
    <3> SUFFICES ASSUME NEW j \in 1 .. Len(patches)  PROVE patches[j][1] # new
      OBVIOUS
    <3>1. PICK p \in 1 .. o : patches[j][1] = loader[p].id
      BY <1>2 DEF RequestsInv, InChannel
    <3> QED  BY <1>5, <1>12, <3>1
  <2>2. loader'[n].sent = 0
    BY <1>3, <1>9
  <2>3. view.merged' = 0 /\ view.detail' = new /\ request.opened' = n
    BY <1>3, <1>7, <1>8
  <2> QED  BY <1>4, <2>1, <2>2, <2>3 DEF Awaited
<1> QED  BY <1>4, <1>11, <1>13, <1>14, <1>15, <1>16, <1>17 DEF RequestsInv

\* A loader sends its next patch or ends.
LEMMA LoaderKeepsInv ==
  ASSUME RequestsInv, NEW n \in Page, SendPatch(n) \/ LoaderEnds(n)
  PROVE  RequestsInv' /\ view' = view
<1>1. PICK id \in Nat, s \in 0 .. PatchCount, c \in BOOLEAN, e \in BOOLEAN :
        loader[n] = [id |-> id, sent |-> s, canceled |-> c, ended |-> e]
  BY DEF RequestsInv, RequestsTypes, PageLoader
<1>2. ~loader[n].ended /\ n \in 1 .. request.opened /\ id = loader[n].id /\ s = loader[n].sent
  BY <1>1, RequestFields DEF SendPatch, LoaderEnds, RequestsInv, Numbered, Page
<1>3. UNCHANGED <<view, request>>
  BY DEF SendPatch, LoaderEnds
<1>4. /\ PatchCount \in Nat /\ Len(patches) \in Nat /\ patches \in Seq(Nat \X (1 .. PatchCount))
      /\ request.opened \in Nat /\ 1 .. request.opened \subseteq Page
  BY RequestFields DEF RequestsInv, RequestsTypes
<1>5. CASE LoaderEnds(n)
  <2>1. PICK yes \in BOOLEAN : yes = TRUE
    OBVIOUS
  <2> DEFINE after == [id |-> id, sent |-> s, canceled |-> c, ended |-> yes]
  <2>2. loader' = [loader EXCEPT ![n] = after]
    <3>1. [loader[n] EXCEPT !.ended = yes] = after
      BY <1>1
    <3> QED  BY <1>5, <2>1, <3>1 DEF LoaderEnds
  <2>3. /\ loader' \in [Page -> PageLoader] /\ loader'[n] = after
        /\ \A p \in Page \ {n} : loader'[p] = loader[p]
    BY <2>2 DEF RequestsInv, RequestsTypes, PageLoader
  <2>4. \A p \in Page : /\ loader'[p].id = loader[p].id /\ loader'[p].sent = loader[p].sent
                        /\ loader[p].ended => loader'[p].ended
                        /\ Working(p)' => Working(p)
    BY <1>1, <2>1, <2>3 DEF Working
  <2>5. patches' = patches
    BY <1>5 DEF LoaderEnds
  <2>6. RequestsTypes'
    BY <1>3, <2>3, <2>5 DEF RequestsInv, RequestsTypes
  <2>7. Numbered' /\ InChannel'
    BY <1>3, <2>4, <2>5, <2>6, ChannelStays, RequestFields DEF RequestsInv
  <2>8. Stoppable'
    BY <1>3, <2>4 DEF RequestsInv, Stoppable
  <2>9. OpenPage' /\ Awaited'
    BY <1>3, <2>4, <2>5, RequestFields DEF RequestsInv, OpenPage, Awaited
  <2> QED  BY <1>3, <2>6, <2>7, <2>8, <2>9 DEF RequestsInv
<1>6. CASE SendPatch(n)
  <2>1. PICK t \in 1 .. PatchCount : t = s + 1
    BY <1>1, <1>4, <1>6 DEF SendPatch
  <2> DEFINE after == [id |-> id, sent |-> t, canceled |-> c, ended |-> e]
             new == <<id, t>>
  <2>2. loader' = [loader EXCEPT ![n] = after]
    <3>1. [loader[n] EXCEPT !.sent = t] = after
      BY <1>1
    <3>2. loader' = [loader EXCEPT ![n] = [loader[n] EXCEPT !.sent = t]]
      BY <1>1, <1>6, <2>1 DEF SendPatch
    <3> QED  BY <3>1, <3>2
  <2>3. /\ loader' \in [Page -> PageLoader] /\ loader'[n] = after
        /\ \A p \in Page \ {n} : loader'[p] = loader[p]
    <3>1. after \in PageLoader
      BY <1>4, <2>1 DEF PageLoader
    <3> QED  BY <2>2, <3>1 DEF RequestsInv, RequestsTypes
  <2>4. \A p \in Page : /\ loader'[p].id = loader[p].id /\ loader[p].sent <= loader'[p].sent
                        /\ loader'[p].ended = loader[p].ended
                        /\ Working(p)' => Working(p)
    <3>1. loader[n].sent # PatchCount /\ loader'[n].canceled = c /\ loader'[n].ended = e
      BY <1>1, <1>4, <1>6, <2>3 DEF SendPatch
    <3>2. Working(n)' => Working(n)
      BY <1>1, <3>1 DEF Working
    <3>3. /\ loader'[n].id = loader[n].id /\ loader[n].sent <= loader'[n].sent
          /\ loader'[n].ended = loader[n].ended
      BY <1>1, <1>4, <2>1, <2>3
    <3>4. ASSUME NEW p \in Page \ {n}
          PROVE  /\ loader'[p].id = loader[p].id /\ loader[p].sent <= loader'[p].sent
                 /\ loader'[p].ended = loader[p].ended
                 /\ Working(p)' => Working(p)
      BY <2>3, RequestFields DEF Working, RequestsInv
    <3> QED  BY <3>2, <3>3, <3>4
  <2>5. /\ patches' = Append(patches, new) /\ Len(patches) < Capacity
        /\ new \in Nat \X (1 .. PatchCount)
    BY <1>1, <1>6, <2>1 DEF SendPatch
  <2>6. /\ patches' \in Seq(Nat \X (1 .. PatchCount)) /\ Len(patches') = Len(patches) + 1
        /\ \A j \in 1 .. Len(patches) : patches'[j] = patches[j]
        /\ patches'[Len(patches) + 1] = new
    BY <1>4, <2>5
  <2>7. new[1] = id /\ new[2] = t
    OBVIOUS
  <2>8. RequestsTypes'
    BY <1>3, <1>4, <2>3, <2>5, <2>6, RequestsAssumption DEF RequestsInv, RequestsTypes
  <2>9. Numbered'
    <3>1. \A p \in Page : p > request.opened => loader'[p].ended /\ loader'[p].sent = 0
      BY <1>2, <2>3 DEF RequestsInv, Numbered
    <3> QED  BY <1>3, <1>4, <2>4, <3>1 DEF RequestsInv, Numbered
  <2>10. Stoppable' /\ OpenPage'
    BY <1>3, <2>4, RequestFields DEF RequestsInv, Stoppable, OpenPage
  <2>11. \A j \in 1 .. Len(patches) : patches[j][1] = id => patches[j][2] < t
    <3> SUFFICES ASSUME NEW j \in 1 .. Len(patches), patches[j][1] = id  PROVE patches[j][2] < t
      OBVIOUS
    <3>1. PICK p \in 1 .. request.opened : patches[j][1] = loader[p].id /\ patches[j][2] <= loader[p].sent
      BY DEF RequestsInv, InChannel
    <3>2. p = n
      <4>a. p \in Page
        BY <3>1, RequestFields DEF RequestsInv
      <4>b. p \in Nat /\ n \in Nat
        BY <1>2, <4>a DEF Page
      <4>c. loader[p].id \in Nat
        BY <4>a, RequestFields DEF RequestsInv
      <4>d. loader[p].id = loader[n].id
        BY <1>2, <3>1
      <4>1. p \in Nat /\ n \in Nat /\ loader[p].id = loader[n].id /\ loader[p].id \in Nat
        BY <4>b, <4>c, <4>d
      <4>2. ~(p < n) /\ ~(n < p)
        BY <1>2, <3>1, <4>1 DEF RequestsInv, Numbered
      <4> QED  BY <4>1, <4>2
    <3>3. patches[j][2] \in Nat /\ patches[j][2] <= s /\ s \in Nat
      BY <1>1, <1>2, <1>4, <3>1, <3>2, RequestFields DEF RequestsInv
    <3> QED  BY <2>1, <3>3
  <2>12. InChannel'
    <3>1. ASSUME NEW j \in 1 .. Len(patches) + 1
          PROVE  \E p \in 1 .. request.opened : patches'[j][1] = loader'[p].id /\ patches'[j][2] <= loader'[p].sent
      <4>1. CASE j = Len(patches) + 1
        <5>1. patches'[j][1] = loader'[n].id /\ patches'[j][2] <= loader'[n].sent
          BY <2>1, <2>3, <2>6, <2>7, <4>1
        <5> QED  BY <1>2, <5>1
      <4>2. CASE j # Len(patches) + 1
        <5>1. j \in 1 .. Len(patches)
          BY <1>4, <4>2
        <5>2. PICK p \in 1 .. request.opened : patches[j][1] = loader[p].id /\ patches[j][2] <= loader[p].sent
          BY <5>1 DEF RequestsInv, InChannel
        <5>3. /\ p \in Page /\ patches[j][2] \in Nat /\ loader[p].sent \in Nat
              /\ patches'[j] = patches[j]
          BY <1>4, <2>6, <5>1, RequestFields DEF RequestsInv
        <5>4. loader'[p].sent \in Nat
          BY <1>4, <2>3, <5>3 DEF PageLoader
        <5>5. loader'[p].id = loader[p].id /\ loader[p].sent <= loader'[p].sent
          BY <2>4, <5>3
        <5>6. patches'[j][1] = loader'[p].id /\ patches'[j][2] <= loader'[p].sent
          BY <5>2, <5>3, <5>4, <5>5
        <5> QED  BY <5>6
      <4> QED  BY <4>1, <4>2
    <3>2. ASSUME NEW i \in 1 .. Len(patches) + 1, NEW j \in 1 .. Len(patches) + 1,
                 i < j, patches'[i][1] = patches'[j][1]
          PROVE  patches'[i][2] < patches'[j][2]
      <4>1. i \in 1 .. Len(patches) /\ patches'[i] = patches[i]
        <5>1. i \in 1 .. Len(patches)
          BY <1>4, <3>2
        <5> QED  BY <2>6, <5>1
      <4>2. CASE j = Len(patches) + 1
        BY <2>6, <2>7, <2>11, <3>2, <4>1, <4>2
      <4>3. CASE j # Len(patches) + 1
        <5>1. j \in 1 .. Len(patches)
          BY <1>4, <4>3
        <5>2. patches'[j] = patches[j]
          BY <2>6, <5>1
        <5> QED  BY <3>2, <4>1, <5>1, <5>2 DEF RequestsInv, InChannel
      <4> QED  BY <4>2, <4>3
    <3> QED  BY <1>3, <2>6, <3>1, <3>2 DEF InChannel
  <2>13. Awaited'
    <3> SUFFICES ASSUME view.detail # 0, ~request.exit  PROVE Awaited'
      BY <1>3 DEF Awaited
    <3> DEFINE o == request.opened
    <3>1. o \in Page /\ loader[o].id = view.detail /\ loader[o].sent \in Nat /\ view.merged \in Nat
      BY RequestFields DEF RequestsInv, OpenPage
    <3>2. /\ view.merged <= loader[o].sent
          /\ \A j \in 1 .. Len(patches) : patches[j][1] = view.detail => view.merged < patches[j][2]
          /\ \A k \in view.merged + 1 .. loader[o].sent :
                \E j \in 1 .. Len(patches) : patches[j] = <<view.detail, k>>
      BY DEF RequestsInv, Awaited
    <3>3. id = view.detail => n = o
      <4>1. o \in 1 .. o /\ o \in Nat /\ n \in Nat /\ loader[n].id \in Nat
        BY <1>2, <1>4, RequestFields DEF RequestsInv, OpenPage
      <4>2. n <= o /\ n \in 1 .. request.opened /\ o \in 1 .. request.opened
        BY <1>2, <4>1
      <4>3. n < o => loader[n].id < loader[o].id
        BY <4>2 DEF RequestsInv, Numbered
      <4> QED  BY <1>2, <3>1, <4>1, <4>2, <4>3
    <3>4. view.merged <= loader'[o].sent
      BY <1>1, <2>1, <2>3, <3>1, <3>2
    <3>5. ASSUME NEW j \in 1 .. Len(patches) + 1, patches'[j][1] = view.detail
          PROVE  view.merged < patches'[j][2]
      <4>1. CASE j = Len(patches) + 1
        BY <1>1, <2>1, <2>6, <2>7, <3>1, <3>2, <3>3, <3>5, <4>1
      <4>2. CASE j # Len(patches) + 1
        <5>1. j \in 1 .. Len(patches)
          BY <1>4, <4>2
        <5>2. patches'[j] = patches[j]
          BY <2>6, <5>1
        <5> QED  BY <3>2, <3>5, <5>1, <5>2
      <4> QED  BY <4>1, <4>2
    <3>6. ASSUME NEW k \in view.merged + 1 .. loader'[o].sent
          PROVE  \E j \in 1 .. Len(patches) + 1 : patches'[j] = <<view.detail, k>>
      <4>1. CASE k \in view.merged + 1 .. loader[o].sent
        <5>1. PICK j \in 1 .. Len(patches) : patches[j] = <<view.detail, k>>
          BY <3>2, <4>1
        <5>2. patches'[j] = <<view.detail, k>>
          BY <2>6, <5>1
        <5>3. j \in 1 .. Len(patches) + 1
          BY <1>4
        <5> QED  BY <5>2, <5>3
      <4>2. CASE k \notin view.merged + 1 .. loader[o].sent
        <5>1. n = o /\ k = t
          BY <1>1, <2>1, <2>3, <3>1, <3>6, <4>2
        <5>2. patches'[Len(patches) + 1] = <<view.detail, k>>
          BY <1>2, <2>6, <3>1, <5>1
        <5> QED  BY <1>4, <5>2
      <4> QED  BY <4>1, <4>2
    <3> QED  BY <1>3, <2>6, <3>4, <3>5, <3>6 DEF Awaited
  <2> QED  BY <1>3, <2>8, <2>9, <2>10, <2>12, <2>13 DEF RequestsInv
<1> QED  BY <1>5, <1>6

\* A patch is taken from the channel: the open page's next one, or one dropped.
LEMMA ApplyKeepsInv ==
  ASSUME RequestsInv, ApplyPatch
  PROVE  RequestsInv' /\ (view.merged' # view.merged => view.merged' = view.merged + 1)
<1>1. PICK sh \in BOOLEAN, se \in BOOLEAN, d \in Nat, m \in Nat, e \in Nat, la \in BOOLEAN :
        view = [shown |-> sh, selecting |-> se, detail |-> d, merged |-> m, entered |-> e, last |-> la]
  BY DEF RequestsInv, RequestsTypes, HealthView
<1>2. PICK id \in Nat, c \in Nat, o \in 0 .. MaxRequests, x \in BOOLEAN, k \in BOOLEAN :
        request = [id |-> id, cancel |-> c, opened |-> o, exit |-> x, canceled |-> k]
  BY DEF RequestsInv, RequestsTypes, Requests
<1>3. /\ PatchCount \in Nat /\ Len(patches) \in Nat /\ patches \in Seq(Nat \X (1 .. PatchCount))
      /\ 1 .. o \subseteq Page /\ patches # <<>>
  BY <1>2, RequestFields DEF RequestsInv, RequestsTypes, ApplyPatch
<1>4. /\ patches' = Tail(patches) /\ loader' = loader
      /\ patches' \in Seq(Nat \X (1 .. PatchCount))
      /\ 1 \in 1 .. Len(patches) /\ Head(patches) = patches[1]
      /\ Len(patches') = Len(patches) - 1
      /\ \A j \in 1 .. Len(patches) - 1 : patches'[j] = patches[j + 1]
  BY <1>3 DEF ApplyPatch
<1>5. PICK i \in Nat, p \in 1 .. PatchCount : patches[1] = <<i, p>>
  <2>1. patches[1] \in Nat \X (1 .. PatchCount)
    BY <1>3, <1>4
  <2> QED  BY <2>1
<1>6. \A j \in 1 .. Len(patches) - 1 : j + 1 \in 1 .. Len(patches) /\ 1 < j + 1
  BY <1>3
<1>7. ASSUME RequestsTypes', request.opened' = o  PROVE InChannel'
  <2>1. ASSUME NEW j \in 1 .. Len(patches) - 1
        PROVE  \E q \in 1 .. o : patches'[j][1] = loader[q].id /\ patches'[j][2] <= loader[q].sent
    BY <1>2, <1>4, <1>6 DEF RequestsInv, InChannel
  <2>2. ASSUME NEW j \in 1 .. Len(patches) - 1, NEW q \in 1 .. Len(patches) - 1,
               j < q, patches'[j][1] = patches'[q][1]
        PROVE  patches'[j][2] < patches'[q][2]
    <3>1. /\ j + 1 \in 1 .. Len(patches) /\ q + 1 \in 1 .. Len(patches) /\ j + 1 < q + 1
      BY <1>6, <2>2
    <3>2. patches[j + 1][1] = patches[q + 1][1]
      BY <1>4, <2>2
    <3>3. patches[j + 1][2] < patches[q + 1][2]
      BY <3>1, <3>2 DEF RequestsInv, InChannel
    <3> QED  BY <1>4, <3>3
  <2> QED  BY <1>4, <1>7, <2>1, <2>2 DEF InChannel
<1>8. CASE ~WantedPatch(i)
  <2>1. UNCHANGED <<view, request>>
    <3>1. Head(patches)[1] = i
      BY <1>4, <1>5
    <3> QED  BY <1>8, <3>1 DEF ApplyPatch
  <2>2. RequestsTypes'
    <3>1. Len(patches') <= Capacity
      BY <1>3, <1>4, RequestsAssumption DEF RequestsInv, RequestsTypes
    <3> QED  BY <1>4, <2>1, <3>1 DEF RequestsInv, RequestsTypes
  <2>3. Numbered' /\ OpenPage' /\ Stoppable'
    BY <1>4, <2>1 DEF RequestsInv, Numbered, OpenPage, Stoppable, Working
  <2>4. InChannel'
    BY <1>2, <1>7, <2>1, <2>2
  <2>5. Awaited'
    <3> SUFFICES ASSUME view.detail # 0, ~request.exit  PROVE Awaited'
      BY <2>1 DEF Awaited
    <3>1. i # view.detail
      BY <1>8 DEF WantedPatch, RequestsInv, OpenPage
    <3>2. \A j \in 1 .. Len(patches) - 1 : patches'[j][1] = view.detail => view.merged < patches'[j][2]
      BY <1>4, <1>6 DEF RequestsInv, Awaited
    <3>3. ASSUME NEW n \in view.merged + 1 .. loader[request.opened].sent
          PROVE  \E j \in 1 .. Len(patches) - 1 : patches'[j] = <<view.detail, n>>
      <4>1. PICK j \in 1 .. Len(patches) : patches[j] = <<view.detail, n>>
        BY DEF RequestsInv, Awaited
      <4>2. j # 1
        BY <1>5, <3>1, <4>1
      <4>3. j - 1 \in 1 .. Len(patches) - 1 /\ (j - 1) + 1 = j
        BY <1>3, <4>2
      <4>4. patches'[j - 1] = <<view.detail, n>>
        BY <1>4, <4>1, <4>3
      <4> QED  BY <4>3, <4>4
    <3>4. view.merged <= loader[request.opened].sent
      BY DEF RequestsInv, Awaited
    <3> QED  BY <1>4, <2>1, <3>2, <3>3, <3>4 DEF Awaited
  <2> QED  BY <2>1, <2>2, <2>3, <2>4, <2>5 DEF RequestsInv
<1>9. CASE WantedPatch(i)
  <2>1. i = id /\ ~x /\ sh /\ d # 0 /\ view.detail = d /\ request.id = id /\ ~request.exit
        /\ view.merged = m /\ request.opened = o /\ request.cancel = c
    BY <1>1, <1>2, <1>9 DEF WantedPatch
  <2>2. /\ d = id /\ o > 0 /\ o \in Page /\ o \in 1 .. o /\ loader[o].id = d
        /\ loader[o].sent \in 0 .. PatchCount /\ loader[o].sent \in Nat
    BY <2>1, RequestFields DEF RequestsInv, OpenPage
  <2>3. /\ m <= loader[o].sent
        /\ \A j \in 1 .. Len(patches) : patches[j][1] = d => m < patches[j][2]
        /\ \A n \in m + 1 .. loader[o].sent : \E j \in 1 .. Len(patches) : patches[j] = <<d, n>>
    BY <2>1 DEF RequestsInv, Awaited
  <2>4. patches[1][1] = d /\ patches[1][2] = p /\ m < p
    <3>1. patches[1][1] = i /\ patches[1][2] = p
      BY <1>5
    <3> QED  BY <1>4, <2>1, <2>2, <2>3, <3>1
  <2>5. p <= loader[o].sent
    <3>1. PICK q \in 1 .. o : patches[1][1] = loader[q].id /\ patches[1][2] <= loader[q].sent
      BY <1>4, <2>1 DEF RequestsInv, InChannel
    <3>2. q = o
      <4>1. q \in Nat /\ o \in Nat /\ q <= o /\ loader[q].id \in Nat
        BY <1>3, RequestFields DEF RequestsInv
      <4>2. q < o => loader[q].id < loader[o].id
        BY <2>1, <2>2 DEF RequestsInv, Numbered
      <4> QED  BY <2>2, <2>4, <3>1, <4>1, <4>2
    <3> QED  BY <2>4, <3>1, <3>2
  <2>6. p = m + 1
    <3>1. m + 1 \in m + 1 .. loader[o].sent
      BY <2>2, <2>4, <2>5
    <3>2. PICK j \in 1 .. Len(patches) : patches[j] = <<d, m + 1>>
      BY <2>3, <3>1
    <3>3. j # 1 => patches[1][2] < patches[j][2]
      <4>1. j # 1 => 1 < j
        BY <1>3
      <4>2. patches[j][1] = d
        BY <3>2
      <4> QED  BY <1>4, <2>4, <4>1, <4>2 DEF RequestsInv, InChannel
    <3>4. patches[j][2] = m + 1
      BY <3>2
    <3>5. j # 1 => p < m + 1
      BY <2>4, <3>3, <3>4
    <3> QED  BY <2>4, <3>2, <3>4, <3>5
  <2>7. PICK cc \in Nat : cc = (IF p = PatchCount THEN 0 ELSE c)
    OBVIOUS
  <2>8. /\ view' = [view EXCEPT !.merged = p]
        /\ request' = [request EXCEPT !.cancel = cc]
    <3>1. Head(patches)[1] = i /\ Head(patches)[2] = p
      BY <1>4, <1>5
    <3> QED  BY <1>9, <2>1, <2>7, <3>1 DEF ApplyPatch
  <2>9. /\ view' = [shown |-> sh, selecting |-> se, detail |-> d, merged |-> p, entered |-> e, last |-> la]
        /\ request' = [id |-> id, cancel |-> cc, opened |-> o, exit |-> x, canceled |-> k]
    BY <1>1, <1>2, <2>8
  <2>10. RequestsTypes'
    <3>1. view' \in HealthView /\ request' \in Requests
      BY <1>3, <2>9 DEF HealthView, Requests
    <3>2. Len(patches') <= Capacity
      BY <1>3, <1>4, RequestsAssumption DEF RequestsInv, RequestsTypes
    <3> QED  BY <1>4, <3>1, <3>2 DEF RequestsInv, RequestsTypes
  <2>11. request'.opened = o /\ request'.id = id /\ request'.cancel = cc /\ request'.exit = x
         /\ request'.canceled = k /\ view'.detail = d /\ view'.merged = p /\ view'.shown = sh
    BY <2>9
  <2>12. Numbered' /\ InChannel'
    BY <1>2, <1>4, <1>7, <2>10, <2>11 DEF RequestsInv, Numbered
  <2>13. OpenPage'
    BY <1>2, <1>4, <2>1, <2>2, <2>7, <2>11 DEF RequestsInv, OpenPage
  <2>14. Stoppable'
    <3> SUFFICES ASSUME NEW n \in Page, Working(n)  PROVE loader[n].id = cc
      BY <1>4, <2>11 DEF Stoppable, Working
    <3>1. loader[n].id = c
      BY <2>1 DEF RequestsInv, Stoppable
    <3>2. CASE p # PatchCount
      BY <2>7, <3>1, <3>2
    <3>3. CASE p = PatchCount
      <4>1. loader[o].sent = PatchCount
        BY <1>3, <2>2, <2>5, <3>3
      <4>2. n \in 1 .. o /\ n # o /\ loader[n].id \in Nat
        BY <2>1, <4>1, RequestFields DEF RequestsInv, Numbered, Working, Page
      <4>3. loader[n].id < loader[o].id /\ 0 < loader[n].id
        BY <2>1, <2>2, <4>2 DEF RequestsInv, Numbered
      <4>4. c # 0 => c = d
        BY <2>1 DEF RequestsInv, OpenPage
      <4> QED  BY <2>2, <3>1, <4>2, <4>3, <4>4
    <3> QED  BY <3>2, <3>3
  <2>15. Awaited'
    <3>1. ASSUME NEW j \in 1 .. Len(patches) - 1, patches'[j][1] = d  PROVE p < patches'[j][2]
      <4>1. patches'[j] = patches[j + 1] /\ j + 1 \in 1 .. Len(patches) /\ 1 < j + 1
        BY <1>4, <1>6
      <4> QED  BY <1>4, <2>4, <3>1, <4>1 DEF RequestsInv, InChannel
    <3>2. ASSUME NEW n \in p + 1 .. loader[o].sent
          PROVE  \E j \in 1 .. Len(patches) - 1 : patches'[j] = <<d, n>>
      <4>1. n \in m + 1 .. loader[o].sent /\ n # p
        BY <2>2, <2>4
      <4>2. PICK j \in 1 .. Len(patches) : patches[j] = <<d, n>>
        BY <2>3, <4>1
      <4>3. j # 1
        BY <2>4, <4>1, <4>2
      <4>4. j - 1 \in 1 .. Len(patches) - 1 /\ (j - 1) + 1 = j
        BY <1>3, <4>3
      <4>5. patches'[j - 1] = <<d, n>>
        BY <1>4, <4>2, <4>4
      <4> QED  BY <4>4, <4>5
    <3> QED  BY <1>4, <2>5, <2>11, <3>1, <3>2 DEF Awaited
  <2> QED  BY <2>1, <2>6, <2>10, <2>11, <2>12, <2>13, <2>14, <2>15 DEF RequestsInv
<1> QED  BY <1>8, <1>9

\* The exit request is noted: from here no patch is wanted.
LEMMA ExitKeepsInv ==
  ASSUME RequestsInv, ExitRequested
  PROVE  RequestsInv' /\ view' = view
<1>1. PICK id \in Nat, c \in Nat, o \in 0 .. MaxRequests, x \in BOOLEAN, k \in BOOLEAN :
        request = [id |-> id, cancel |-> c, opened |-> o, exit |-> x, canceled |-> k]
  BY DEF RequestsInv, RequestsTypes, Requests
<1>2. PICK yes \in BOOLEAN : yes = TRUE
  OBVIOUS
<1>3. request' = [request EXCEPT !.exit = yes] /\ UNCHANGED <<view, patches, loader>>
  BY <1>2 DEF ExitRequested
<1>4. request' = [id |-> id, cancel |-> c, opened |-> o, exit |-> yes, canceled |-> k]
  BY <1>1, <1>3
<1>5. RequestsTypes'
  BY <1>3, <1>4 DEF RequestsInv, RequestsTypes, Requests
<1>6. /\ request'.opened = request.opened /\ request'.id = request.id /\ request'.cancel = request.cancel
      /\ request'.canceled = request.canceled /\ request'.exit
  BY <1>1, <1>2, <1>4
<1>7. Numbered' /\ InChannel' /\ Stoppable'
  BY <1>3, <1>6 DEF RequestsInv, Numbered, InChannel, Stoppable, Working
<1>8. OpenPage' /\ Awaited'
  BY <1>3, <1>6 DEF RequestsInv, OpenPage, Awaited
<1> QED  BY <1>3, <1>5, <1>7, <1>8 DEF RequestsInv

LEMMA RequestsInvNext ==
  ASSUME RequestsInv, [RequestsNext]_requestVars
  PROVE  RequestsInv' /\ MergedNext
<1>1. CASE EnterHealthView \/ ToggleSelection
  BY <1>1, ViewKeepsInv DEF MergedNext
<1>2. CASE ExitHealthView \/ CloseDetail \/ OpenRefused \/ ExitCancels
  BY <1>2, AdvancedKeepsInv DEF MergedNext
<1>3. CASE OpenDetail
  BY <1>3, OpenDetailKeepsInv DEF MergedNext
<1>4. ASSUME NEW n \in Page, SendPatch(n) \/ LoaderEnds(n)
      PROVE  RequestsInv' /\ MergedNext
  BY <1>4, LoaderKeepsInv DEF MergedNext
<1>5. CASE ApplyPatch
  BY <1>5, ApplyKeepsInv DEF MergedNext
<1>6. CASE ExitRequested
  BY <1>6, ExitKeepsInv DEF MergedNext
<1>7. CASE UNCHANGED requestVars
  BY <1>7 DEF requestVars, RequestsInv, RequestsTypes, Numbered, OpenPage, Stoppable, Working,
     InChannel, Awaited, MergedNext
<1> QED  BY <1>1, <1>2, <1>3, <1>4, <1>5, <1>6, <1>7 DEF RequestsNext

\* What the invariant says of the loaders is what the view promises.
LEMMA RequestsInvIsSafe ==
  ASSUME RequestsInv
  PROVE  RequestsTypeOK /\ OneLoader /\ ExitLeavesNone
<1>1. RequestsTypeOK
  BY RequestFields DEF RequestsInv, RequestsTypes, RequestsTypeOK, HealthView
<1>2. ASSUME NEW n \in Page, Working(n)
      PROVE  loader[n].id = view.detail /\ ~request.canceled
  <2>1. loader[n].id = request.cancel
    BY <1>2 DEF RequestsInv, Stoppable
  <2>2. n \in 1 .. request.opened
    BY <1>2, RequestFields DEF RequestsInv, Numbered, Working, Page
  <2>3. request.cancel # 0
    BY <2>1, <2>2, RequestFields DEF RequestsInv, Numbered
  <2> QED  BY <2>1, <2>3 DEF RequestsInv, OpenPage
<1>3. OneLoader
  BY <1>2 DEF OneLoader, Working
<1>4. ExitLeavesNone
  BY <1>2 DEF ExitLeavesNone, Working
<1> QED  BY <1>1, <1>3, <1>4

\* At most the open page's loader works uncancelled, none after the exit has
\* cancelled, and the open page merges its patches one after another, whatever
\* the keys, the loaders and the exit request do (health_keys.go).
THEOREM RequestsAreSafe == RequestsSpec => RequestsSafety
<1>1. RequestsInit => RequestsInv
  BY RequestsInvInit
<1>2. RequestsInv /\ [RequestsNext]_requestVars => RequestsInv'
  BY RequestsInvNext
<1>3. RequestsInv => RequestsTypeOK /\ OneLoader /\ ExitLeavesNone
  BY RequestsInvIsSafe
<1>4. RequestsInv /\ [RequestsNext]_requestVars
        => [view.detail # 0 /\ view'.detail = view.detail /\ view'.merged # view.merged
              => view'.merged = view.merged + 1]_requestVars
  BY RequestsInvNext DEF MergedNext
<1> QED  BY <1>1, <1>2, <1>3, <1>4, PTL DEF RequestsSpec, RequestsSafety, PatchesInOrder

-----------------------------------------------------------------------------
(* The database gateway: one stream, no traffic after the cancellation, no     *)
(* reconnect for a deadline.                                                   *)
GatewayPc == {"idle", "lock", "ensure", "ping", "pinging", "detect", "detecting",
              "send", "sent", "scan", "each", "mark"}
CallRecord == [pc : GatewayPc, op : Operation, pool : Nat, expired : BOOLEAN, left : Nat]
GatewayRecord ==
  [pool : Nat, opened : Nat, healthy : BOOLEAN, recent : BOOLEAN,
   owner : Caller \cup {NobodyHolds}, kind : BOOLEAN,
   closer : {"open", "canceled", "closed"}, seen : BOOLEAN, refused : BOOLEAN]

GatewayTypes ==
  /\ gw \in GatewayRecord
  /\ stream \in SUBSET (Caller \X Nat)
  /\ call \in [Caller -> CallRecord]

\* The mutex belongs to the caller that is in ensure, and that caller pings only
\* a pool that is there and is not known to be usable.
MutexOwned ==
  \A c \in Caller :
    /\ call[c].pc \in {"ensure", "ping", "pinging"} => gw.owner = c
    /\ call[c].pc \in {"ping", "pinging"} => gw.pool # 0 /\ ~gw.healthy

\* Until Close there is one pool, and it is the one every statement goes to.
OnePool ==
  gw.closer # "closed" =>
    /\ gw.pool \in {0, 1} /\ gw.opened = gw.pool
    /\ \A c \in Caller :
         call[c].pc \in {"detect", "detecting", "send", "sent", "scan"} => call[c].pool = 1

\* Every open result is on that pool, which hands out one connection.
StreamAlone ==
  /\ \A s \in stream : s[2] = 1
  /\ \A s, u \in stream : s = u

\* A pool is usable only if it is there, and is given up only for a refusal.
BlameHonest ==
  /\ gw.pool = 0 => ~gw.healthy
  /\ DeadlinesBlameNobody
  /\ \A c \in Caller : call[c].pc = "mark" => gw.refused

GatewayInv ==
  /\ GatewayTypes
  /\ MutexOwned
  /\ OnePool
  /\ StreamAlone
  /\ BlameHonest

\* A set with nothing to choose from has at most one element.
LEMMA AtMostOne ==
  ASSUME NEW S, \A s, u \in S : s = u
  PROVE  Cardinality(S) <= 1
  <1>1. CASE S = {}
    BY <1>1, FS_EmptySet
  <1>2. CASE S # {}
    <2>1. PICK s : S = {s}
      BY <1>2
    <2>2. Cardinality({s}) = 1
      BY FS_Singleton
    <2> QED
      BY <2>1, <2>2
  <1> QED
    BY <1>1, <1>2

\* The only connection of the pool is free only if nothing is open.
LEMMA FreeConnection ==
  ASSUME StreamAlone, NEW c, MayStream(c, 1)
  PROVE  stream = {}
  <1> SUFFICES ASSUME NEW s \in stream PROVE FALSE
    OBVIOUS
  <1>1. {u \in stream : u[2] = 1} = {s}
    BY DEF StreamAlone
  <1>2. Cardinality({u \in stream : u[2] = 1}) = 1
    BY <1>1, FS_Singleton
  <1> QED
    BY <1>2 DEF MayStream, maxPoolConns

\* No call is open at the start.
LEMMA GatewayInitial == GatewayInit => GatewayInv
  <1> SUFFICES ASSUME GatewayInit PROVE GatewayInv
    OBVIOUS
  <1>1. NoCall \in CallRecord /\ NoCall.pc = "idle"
    <2>1. (CHOOSE o \in Operation : TRUE) \in Operation
      BY GatewayAssumption
    <2> QED
      BY <2>1 DEF NoCall, CallRecord, GatewayPc
  <1>2. \A c \in Caller : call[c] = NoCall
    BY DEF GatewayInit
  <1>3. GatewayTypes
    BY <1>1 DEF GatewayInit, GatewayTypes, GatewayRecord, NobodyHolds
  <1>4. MutexOwned /\ OnePool /\ StreamAlone /\ BlameHonest
    BY <1>1, <1>2 DEF GatewayInit, MutexOwned, OnePool, StreamAlone, BlameHonest,
                      DeadlinesBlameNobody
  <1> QED
    BY <1>3, <1>4 DEF GatewayInv

\* A step of one caller that leaves the pool as it is.
LEMMA CallerStep ==
  ASSUME GatewayInv, NEW c \in Caller,
         gw' \in GatewayRecord, call' \in [Caller -> CallRecord],
         \A d \in Caller : d # c => call'[d] = call[d],
         UNCHANGED <<gw.pool, gw.opened, gw.healthy, gw.closer, gw.seen>>,
         gw.refused => gw'.refused,
         gw'.owner = gw.owner \/ gw.owner \in {c, NobodyHolds},
         stream' \in SUBSET (Caller \X Nat), StreamAlone',
         call'[c].pc \in {"ensure", "ping", "pinging"} => gw'.owner = c,
         call'[c].pc \in {"ping", "pinging"} => gw.pool # 0 /\ ~gw.healthy,
         gw.closer # "closed" =>
           (call'[c].pc \in {"detect", "detecting", "send", "sent", "scan"} =>
              call'[c].pool = 1),
         call'[c].pc = "mark" => gw'.refused
  PROVE  GatewayInv'
  <1>0. NobodyHolds \notin Caller
    BY GatewayAssumption DEF NobodyHolds
  <1>1. GatewayTypes'
    BY DEF GatewayTypes
  <1>2. MutexOwned'
    <2> SUFFICES ASSUME NEW d \in Caller
                 PROVE  /\ call'[d].pc \in {"ensure", "ping", "pinging"} => gw'.owner = d
                        /\ call'[d].pc \in {"ping", "pinging"} => gw'.pool # 0 /\ ~gw'.healthy
      BY DEF MutexOwned
    <2>1. CASE d = c
      BY <2>1
    <2>2. CASE d # c
      BY <2>2, <1>0 DEF GatewayInv, MutexOwned
    <2> QED
      BY <2>1, <2>2
  <1>3. OnePool'
    BY DEF GatewayInv, OnePool
  <1>4. BlameHonest'
    BY DEF GatewayInv, BlameHonest, DeadlinesBlameNobody
  <1> QED
    BY <1>1, <1>2, <1>3, <1>4 DEF GatewayInv

\* The fields of a call that a step of its caller leaves alone.
LEMMA CallFields ==
  ASSUME call \in [Caller -> CallRecord], NEW c \in Caller
  PROVE  /\ \A pc \in GatewayPc :
              Moves(c, pc) =>
                /\ call' \in [Caller -> CallRecord]
                /\ call'[c].pc = pc /\ call'[c].pool = call[c].pool
                /\ \A d \in Caller : d # c => call'[d] = call[d]
         /\ Returns(c) =>
              /\ call' \in [Caller -> CallRecord]
              /\ call'[c].pc = "idle"
              /\ \A d \in Caller : d # c => call'[d] = call[d]
  <1>1. NoCall \in CallRecord /\ NoCall.pc = "idle"
    <2>1. (CHOOSE o \in Operation : TRUE) \in Operation
      BY GatewayAssumption
    <2> QED
      BY <2>1 DEF NoCall, CallRecord, GatewayPc
  <1>2. ASSUME NEW pc \in GatewayPc, Moves(c, pc)
        PROVE  /\ call' \in [Caller -> CallRecord]
               /\ call'[c].pc = pc /\ call'[c].pool = call[c].pool
               /\ \A d \in Caller : d # c => call'[d] = call[d]
    <2>1. call' = [call EXCEPT ![c].pc = pc]
      BY <1>2 DEF Moves
    <2>2. call[c] \in CallRecord
      OBVIOUS
    <2>3. [call[c] EXCEPT !.pc = pc] \in CallRecord
      BY <2>2 DEF CallRecord
    <2>4. /\ [call[c] EXCEPT !.pc = pc].pc = pc
          /\ [call[c] EXCEPT !.pc = pc].pool = call[c].pool
      BY <2>2 DEF CallRecord
    <2>5. call' = [call EXCEPT ![c] = [call[c] EXCEPT !.pc = pc]]
      BY <2>1
    <2> QED
      BY <2>3, <2>4, <2>5
  <1>3. ASSUME Returns(c)
        PROVE  /\ call' \in [Caller -> CallRecord]
               /\ call'[c].pc = "idle"
               /\ \A d \in Caller : d # c => call'[d] = call[d]
    BY <1>3, <1>1 DEF Returns
  <1> QED
    BY <1>2, <1>3

\* Closing one's result leaves the other callers' streams.
LEMMA ReleaseFields ==
  ASSUME GatewayInv, NEW c, stream' = Released(c) \/ stream' = stream
  PROVE  stream' \in SUBSET (Caller \X Nat) /\ StreamAlone' /\ stream' \subseteq stream
  BY DEF GatewayInv, GatewayTypes, StreamAlone, Released

\* A result is opened before the cancellation only, on the only pool, when
\* nothing else is open.
LEMMA OpenFields ==
  ASSUME GatewayInv, NEW c \in Caller, NEW p, p = 1, MayStream(c, p),
         stream' = stream \cup {<<c, p>>}
  PROVE  stream' \in SUBSET (Caller \X Nat) /\ StreamAlone'
  <1>1. stream = {}
    BY FreeConnection DEF GatewayInv
  <1>2. stream' = {<<c, 1>>}
    BY <1>1
  <1> QED
    BY <1>2 DEF StreamAlone

\* A caller that has found its pool remembers it.
LEMMA PoolFound ==
  ASSUME call \in [Caller -> CallRecord], NEW c \in Caller,
         NEW pc \in GatewayPc, NEW p \in Nat,
         call' = [call EXCEPT ![c].pc = pc, ![c].pool = p]
  PROVE  /\ call' \in [Caller -> CallRecord]
         /\ call'[c].pc = pc /\ call'[c].pool = p
         /\ \A d \in Caller : d # c => call'[d] = call[d]
  <1>1. PICK at \in GatewayPc, op \in Operation, q \in Nat, x \in BOOLEAN, n \in Nat :
          call[c] = [pc |-> at, op |-> op, pool |-> q, expired |-> x, left |-> n]
    BY DEF CallRecord
  <1>a. PICK z : z = [call[c] EXCEPT !.pc = pc]
    OBVIOUS
  <1>b. z = [pc |-> pc, op |-> op, pool |-> q, expired |-> x, left |-> n]
    BY <1>1, <1>a
  <1>2. call' = [call EXCEPT ![c] = [z EXCEPT !.pool = p]]
    BY <1>a
  <1>3. [z EXCEPT !.pool = p]
          = [pc |-> pc, op |-> op, pool |-> p, expired |-> x, left |-> n]
    BY <1>b
  <1>4. call'[c] = [pc |-> pc, op |-> op, pool |-> p, expired |-> x, left |-> n]
    BY <1>2, <1>3
  <1>5. call'[c] \in CallRecord
    BY <1>1, <1>4 DEF CallRecord
  <1> QED
    BY <1>2, <1>4, <1>5

\* A caller that reads the names, or goes to the next database.
LEMMA DatabasesLeft ==
  ASSUME call \in [Caller -> CallRecord], NEW c \in Caller,
         NamesScanned(c) \/ NextDatabase(c)
  PROVE  /\ call' \in [Caller -> CallRecord] /\ call'[c].pc = "each"
         /\ \A d \in Caller : d # c => call'[d] = call[d]
  <1>1. PICK at \in GatewayPc, op \in Operation, q \in Nat, x \in BOOLEAN, n \in Nat :
          call[c] = [pc |-> at, op |-> op, pool |-> q, expired |-> x, left |-> n]
    BY DEF CallRecord
  <1>2. "each" \in GatewayPc
    BY DEF GatewayPc
  <1>3. CASE NamesScanned(c)
    <2>a. PICK each \in GatewayPc : each = "each"
      BY <1>2
    <2>1. PICK m \in UserDatabase : call' = [call EXCEPT ![c].pc = each, ![c].left = m]
      BY <1>3, <2>a DEF NamesScanned
    <2>2. m \in Nat
      BY GatewayAssumption
    <2>b. PICK z : z = [call[c] EXCEPT !.pc = each]
      OBVIOUS
    <2>c. z = [pc |-> each, op |-> op, pool |-> q, expired |-> x, left |-> n]
      BY <1>1, <2>b
    <2>3. call' = [call EXCEPT ![c] = [z EXCEPT !.left = m]]
      BY <2>1, <2>b
    <2>4. [z EXCEPT !.left = m]
            = [pc |-> each, op |-> op, pool |-> q, expired |-> x, left |-> m]
      BY <2>c
    <2>5. call'[c] = [pc |-> each, op |-> op, pool |-> q, expired |-> x, left |-> m]
      BY <2>3, <2>4
    <2>6. call'[c] \in CallRecord
      BY <2>2, <2>5, <1>1, <1>2 DEF CallRecord
    <2> QED
      BY <2>a, <2>3, <2>5, <2>6
  <1>4. CASE NextDatabase(c)
    <2>1. /\ at = "each" /\ n > 0
          /\ call' = [call EXCEPT ![c].left = call[c].left - 1]
      BY <1>1, <1>4 DEF NextDatabase, CallAt
    <2>2. PICK m \in Nat : m = n - 1
      BY <2>1
    <2>3. call' = [call EXCEPT ![c] = [call[c] EXCEPT !.left = m]]
      BY <1>1, <2>1, <2>2
    <2>4. [call[c] EXCEPT !.left = m]
            = [pc |-> at, op |-> op, pool |-> q, expired |-> x, left |-> m]
      BY <1>1
    <2>5. call'[c] = [pc |-> at, op |-> op, pool |-> q, expired |-> x, left |-> m]
      BY <2>3, <2>4
    <2>6. call'[c] \in CallRecord
      BY <2>2, <2>5, <1>1 DEF CallRecord
    <2> QED
      BY <2>1, <2>3, <2>5, <2>6
  <1> QED
    BY <1>3, <1>4

\* A caller that begins a call.
LEMMA CallStarted ==
  ASSUME call \in [Caller -> CallRecord], NEW c \in Caller, NEW o \in Operation,
         StartCall(c, o)
  PROVE  /\ call' \in [Caller -> CallRecord] /\ call'[c].pc = "lock"
         /\ \A d \in Caller : d # c => call'[d] = call[d]
  <1>1. PICK at \in GatewayPc, op \in Operation, q \in Nat, x \in BOOLEAN, n \in Nat :
          call[c] = [pc |-> at, op |-> op, pool |-> q, expired |-> x, left |-> n]
    BY DEF CallRecord
  <1>2. PICK lock \in GatewayPc : lock = "lock"
    BY DEF GatewayPc
  <1>a. PICK z : z = [call[c] EXCEPT !.pc = lock]
    OBVIOUS
  <1>b. z = [pc |-> lock, op |-> op, pool |-> q, expired |-> x, left |-> n]
    BY <1>1, <1>a
  <1>3. call' = [call EXCEPT ![c] = [z EXCEPT !.op = o]]
    BY <1>2, <1>a DEF StartCall
  <1>4. [z EXCEPT !.op = o]
          = [pc |-> lock, op |-> o, pool |-> q, expired |-> x, left |-> n]
    BY <1>b
  <1>5. call'[c] = [pc |-> lock, op |-> o, pool |-> q, expired |-> x, left |-> n]
    BY <1>3, <1>4
  <1>6. call'[c] \in CallRecord
    BY <1>5, <1>1, <1>2 DEF CallRecord
  <1> QED
    BY <1>2, <1>3, <1>5, <1>6

\* While a caller is in ensure no other one is.
LEMMA OwnerStep ==
  ASSUME GatewayInv, NEW c \in Caller,
         call[c].pc \in {"ensure", "ping", "pinging"},
         NEW d \in Caller, d # c
  PROVE  call[d].pc \notin {"ensure", "ping", "pinging"}
  BY DEF GatewayInv, MutexOwned

\* ensure opens a pool only where there is none, or keeps the one it doubts.
LEMMA OpensStep ==
  ASSUME GatewayInv, NEW c \in Caller, EnsureOpens(c)
  PROVE  GatewayInv' /\ stream' \subseteq stream
  <1>0. gw \in GatewayRecord /\ call \in [Caller -> CallRecord]
    BY DEF GatewayInv, GatewayTypes
  <1>1. /\ call[c].pc = "ensure" /\ stream' = stream /\ Moves(c, "ping")
        /\ ~(gw.pool # 0 /\ gw.healthy)
    BY DEF EnsureOpens, CallAt
  <1>2. /\ gw.owner = c /\ (gw.pool = 0 => ~gw.healthy)
        /\ (gw.pool # 0 /\ gw.seen /\ ~gw.healthy => gw.refused)
    BY <1>1 DEF GatewayInv, MutexOwned, BlameHonest, DeadlinesBlameNobody
  <1>3. /\ gw' \in GatewayRecord
        /\ UNCHANGED <<gw.owner, gw.healthy, gw.closer, gw.refused>>
        /\ gw'.pool # 0
        /\ \/ gw'.pool = gw.pool /\ gw'.opened = gw.opened /\ gw'.seen = gw.seen
           \/ /\ gw.pool = 0 /\ gw'.pool = gw.opened + 1
              /\ gw'.opened = gw.opened + 1 /\ ~gw'.seen
    <2>1. CASE gw.pool # 0
      <3>1. gw' = [gw EXCEPT !.recent = TRUE]
        BY <2>1 DEF EnsureOpens
      <3> QED
        BY <3>1, <2>1, <1>0 DEF GatewayRecord
    <2>2. CASE gw.pool = 0
      <3>1. PICK p \in Nat, n \in Nat, h \in BOOLEAN, r \in BOOLEAN,
                 o \in Caller \cup {NobodyHolds}, k \in BOOLEAN,
                 cl \in {"open", "canceled", "closed"}, se \in BOOLEAN, re \in BOOLEAN :
              gw = [pool |-> p, opened |-> n, healthy |-> h, recent |-> r, owner |-> o,
                    kind |-> k, closer |-> cl, seen |-> se, refused |-> re]
        BY <1>0 DEF GatewayRecord
      <3>a. PICK new \in Nat : new = n + 1
        OBVIOUS
      <3>b. PICK yes \in BOOLEAN, no \in BOOLEAN : yes = TRUE /\ no = FALSE
        OBVIOUS
      <3>c. gw.opened + 1 = new
        BY <3>1, <3>a
      <3>2. gw' = [gw EXCEPT !.recent = yes, !.pool = new, !.opened = new, !.seen = no]
        BY <2>2, <3>b, <3>c DEF EnsureOpens
      <3>3. gw' = [pool |-> new, opened |-> new, healthy |-> h, recent |-> yes, owner |-> o,
                   kind |-> k, closer |-> cl, seen |-> no, refused |-> re]
        BY <3>1, <3>2
      <3> QED
        BY <3>1, <3>3, <3>a, <3>b, <2>2 DEF GatewayRecord
    <2> QED
      BY <2>1, <2>2
  <1>4. /\ call' \in [Caller -> CallRecord]
        /\ call'[c].pc = "ping" /\ call'[c].pool = call[c].pool
        /\ \A d \in Caller : d # c => call'[d] = call[d]
    BY <1>1, <1>0, CallFields DEF GatewayPc
  <1>5. GatewayTypes'
    BY <1>1, <1>3, <1>4 DEF GatewayInv, GatewayTypes
  <1>6. MutexOwned'
    <2> SUFFICES ASSUME NEW d \in Caller
                 PROVE  /\ call'[d].pc \in {"ensure", "ping", "pinging"} => gw'.owner = d
                        /\ call'[d].pc \in {"ping", "pinging"} => gw'.pool # 0 /\ ~gw'.healthy
      BY DEF MutexOwned
    <2>1. CASE d = c
      BY <2>1, <1>1, <1>2, <1>3
    <2>2. CASE d # c
      BY <2>2, <1>1, <1>4, OwnerStep
    <2> QED
      BY <2>1, <2>2
  <1>7. OnePool'
    <2> SUFFICES ASSUME gw'.closer # "closed"
                 PROVE  /\ gw'.pool \in {0, 1} /\ gw'.opened = gw'.pool
                        /\ \A d \in Caller :
                             call'[d].pc \in {"detect", "detecting", "send", "sent", "scan"}
                               => call'[d].pool = 1
      BY DEF OnePool
    <2>1. /\ gw.pool \in {0, 1} /\ gw.opened = gw.pool
          /\ \A d \in Caller :
               call[d].pc \in {"detect", "detecting", "send", "sent", "scan"}
                 => call[d].pool = 1
      BY <1>3 DEF GatewayInv, OnePool
    <2>2. gw'.pool \in {0, 1} /\ gw'.opened = gw'.pool
      BY <2>1, <1>3
    <2> QED
      BY <2>1, <2>2, <1>4
  <1>8. BlameHonest'
    <2>1. \A d \in Caller : call'[d].pc = "mark" => gw'.refused
      BY <1>3, <1>4 DEF GatewayInv, BlameHonest
    <2>2. DeadlinesBlameNobody'
      BY <1>2, <1>3 DEF DeadlinesBlameNobody
    <2> QED
      BY <2>1, <2>2, <1>3 DEF BlameHonest
  <1>9. StreamAlone'
    BY <1>1 DEF GatewayInv, StreamAlone
  <1> QED
    BY <1>1, <1>5, <1>6, <1>7, <1>8, <1>9 DEF GatewayInv

\* Steps on the way to a usable pool.
LEMMA ConnectStep ==
  ASSUME GatewayInv, NEW c \in Caller, LockGateway(c) \/ Connects(c)
  PROVE  GatewayInv' /\ (gw.closer # "open" => stream' \subseteq stream)
  <1>0. gw \in GatewayRecord /\ call \in [Caller -> CallRecord] /\ call[c] \in CallRecord
    BY DEF GatewayInv, GatewayTypes
  <1>c. NobodyHolds \notin Caller
    BY GatewayAssumption DEF NobodyHolds
  <1>1. CASE LockGateway(c)
    <2>1. /\ gw' = [gw EXCEPT !.owner = c] /\ gw.owner = NobodyHolds
          /\ Moves(c, "ensure") /\ stream' = stream
      BY <1>1 DEF LockGateway
    <2>2. /\ gw' \in GatewayRecord /\ gw'.owner = c
          /\ UNCHANGED <<gw.pool, gw.opened, gw.healthy, gw.closer, gw.seen, gw.refused>>
      BY <2>1, <1>0 DEF GatewayRecord
    <2>3. /\ call' \in [Caller -> CallRecord] /\ call'[c].pc = "ensure"
          /\ \A d \in Caller : d # c => call'[d] = call[d]
      BY <2>1, <1>0, CallFields DEF GatewayPc
    <2>4. stream' \in SUBSET (Caller \X Nat) /\ StreamAlone' /\ stream' \subseteq stream
      BY <2>1, ReleaseFields
    <2> QED
      BY <2>1, <2>2, <2>3, <2>4, CallerStep
  <1>2. CASE EnsureHealthy(c)
    <2>1. /\ gw' = [gw EXCEPT !.owner = NobodyHolds] /\ gw.pool # 0
          /\ call' = [call EXCEPT ![c].pc = AfterEnsure(c), ![c].pool = gw.pool]
          /\ stream' = stream /\ call[c].pc = "ensure"
      BY <1>2 DEF EnsureHealthy, CallAt
    <2>2. /\ gw' \in GatewayRecord /\ gw'.owner = NobodyHolds
          /\ UNCHANGED <<gw.pool, gw.opened, gw.healthy, gw.closer, gw.seen, gw.refused>>
      BY <2>1, <1>0 DEF GatewayRecord
    <2>p. AfterEnsure(c) \in {"detect", "send"} /\ AfterEnsure(c) \in GatewayPc
          /\ gw.pool \in Nat
      BY <1>0 DEF AfterEnsure, GatewayRecord, GatewayPc
    <2>3. /\ call' \in [Caller -> CallRecord]
          /\ call'[c].pc = AfterEnsure(c) /\ call'[c].pool = gw.pool
          /\ \A d \in Caller : d # c => call'[d] = call[d]
      BY <2>1, <2>p, <1>0, PoolFound
    <2>4. stream' \in SUBSET (Caller \X Nat) /\ StreamAlone' /\ stream' \subseteq stream
      BY <2>1, ReleaseFields
    <2>5. gw.owner = c /\ (gw.closer # "closed" => gw.pool = 1)
      BY <2>1 DEF GatewayInv, MutexOwned, OnePool
    <2> QED
      BY <2>p, <2>2, <2>3, <2>4, <2>5, CallerStep
  <1>3. CASE EnsureThrottled(c) \/ EnsureOpenFails(c)
    <2>1. /\ \/ gw' = [gw EXCEPT !.owner = NobodyHolds]
             \/ gw' = [gw EXCEPT !.recent = TRUE, !.owner = NobodyHolds]
          /\ Returns(c) /\ stream' = stream /\ call[c].pc = "ensure"
      BY <1>3 DEF EnsureThrottled, EnsureOpenFails, CallAt
    <2>2. /\ gw' \in GatewayRecord /\ gw'.owner = NobodyHolds
          /\ UNCHANGED <<gw.pool, gw.opened, gw.healthy, gw.closer, gw.seen, gw.refused>>
      BY <2>1, <1>0 DEF GatewayRecord
    <2>3. /\ call' \in [Caller -> CallRecord] /\ call'[c].pc = "idle"
          /\ \A d \in Caller : d # c => call'[d] = call[d]
      BY <2>1, <1>0, CallFields
    <2>4. stream' \in SUBSET (Caller \X Nat) /\ StreamAlone' /\ stream' \subseteq stream
      BY <2>1, ReleaseFields
    <2>5. gw.owner = c
      BY <2>1 DEF GatewayInv, MutexOwned
    <2> QED
      BY <2>2, <2>3, <2>4, <2>5, CallerStep
  <1>4. CASE EnsureOpens(c)
    BY <1>4, OpensStep
  <1>5. CASE PingStarts(c)
    <2>1. /\ call[c].pc = "ping" /\ gw.closer = "open" /\ MayStream(c, gw.pool)
          /\ stream' = stream \cup {<<c, gw.pool>>}
          /\ Moves(c, "pinging") /\ gw' = gw
      BY <1>5, <1>0 DEF PingStarts, CallAt, CallOver
    <2>2. gw.owner = c /\ gw.pool = 1 /\ ~gw.healthy
      BY <2>1 DEF GatewayInv, MutexOwned, OnePool
    <2>3. /\ call' \in [Caller -> CallRecord] /\ call'[c].pc = "pinging"
          /\ \A d \in Caller : d # c => call'[d] = call[d]
      BY <2>1, <1>0, CallFields DEF GatewayPc
    <2>4. stream' \in SUBSET (Caller \X Nat) /\ StreamAlone'
      BY <2>1, <2>2, OpenFields
    <2> QED
      BY <2>1, <2>2, <2>3, <2>4, <1>0, CallerStep
  <1>6. CASE PingEnded(c)
    <2>1. /\ call[c].pc \in {"ping", "pinging"}
          /\ gw' = [gw EXCEPT !.owner = NobodyHolds]
          /\ Returns(c) /\ stream' = Released(c)
      BY <1>6 DEF PingEnded
    <2>2. /\ gw' \in GatewayRecord /\ gw'.owner = NobodyHolds
          /\ UNCHANGED <<gw.pool, gw.opened, gw.healthy, gw.closer, gw.seen, gw.refused>>
      BY <2>1, <1>0 DEF GatewayRecord
    <2>3. /\ call' \in [Caller -> CallRecord] /\ call'[c].pc = "idle"
          /\ \A d \in Caller : d # c => call'[d] = call[d]
      BY <2>1, <1>0, CallFields
    <2>4. stream' \in SUBSET (Caller \X Nat) /\ StreamAlone' /\ stream' \subseteq stream
      BY <2>1, ReleaseFields
    <2>5. gw.owner = c
      BY <2>1 DEF GatewayInv, MutexOwned
    <2> QED
      BY <2>2, <2>3, <2>4, <2>5, CallerStep
  <1> QED
    BY <1>1, <1>2, <1>3, <1>4, <1>5, <1>6 DEF Connects

\* Answers of the server, which end a call's result or leave it open.
LEMMA AnswerStep ==
  ASSUME GatewayInv, NEW c \in Caller, Answers(c)
  PROVE  GatewayInv' /\ stream' \subseteq stream
  <1>0. gw \in GatewayRecord /\ call \in [Caller -> CallRecord] /\ call[c] \in CallRecord
    BY DEF GatewayInv, GatewayTypes
  <1>r. ASSUME Returns(c) PROVE /\ call' \in [Caller -> CallRecord]
                                /\ call'[c].pc = "idle"
                                /\ \A d \in Caller : d # c => call'[d] = call[d]
    BY <1>r, <1>0, CallFields
  <1>m. ASSUME NEW pc \in GatewayPc, Moves(c, pc)
        PROVE  /\ call' \in [Caller -> CallRecord]
               /\ call'[c].pc = pc /\ call'[c].pool = call[c].pool
               /\ \A d \in Caller : d # c => call'[d] = call[d]
    BY <1>m, <1>0, CallFields
  <1>1. ASSUME PingAnswered(c) \/ PingRefused(c) PROVE GatewayInv' /\ stream' \subseteq stream
    <2>1. /\ call[c].pc = "pinging" /\ stream' = Released(c)
          /\ \/ /\ gw' = [gw EXCEPT !.healthy = TRUE, !.seen = TRUE, !.owner = NobodyHolds]
                /\ call' = [call EXCEPT ![c].pc = AfterEnsure(c), ![c].pool = gw.pool]
             \/ /\ gw' = [gw EXCEPT !.healthy = FALSE, !.owner = NobodyHolds]
                /\ Returns(c)
      BY <1>1 DEF PingAnswered, PingRefused, CallAt
    <2>2. /\ gw.owner = c /\ gw.pool # 0 /\ ~gw.healthy
          /\ gw.seen => gw.refused
          /\ gw.closer # "closed" => gw.pool = 1
      BY <2>1 DEF GatewayInv, MutexOwned, OnePool, BlameHonest, DeadlinesBlameNobody
    <2>3. /\ gw' \in GatewayRecord
          /\ UNCHANGED <<gw.pool, gw.opened, gw.closer, gw.refused>>
          /\ gw'.healthy \/ gw'.seen = gw.seen
      BY <2>1, <1>0 DEF GatewayRecord
    <2>4. /\ call' \in [Caller -> CallRecord]
          /\ \A d \in Caller : d # c => call'[d] = call[d]
          /\ \/ call'[c].pc \in {"detect", "send"} /\ call'[c].pool = gw.pool
             \/ call'[c].pc = "idle"
      <3>1. CASE Returns(c)
        BY <3>1, <1>r
      <3>2. CASE call' = [call EXCEPT ![c].pc = AfterEnsure(c), ![c].pool = gw.pool]
        <4>1. AfterEnsure(c) \in {"detect", "send"} /\ AfterEnsure(c) \in GatewayPc
              /\ gw.pool \in Nat
          BY <1>0 DEF AfterEnsure, GatewayRecord, GatewayPc
        <4>2. /\ call' \in [Caller -> CallRecord]
              /\ call'[c].pc = AfterEnsure(c) /\ call'[c].pool = gw.pool
              /\ \A d \in Caller : d # c => call'[d] = call[d]
          BY <3>2, <4>1, <1>0, PoolFound
        <4> QED
          BY <4>1, <4>2
      <3> QED
        BY <2>1, <3>1, <3>2
    <2>5. stream' \in SUBSET (Caller \X Nat) /\ StreamAlone' /\ stream' \subseteq stream
      BY <2>1, ReleaseFields
    <2>6. GatewayTypes'
      BY <2>3, <2>4, <2>5 DEF GatewayTypes
    <2>7. \A d \in Caller : call'[d].pc \notin {"ensure", "ping", "pinging"}
      BY <2>1, <2>4, OwnerStep
    <2>8. MutexOwned'
      BY <2>7 DEF MutexOwned
    <2>9. OnePool'
      BY <2>2, <2>3, <2>4 DEF GatewayInv, OnePool
    <2>10. BlameHonest'
      <3>1. \A d \in Caller : call'[d].pc = "mark" => gw'.refused
        BY <2>3, <2>4 DEF GatewayInv, BlameHonest
      <3> QED
        BY <3>1, <2>2, <2>3 DEF BlameHonest, DeadlinesBlameNobody
    <2> QED
      BY <2>5, <2>6, <2>8, <2>9, <2>10 DEF GatewayInv
  <1>2. ASSUME NEW ok \in BOOLEAN, KindAnswered(c, ok)
        PROVE  GatewayInv' /\ stream' \subseteq stream
    <2>1. /\ call[c].pc = "detecting" /\ stream' = Released(c) /\ Moves(c, "send")
          /\ gw' = [gw EXCEPT !.kind = gw.kind \/ ok]
      BY <1>2 DEF KindAnswered, CallAt
    <2>2. /\ gw' \in GatewayRecord
          /\ UNCHANGED <<gw.pool, gw.opened, gw.healthy, gw.closer, gw.seen, gw.refused,
                         gw.owner>>
      <3>1. gw.kind \/ ok \in BOOLEAN
        OBVIOUS
      <3> QED
        BY <3>1, <2>1, <1>0 DEF GatewayRecord
    <2>3. "send" \in GatewayPc
      BY DEF GatewayPc
    <2>4. /\ call' \in [Caller -> CallRecord]
          /\ call'[c].pc = "send" /\ call'[c].pool = call[c].pool
          /\ \A d \in Caller : d # c => call'[d] = call[d]
      BY <2>1, <2>3, <1>m
    <2>5. gw.closer # "closed" => call[c].pool = 1
      BY <2>1 DEF GatewayInv, OnePool
    <2>6. stream' \in SUBSET (Caller \X Nat) /\ StreamAlone' /\ stream' \subseteq stream
      BY <2>1, ReleaseFields
    <2> QED
      BY <2>2, <2>4, <2>5, <2>6, CallerStep
  <1>3. ASSUME ExecDone(c) \/ RowsArrive(c) PROVE GatewayInv' /\ stream' \subseteq stream
    <2>1. /\ call[c].pc = "sent" /\ gw' = gw
          /\ stream' = Released(c) \/ stream' = stream
          /\ Returns(c) \/ Moves(c, "scan")
      BY <1>3 DEF ExecDone, RowsArrive, CallAt
    <2>2. "scan" \in GatewayPc
      BY DEF GatewayPc
    <2>3. /\ call' \in [Caller -> CallRecord]
          /\ \/ call'[c].pc = "idle"
             \/ call'[c].pc = "scan" /\ call'[c].pool = call[c].pool
          /\ \A d \in Caller : d # c => call'[d] = call[d]
      BY <2>1, <2>2, <1>m, <1>r
    <2>4. gw.closer # "closed" => call[c].pool = 1
      BY <2>1 DEF GatewayInv, OnePool
    <2>5. stream' \in SUBSET (Caller \X Nat) /\ StreamAlone' /\ stream' \subseteq stream
      BY <2>1, ReleaseFields
    <2> QED
      BY <1>0, <2>1, <2>3, <2>4, <2>5, CallerStep
  <1>4. ASSUME StatementFails(c) PROVE GatewayInv' /\ stream' \subseteq stream
    <2>1. /\ gw' = [gw EXCEPT !.refused = TRUE]
          /\ stream' = Released(c)
          /\ Returns(c) \/ Moves(c, "mark")
      BY <1>4 DEF StatementFails
    <2>2. /\ gw' \in GatewayRecord /\ gw'.refused
          /\ UNCHANGED <<gw.pool, gw.opened, gw.healthy, gw.closer, gw.seen, gw.owner>>
      BY <2>1, <1>0 DEF GatewayRecord
    <2>3. "mark" \in GatewayPc
      BY DEF GatewayPc
    <2>4. /\ call' \in [Caller -> CallRecord]
          /\ call'[c].pc \in {"idle", "mark"}
          /\ \A d \in Caller : d # c => call'[d] = call[d]
      BY <2>1, <2>3, <1>m, <1>r
    <2>5. stream' \in SUBSET (Caller \X Nat) /\ StreamAlone' /\ stream' \subseteq stream
      BY <2>1, ReleaseFields
    <2> QED
      BY <2>2, <2>4, <2>5, CallerStep
  <1> QED
    BY <1>1, <1>2, <1>3, <1>4 DEF Answers

\* Steps of a caller that has its pool.
LEMMA WorkStep ==
  ASSUME GatewayInv, NEW c \in Caller, Works(c)
  PROVE  GatewayInv' /\ (gw.closer # "open" => stream' \subseteq stream)
  <1>0. gw \in GatewayRecord /\ call \in [Caller -> CallRecord] /\ call[c] \in CallRecord
    BY DEF GatewayInv, GatewayTypes
  <1>r. ASSUME Returns(c) PROVE /\ call' \in [Caller -> CallRecord]
                                /\ call'[c].pc = "idle"
                                /\ \A d \in Caller : d # c => call'[d] = call[d]
    BY <1>r, <1>0, CallFields
  <1>m. ASSUME NEW pc \in GatewayPc, Moves(c, pc)
        PROVE  /\ call' \in [Caller -> CallRecord]
               /\ call'[c].pc = pc /\ call'[c].pool = call[c].pool
               /\ \A d \in Caller : d # c => call'[d] = call[d]
    BY <1>m, <1>0, CallFields
  <1>p. {"send", "detecting", "sent"} \subseteq GatewayPc
    BY DEF GatewayPc
  <1>1. ASSUME KindKnown(c) \/ KindEnded(c) PROVE GatewayInv' /\ stream' \subseteq stream
    <2>1. /\ call[c].pc \in {"detect", "detecting"} /\ gw' = gw /\ Moves(c, "send")
          /\ stream' = Released(c) \/ stream' = stream
      BY <1>1 DEF KindKnown, KindEnded, CallAt
    <2>2. /\ call' \in [Caller -> CallRecord]
          /\ call'[c].pc = "send" /\ call'[c].pool = call[c].pool
          /\ \A d \in Caller : d # c => call'[d] = call[d]
      BY <2>1, <1>p, <1>m
    <2>3. gw.closer # "closed" => call[c].pool = 1
      BY <2>1 DEF GatewayInv, OnePool
    <2>4. stream' \in SUBSET (Caller \X Nat) /\ StreamAlone' /\ stream' \subseteq stream
      BY <2>1, ReleaseFields
    <2> QED
      BY <1>0, <2>1, <2>2, <2>3, <2>4, CallerStep
  <1>2. ASSUME AskKind(c) \/ SendStatement(c) PROVE GatewayInv' /\ gw.closer = "open"
    <2>1. /\ call[c].pc \in {"detect", "send"} /\ gw.closer = "open"
          /\ MayStream(c, call[c].pool) /\ gw' = gw
          /\ stream' = stream \cup {<<c, call[c].pool>>}
          /\ Moves(c, "detecting") \/ Moves(c, "sent")
      BY <1>2, <1>0 DEF AskKind, SendStatement, CallAt, CallOver
    <2>2. call[c].pool = 1
      BY <2>1 DEF GatewayInv, OnePool
    <2>3. /\ call' \in [Caller -> CallRecord]
          /\ call'[c].pc \in {"detecting", "sent"} /\ call'[c].pool = call[c].pool
          /\ \A d \in Caller : d # c => call'[d] = call[d]
      BY <2>1, <1>p, <1>m
    <2>4. stream' \in SUBSET (Caller \X Nat) /\ StreamAlone'
      BY <2>1, <2>2, OpenFields
    <2> QED
      BY <1>0, <2>1, <2>2, <2>3, <2>4, CallerStep
  <1>3. ASSUME StatementEnded(c) \/ RowsScanned(c) \/ CrossDone(c)
        PROVE  GatewayInv' /\ stream' \subseteq stream
    <2>1. gw' = gw /\ Returns(c) /\ (stream' = Released(c) \/ stream' = stream)
      BY <1>3 DEF StatementEnded, RowsScanned, CrossDone
    <2>2. /\ call' \in [Caller -> CallRecord] /\ call'[c].pc = "idle"
          /\ \A d \in Caller : d # c => call'[d] = call[d]
      BY <2>1, <1>r
    <2>3. stream' \in SUBSET (Caller \X Nat) /\ StreamAlone' /\ stream' \subseteq stream
      BY <2>1, ReleaseFields
    <2> QED
      BY <1>0, <2>1, <2>2, <2>3, CallerStep
  <1>4. ASSUME NamesScanned(c) \/ NextDatabase(c) PROVE GatewayInv' /\ stream' \subseteq stream
    <2>1. gw' = gw /\ (stream' = Released(c) \/ stream' = stream)
      BY <1>4 DEF NamesScanned, NextDatabase
    <2>2. /\ call' \in [Caller -> CallRecord] /\ call'[c].pc = "each"
          /\ \A d \in Caller : d # c => call'[d] = call[d]
      BY <1>4, <1>0, DatabasesLeft
    <2>3. stream' \in SUBSET (Caller \X Nat) /\ StreamAlone' /\ stream' \subseteq stream
      BY <2>1, ReleaseFields
    <2> QED
      BY <1>0, <2>1, <2>2, <2>3, CallerStep
  <1> QED
    BY <1>1, <1>2, <1>3, <1>4 DEF Works

\* The rest of a caller, the clock and the shutdown.
LEMMA GatewayNextStep ==
  ASSUME GatewayInv, [GatewayNext]_gatewayVars
  PROVE  GatewayInv' /\ (gw.closer # "open" => stream' \subseteq stream)
  <1>0. gw \in GatewayRecord /\ call \in [Caller -> CallRecord]
    BY DEF GatewayInv, GatewayTypes
  <1>1. ASSUME NEW c \in Caller, NEW op \in Operation, StartCall(c, op)
        PROVE  GatewayInv' /\ stream' \subseteq stream
    <2>1. gw' = gw /\ stream' = stream
      BY <1>1 DEF StartCall
    <2>2. /\ call' \in [Caller -> CallRecord] /\ call'[c].pc = "lock"
          /\ \A d \in Caller : d # c => call'[d] = call[d]
      BY <1>1, <1>0, CallStarted
    <2>3. stream' \in SUBSET (Caller \X Nat) /\ StreamAlone' /\ stream' \subseteq stream
      BY <2>1, ReleaseFields
    <2> QED
      BY <1>0, <2>1, <2>2, <2>3, CallerStep
  <1>2. ASSUME NEW c \in Caller, CallExpires(c)
        PROVE  GatewayInv' /\ stream' \subseteq stream
    <2>1. gw' = gw /\ stream' = stream /\ call' = [call EXCEPT ![c].expired = TRUE]
      BY <1>2 DEF CallExpires
    <2>2. /\ call' \in [Caller -> CallRecord]
          /\ \A d \in Caller : call'[d].pc = call[d].pc /\ call'[d].pool = call[d].pool
      BY <2>1, <1>0 DEF CallRecord
    <2> QED
      BY <2>1, <2>2 DEF GatewayInv, GatewayTypes, MutexOwned, OnePool, StreamAlone,
                        BlameHonest, DeadlinesBlameNobody
  <1>3. ASSUME NEW c \in Caller, MarkUnhealthy(c)
        PROVE  GatewayInv' /\ stream' \subseteq stream
    <2>1. /\ call[c].pc = "mark" /\ gw.owner = NobodyHolds
          /\ gw' = [gw EXCEPT !.healthy = FALSE] /\ Returns(c) /\ stream' = stream
      BY <1>3 DEF MarkUnhealthy, CallAt
    <2>2. gw.refused
      BY <2>1 DEF GatewayInv, BlameHonest
    <2>3. /\ gw' \in GatewayRecord /\ ~gw'.healthy
          /\ UNCHANGED <<gw.pool, gw.opened, gw.owner, gw.closer, gw.seen, gw.refused>>
      BY <2>1, <1>0 DEF GatewayRecord
    <2>4. /\ call' \in [Caller -> CallRecord] /\ call'[c].pc = "idle"
          /\ \A d \in Caller : d # c => call'[d] = call[d]
      BY <2>1, <1>0, CallFields
    <2>5. GatewayTypes' /\ StreamAlone'
      BY <2>1, <2>3, <2>4 DEF GatewayInv, GatewayTypes, StreamAlone
    <2>6. MutexOwned'
      BY <2>3, <2>4 DEF GatewayInv, MutexOwned
    <2>7. OnePool' /\ BlameHonest'
      BY <2>2, <2>3, <2>4 DEF GatewayInv, OnePool, BlameHonest, DeadlinesBlameNobody
    <2> QED
      BY <2>1, <2>5, <2>6, <2>7 DEF GatewayInv
  <1>4. ASSUME SecondPasses \/ CancelGateway
        PROVE  GatewayInv' /\ stream' \subseteq stream
    <2>1. /\ gw' = [gw EXCEPT !.recent = FALSE] \/
             (gw.closer = "open" /\ gw' = [gw EXCEPT !.closer = "canceled"])
          /\ stream' = stream /\ call' = call
      BY <1>4 DEF SecondPasses, CancelGateway
    <2>2. /\ gw' \in GatewayRecord
          /\ UNCHANGED <<gw.pool, gw.opened, gw.owner, gw.healthy, gw.seen, gw.refused>>
          /\ gw'.closer # "closed" => gw.closer # "closed"
      BY <2>1, <1>0 DEF GatewayRecord
    <2> QED
      BY <2>1, <2>2 DEF GatewayInv, GatewayTypes, MutexOwned, OnePool, StreamAlone,
                        BlameHonest, DeadlinesBlameNobody
  <1>5. ASSUME CloseGateway PROVE GatewayInv' /\ stream' \subseteq stream
    <2>1. /\ gw' = [gw EXCEPT !.closer = "closed", !.pool = 0, !.healthy = FALSE]
          /\ gw.owner = NobodyHolds /\ stream' = stream /\ call' = call
      BY <1>5 DEF CloseGateway
    <2>2. /\ gw' \in GatewayRecord
          /\ UNCHANGED <<gw.opened, gw.owner, gw.seen, gw.refused>>
          /\ gw'.closer = "closed" /\ gw'.pool = 0 /\ ~gw'.healthy
      BY <2>1, <1>0 DEF GatewayRecord
    <2>3. \A c \in Caller : call[c].pc \notin {"ensure", "ping", "pinging"}
      BY <2>1, GatewayAssumption DEF GatewayInv, MutexOwned, NobodyHolds
    <2>4. MutexOwned' /\ OnePool'
      BY <2>1, <2>2, <2>3 DEF MutexOwned, OnePool
    <2> QED
      BY <2>1, <2>2, <2>4 DEF GatewayInv, GatewayTypes, StreamAlone, BlameHonest,
                              DeadlinesBlameNobody
  <1>6. CASE UNCHANGED gatewayVars
    BY <1>6 DEF gatewayVars, GatewayInv, GatewayTypes, MutexOwned, OnePool, StreamAlone,
                BlameHonest, DeadlinesBlameNobody
  <1>7. ASSUME NEW c \in Caller, LockGateway(c) \/ Connects(c)
        PROVE  GatewayInv' /\ (gw.closer # "open" => stream' \subseteq stream)
    BY <1>7, ConnectStep
  <1>8. ASSUME NEW c \in Caller, Answers(c) PROVE GatewayInv' /\ stream' \subseteq stream
    BY <1>8, AnswerStep
  <1>9. ASSUME NEW c \in Caller, Works(c)
        PROVE  GatewayInv' /\ (gw.closer # "open" => stream' \subseteq stream)
    BY <1>9, WorkStep
  <1> QED
    BY <1>1, <1>2, <1>3, <1>4, <1>5, <1>6, <1>7, <1>8, <1>9 DEF GatewayNext

\* What the invariant says of the streams and of the pool.
LEMMA GatewayInvIsSafe == GatewayInv => GatewayTypeOK /\ OneStream /\ DeadlinesBlameNobody
  <1> SUFFICES ASSUME GatewayInv PROVE GatewayTypeOK /\ OneStream /\ DeadlinesBlameNobody
    OBVIOUS
  <1>1. GatewayTypeOK
    <2>1. /\ gw.owner \in Caller \cup {NobodyHolds}
          /\ gw.healthy \in BOOLEAN /\ gw.recent \in BOOLEAN /\ gw.kind \in BOOLEAN
          /\ gw.seen \in BOOLEAN /\ gw.refused \in BOOLEAN
          /\ gw.closer \in {"open", "canceled", "closed"}
          /\ gw.pool \in Nat /\ gw.opened \in Nat
          /\ stream \subseteq Caller \X Nat
      BY DEF GatewayInv, GatewayTypes, GatewayRecord
    <2>2. \A c \in Caller : call[c].op \in Operation /\ call[c].pool \in Nat
      BY DEF GatewayInv, GatewayTypes, CallRecord
    <2>3. {gw.healthy, gw.recent, gw.kind, gw.seen, gw.refused} \subseteq BOOLEAN
      BY <2>1, Zenon
    <2> QED
      BY <2>1, <2>2, <2>3 DEF GatewayTypeOK
  <1>2. OneStream
    BY AtMostOne DEF GatewayInv, StreamAlone, OneStream
  <1> QED
    BY <1>1, <1>2 DEF GatewayInv, BlameHonest

\* However many callers, deadlines, refusals and reconnects: one result is open
\* at a time, nothing is sent once q has cancelled the gateway, and a pool that
\* answered is given up only for a refusal of the server.
THEOREM GatewayIsSafe == GatewaySpec => GatewaySafety
  <1>1. GatewayInit => GatewayInv
    BY GatewayInitial
  <1>2. GatewayInv /\ [GatewayNext]_gatewayVars => GatewayInv'
    BY GatewayNextStep
  <1>3. GatewayInv => GatewayTypeOK /\ OneStream /\ DeadlinesBlameNobody
    BY GatewayInvIsSafe
  <1>4. GatewayInv /\ [GatewayNext]_gatewayVars =>
          [gw.closer # "open" => stream' \subseteq stream]_gatewayVars
    BY GatewayNextStep
  <1> QED
    BY <1>1, <1>2, <1>3, <1>4, PTL DEF GatewaySpec, GatewaySafety, NothingAfterCancel

-----------------------------------------------------------------------------
(* The refresher: one refresh of a panel at a time, nothing after Stop, and no *)
(* data logger left behind.                                                    *)
RunPc == {"off", "begin", "collect", "publish", "after", "free"}
RunRecord == [pc : RunPc, had : BOOLEAN, result : {"none", "fresh", "failed"}]
SlotRecord == [busy : BOOLEAN, run : [Turn -> RunRecord]]
BadgeRecord == [phase : Phases, success : BOOLEAN]

\* A slot runs one refresh, which is busy and remembers the success its panel
\* already shows until it has published its own result.
SlotHonest(s, b) ==
  /\ \A t, u \in Turn : s.run[t].pc # "off" /\ s.run[u].pc # "off" => t = u
  /\ \A t \in Turn :
       /\ s.run[t].pc # "off" => s.busy
       /\ s.run[t].pc \in {"collect", "publish"} /\ b.success => s.run[t].had
       /\ s.run[t].pc = "publish" => s.run[t].result \in {"fresh", "failed"}

SlotsInv ==
  /\ slot \in [Panel -> SlotRecord]
  /\ badge \in [Panel -> BadgeRecord]
  /\ \A p \in Panel : SlotHonest(slot[p], badge[p])

SuccessKeptNext == \A p \in Panel : badge[p].success => badge'[p].success

\* A step of the only refresh of its slot.
LEMMA RunKeepsSlot ==
  ASSUME NEW s, NEW b, NEW t \in Turn, SlotHonest(s, b), s.run[t].pc # "off",
         NEW z, NEW c,
         \A u \in Turn : u # t => z.run[u] = s.run[u],
         z.run[t].pc # "off" => z.busy,
         z.run[t].pc \in {"collect", "publish"} /\ c.success => z.run[t].had,
         z.run[t].pc = "publish" => z.run[t].result \in {"fresh", "failed"}
  PROVE  SlotHonest(z, c)
  <1>1. \A u \in Turn : u # t => z.run[u].pc = "off"
    BY DEF SlotHonest
  <1> QED
    BY <1>1 DEF SlotHonest

\* A slot of which one turn is replaced.
WithRun(was, p, t, r) == [was EXCEPT ![p].run[t] = r]

\* What a step writes into one turn of one slot.
LEMMA RunWritten ==
  ASSUME NEW was \in [Panel -> SlotRecord], NEW p \in Panel, NEW t \in Turn,
         NEW r \in RunRecord
  PROVE  LET z == WithRun(was, p, t, r)
         IN
         /\ z \in [Panel -> SlotRecord]
         /\ z[p].run[t] = r /\ z[p].busy = was[p].busy
         /\ \A u \in Turn : u # t => z[p].run[u] = was[p].run[u]
         /\ \A q \in Panel : q # p => z[q] = was[q]
  <1>0. PICK z : z = WithRun(was, p, t, r)
    OBVIOUS
  <1>1. PICK b \in BOOLEAN, run \in [Turn -> RunRecord] :
          was[p] = [busy |-> b, run |-> run]
    BY DEF SlotRecord
  <1>2. PICK new \in [Turn -> RunRecord] : new = [run EXCEPT ![t] = r]
    OBVIOUS
  <1>3. z = [was EXCEPT ![p] = [was[p] EXCEPT !.run = [was[p].run EXCEPT ![t] = r]]]
    BY <1>0 DEF WithRun
  <1>4. z = [was EXCEPT ![p] = [was[p] EXCEPT !.run = new]]
    BY <1>1, <1>2, <1>3
  <1>5. [was[p] EXCEPT !.run = new] = [busy |-> b, run |-> new]
    BY <1>1
  <1>6. z[p] = [busy |-> b, run |-> new]
    BY <1>4, <1>5
  <1>7. z[p] \in SlotRecord
    BY <1>6 DEF SlotRecord
  <1> QED
    BY <1>0, <1>1, <1>2, <1>4, <1>6, <1>7

\* A turn that goes on to another step of the refresh.
LEMMA RunMoves ==
  ASSUME slot \in [Panel -> SlotRecord], NEW p \in Panel, NEW t \in Turn,
         NEW at \in RunPc, To(p, t, at)
  PROVE  /\ slot' \in [Panel -> SlotRecord]
         /\ slot'[p].run[t].pc = at
         /\ slot'[p].run[t].had = slot[p].run[t].had
         /\ slot'[p].run[t].result = slot[p].run[t].result
         /\ slot'[p].busy = slot[p].busy
         /\ \A u \in Turn : u # t => slot'[p].run[u] = slot[p].run[u]
         /\ \A q \in Panel : q # p => slot'[q] = slot[q]
  <1>1. slot[p].run[t] \in RunRecord
    BY DEF SlotRecord
  <1>2. PICK r : r = [slot[p].run[t] EXCEPT !.pc = at]
    OBVIOUS
  <1>3. /\ r \in RunRecord /\ r.pc = at
        /\ r.had = slot[p].run[t].had /\ r.result = slot[p].run[t].result
    BY <1>1, <1>2 DEF RunRecord
  <1>4. slot' = WithRun(slot, p, t, r)
    BY <1>2 DEF To, WithRun
  <1> QED
    BY <1>3, <1>4, RunWritten

\* An idle slot starts one refresh; a busy one starts none.
LEMMA LaunchKeepsSlot ==
  ASSUME SlotsInv, NEW p \in Panel
  PROVE  LaunchedIdle(p) \in SlotRecord /\ SlotHonest(LaunchedIdle(p), badge[p])
  <1>0. slot[p] \in SlotRecord /\ SlotHonest(slot[p], badge[p])
    BY DEF SlotsInv
  <1>1. CASE slot[p].busy \/ ~HasRoom(p)
    BY <1>0, <1>1 DEF LaunchedIdle
  <1>2. CASE ~slot[p].busy /\ HasRoom(p)
    <2>1. \A u \in Turn : slot[p].run[u].pc = "off"
      BY <1>0, <1>2 DEF SlotHonest
    <2>2. PICK t : t = CHOOSE i \in Turn : slot[p].run[i].pc = "off"
      OBVIOUS
    <2>3. t \in Turn
      BY <1>2, <2>2 DEF HasRoom
    <2>a. NoRun \in RunRecord /\ "begin" \in RunPc
      BY DEF NoRun, RunRecord, RunPc
    <2>b. PICK begin : begin = [NoRun EXCEPT !.pc = "begin"]
      OBVIOUS
    <2>4. begin \in RunRecord /\ begin.pc = "begin"
      BY <2>a, <2>b DEF RunRecord
    <2>5. PICK b \in BOOLEAN, run \in [Turn -> RunRecord] :
            slot[p] = [busy |-> b, run |-> run]
      BY <1>0 DEF SlotRecord
    <2>6. PICK yes \in BOOLEAN : yes = TRUE
      OBVIOUS
    <2>7. PICK new \in [Turn -> RunRecord] : new = [run EXCEPT ![t] = begin]
      BY <2>4, <2>5
    <2>8. LaunchedIdle(p) = [slot[p] EXCEPT !.busy = yes, !.run = [slot[p].run EXCEPT ![t] = begin]]
      <3>1. LaunchedIdle(p) = Launched(p)
        BY <1>2 DEF LaunchedIdle
      <3> QED
        BY <3>1, <2>2, <2>b, <2>6 DEF Launched
    <2>9. LaunchedIdle(p) = [slot[p] EXCEPT !.busy = yes, !.run = new]
      BY <2>5, <2>7, <2>8
    <2>10. LaunchedIdle(p) = [busy |-> yes, run |-> new]
      BY <2>5, <2>9
    <2>11. LaunchedIdle(p) \in SlotRecord
      BY <2>10 DEF SlotRecord
    <2>12. \A u \in Turn : u # t => new[u].pc = "off"
      BY <2>1, <2>3, <2>5, <2>7
    <2>13. new[t].pc = "begin"
      BY <2>3, <2>4, <2>5, <2>7
    <2>14. SlotHonest([busy |-> yes, run |-> new], badge[p])
      BY <2>6, <2>12, <2>13 DEF SlotHonest
    <2> QED
      BY <2>10, <2>11, <2>14
  <1> QED
    BY <1>1, <1>2

\* Every step keeps the slots honest and every success shown.
LEMMA SlotsStep ==
  ASSUME SlotsInv, [RefresherNext]_refresherVars
  PROVE  SlotsInv' /\ SuccessKeptNext
  <1>0. slot \in [Panel -> SlotRecord] /\ badge \in [Panel -> BadgeRecord]
    BY DEF SlotsInv
  <1>u. ASSUME UNCHANGED <<slot, badge>> PROVE SlotsInv' /\ SuccessKeptNext
    BY <1>u DEF SlotsInv, SuccessKeptNext
  <1>s. ASSUME NEW p \in Panel, NEW t \in Turn, slot[p].run[t].pc # "off",
               slot' \in [Panel -> SlotRecord], badge' \in [Panel -> BadgeRecord],
               \A q \in Panel : q # p => slot'[q] = slot[q] /\ badge'[q] = badge[q],
               \A u \in Turn : u # t => slot'[p].run[u] = slot[p].run[u],
               slot'[p].run[t].pc # "off" => slot'[p].busy,
               slot'[p].run[t].pc \in {"collect", "publish"} /\ badge'[p].success
                 => slot'[p].run[t].had,
               slot'[p].run[t].pc = "publish" =>
                 slot'[p].run[t].result \in {"fresh", "failed"},
               badge[p].success => badge'[p].success
        PROVE  SlotsInv' /\ SuccessKeptNext
    <2>1. SlotHonest(slot[p], badge[p])
      BY DEF SlotsInv
    <2>2. SlotHonest(slot'[p], badge'[p])
      BY <1>s, <2>1, RunKeepsSlot
    <2>3. \A q \in Panel : SlotHonest(slot'[q], badge'[q])
      BY <1>s, <2>2 DEF SlotsInv
    <2> QED
      BY <1>s, <2>3 DEF SlotsInv, SuccessKeptNext
  <1>1. CASE TriggerIdle
    <2>1. badge' = badge /\ (slot' = slot \/ slot' = [p \in Panel |-> LaunchedIdle(p)])
      BY <1>1 DEF TriggerIdle
    <2>2. CASE slot' = slot
      BY <2>1, <2>2, <1>u
    <2>3. CASE slot' = [p \in Panel |-> LaunchedIdle(p)]
      <3>1. \A p \in Panel : slot'[p] \in SlotRecord /\ SlotHonest(slot'[p], badge[p])
        BY <2>3, LaunchKeepsSlot
      <3>2. slot' \in [Panel -> SlotRecord]
        BY <2>3, <3>1
      <3> QED
        BY <2>1, <3>1, <3>2, <1>0 DEF SlotsInv, SuccessKeptNext
    <2> QED
      BY <2>1, <2>2, <2>3
  <1>2. ASSUME NEW p \in Panel, NEW t \in Turn, RefreshBegins(p, t)
        PROVE  SlotsInv' /\ SuccessKeptNext
    <2>1. /\ slot[p].run[t].pc = "begin"
          /\ slot' = [slot EXCEPT ![p].run[t] =
                        [pc |-> "collect", had |-> badge[p].success, result |-> "none"]]
          /\ badge' = [badge EXCEPT ![p].phase = "running"]
      BY <1>2 DEF RefreshBegins, In
    <2>2. badge[p].success \in BOOLEAN
      BY <1>0 DEF BadgeRecord
    <2>3. PICK r : r = [pc |-> "collect", had |-> badge[p].success, result |-> "none"]
      OBVIOUS
    <2>4. r \in RunRecord /\ r.pc = "collect" /\ r.had = badge[p].success
      BY <2>2, <2>3 DEF RunRecord, RunPc
    <2>a. slot' = WithRun(slot, p, t, r)
      BY <2>1, <2>3 DEF WithRun
    <2>5. /\ slot' \in [Panel -> SlotRecord]
          /\ slot'[p].run[t] = r /\ slot'[p].busy = slot[p].busy
          /\ \A u \in Turn : u # t => slot'[p].run[u] = slot[p].run[u]
          /\ \A q \in Panel : q # p => slot'[q] = slot[q]
      BY <1>0, <2>4, <2>a, RunWritten
    <2>6. /\ badge' \in [Panel -> BadgeRecord] /\ badge'[p].success = badge[p].success
          /\ \A q \in Panel : q # p => badge'[q] = badge[q]
      BY <1>0, <2>1 DEF BadgeRecord, Phases
    <2>7. slot[p].busy
      BY <2>1 DEF SlotsInv, SlotHonest
    <2> QED
      BY <1>s, <2>1, <2>4, <2>5, <2>6, <2>7
  <1>3. ASSUME NEW p \in Panel, NEW t \in Turn, NEW result \in {"fresh", "failed"},
               Collected(p, t, result)
        PROVE  SlotsInv' /\ SuccessKeptNext
    <2>1. /\ slot[p].run[t].pc = "collect" /\ badge' = badge
          /\ slot' = [slot EXCEPT ![p].run[t].pc = "publish", ![p].run[t].result = result]
      BY <1>3 DEF Collected, In
    <2>2. PICK at \in RunPc, h \in BOOLEAN, x \in {"none", "fresh", "failed"} :
            slot[p].run[t] = [pc |-> at, had |-> h, result |-> x]
      <3>1. slot[p].run[t] \in RunRecord
        BY <1>0 DEF SlotRecord
      <3> QED
        BY <3>1 DEF RunRecord
    <2>3. PICK publish \in RunPc : publish = "publish"
      BY DEF RunPc
    <2>4. PICK r : r = [slot[p].run[t] EXCEPT !.pc = publish]
      OBVIOUS
    <2>5. r = [pc |-> publish, had |-> h, result |-> x]
      BY <2>2, <2>4
    <2>6. r \in RunRecord
      BY <2>5 DEF RunRecord
    <2>7. PICK mid : mid = WithRun(slot, p, t, r)
      OBVIOUS
    <2>8. /\ mid \in [Panel -> SlotRecord]
          /\ mid[p].run[t] = r /\ mid[p].busy = slot[p].busy
          /\ \A u \in Turn : u # t => mid[p].run[u] = slot[p].run[u]
          /\ \A q \in Panel : q # p => mid[q] = slot[q]
      BY <1>0, <2>6, <2>7, RunWritten
    <2>9. PICK z : z = [r EXCEPT !.result = result]
      OBVIOUS
    <2>10. z = [pc |-> publish, had |-> h, result |-> result]
      BY <2>5, <2>9
    <2>11. z \in RunRecord
      BY <2>10 DEF RunRecord
    <2>12. slot' = WithRun(mid, p, t, z)
      <3>1. slot' = [[slot EXCEPT ![p].run[t].pc = publish] EXCEPT ![p].run[t].result = result]
        BY <2>1, <2>3
      <3>2. mid = [slot EXCEPT ![p].run[t].pc = publish]
        BY <2>4, <2>7 DEF WithRun
      <3>3. slot' = [mid EXCEPT ![p].run[t].result = result]
        BY <3>1, <3>2
      <3>4. slot' = [mid EXCEPT ![p].run[t] = [mid[p].run[t] EXCEPT !.result = result]]
        BY <3>3
      <3> QED
        BY <3>4, <2>8, <2>9 DEF WithRun
    <2>13. /\ slot' \in [Panel -> SlotRecord]
           /\ slot'[p].run[t] = z /\ slot'[p].busy = slot[p].busy
           /\ \A u \in Turn : u # t => slot'[p].run[u] = slot[p].run[u]
           /\ \A q \in Panel : q # p => slot'[q] = slot[q]
      BY <2>8, <2>11, <2>12, RunWritten
    <2>14. slot[p].busy /\ (badge[p].success => h)
      BY <2>1, <2>2 DEF SlotsInv, SlotHonest
    <2>15. z.pc = "publish" /\ z.had = h /\ z.result = result
      BY <2>3, <2>10
    <2>16. slot[p].run[t].pc # "off"
      BY <2>1
    <2>17. slot'[p].run[t].pc = "publish" /\ slot'[p].run[t].had = h
           /\ slot'[p].run[t].result \in {"fresh", "failed"}
      BY <2>13, <2>15
    <2>18. badge' = badge
      BY <2>1
    <2> QED
      BY <1>0, <1>s, <2>13, <2>14, <2>16, <2>17, <2>18
  <1>4. ASSUME NEW p \in Panel, NEW t \in Turn, Published(p, t)
        PROVE  SlotsInv' /\ SuccessKeptNext
    <2>1. PICK r : r = slot[p].run[t]
      OBVIOUS
    <2>2. /\ r.pc = "publish"
          /\ badge' = [badge EXCEPT ![p] = [phase |-> r.result,
                                            success |-> r.had \/ r.result = "fresh"]]
          /\ To(p, t, IF r.result = "fresh" THEN "after" ELSE "free")
      BY <1>4, <2>1 DEF Published
    <2>3. PICK at \in RunPc : at = IF r.result = "fresh" THEN "after" ELSE "free"
      BY DEF RunPc
    <2>4. /\ slot' \in [Panel -> SlotRecord] /\ slot'[p].run[t].pc = at
          /\ slot'[p].busy = slot[p].busy
          /\ \A u \in Turn : u # t => slot'[p].run[u] = slot[p].run[u]
          /\ \A q \in Panel : q # p => slot'[q] = slot[q]
      BY <1>0, <2>2, <2>3, RunMoves
    <2>5. /\ slot[p].busy /\ r.result \in {"fresh", "failed"}
          /\ badge[p].success => r.had
      BY <2>1, <2>2 DEF SlotsInv, SlotHonest
    <2>6. PICK ok \in BOOLEAN : ok = (r.had \/ r.result = "fresh")
      OBVIOUS
    <2>7. badge' = [badge EXCEPT ![p] = [phase |-> r.result, success |-> ok]]
      BY <2>2, <2>6
    <2>8. [phase |-> r.result, success |-> ok] \in BadgeRecord
      BY <2>5 DEF BadgeRecord, Phases
    <2>9. /\ badge' \in [Panel -> BadgeRecord] /\ badge'[p].success = ok
          /\ \A q \in Panel : q # p => badge'[q] = badge[q]
      BY <1>0, <2>7, <2>8
    <2>10. badge[p].success => badge'[p].success
      BY <2>5, <2>6, <2>9
    <2>11. at \notin {"collect", "publish"} /\ slot[p].run[t].pc # "off"
      BY <2>1, <2>2, <2>3
    <2> QED
      BY <1>s, <2>4, <2>5, <2>9, <2>10, <2>11
  <1>5. ASSUME NEW p \in Panel, NEW t \in Turn, HookLaunched(p, t)
        PROVE  SlotsInv' /\ SuccessKeptNext
    <2>1. slot[p].run[t].pc = "after" /\ To(p, t, "free") /\ badge' = badge
      BY <1>5 DEF HookLaunched, In
    <2>2. "free" \in RunPc
      BY DEF RunPc
    <2>3. /\ slot' \in [Panel -> SlotRecord] /\ slot'[p].run[t].pc = "free"
          /\ slot'[p].busy = slot[p].busy
          /\ \A u \in Turn : u # t => slot'[p].run[u] = slot[p].run[u]
          /\ \A q \in Panel : q # p => slot'[q] = slot[q]
      BY <1>0, <2>1, <2>2, RunMoves
    <2>4. slot[p].busy
      BY <2>1 DEF SlotsInv, SlotHonest
    <2> QED
      BY <1>0, <1>s, <2>1, <2>3, <2>4
  <1>6. ASSUME NEW p \in Panel, NEW t \in Turn, SlotFreed(p, t)
        PROVE  SlotsInv' /\ SuccessKeptNext
    <2>1. /\ slot[p].run[t].pc = "free" /\ badge' = badge
          /\ slot' = [slot EXCEPT ![p].run[t] = NoRun, ![p].busy = FALSE]
      BY <1>6 DEF SlotFreed, In
    <2>2. NoRun \in RunRecord /\ NoRun.pc = "off"
      BY DEF NoRun, RunRecord, RunPc
    <2>3. PICK mid : mid = WithRun(slot, p, t, NoRun)
      OBVIOUS
    <2>4. /\ mid \in [Panel -> SlotRecord] /\ mid[p].run[t] = NoRun
          /\ \A u \in Turn : u # t => mid[p].run[u] = slot[p].run[u]
          /\ \A q \in Panel : q # p => mid[q] = slot[q]
      BY <1>0, <2>2, <2>3, RunWritten
    <2>5. PICK no \in BOOLEAN : no = FALSE
      OBVIOUS
    <2>6. slot' = [mid EXCEPT ![p] = [mid[p] EXCEPT !.busy = no]]
      BY <2>1, <2>3, <2>5 DEF WithRun
    <2>7. mid[p] \in SlotRecord
      BY <2>4
    <2>8. [mid[p] EXCEPT !.busy = no] \in SlotRecord /\ [mid[p] EXCEPT !.busy = no].run = mid[p].run
      BY <2>7 DEF SlotRecord
    <2>9. /\ slot' \in [Panel -> SlotRecord] /\ slot'[p].run = mid[p].run
          /\ \A q \in Panel : q # p => slot'[q] = slot[q]
      BY <2>4, <2>6, <2>8
    <2>10. slot[p].run[t].pc # "off" /\ slot'[p].run[t].pc = "off"
      BY <2>1, <2>2, <2>4, <2>9
    <2>11. \A u \in Turn : u # t => slot'[p].run[u] = slot[p].run[u]
      BY <2>4, <2>9
    <2> QED
      BY <1>0, <1>s, <2>1, <2>9, <2>10, <2>11
  <1>7. ASSUME StartRefresher \/ EnterSubView \/ LeaveSubView \/ LoopQuits \/ LoopStalled
                 \/ ScreenQuits \/ RequestExit \/ StopBegins \/ StopReturns \/ LoopEnds
        PROVE  UNCHANGED <<slot, badge>>
    BY <1>7 DEF StartRefresher, EnterSubView, LeaveSubView, LoopQuits, LoopStalled,
                ScreenQuits, RequestExit, StopBegins, StopReturns, LoopEnds
  <1>8. ASSUME HookStep \/ LoggerStep \/ CleanupStep PROVE UNCHANGED <<slot, badge>>
    BY <1>8 DEF HookStep, HookReads, HookEnds, LoggerStep, LoggerMade, LoggerStarted,
                LoggerRowsEnd, CleanupStep, CleanupRequests, CleanupWaitsWork,
                CleanupWaitsHook, CleanupStopsLogger, CleanupClosesFile, CleanupEnds
  <1>9. CASE UNCHANGED refresherVars
    BY <1>9, <1>u DEF refresherVars
  <1>10. ASSUME NEW p \in Panel, NEW t \in Turn, RefreshStep(p, t)
         PROVE  SlotsInv' /\ SuccessKeptNext
    BY <1>10, <1>2, <1>3, <1>4, <1>5, <1>6 DEF RefreshStep
  <1> QED
    BY <1>1, <1>7, <1>8, <1>9, <1>10, <1>u DEF RefresherNext

-----------------------------------------------------------------------------
ShellRecord == [pc : {"begin", "loop", "sub", "exiting", "stop", "exited"},
                exit : BOOLEAN, asker : {"none", "main", "screen", "done"}, heard : BOOLEAN]
SchedulerRecord == [made : BOOLEAN, stopped : BOOLEAN, paused : BOOLEAN, wake : BOOLEAN,
                    loop : {"off", "first", "on", "ended"}]
HookRecord == [busy : BOOLEAN, pc : {"off", "begin", "analyse"}, unread : BOOLEAN]
LoggerRecord == [pc : {"off", "start", "made", "end"}, held : BOOLEAN,
                 row : {"none", "running", "closing", "ended"}, file : BOOLEAN]
CleanupPc == {"off", "request", "work", "hook", "logger", "rows", "rest", "done"}

StopTypes ==
  /\ shell \in ShellRecord
  /\ scheduler \in SchedulerRecord
  /\ hook \in HookRecord
  /\ logger \in LoggerRecord
  /\ cleanup \in CleanupPc

NoRefresh == \A p \in Panel, t \in Turn : slot[p].run[t].pc = "off"

\* The cleanup begins after the exit was asked for, and its waits hold.
StopInOrder ==
  /\ cleanup # "off" => shell.pc \in {"stop", "exited"}
  /\ shell.pc \in {"exiting", "stop", "exited"} => shell.exit
  /\ cleanup \notin {"off", "request"} => scheduler.stopped
  /\ cleanup \in {"hook", "logger", "rows", "rest", "done"} => NoRefresh
  /\ cleanup \in {"logger", "rows", "rest", "done"} => hook.pc = "off"

\* The data logger has a file only while somebody is bound to close it.
LoggerOwned ==
  /\ shell.pc = "begin" => logger.pc = "off"
  /\ logger.pc # "end" => ~logger.held /\ logger.row = "none"
  /\ logger.pc \in {"off", "start"} => ~logger.file
  /\ logger.row = "running" => logger.held
  /\ logger.pc = "end" /\ logger.file => logger.held \/ cleanup = "rows"
  /\ cleanup \in {"rows", "rest", "done"} => ~logger.held

StopInv == StopTypes /\ StopInOrder /\ LoggerOwned

\* The main loop, the screen and the exit request.
LEMMA ShellKeepsStop ==
  ASSUME StopInv,
         StartRefresher \/ EnterSubView \/ LeaveSubView \/ LoopQuits \/ LoopStalled
           \/ ScreenQuits \/ RequestExit \/ StopBegins \/ StopReturns
  PROVE  StopInv'
  <1>0. StopTypes /\ StopInOrder /\ LoggerOwned
    BY DEF StopInv
  <1> USE DEF ShellRecord, SchedulerRecord, LoggerRecord, StopTypes
  <1>1. CASE StartRefresher
    <2>1. /\ shell.pc = "begin" /\ hook' = hook /\ slot' = slot /\ cleanup' = cleanup
          /\ shell' = [shell EXCEPT !.pc = "loop"]
          /\ scheduler' = [scheduler EXCEPT !.made = TRUE, !.loop = "first"]
          /\ logger' = [logger EXCEPT !.pc = "start"]
      BY <1>1 DEF StartRefresher
    <2>2. cleanup = "off" /\ logger.pc = "off"
      BY <2>1, <1>0 DEF StopInOrder, LoggerOwned
    <2>3. StopTypes'
      BY <2>1, <1>0
    <2>4. shell'.pc = "loop" /\ logger'.pc = "start" /\ logger'.file = logger.file
          /\ logger'.held = logger.held /\ logger'.row = logger.row
      BY <2>1, <1>0
    <2> QED
      BY <2>1, <2>2, <2>3, <2>4, <1>0 DEF StopInOrder, LoggerOwned, StopInv
  <1>2. CASE EnterSubView \/ LeaveSubView
    <2>1. /\ UNCHANGED <<hook, slot, cleanup, logger>>
          /\ shell.pc \in {"loop", "sub"}
          /\ \/ shell' = [shell EXCEPT !.pc = "sub"]
             \/ shell' = [shell EXCEPT !.pc = "loop"]
          /\ \/ scheduler' = [scheduler EXCEPT !.paused = TRUE]
             \/ scheduler' = scheduler
             \/ scheduler' = [scheduler EXCEPT !.paused = FALSE, !.wake = TRUE]
      BY <1>2 DEF EnterSubView, LeaveSubView
    <2>a. shell' \in ShellRecord
      BY <2>1, <1>0
    <2>b. scheduler' \in SchedulerRecord
      BY <2>1, <1>0
    <2>2. StopTypes'
      BY <2>1, <2>a, <2>b, <1>0
    <2>3. shell'.pc \in {"loop", "sub"} /\ cleanup = "off"
      BY <2>1, <1>0 DEF StopInOrder
    <2> QED
      BY <2>1, <2>2, <2>3, <1>0 DEF StopInOrder, LoggerOwned, StopInv
  <1>3. CASE LoopQuits \/ LoopStalled
    <2>1. /\ UNCHANGED <<hook, slot, cleanup, logger, scheduler>>
          /\ shell.pc = "loop"
          /\ \/ shell.exit /\ shell' = [shell EXCEPT !.pc = "stop"]
             \/ shell' = [shell EXCEPT !.pc = "exiting", !.exit = TRUE, !.asker = "main"]
      BY <1>3 DEF LoopQuits, LoopStalled
    <2>a. shell' \in ShellRecord
      BY <2>1, <1>0
    <2>2. StopTypes'
      BY <2>1, <2>a, <1>0
    <2>3. shell'.pc \in {"stop", "exiting"} /\ shell'.exit /\ cleanup = "off"
      BY <2>1, <1>0 DEF StopInOrder
    <2> QED
      BY <2>1, <2>2, <2>3, <1>0 DEF StopInOrder, LoggerOwned, NoRefresh, StopInv
  <1>4. CASE ScreenQuits
    <2>1. /\ UNCHANGED <<hook, slot, cleanup, logger, scheduler>>
          /\ shell' = [shell EXCEPT !.exit = TRUE, !.asker = "screen"]
      BY <1>4 DEF ScreenQuits
    <2>a. shell' \in ShellRecord /\ shell'.pc = shell.pc /\ shell'.exit
      BY <2>1, <1>0
    <2>2. StopTypes' /\ shell'.pc = shell.pc /\ shell'.exit
      BY <2>1, <2>a, <1>0
    <2> QED
      BY <2>1, <2>2, <1>0 DEF StopInOrder, LoggerOwned, NoRefresh, StopInv
  <1>5. CASE RequestExit
    <2>1. /\ UNCHANGED <<hook, slot, cleanup, logger>>
          /\ scheduler' = scheduler \/ scheduler' = [scheduler EXCEPT !.stopped = TRUE]
          /\ shell' = [shell EXCEPT !.asker = "done",
                                    !.pc = IF shell.pc = "exiting" THEN "stop" ELSE shell.pc]
      BY <1>5 DEF RequestExit, RequestStop
    <2>a. PICK pc \in {shell.pc, "stop"} : pc = IF shell.pc = "exiting" THEN "stop" ELSE shell.pc
      OBVIOUS
    <2>b. shell' = [shell EXCEPT !.asker = "done", !.pc = pc]
      BY <2>1, <2>a
    <2>c. shell' \in ShellRecord /\ shell'.exit = shell.exit /\ shell'.pc = pc
      BY <2>a, <2>b, <1>0
    <2>d. scheduler' \in SchedulerRecord /\ (scheduler.stopped => scheduler'.stopped)
      BY <2>1, <1>0
    <2>2. /\ StopTypes' /\ shell'.exit = shell.exit
          /\ shell'.pc = IF shell.pc = "exiting" THEN "stop" ELSE shell.pc
          /\ scheduler.stopped => scheduler'.stopped
      BY <2>1, <2>a, <2>c, <2>d, <1>0
    <2> QED
      BY <2>1, <2>2, <1>0 DEF StopInOrder, LoggerOwned, NoRefresh, StopInv
  <1>6. CASE StopBegins \/ StopReturns
    <2>1. /\ UNCHANGED <<hook, slot, logger, scheduler>>
          /\ shell.pc = "stop"
          /\ \/ shell' = shell /\ cleanup = "off" /\ cleanup' = "request"
             \/ shell' = [shell EXCEPT !.pc = "exited"] /\ cleanup' = cleanup
      BY <1>6 DEF StopBegins, StopReturns
    <2>2. StopTypes' /\ shell'.pc \in {"stop", "exited"} /\ shell'.exit = shell.exit
      BY <2>1, <1>0 DEF CleanupPc
    <2> QED
      BY <2>1, <2>2, <1>0 DEF StopInOrder, LoggerOwned, NoRefresh, StopInv
  <1> QED
    BY <1>1, <1>2, <1>3, <1>4, <1>5, <1>6

\* The scheduler and the refreshes: none is left to run once they were waited
\* for, and none starts after the stop.
LEMMA RefreshKeepsStop ==
  ASSUME StopInv,
         TriggerIdle \/ LoopEnds \/ (\E p \in Panel, t \in Turn : RefreshStep(p, t))
  PROVE  StopInv'
  <1>0. StopTypes /\ StopInOrder /\ LoggerOwned
    BY DEF StopInv
  <1> USE DEF ShellRecord, SchedulerRecord, HookRecord, StopTypes
  <1>1. CASE TriggerIdle \/ LoopEnds
    <2>1. /\ UNCHANGED <<hook, shell, logger, cleanup>>
          /\ scheduler.stopped => slot' = slot
          /\ \/ scheduler' = [scheduler EXCEPT !.loop = "on"]
             \/ scheduler' = [scheduler EXCEPT !.wake = FALSE, !.loop = "on"]
             \/ scheduler' = [scheduler EXCEPT !.loop = "ended"]
      BY <1>1 DEF TriggerIdle, LoopEnds
    <2>a. scheduler' \in SchedulerRecord /\ scheduler'.stopped = scheduler.stopped
      BY <2>1, <1>0
    <2>2. StopTypes' /\ scheduler'.stopped = scheduler.stopped
      BY <2>1, <2>a, <1>0
    <2> QED
      BY <2>1, <2>2, <1>0 DEF StopInOrder, LoggerOwned, NoRefresh, StopInv
  <1>2. ASSUME NEW p \in Panel, NEW t \in Turn, RefreshStep(p, t) PROVE StopInv'
    <2>1. /\ UNCHANGED <<scheduler, logger, cleanup>>
          /\ shell' = shell \/ \E b \in BOOLEAN : shell' = [shell EXCEPT !.heard = b]
          /\ \/ hook' = hook
             \/ \E b \in BOOLEAN : hook' = [hook EXCEPT !.unread = b]
             \/ ~scheduler.stopped /\ hook' = [hook EXCEPT !.busy = TRUE, !.pc = "begin"]
          /\ slot[p].run[t].pc # "off"
      <3>1. CASE RefreshBegins(p, t) \/ SlotFreed(p, t)
        BY <3>1 DEF RefreshBegins, SlotFreed, In
      <3>2. ASSUME NEW result \in {"fresh", "failed"}, Collected(p, t, result) PROVE <2>1
        <4>1. PICK b \in BOOLEAN : b = (hook.unread \/ result = "fresh")
          OBVIOUS
        <4>2. hook' = [hook EXCEPT !.unread = b]
          BY <3>2, <4>1 DEF Collected
        <4> QED
          BY <3>2, <4>2 DEF Collected, In
      <3>3. CASE Published(p, t)
        <4>1. PICK b \in BOOLEAN : b = (shell.heard \/ slot[p].run[t].result = "fresh")
          OBVIOUS
        <4>2. shell' = [shell EXCEPT !.heard = b]
          BY <3>3, <4>1 DEF Published
        <4> QED
          BY <3>3, <4>2 DEF Published
      <3>4. CASE HookLaunched(p, t)
        BY <3>4 DEF HookLaunched, In
      <3> QED
        BY <1>2, <3>1, <3>2, <3>3, <3>4 DEF RefreshStep
    <2>2. cleanup \in {"off", "request", "work"}
      BY <2>1, <1>0 DEF StopInOrder, NoRefresh, CleanupPc
    <2>3. StopTypes' /\ shell'.pc = shell.pc /\ shell'.exit = shell.exit
      BY <2>1, <1>0
    <2> QED
      BY <2>1, <2>2, <2>3, <1>0 DEF StopInOrder, LoggerOwned, StopInv
  <1> QED
    BY <1>1, <1>2

\* The analysis, the data logger and the cleanup.
LEMMA CleanupKeepsStop ==
  ASSUME StopInv, HookStep \/ LoggerStep \/ CleanupStep
  PROVE  StopInv'
  <1>0. StopTypes /\ StopInOrder /\ LoggerOwned
    BY DEF StopInv
  <1> USE DEF SchedulerRecord, HookRecord, LoggerRecord, StopTypes, CleanupPc
  <1>1. CASE HookStep
    <2>1. /\ UNCHANGED <<shell, scheduler, slot, logger, cleanup>>
          /\ hook.pc # "off"
          /\ \/ hook' = [hook EXCEPT !.pc = "analyse", !.unread = FALSE]
             \/ hook' = [hook EXCEPT !.pc = "off", !.busy = FALSE]
      BY <1>1 DEF HookStep, HookReads, HookEnds
    <2>a. hook' \in HookRecord
      BY <2>1, <1>0
    <2>2. StopTypes' /\ cleanup \notin {"logger", "rows", "rest", "done"}
      BY <2>1, <2>a, <1>0 DEF StopInOrder
    <2> QED
      BY <2>1, <2>2, <1>0 DEF StopInOrder, LoggerOwned, NoRefresh, StopInv
  <1>2. CASE LoggerStep
    <2>1. /\ UNCHANGED <<shell, scheduler, slot, hook, cleanup>>
          /\ \/ logger.pc = "start" /\ logger' = [logger EXCEPT !.pc = "end"]
             \/ logger.pc = "start" /\ logger' = [logger EXCEPT !.pc = "made", !.file = TRUE]
             \/ logger.pc = "made" /\ logger' = [logger EXCEPT !.pc = "end", !.file = FALSE]
             \/ /\ logger.pc = "made" /\ ~shell.exit
                /\ logger' = [logger EXCEPT !.pc = "end", !.held = TRUE, !.row = "running"]
             \/ logger.row = "closing" /\ logger' = [logger EXCEPT !.row = "ended"]
      BY <1>2 DEF LoggerStep, LoggerMade, LoggerStarted, LoggerRowsEnd
    <2>a. logger' \in LoggerRecord
      BY <2>1, <1>0
    <2>2. StopTypes'
      BY <2>1, <2>a, <1>0
    <2>3. StopInOrder'
      BY <2>1, <1>0 DEF StopInOrder, NoRefresh
    <2>4. shell.pc # "begin"
      BY <2>1, <1>0 DEF LoggerOwned
    <2>5. ~shell.exit => cleanup = "off"
      BY <1>0 DEF StopInOrder
    <2>6. LoggerOwned'
      BY <2>1, <2>4, <2>5, <1>0 DEF LoggerOwned
    <2> QED
      BY <2>2, <2>3, <2>6 DEF StopInv
  <1>3. CASE CleanupStep
    <2>1. /\ UNCHANGED <<shell, slot, hook>>
          /\ \/ /\ cleanup = "request" /\ cleanup' = "work" /\ logger' = logger
                /\ \/ scheduler.stopped /\ scheduler' = scheduler
                   \/ scheduler' = [scheduler EXCEPT !.stopped = TRUE]
             \/ /\ cleanup = "work" /\ cleanup' = "hook" /\ UNCHANGED <<scheduler, logger>>
                /\ NoRefresh
             \/ /\ cleanup = "hook" /\ cleanup' = "logger" /\ UNCHANGED <<scheduler, logger>>
                /\ hook.pc = "off"
             \/ /\ cleanup = "logger" /\ cleanup' = "rows" /\ scheduler' = scheduler
                /\ logger.held
                /\ logger' = [logger EXCEPT !.held = FALSE, !.row = "closing"]
             \/ /\ cleanup = "logger" /\ cleanup' = "rest" /\ UNCHANGED <<scheduler, logger>>
                /\ ~logger.held
             \/ /\ cleanup = "rows" /\ cleanup' = "rest" /\ scheduler' = scheduler
                /\ logger' = [logger EXCEPT !.file = FALSE]
             \/ cleanup = "rest" /\ cleanup' = "done" /\ UNCHANGED <<scheduler, logger>>
      BY <1>3 DEF CleanupStep, CleanupRequests, RequestStop, CleanupWaitsWork, In, NoRefresh,
                  CleanupWaitsHook, CleanupStopsLogger, CleanupClosesFile, CleanupEnds
    <2>2. StopTypes'
      BY <2>1, <1>0
    <2>3. StopInOrder'
      BY <2>1, <1>0 DEF StopInOrder, NoRefresh
    <2>4. LoggerOwned'
      BY <2>1, <1>0 DEF LoggerOwned
    <2> QED
      BY <2>2, <2>3, <2>4 DEF StopInv
  <1> QED
    BY <1>1, <1>2, <1>3

RefresherInv == SlotsInv /\ StopInv

\* Nothing runs at the start and no data logger exists.
LEMMA RefresherInitial == RefresherInit => RefresherInv
  <1> SUFFICES ASSUME RefresherInit PROVE RefresherInv
    OBVIOUS
  <1>1. NoRun \in RunRecord /\ NoRun.pc = "off"
    BY DEF NoRun, RunRecord, RunPc
  <1>2. SlotsInv
    <2>1. slot = [p \in Panel |-> [busy |-> FALSE, run |-> [t \in Turn |-> NoRun]]]
      BY DEF RefresherInit
    <2>2. [busy |-> FALSE, run |-> [t \in Turn |-> NoRun]] \in SlotRecord
      BY <1>1 DEF SlotRecord
    <2>3. slot \in [Panel -> SlotRecord] /\ \A p \in Panel, t \in Turn : slot[p].run[t].pc = "off"
      BY <2>1, <2>2, <1>1
    <2>4. badge \in [Panel -> BadgeRecord]
      BY DEF RefresherInit, BadgeRecord, Phases
    <2> QED
      BY <2>3, <2>4 DEF SlotsInv, SlotHonest
  <1>3. StopTypes
    BY DEF RefresherInit, StopTypes, ShellRecord, SchedulerRecord, HookRecord, LoggerRecord,
           CleanupPc
  <1>4. StopInOrder /\ LoggerOwned
    BY DEF RefresherInit, StopInOrder, LoggerOwned
  <1> QED
    BY <1>2, <1>3, <1>4 DEF RefresherInv, StopInv

\* What the invariant says of the slots, the hook and the data logger.
LEMMA RefresherInvIsSafe == RefresherInv => RefresherTypeOK /\ QuietAfterStop /\ NoLoggerLeft
  <1> SUFFICES ASSUME RefresherInv PROVE RefresherTypeOK /\ QuietAfterStop /\ NoLoggerLeft
    OBVIOUS
  <1>1. RefresherTypeOK
    <2>1. shell.pc \in {"begin", "loop", "sub", "exiting", "stop", "exited"}
      BY DEF RefresherInv, StopInv, StopTypes, ShellRecord
    <2>2. \A p \in Panel : badge[p].phase \in Phases /\ badge[p].success \in BOOLEAN
      BY DEF RefresherInv, SlotsInv, BadgeRecord
    <2>3. \A p \in Panel, t \in Turn : slot[p].run[t].pc \in RunPc
      BY DEF RefresherInv, SlotsInv, SlotRecord, RunRecord
    <2> QED
      BY <2>1, <2>2, <2>3 DEF RefresherTypeOK, RunPc
  <1>2. QuietAfterStop
    BY DEF RefresherInv, StopInv, StopInOrder, NoRefresh, QuietAfterStop, In
  <1>3. NoLoggerLeft
    BY DEF RefresherInv, StopInv, LoggerOwned, NoLoggerLeft
  <1> QED
    BY <1>1, <1>2, <1>3

\* Whatever the screen, the main loop, the ticks and the logger's starter do,
\* and in whatever order: no panel forgets that it was refreshed, nothing runs
\* once Stop has waited, and the data logger is closed by one of the two that
\* may have to.
THEOREM RefresherIsSafe == RefresherSpec => RefresherSafety
  <1>1. RefresherInit => RefresherInv
    BY RefresherInitial
  <1>2. RefresherInv /\ [RefresherNext]_refresherVars => RefresherInv'
    <2> SUFFICES ASSUME RefresherInv, [RefresherNext]_refresherVars PROVE RefresherInv'
      OBVIOUS
    <2>1. SlotsInv'
      BY SlotsStep DEF RefresherInv
    <2>2. CASE UNCHANGED refresherVars
      BY <2>2 DEF refresherVars, RefresherInv, StopInv, StopTypes, StopInOrder, NoRefresh,
                  LoggerOwned, SlotsInv
    <2>3. CASE RefresherNext
      <3>1. StopInv'
        BY <2>3, ShellKeepsStop, RefreshKeepsStop, CleanupKeepsStop
           DEF RefresherNext, RefresherInv
      <3> QED
        BY <2>1, <3>1 DEF RefresherInv
    <2> QED
      BY <2>2, <2>3
  <1>3. RefresherInv => RefresherTypeOK /\ QuietAfterStop /\ NoLoggerLeft
    BY RefresherInvIsSafe
  <1>4. RefresherInv /\ [RefresherNext]_refresherVars
          => [\A p \in Panel : badge[p].success => badge'[p].success]_refresherVars
    BY SlotsStep DEF RefresherInv, SuccessKeptNext
  <1> QED
    BY <1>1, <1>2, <1>3, <1>4, PTL DEF RefresherSpec, RefresherSafety, SuccessKept

-----------------------------------------------------------------------------
(* The wait-event panel (EventPanel): sums over the events.                  *)

\* A set of numbers that is not empty has a least one.
LEMMA LeastExists ==
  ASSUME NEW T \in SUBSET Nat, T # {}
  PROVE  \E x \in T : \A y \in T : x <= y
  <1> DEFINE R == OpToRel(<, Nat)
  <1>1. IsWellFoundedOn(R, Nat)
    BY NatLessThanWellFounded
  <1>2. \A x, y \in Nat : x < y => <<x, y>> \in R
    BY Zenon DEF OpToRel
  <1> HIDE DEF R
  <1>3. PICK x \in T : \A y \in T : ~(<<y, x>> \in R)
    BY <1>1, WFMin, Zenon
  <1>4. \A y \in T : ~(y < x)
    BY <1>2, <1>3
  <1> QED
    BY <1>3, <1>4

\* The event a sum takes next, and the events it has left then.
NextOf(u) == CHOOSE e \in u : TRUE

RestOf(u) == u \ {NextOf(u)}

\* Running sums over a value of each event, in the order they are taken.
SumsOf(g, f) ==
  /\ g \in [SUBSET WaitEvent -> Int]
  /\ g[{}] = 0
  /\ \A u \in SUBSET WaitEvent : u # {} => g[u] = f[NextOf(u)] + g[RestOf(u)]

\* What is left has one event less.
LEMMA RestIsSmaller ==
  ASSUME NEW u \in SUBSET WaitEvent, u # {}
  PROVE  /\ NextOf(u) \in u /\ RestOf(u) \in SUBSET WaitEvent
         /\ Cardinality(u) \in Nat /\ Cardinality(RestOf(u)) = Cardinality(u) - 1
         /\ Cardinality(RestOf(u)) \in Nat
  <1>1. NextOf(u) \in u
    BY DEF NextOf
  <1>2. IsFiniteSet(u)
    BY EventAssumption, FS_Subset
  <1>3. Cardinality(u) \in Nat /\ Cardinality(RestOf(u)) = Cardinality(u) - 1
        /\ Cardinality(RestOf(u)) \in Nat
    BY <1>1, <1>2, FS_RemoveElement, FS_CardinalityType DEF RestOf
  <1> QED
    BY <1>1, <1>3 DEF RestOf

\* Of the sets with a property, one has no rest with it.
LEMMA SmallestOf ==
  ASSUME NEW B \in SUBSET (SUBSET WaitEvent), B # {}
  PROVE  \E u \in B : u # {} => RestOf(u) \notin B
  <1> DEFINE T == {Cardinality(u) : u \in B}
  <1>1. \A u \in B : Cardinality(u) \in Nat
    BY EventAssumption, FS_Subset, FS_CardinalityType
  <1>2. T \in SUBSET Nat /\ T # {}
    BY <1>1
  <1>3. PICK n \in T : \A m \in T : n <= m
    <2> HIDE DEF T
    <2> QED
      BY <1>2, LeastExists
  <1>4. PICK u \in B : n = Cardinality(u)
    BY <1>3
  <1>5. ASSUME u # {}, RestOf(u) \in B PROVE FALSE
    <2>1. n <= Cardinality(RestOf(u))
      BY <1>3, <1>5
    <2> QED
      BY <1>4, <1>5, <2>1, RestIsSmaller
  <1> QED
    BY <1>4, <1>5

\* Running sums exist.
LEMMA SumsExist ==
  ASSUME NEW f \in [WaitEvent -> Int]
  PROVE  \E g : SumsOf(g, f)
  <1> DEFINE Upto(m) == {u \in SUBSET WaitEvent : Cardinality(u) <= m}
             Total(u, g) == IF u = {} THEN 0 ELSE f[NextOf(u)] + g[RestOf(u)]
             Totals(m, g) == \A u \in Upto(m) : g[u] = Total(u, g)
             N == Cardinality(WaitEvent)
             T == {m \in 0..N : ~ \E g \in [Upto(m) -> Int] : Totals(m, g)}
  <1>0. N \in Nat
    BY EventAssumption, FS_CardinalityType
  <1>1. T = {}
    <2> SUFFICES ASSUME T # {} PROVE FALSE
      OBVIOUS
    <2>1. PICK m \in T : \A k \in T : m <= k
      <3>1. T \in SUBSET Nat
        BY <1>0
      <3> HIDE DEF T
      <3> QED
        BY <3>1, LeastExists
    <2>2. m \in 0..N /\ ~ \E g \in [Upto(m) -> Int] : Totals(m, g)
      OBVIOUS
    <2>3. CASE m = 0
      <3> DEFINE g == [u \in Upto(0) |-> 0]
      <3>1. \A u \in Upto(0) : u = {}
        BY RestIsSmaller
      <3>2. g \in [Upto(0) -> Int] /\ Totals(0, g)
        <4> HIDE DEF Upto
        <4> QED
          BY <3>1
      <3> QED
        BY <2>2, <2>3, <3>2
    <2>4. CASE m # 0
      <3>1. m \in Nat /\ m - 1 \in 0..N /\ ~(m <= m - 1)
        BY <1>0, <2>2, <2>4
      <3>2. m - 1 \notin T
        <4> HIDE DEF T
        <4> QED
          BY <2>1, <3>1
      <3>3. PICK g \in [Upto(m - 1) -> Int] : Totals(m - 1, g)
        BY <3>1, <3>2
      <3>4. \A u \in Upto(m) : u # {} => RestOf(u) \in Upto(m - 1) /\ NextOf(u) \in WaitEvent
        BY <3>1, RestIsSmaller
      <3>5. \A u \in Upto(m - 1) : u \in Upto(m)
        <4>1. \A u \in SUBSET WaitEvent : Cardinality(u) \in Nat
          BY EventAssumption, FS_Subset, FS_CardinalityType
        <4> QED
          BY <3>1, <4>1
      <3> DEFINE h == [u \in Upto(m) |-> Total(u, g)]
      <3> HIDE DEF Upto
      <3>6. h \in [Upto(m) -> Int]
        BY <3>4
      <3>7. \A u \in Upto(m - 1) : h[u] = g[u]
        BY <3>3, <3>5
      <3>8. Totals(m, h)
        BY <3>4, <3>7
      <3> QED
        BY <2>2, <3>6, <3>8
    <2> QED
      BY <2>3, <2>4
  <1>2. N \in 0..N /\ N \notin T
    <2> HIDE DEF T
    <2> QED
      BY <1>0, <1>1
  <1>3. PICK g \in [Upto(N) -> Int] : Totals(N, g)
    BY <1>2
  <1>4. Upto(N) = SUBSET WaitEvent
    BY EventAssumption, FS_Subset
  <1>5. SumsOf(g, f)
    <2> HIDE DEF Upto
    <2> QED
      BY <1>3, <1>4 DEF SumsOf
  <1> QED
    BY <1>5

\* The sum of the times is the last of its running sums.
LEMMA SumTimeIs ==
  ASSUME NEW s, s.time \in [WaitEvent -> Int]
  PROVE  \E g : SumsOf(g, s.time) /\ SumTime(s) = g[WaitEvent]
  <1> DEFINE Total(u, g) == IF u = {} THEN 0 ELSE s.time[NextOf(u)] + g[RestOf(u)]
             it == CHOOSE g : g = [u \in SUBSET WaitEvent |-> Total(u, g)]
  <1>1. PICK g : SumsOf(g, s.time)
    BY SumsExist
  <1>2. g = [u \in SUBSET WaitEvent |-> Total(u, g)]
    BY <1>1 DEF SumsOf
  <1>3. it = [u \in SUBSET WaitEvent |-> Total(u, it)]
    <2> HIDE DEF Total
    <2> QED
      BY <1>2
  <1>4. SumTime(s) = it[WaitEvent]
    BY DEF SumTime, MapThenSumSet, MapThenFoldSet, NextOf, RestOf
  <1> HIDE DEF it
  <1>5. it[{}] = 0 /\ \A u \in SUBSET WaitEvent : u # {} => it[u] = s.time[NextOf(u)] + it[RestOf(u)]
    BY <1>3
  <1>6. \A u \in SUBSET WaitEvent : it[u] \in Int
    <2> DEFINE B == {u \in SUBSET WaitEvent : it[u] \notin Int}
    <2> SUFFICES ASSUME B # {} PROVE FALSE
      OBVIOUS
    <2>1. PICK u \in B : u # {} => RestOf(u) \notin B
      <3>1. B \in SUBSET (SUBSET WaitEvent)
        OBVIOUS
      <3> HIDE DEF B
      <3> QED
        BY <3>1, SmallestOf
    <2>2. u \in SUBSET WaitEvent /\ it[u] \notin Int
      OBVIOUS
    <2> HIDE DEF B
    <2>3. ASSUME u = {} PROVE FALSE
      <3>1. it[u] = 0
        BY <1>5, <2>3
      <3> QED
        BY <2>2, <3>1
    <2>4. it[RestOf(u)] \in Int
      BY <2>1, <2>2, <2>3, RestIsSmaller DEF B
    <2> QED
      BY <1>5, <2>2, <2>3, <2>4, RestIsSmaller
  <1>7. it \in [SUBSET WaitEvent -> Int]
    BY <1>3, <1>6
  <1> QED
    BY <1>4, <1>5, <1>7 DEF SumsOf

\* Sums of differences are differences of sums.
LEMMA SumOfDifferences ==
  ASSUME NEW s, s.time \in [WaitEvent -> Int], NEW t, t.time \in [WaitEvent -> Int],
         NEW d, d.time \in [WaitEvent -> Int],
         \A e \in WaitEvent : d.time[e] = s.time[e] - t.time[e]
  PROVE  SumTime(d) = SumTime(s) - SumTime(t)
  <1>1. PICK a : SumsOf(a, s.time) /\ SumTime(s) = a[WaitEvent]
    BY SumTimeIs
  <1>2. PICK b : SumsOf(b, t.time) /\ SumTime(t) = b[WaitEvent]
    BY SumTimeIs
  <1>3. PICK c : SumsOf(c, d.time) /\ SumTime(d) = c[WaitEvent]
    BY SumTimeIs
  <1> DEFINE B == {u \in SUBSET WaitEvent : c[u] # a[u] - b[u]}
  <1>4. B = {}
    <2> SUFFICES ASSUME B # {} PROVE FALSE
      OBVIOUS
    <2>1. PICK u \in B : u # {} => RestOf(u) \notin B
      <3>1. B \in SUBSET (SUBSET WaitEvent)
        OBVIOUS
      <3> HIDE DEF B
      <3> QED
        BY <3>1, SmallestOf
    <2>2. u \in SUBSET WaitEvent /\ c[u] # a[u] - b[u]
      OBVIOUS
    <2> HIDE DEF B
    <2>3. CASE u = {}
      <3>1. c[u] = 0 /\ a[u] = 0 /\ b[u] = 0
        BY <1>1, <1>2, <1>3, <2>3 DEF SumsOf
      <3> QED
        BY <2>2, <3>1
    <2>4. CASE u # {}
      <3>1. NextOf(u) \in WaitEvent /\ RestOf(u) \in SUBSET WaitEvent
        BY <2>2, <2>4, RestIsSmaller
      <3>2. c[RestOf(u)] = a[RestOf(u)] - b[RestOf(u)]
        BY <2>1, <2>4, <3>1 DEF B
      <3>3. /\ a[u] = s.time[NextOf(u)] + a[RestOf(u)]
            /\ b[u] = t.time[NextOf(u)] + b[RestOf(u)]
            /\ c[u] = d.time[NextOf(u)] + c[RestOf(u)]
            /\ a[RestOf(u)] \in Int /\ b[RestOf(u)] \in Int
        BY <1>1, <1>2, <1>3, <2>2, <2>4, <3>1 DEF SumsOf
      <3>4. s.time[NextOf(u)] \in Int /\ t.time[NextOf(u)] \in Int
            /\ d.time[NextOf(u)] = s.time[NextOf(u)] - t.time[NextOf(u)]
        BY <3>1
      <3> QED
        BY <2>2, <3>2, <3>3, <3>4
    <2> QED
      BY <2>3, <2>4
  <1>5. WaitEvent \in SUBSET WaitEvent /\ WaitEvent \notin B
    <2> HIDE DEF B
    <2> QED
      BY <1>4
  <1> QED
    BY <1>1, <1>2, <1>3, <1>5

\* A sum of times that are not negative is at least each of them.
LEMMA SumCovers ==
  ASSUME NEW s, s.time \in [WaitEvent -> Nat]
  PROVE  SumTime(s) \in Nat /\ \A e \in WaitEvent : s.time[e] <= SumTime(s)
  <1>1. PICK a : SumsOf(a, s.time) /\ SumTime(s) = a[WaitEvent]
    <2>1. s.time \in [WaitEvent -> Int]
      OBVIOUS
    <2> QED
      BY <2>1, SumTimeIs
  <1> DEFINE B == {u \in SUBSET WaitEvent :
                     a[u] \notin Nat \/ \E e \in u : ~(s.time[e] <= a[u])}
  <1>2. B = {}
    <2> SUFFICES ASSUME B # {} PROVE FALSE
      OBVIOUS
    <2>1. PICK u \in B : u # {} => RestOf(u) \notin B
      <3>1. B \in SUBSET (SUBSET WaitEvent)
        OBVIOUS
      <3> HIDE DEF B
      <3> QED
        BY <3>1, SmallestOf
    <2>2. u \in SUBSET WaitEvent /\ (a[u] \notin Nat \/ \E e \in u : ~(s.time[e] <= a[u]))
      OBVIOUS
    <2> HIDE DEF B
    <2>3. CASE u = {}
      <3>1. a[u] = 0
        BY <1>1, <2>3 DEF SumsOf
      <3> QED
        BY <2>2, <2>3, <3>1
    <2>4. CASE u # {}
      <3>1. NextOf(u) \in WaitEvent /\ RestOf(u) \in SUBSET WaitEvent
        BY <2>2, <2>4, RestIsSmaller
      <3>2. a[RestOf(u)] \in Nat /\ \A e \in RestOf(u) : s.time[e] <= a[RestOf(u)]
        BY <2>1, <2>4, <3>1 DEF B
      <3>3. a[u] = s.time[NextOf(u)] + a[RestOf(u)] /\ s.time[NextOf(u)] \in Nat
        BY <1>1, <2>2, <2>4, <3>1 DEF SumsOf
      <3>4. a[u] \in Nat /\ a[RestOf(u)] <= a[u] /\ s.time[NextOf(u)] <= a[u]
        BY <3>2, <3>3
      <3>5. \A e \in u : e = NextOf(u) \/ e \in RestOf(u)
        BY DEF RestOf
      <3>6. \A e \in u : s.time[e] \in Nat
        BY <2>2
      <3>7. \A e \in u : s.time[e] <= a[u]
        <4> TAKE e \in u
        <4>1. CASE e = NextOf(u)
          BY <3>4, <4>1
        <4>2. CASE e \in RestOf(u)
          BY <3>2, <3>4, <3>6, <4>2
        <4> QED
          BY <3>5, <4>1, <4>2
      <3> QED
        BY <2>2, <3>4, <3>7
    <2> QED
      BY <2>3, <2>4
  <1>3. WaitEvent \in SUBSET WaitEvent /\ WaitEvent \notin B
    <2> HIDE DEF B
    <2> QED
      BY <1>2
  <1> QED
    BY <1>1, <1>3

-----------------------------------------------------------------------------
(* What is known of the panel.                                               *)

EventSample == [cpu : Nat, waits : [WaitEvent -> Nat], time : [WaitEvent -> Nat], boot : {0, 1}]

PanelRows == [cpu : Int, time : [WaitEvent -> Int], part : [WaitEvent -> Int], total : Int]

EventTypes ==
  /\ waits \in EventSample /\ last \in EventSample /\ immediate \in BOOLEAN
  /\ waits.cpu \in 1..(MaxTime + 1)
  /\ \A e \in WaitEvent : waits.time[e] <= MaxTime
  /\ reading \in [pc : {"idle", "querying"}, realtime : BOOLEAN, last : EventSample]
  /\ board \in [realtime : BOOLEAN, rowsOf : BOOLEAN, rows : PanelRows, old : EventSample,
                     new : EventSample,
                reads : 0..MaxReads]

\* Within one life of the server its counters only grow.
GrownSince(s) ==
  /\ s.boot <= waits.boot
  /\ s.boot = waits.boot =>
       s.cpu <= waits.cpu /\ \A e \in WaitEvent : s.time[e] <= waits.time[e]

\* The sample that a refresh differs to is the one behind the frame that is shown.
LastIsShown ==
  /\ board.new = last
  /\ reading.pc = "querying" => reading.last = last /\ board.reads < MaxReads

EventInv ==
  /\ EventTypes /\ GrownSince(last) /\ LastIsShown
  /\ HeaderMatchesRows /\ SharesAddUp /\ RealtimeSpansOneFrame

LEMMA EventInitOK == EventInit => EventInv
  <1> SUFFICES ASSUME EventInit PROVE EventInv
    OBVIOUS
  <1> USE DEF EventInit
  <1>1. NoCounts \in EventSample /\ waits \in EventSample /\ waits.cpu = 1 /\ waits.boot = 0
        /\ \A e \in WaitEvent : waits.time[e] = 0
    BY DEF NoCounts, EventSample
  <1>2. NoRows \in PanelRows
    BY DEF NoRows, PanelRows
  <1>3. EventTypes
    BY <1>1, <1>2, EventAssumption DEF EventTypes, NotReading
  <1>4. GrownSince(last)
    BY <1>1 DEF GrownSince, NoCounts
  <1>5. LastIsShown
    BY DEF LastIsShown, NotReading
  <1> QED
    BY <1>3, <1>4, <1>5 DEF EventInv, HeaderMatchesRows, SharesAddUp, RealtimeSpansOneFrame

\* The server counts, or starts anew; the panel is as it was.
LEMMA ServerOK == EventInv /\ EventServerMoves => EventInv'
  <1> SUFFICES ASSUME EventInv, EventServerMoves PROVE EventInv'
    OBVIOUS
  <1>0. UNCHANGED <<immediate, last, reading, board>>
    BY DEF EventServerMoves
  <1>1. waits \in EventSample /\ last \in EventSample /\ GrownSince(last)
        /\ waits.cpu \in 1..(MaxTime + 1) /\ MaxTime \in Nat
        /\ \A e \in WaitEvent : waits.time[e] <= MaxTime
    BY EventAssumption DEF EventInv, EventTypes
  <1>2. /\ waits' \in EventSample /\ waits'.cpu \in 1..(MaxTime + 1)
        /\ \A e \in WaitEvent : waits'.time[e] <= MaxTime
        /\ GrownSince(last)'
    <2>1. CASE /\ waits.cpu <= MaxTime
               /\ waits' = [waits EXCEPT !.cpu = @ + 1]
      <3>1. waits' \in EventSample /\ waits'.cpu = waits.cpu + 1 /\ waits'.time = waits.time
            /\ waits'.boot = waits.boot
        BY <1>1, <2>1 DEF EventSample
      <3> QED
        BY <1>0, <1>1, <2>1, <3>1 DEF GrownSince, EventSample
    <2>2. ASSUME NEW e \in WaitEvent, NEW w \in 0..1, NEW t \in 0..1,
                 waits.time[e] + t <= MaxTime,
                 waits' = [waits EXCEPT !.waits[e] = @ + w, !.time[e] = @ + t]
          PROVE  /\ waits' \in EventSample /\ waits'.cpu \in 1..(MaxTime + 1)
                 /\ \A x \in WaitEvent : waits'.time[x] <= MaxTime
                 /\ GrownSince(last)'
      <3> DEFINE f == [waits.waits EXCEPT ![e] = @ + w]
                 g == [waits.time EXCEPT ![e] = @ + t]
      <3>5. f \in [WaitEvent -> Nat] /\ g \in [WaitEvent -> Nat]
        BY <1>1 DEF EventSample
      <3>6. waits' = [cpu |-> waits.cpu, waits |-> f, time |-> g, boot |-> waits.boot]
        <4>1. waits = [cpu |-> waits.cpu, waits |-> waits.waits, time |-> waits.time, boot |-> waits.boot]
          BY <1>1 DEF EventSample
        <4> QED
          BY <2>2, <4>1
      <3>1. waits' \in EventSample /\ waits'.cpu = waits.cpu /\ waits'.boot = waits.boot
            /\ waits'.time = g
        <4> HIDE DEF f, g
        <4> QED
          BY <1>1, <3>5, <3>6 DEF EventSample
      <3>2. waits.time \in [WaitEvent -> Nat] /\ last.time \in [WaitEvent -> Nat]
        BY <1>1 DEF EventSample
      <3>3. \A x \in WaitEvent : waits'.time[x] <= MaxTime /\ waits.time[x] <= waits'.time[x]
                                 /\ waits'.time[x] \in Nat
        BY <1>1, <2>2, <3>1, <3>2
      <3>4. last.boot = waits.boot => \A x \in WaitEvent : last.time[x] <= waits'.time[x]
        BY <1>1, <3>2, <3>3 DEF GrownSince
      <3> QED
        BY <1>0, <1>1, <3>1, <3>3, <3>4 DEF GrownSince
    <2>3. CASE /\ waits.boot = 0
               /\ waits' = [NoCounts EXCEPT !.cpu = 1, !.boot = 1]
      <3>1. waits' \in EventSample /\ waits'.cpu = 1 /\ waits'.boot = 1
            /\ \A e \in WaitEvent : waits'.time[e] = 0
        BY <2>3 DEF EventSample, NoCounts
      <3>2. last.boot = 0
        BY <1>1, <2>3 DEF GrownSince, EventSample
      <3> QED
        BY <1>0, <1>1, <3>1, <3>2 DEF GrownSince
    <2> QED
      BY <2>1, <2>2, <2>3 DEF EventServerMoves
  <1> QED
    BY <1>0, <1>2 DEF EventInv, EventTypes, LastIsShown, HeaderMatchesRows, SharesAddUp, Sameboot,
                      RealtimeSpansOneFrame

\* A frame is shown: its rows are the growth since the frame before, or since the
\* start of the server.
LEMMA ShownOK == EventInv /\ EventRefreshShown => EventInv'
  <1> SUFFICES ASSUME EventInv, EventRefreshShown PROVE EventInv'
    OBVIOUS
  <1>0. /\ reading.pc = "querying" /\ TotalDiff # 0 /\ last' = waits /\ reading' = NotReading
        /\ UNCHANGED <<waits, immediate>>
        /\ board' = [realtime |-> reading.realtime, rowsOf |-> reading.realtime, rows |-> EventRows,
                     old |-> board.new, new |-> waits, reads |-> board.reads + 1]
    BY DEF EventRefreshShown, NextSample, HeaderMode
  <1>1. waits \in EventSample /\ last \in EventSample /\ GrownSince(last) /\ reading.last = last
        /\ board.new = last /\ board.reads \in 0..MaxReads /\ board.reads < MaxReads /\ MaxReads \in Nat
        /\ reading.realtime \in BOOLEAN /\ reading.last \in EventSample
    BY <1>0, EventAssumption DEF EventInv, EventTypes, LastIsShown
  <1> DEFINE newRows == EventRows
             base == IF reading.realtime THEN last ELSE NoCounts
  <1>2. base \in EventSample /\ waits.time \in [WaitEvent -> Int] /\ base.time \in [WaitEvent -> Int]
    BY <1>1 DEF EventSample, NoCounts
  <1>3. /\ newRows.cpu = CpuDiff /\ newRows.total = TotalDiff
        /\ CpuDiff = waits.cpu - base.cpu
        /\ \A e \in WaitEvent : TimeOf(e) = waits.time[e] - base.time[e]
        /\ newRows.time = [e \in WaitEvent |-> TimeOf(e)] /\ newRows.part = [e \in WaitEvent |-> PartOf(e)]
    BY <1>1 DEF EventRows, CpuDiff, TimeOf, NoCounts
  <1> HIDE DEF base, newRows
  <1>4. CpuDiff \in Int /\ \A e \in WaitEvent : TimeOf(e) \in Int
    BY <1>1, <1>2, <1>3 DEF EventSample
  <1>5. \A e \in WaitEvent : PartOf(e) \in Int /\ (PartOf(e) = TimeOf(e) \/ PartOf(e) = 0)
    BY <1>4 DEF PartOf
  <1>6. newRows.time \in [WaitEvent -> Int] /\ newRows.part \in [WaitEvent -> Int]
    BY <1>3, <1>4, <1>5
  <1>7. SumTime(newRows) = SumTime(waits) - SumTime(base)
    <2>1. \A e \in WaitEvent : newRows.time[e] = waits.time[e] - base.time[e]
      BY <1>3
    <2> QED
      BY <1>2, <1>6, <2>1, SumOfDifferences
  <1>8. SumTime(waits) \in Nat /\ SumTime(base) \in Nat
    BY <1>1, <1>2, SumCovers DEF EventSample
  <1>9. TotalDiff = SumTime(newRows) + CpuDiff /\ TotalDiff \in Int
    <2>1. CASE reading.realtime
      BY <1>1, <1>4, <1>7, <1>8, <2>1 DEF TotalDiff, base
    <2>2. CASE ~reading.realtime
      <3>1. SumTime(NoCounts) = 0
        <4>1. /\ NoCounts.time \in [WaitEvent -> Int]
              /\ \A e \in WaitEvent : NoCounts.time[e] = NoCounts.time[e] - NoCounts.time[e]
          BY DEF NoCounts
        <4>2. SumTime(NoCounts) = SumTime(NoCounts) - SumTime(NoCounts)
          BY <4>1, SumOfDifferences
        <4> QED
          BY <1>8, <2>2, <4>2 DEF base
      <3> QED
        BY <1>4, <1>7, <1>8, <2>2, <3>1 DEF TotalDiff, base
    <2> QED
      BY <2>1, <2>2
  <1>10. newRows \in PanelRows
    BY <1>3, <1>4, <1>6, <1>9 DEF newRows, EventRows, PanelRows
  <1>11. board'.realtime = reading.realtime /\ board'.rowsOf = reading.realtime /\ board'.rows = newRows
         /\ board'.old = last /\ board'.new = waits /\ board'.reads = board.reads + 1
    BY <1>0, <1>1 DEF newRows
  <1>12. EventTypes'
    <2>1. reading' \in [pc : {"idle", "querying"}, realtime : BOOLEAN, last : EventSample]
      BY <1>0 DEF NotReading, NoCounts, EventSample
    <2>2. board' \in [realtime : BOOLEAN, rowsOf : BOOLEAN, rows : PanelRows, old : EventSample,
                     new : EventSample,
                     reads : 0..MaxReads]
      BY <1>0, <1>1, <1>10 DEF newRows
    <2> QED
      BY <1>0, <1>1, <2>1, <2>2 DEF EventInv, EventTypes
  <1>13. GrownSince(last)' /\ LastIsShown' /\ HeaderMatchesRows'
    BY <1>0, <1>1, <1>11 DEF GrownSince, LastIsShown, HeaderMatchesRows, NotReading, EventSample
  <1>14. RealtimeSpansOneFrame'
    BY <1>1, <1>3, <1>11 DEF RealtimeSpansOneFrame, base
  <1>15. ASSUME last.boot = waits.boot
         PROVE  /\ newRows.cpu + SumTime(newRows) = newRows.total
                /\ newRows.total > 0 /\ newRows.cpu >= 0
                /\ \A e \in WaitEvent : newRows.part[e] \in 0..newRows.total
    <2>1. CpuDiff \in Nat /\ \A e \in WaitEvent : TimeOf(e) \in Nat
      <3>1. base.cpu <= waits.cpu /\ \A e \in WaitEvent : base.time[e] <= waits.time[e]
        BY <1>1, <1>15 DEF base, GrownSince, NoCounts, EventSample
      <3> QED
        BY <1>1, <1>2, <1>3, <3>1 DEF EventSample
    <2>2. newRows.time \in [WaitEvent -> Nat]
      BY <1>3, <2>1
    <2>3. SumTime(newRows) \in Nat /\ \A e \in WaitEvent : TimeOf(e) <= SumTime(newRows)
      BY <1>3, <2>2, SumCovers
    <2>4. newRows.total > 0 /\ newRows.cpu + SumTime(newRows) = newRows.total /\ SumTime(newRows) <= newRows.total
          /\ newRows.total \in Nat
      BY <1>0, <1>3, <1>9, <2>1, <2>3
    <2>5. \A e \in WaitEvent : newRows.part[e] \in 0..newRows.total
      BY <1>3, <1>5, <2>1, <2>3, <2>4
    <2> QED
      BY <1>3, <2>1, <2>4, <2>5
  <1>16. SharesAddUp'
    <2> HIDE DEF newRows
    <2> QED
      BY <1>11, <1>15 DEF SharesAddUp, Sameboot
  <1> QED
    BY <1>12, <1>13, <1>14, <1>16 DEF EventInv

LEMMA EventNextOK == EventInv /\ [EventNext]_eventVars => EventInv'
  <1> SUFFICES ASSUME EventInv, [EventNext]_eventVars PROVE EventInv'
    OBVIOUS
  <1> USE DEF EventInv
  <1>1. CASE ModeKey
    BY <1>1 DEF ModeKey, EventTypes, GrownSince, LastIsShown, HeaderMatchesRows, SharesAddUp, Sameboot,
                RealtimeSpansOneFrame
  <1>2. CASE EventRefreshStarts
    BY <1>2 DEF EventRefreshStarts, EventTypes, GrownSince, LastIsShown, HeaderMatchesRows, SharesAddUp,
                Sameboot, RealtimeSpansOneFrame
  <1>3. CASE EventRefreshFails
    <2>1. NotReading \in [pc : {"idle", "querying"}, realtime : BOOLEAN, last : EventSample]
          /\ NotReading.pc = "idle"
      BY DEF NotReading, NoCounts, EventSample
    <2> QED
      BY <1>3, <2>1 DEF EventRefreshFails, EventTypes, GrownSince, LastIsShown, HeaderMatchesRows,
                        SharesAddUp, Sameboot, RealtimeSpansOneFrame
  <1>4. CASE UNCHANGED eventVars
    BY <1>4 DEF eventVars, EventTypes, GrownSince, LastIsShown, HeaderMatchesRows, SharesAddUp, Sameboot,
                RealtimeSpansOneFrame
  <1> QED
    BY <1>1, <1>2, <1>3, <1>4, ServerOK, ShownOK DEF EventNext

\* EventSafety (RefreshWithContext, computeEventDiffs): for any events and times,
\* whichever refreshes fail and whenever the mode is changed or the server restarts,
\* the header names the mode of the rows, the times add up to the total, and a
\* realtime row is the growth since the frame shown before.
THEOREM EventsAddUp == EventSpec => []EventSafety
  <1>1. EventInv => EventTypeOK
    BY DEF EventInv, EventTypes, EventTypeOK, EventSample
  <1> QED
    BY <1>1, EventInitOK, EventNextOK, PTL DEF EventSpec, EventSafety, EventInv

=============================================================================
