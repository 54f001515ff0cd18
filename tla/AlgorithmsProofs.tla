--------------------------- MODULE AlgorithmsProofs ---------------------------
(***************************************************************************)
(* The wave scheduler, the anti-loop supervisor, the in-memory session     *)
(* manager, the skill loader, the permission rules, the SQL validator and  *)
(* the trajectory grader, one section each.  They share no state, so each  *)
(* theorem is about the specification of its own component.                *)
(***************************************************************************)
EXTENDS ToolScheduler, LoopDetector, MemSessions, SkillSets, PermissionRules,
        SqlStatement, Trajectory, DataLemmas, FiniteSetTheorems, SequenceTheorems, TLAPS

-----------------------------------------------------------------------------
(***************************************************************************)
(* Correctness of the wave scheduler for every batch: the invariants of    *)
(* ToolScheduler hold whatever the IDs and the bounds are.                 *)
(***************************************************************************)

(***************************************************************************)
(* The strengthening: once deps is built, the calls still in indeg are     *)
(* exactly the ones in no wave, indeg counts the dependencies that are in  *)
(* no wave yet, no call of a mutually waiting set has been scheduled, and  *)
(* a call that became ready waited for the latest wave.                    *)
(***************************************************************************)
Unscheduled ==
    /\ Scheduled \subseteq DOMAIN deps
    /\ DOMAIN indeg = DOMAIN deps \ Scheduled

Counting == \A id \in DOMAIN indeg : indeg[id] = Cardinality(deps[id] \ Scheduled)

StuckNeverScheduled ==
    \A S \in SUBSET DOMAIN deps : Stuck(S) => S \cap Scheduled = {}

PhaseFacts ==
    /\ phase = "build" => deps = [id \in {} |-> {}] /\ waves = <<>>
    /\ phase \in {"rounds", "cycle"} => DOMAIN deps = IDsOf(calls)
    /\ phase = "done" => DOMAIN deps = IDsOf(calls) /\ DOMAIN indeg = {}
    /\ phase = "cycle" => DOMAIN indeg # {} /\ Ready = {}
    /\ phase \in {"duplicate", "unknown", "self"} => waves = <<>>

Disjoint == \A i, j \in DOMAIN waves : i # j => waves[i] \cap waves[j] = {}

NewlyReady ==
    waves # <<>> => \A id \in Ready : deps[id] \cap waves[Len(waves)] # {}

SchedInv ==
    /\ TypeOK
    /\ Unscheduled
    /\ Counting
    /\ StuckNeverScheduled
    /\ PhaseFacts
    /\ Disjoint
    /\ DependsOnEarlierWaves
    /\ NewlyReady
    /\ EarliestWave

-----------------------------------------------------------------------------
(* The IDs of a batch are IDs of the model. *)
LEMMA BatchIDs == ASSUME NEW b \in Batch PROVE IDsOf(b) \subseteq IDs
BY DEF Batch, Call, IDsOf

(* Every subset of the IDs is finite. *)
LEMMA IDsFinite ==
    ASSUME NEW S \in SUBSET IDs
    PROVE  IsFiniteSet(S) /\ Cardinality(S) \in Nat
BY SchedulerAssumption, FS_Subset, FS_CardinalityType

-----------------------------------------------------------------------------
LEMMA InitSchedInv == Init => SchedInv
<1> SUFFICES ASSUME Init PROVE SchedInv
  OBVIOUS
<1>1. waves = <<>> /\ DOMAIN waves = {} /\ Scheduled = {}
  BY DEF Init, Scheduled
<1>2. TypeOK
  BY <1>1 DEF Init, TypeOK, Phases
<1> QED
  BY <1>1, <1>2 DEF Init, SchedInv, Unscheduled, Counting, StuckNeverScheduled, Stuck,
     PhaseFacts, Disjoint, DependsOnEarlierWaves, NewlyReady, Ready, EarliestWave

(***************************************************************************)
(* The steps that only move the phase leave deps, indeg and waves alone.   *)
(***************************************************************************)
LEMMA PhaseStep ==
    ASSUME SchedInv, UNCHANGED <<calls, deps, indeg, waves>>, PhaseFacts', phase' \in Phases
    PROVE  SchedInv'
BY DEF SchedInv, TypeOK, Unscheduled, Counting, StuckNeverScheduled, Stuck, Scheduled,
       Disjoint, DependsOnEarlierWaves, NewlyReady, Ready, EarliestWave

(* A batch without bad references only depends on its own calls. *)
LEMMA DepsInBatch ==
    ASSUME calls \in Batch, ~HasBadRef, NEW id \in IDsOf(calls)
    PROVE  DepsOf(id) \subseteq IDsOf(calls)
BY DEF Batch, Call, HasBadRef, BadRef, DepsOf, RefsOf

LEMMA BuildStep == ASSUME SchedInv, Build PROVE SchedInv'
<1> USE DEF Build
<1>1. /\ calls' = calls /\ waves' = <<>> /\ calls \in Batch /\ DOMAIN waves = {}
      /\ phase' = "rounds"
  BY DEF SchedInv, PhaseFacts, TypeOK
<1>2. Scheduled' = {}
  BY <1>1 DEF Scheduled
<1>3. /\ DOMAIN deps' = IDsOf(calls) /\ DOMAIN indeg' = IDsOf(calls)
      /\ deps' \in [IDsOf(calls) -> SUBSET IDsOf(calls)]
      /\ \A id \in IDsOf(calls) :
            /\ deps'[id] = DepsOf(id)
            /\ indeg'[id] = Cardinality(deps'[id])
            /\ indeg'[id] \in Nat
  <2>1. \A id \in IDsOf(calls) : DepsOf(id) \in SUBSET IDs
    BY <1>1, DepsInBatch, BatchIDs
  <2> QED BY <1>1, <2>1, IDsFinite, DepsInBatch DEF InitialIndegree
<1>4. TypeOK'
  <2>1. IDsOf(calls)' = IDsOf(calls)
    BY <1>1 DEF IDsOf
  <2>2. /\ DOMAIN deps' \subseteq IDsOf(calls)
        /\ deps' \in [DOMAIN deps' -> SUBSET DOMAIN deps']
        /\ DOMAIN indeg' \subseteq DOMAIN deps'
    BY <1>3
  <2>3. indeg' \in [DOMAIN indeg' -> Nat]
    BY <1>3
  <2>4. waves' \in Seq(SUBSET IDsOf(calls))
    BY <1>1
  <2> QED BY <1>1, <2>1, <2>2, <2>3, <2>4 DEF TypeOK, Phases
<1>5. Counting' /\ Unscheduled'
  <2>1. \A id \in DOMAIN indeg' : deps'[id] \ Scheduled' = deps'[id]
    BY <1>2
  <2> QED BY <1>2, <1>3, <2>1 DEF Counting, Unscheduled
<1>6. StuckNeverScheduled' /\ PhaseFacts' /\ Disjoint' /\ DependsOnEarlierWaves'
      /\ NewlyReady' /\ EarliestWave'
  BY <1>1, <1>2, <1>3 DEF StuckNeverScheduled, PhaseFacts, Disjoint, IDsOf,
     DependsOnEarlierWaves, NewlyReady, EarliestWave
<1> QED BY <1>4, <1>5, <1>6 DEF SchedInv

(***************************************************************************)
(* A round: a ready call has every dependency scheduled, so it may join    *)
(* the next wave; a pending call that becomes ready had one in this wave.  *)
(***************************************************************************)
LEMMA RoundStep == ASSUME SchedInv, Round PROVE SchedInv'
<1> USE DEF Round
<1> DEFINE X == IDsOf(calls)
           n == Len(waves)
<1>1. /\ calls' = calls /\ deps' = deps /\ phase' = phase /\ phase = "rounds"
      /\ calls \in Batch /\ waves \in Seq(SUBSET X) /\ n \in Nat /\ DOMAIN waves = 1..n
      /\ DOMAIN deps = X /\ deps \in [X -> SUBSET X]
      /\ DOMAIN indeg = X \ Scheduled /\ Scheduled \subseteq X
      /\ indeg \in [X \ Scheduled -> Nat]
      /\ Ready \subseteq DOMAIN indeg
  BY DEF SchedInv, TypeOK, PhaseFacts, Unscheduled, Ready
<1>2. /\ waves' \in Seq(SUBSET X)
      /\ DOMAIN waves' = 1..(n + 1) /\ Len(waves') = n + 1
      /\ \A i \in 1..n : waves'[i] = waves[i]
      /\ waves'[n + 1] = Ready
      /\ Scheduled' = Scheduled \cup Ready
  <2>0. Ready \in SUBSET X /\ waves \in Seq(SUBSET X)
    BY <1>1
  <2>1. waves' = Append(waves, Ready)
    OBVIOUS
  <2>2. Len(waves') = n + 1
    BY <2>0, <2>1
  <2> HIDE DEF Round, X
  <2>3. /\ waves' \in Seq(SUBSET X)
        /\ DOMAIN waves' = 1..(n + 1)
        /\ \A i \in 1..n : waves'[i] = waves[i]
        /\ waves'[n + 1] = Ready
    BY <2>0, <2>1
  <2>4. DOMAIN waves = 1..n /\ n \in Nat
    BY <1>1
  <2> HIDE DEF n
  <2>5. Scheduled' = Scheduled \cup Ready
    <3>1. ASSUME NEW x \in Scheduled' PROVE x \in Scheduled \cup Ready
      <4>1. PICK i \in 1..(n + 1) : x \in waves'[i]
        BY <2>3 DEF Scheduled
      <4> QED BY <4>1, <2>3, <2>4 DEF Scheduled
    <3>2. ASSUME NEW x \in Scheduled PROVE x \in Scheduled'
      <4>1. PICK i \in 1..n : x \in waves[i]
        BY <2>4 DEF Scheduled
      <4>2. i \in DOMAIN waves' /\ x \in waves'[i]
        BY <4>1, <2>3, <2>4
      <4> QED BY <4>2, Zenon DEF Scheduled
    <3>3. ASSUME NEW x \in Ready PROVE x \in Scheduled'
      <4>1. n + 1 \in DOMAIN waves' /\ x \in waves'[n + 1]
        BY <2>3, <2>4
      <4> QED BY <4>1, Zenon DEF Scheduled
    <3> QED BY <3>1, <3>2, <3>3
  <2> QED BY <2>2, <2>3, <2>5
<1>3. DOMAIN indeg' = X \ Scheduled' /\ DOMAIN indeg' \subseteq DOMAIN indeg
  BY <1>1, <1>2
<1>4. \A id \in X : /\ deps[id] \in SUBSET IDs
                    /\ IsFiniteSet(deps[id])
                    /\ IsFiniteSet(deps[id] \ Scheduled)
                    /\ Cardinality(deps[id] \ Scheduled) \in Nat
  <2>1. \A id \in X : deps[id] \in SUBSET IDs /\ deps[id] \ Scheduled \in SUBSET IDs
    BY <1>1, BatchIDs
  <2> QED BY <2>1, IDsFinite
<1>5. \A id \in Ready : deps[id] \subseteq Scheduled
  BY <1>1, <1>4, FS_EmptySet DEF SchedInv, Counting, Ready
<1>6. \A id \in DOMAIN indeg' :
         /\ indeg'[id] = Cardinality(deps[id] \ Scheduled')
         /\ indeg'[id] \in Nat
         /\ indeg'[id] = 0 => deps[id] \cap Ready # {}
  <2> SUFFICES ASSUME NEW id \in DOMAIN indeg'
               PROVE  /\ indeg'[id] = Cardinality(deps[id] \ Scheduled')
                      /\ indeg'[id] \in Nat
                      /\ indeg'[id] = 0 => deps[id] \cap Ready # {}
    OBVIOUS
  <2> DEFINE open == deps[id] \ Scheduled
  <2>1. id \in X /\ id \in DOMAIN indeg /\ id \notin Ready
    BY <1>1, <1>3
  <2>2. indeg[id] = Cardinality(open) /\ indeg[id] # 0 /\ IsFiniteSet(open)
        /\ Cardinality(open) \in Nat
    BY <2>1, <1>4 DEF SchedInv, Counting, Ready
  <2>3. deps[id] \cap Ready = open \cap Ready
    BY <1>1
  <2>4. deps[id] \ Scheduled' = open \ Ready
    BY <1>2
  <2>5. /\ Cardinality(open \ Ready) = Cardinality(open) - Cardinality(open \cap Ready)
        /\ IsFiniteSet(open \ Ready) /\ IsFiniteSet(open \cap Ready)
        /\ Cardinality(open \cap Ready) \in Nat
        /\ Cardinality(open \ Ready) \in Nat
    BY <2>2, FS_Difference, FS_Intersection, FS_CardinalityType
  <2>6. indeg'[id] = indeg[id] - Cardinality(deps[id] \cap Ready)
    BY <2>1 DEF Decremented
  <2>7. indeg'[id] = Cardinality(open \ Ready)
    BY <2>2, <2>3, <2>5, <2>6
  <2>8. ASSUME indeg'[id] = 0, deps[id] \cap Ready = {} PROVE FALSE
    <3>1. Cardinality(open \cap Ready) = 0
      BY <2>8, <2>3, FS_EmptySet
    <3> QED BY <3>1, <2>8, <2>2, <2>5, <2>7
  <2> QED BY <2>4, <2>5, <2>7, <2>8
<1>7. TypeOK'
  <2>1. indeg' \in [DOMAIN indeg' -> Nat]
    BY <1>6
  <2> QED BY <1>1, <1>2, <1>3, <2>1 DEF SchedInv, TypeOK, IDsOf
<1>8. Unscheduled' /\ Counting'
  BY <1>1, <1>2, <1>3, <1>6 DEF Unscheduled, Counting
<1>9. StuckNeverScheduled'
  <2> SUFFICES ASSUME NEW S \in SUBSET X, S # {},
                      \A id \in S : deps[id] \cap S # {}
               PROVE  S \cap Scheduled' = {}
    BY <1>1 DEF StuckNeverScheduled, Stuck
  <2>1. S \cap Scheduled = {}
    BY <1>1 DEF SchedInv, StuckNeverScheduled, Stuck
  <2>2. S \cap Ready = {}
    BY <2>1, <1>5
  <2> QED BY <2>1, <2>2, <1>2
<1>10. PhaseFacts'
  BY <1>1 DEF PhaseFacts, IDsOf
<1>11. Disjoint'
  <2> SUFFICES ASSUME NEW i \in 1..(n + 1), NEW j \in 1..(n + 1), i # j
               PROVE  waves'[i] \cap waves'[j] = {}
    BY <1>2 DEF Disjoint
  <2>1. \A k \in 1..n : waves[k] \subseteq Scheduled
    <3> SUFFICES ASSUME NEW k \in DOMAIN waves PROVE waves[k] \subseteq Scheduled
      BY <1>1
    <3> QED BY Zenon DEF Scheduled
  <2>2. Scheduled \cap Ready = {}
    BY <1>1
  <2>3. CASE i \in 1..n /\ j \in 1..n
    BY <2>3, <1>1, <1>2 DEF SchedInv, Disjoint
  <2>4. CASE i = n + 1
    BY <2>4, <2>1, <2>2, <1>1, <1>2
  <2>5. CASE j = n + 1
    BY <2>5, <2>1, <2>2, <1>1, <1>2
  <2> QED BY <2>3, <2>4, <2>5, <1>1
<1>12. DependsOnEarlierWaves'
  <2> SUFFICES ASSUME NEW i \in 1..(n + 1), NEW id \in waves'[i], NEW d \in deps[id]
               PROVE  \E j \in 1..(i - 1) : d \in waves'[j]
    BY <1>1, <1>2 DEF DependsOnEarlierWaves
  <2>1. CASE i \in 1..n
    <3>1. PICK j \in 1..(i - 1) : d \in waves[j]
      BY <2>1, <1>1, <1>2 DEF SchedInv, DependsOnEarlierWaves
    <3> QED BY <3>1, <2>1, <1>1, <1>2
  <2>2. CASE i = n + 1
    <3>1. d \in Scheduled
      BY <2>2, <1>2, <1>5
    <3>2. PICK j \in 1..n : d \in waves[j]
      BY <3>1, <1>1 DEF Scheduled
    <3> QED BY <3>2, <2>2, <1>1, <1>2
  <2> QED BY <2>1, <2>2, <1>1
<1>13. NewlyReady'
  BY <1>1, <1>2, <1>6 DEF NewlyReady, Ready
<1>14. EarliestWave'
  <2> SUFFICES ASSUME NEW i \in 1..(n + 1), i > 1, NEW id \in waves'[i]
               PROVE  deps[id] \cap waves'[i - 1] # {}
    BY <1>1, <1>2 DEF EarliestWave
  <2>0. i \in Nat /\ i - 1 \in 1..n
    BY <1>1
  <2>1. CASE i \in 1..n
    <3>1. id \in waves[i] /\ waves'[i - 1] = waves[i - 1] /\ i \in DOMAIN waves
      BY <2>0, <2>1, <1>1, <1>2
    <3> QED BY <3>1 DEF SchedInv, EarliestWave
  <2>2. CASE i = n + 1
    <3>1. id \in Ready /\ i - 1 = n /\ waves'[i - 1] = waves[n] /\ waves # <<>>
      BY <2>0, <2>2, <1>1, <1>2
    <3> QED BY <3>1 DEF SchedInv, NewlyReady
  <2> QED BY <2>1, <2>2, <1>1
<1> QED
  BY <1>7, <1>8, <1>9, <1>10, <1>11, <1>12, <1>13, <1>14 DEF SchedInv

LEMMA NextSchedInv == ASSUME SchedInv, [Next]_vars PROVE SchedInv'
<1>1. CASE BuildEmpty
  <2>1. PhaseFacts'
    BY <1>1 DEF SchedInv, PhaseFacts, BuildEmpty, IDsOf, TypeOK
  <2> QED BY <1>1, <2>1, PhaseStep DEF BuildEmpty, Phases
<1>2. CASE BuildDuplicate
  <2>1. PhaseFacts'
    BY <1>2 DEF SchedInv, PhaseFacts, BuildDuplicate
  <2> QED BY <1>2, <2>1, PhaseStep DEF BuildDuplicate, Phases, Verdicts
<1>3. CASE BuildBadRef
  <2>1. phase' \in {"unknown", "self"} /\ UNCHANGED <<calls, deps, indeg, waves>>
    BY <1>3 DEF BuildBadRef
  <2>2. PhaseFacts'
    BY <1>3, <2>1 DEF SchedInv, PhaseFacts, BuildBadRef
  <2> QED BY <2>1, <2>2, PhaseStep DEF Phases, Verdicts
<1>4. CASE Build
  BY <1>4, BuildStep
<1>5. CASE Round
  BY <1>5, RoundStep
<1>6. CASE DetectCycle
  <2>1. PhaseFacts'
    BY <1>6 DEF SchedInv, PhaseFacts, DetectCycle, IDsOf, Ready
  <2> QED BY <1>6, <2>1, PhaseStep DEF DetectCycle, Phases, Verdicts
<1>7. CASE Finish
  <2>1. PhaseFacts'
    BY <1>7 DEF SchedInv, PhaseFacts, Finish, IDsOf
  <2> QED BY <1>7, <2>1, PhaseStep DEF Finish, Phases
<1>8. CASE UNCHANGED vars
  <2>1. PhaseFacts' /\ phase' \in Phases
    BY <1>8 DEF SchedInv, TypeOK, PhaseFacts, vars, IDsOf, Ready
  <2> QED BY <1>8, <2>1, PhaseStep DEF vars
<1> QED
  BY <1>1, <1>2, <1>3, <1>4, <1>5, <1>6, <1>7, <1>8 DEF Next

(* The strengthened invariant holds in every reachable state. *)
THEOREM SchedulerInvariant == Spec => []SchedInv
BY InitSchedInv, NextSchedInv, PTL DEF Spec

(* scheduleToolCalls keeps its data well-typed. *)
THEOREM TypeCorrect == Spec => []TypeOK
<1>1. SchedInv => TypeOK
  BY DEF SchedInv
<1> QED BY <1>1, SchedulerInvariant, PTL

(* The waves of a batch are its layering by references: no call is lost,   *)
(* repeated, early, or later than its references force.                    *)
THEOREM WavesAreTheLayering == Spec => []WavesAreLayers
<1>1. SchedInv => WavesAreLayers
  BY DEF SchedInv, WavesAreLayers, EachCallInOneWave, Disjoint, PhaseFacts, Unscheduled
<1> QED BY <1>1, SchedulerInvariant, PTL

(* The cycle verdict is returned exactly for the cyclic batches. *)
THEOREM CycleDetectionExact == Spec => []CycleVerdictExact
<1>1. SchedInv => CycleVerdictExact
  <2> SUFFICES ASSUME SchedInv PROVE CycleVerdictExact
    OBVIOUS
  <2>1. ASSUME phase = "cycle" PROVE Stuck(DOMAIN indeg) /\ DOMAIN indeg \in SUBSET DOMAIN deps
    <3>1. /\ DOMAIN deps = IDsOf(calls) /\ DOMAIN indeg # {} /\ Ready = {}
          /\ DOMAIN indeg = DOMAIN deps \ Scheduled
          /\ deps \in [DOMAIN deps -> SUBSET DOMAIN deps]
      BY <2>1 DEF SchedInv, PhaseFacts, Unscheduled, TypeOK
    <3>2. ASSUME NEW id \in DOMAIN indeg PROVE deps[id] \cap DOMAIN indeg # {}
      <4>1. Cardinality(deps[id] \ Scheduled) # 0
        BY <3>1, <3>2 DEF SchedInv, Counting, Ready
      <4>2. deps[id] \ Scheduled # {}
        BY <4>1, FS_EmptySet
      <4> QED BY <4>2, <3>1
    <3> QED BY <3>1, <3>2 DEF Stuck
  <2>2. ASSUME phase = "done", NEW S \in SUBSET DOMAIN deps, Stuck(S) PROVE FALSE
    <3>1. S \cap Scheduled = {} /\ S # {} /\ DOMAIN deps \ Scheduled = {}
      BY <2>2 DEF SchedInv, StuckNeverScheduled, Stuck, PhaseFacts, Unscheduled
    <3> QED BY <3>1
  <2> QED BY <2>1, <2>2 DEF CycleVerdictExact
<1> QED BY <1>1, SchedulerInvariant, PTL

-----------------------------------------------------------------------------
(***************************************************************************)
(* The ring buffer of the anti-loop supervisor is a faithful window on the *)
(* log of calls, for every capacity, every number of workers and every     *)
(* history it is rebuilt from.  From that follow the promises of the       *)
(* supervisor: a run of identical calls ends the run in whatever order the *)
(* calls of a wave interleave (JudgedInv), and a detector rebuilt from the *)
(* history holds what the live one held (AheadInv).                        *)
(***************************************************************************)

(* The window property is inductive together with the types and the fact   *)
(* that a call between AddCall and Detect holds its raw result.            *)
DetectorInv ==
    /\ LoopTypeOK
    /\ RingIsRecentLog
    /\ \A w \in DOMAIN turn : pc[w] = "added" => msg[w].result \in Results

-----------------------------------------------------------------------------
(* Below twice the capacity, the remainder is at most one subtraction. *)
LEMMA Wrap ==
    ASSUME NEW N \in Nat \ {0}, NEW a \in 0..(2 * N - 1)
    PROVE  a % N = IF a < N THEN a ELSE a - N
<1>1. CASE a < N
  BY <1>1, Z3
<1>2. CASE a >= N
  BY <1>2, Z3
<1> QED BY <1>1, <1>2

(* Where at(k) looks: k + 1 steps back from the cursor, around the end. *)
LEMMA IndexValue ==
    ASSUME NEW h \in 0..(MaxRecent - 1), NEW k \in 0..(MaxRecent - 1)
    PROVE  (h - 1 - k + MaxRecent) % MaxRecent =
              IF h - 1 - k >= 0 THEN h - 1 - k ELSE h - 1 - k + MaxRecent
<1> DEFINE a == h - 1 - k + MaxRecent
<1>1. MaxRecent \in Nat \ {0} /\ a \in 0..(2 * MaxRecent - 1)
  BY DetectorAssumption
<1>2. a % MaxRecent = IF a < MaxRecent THEN a ELSE a - MaxRecent
  <2> HIDE DEF a
  <2> QED BY <1>1, Wrap
<1> QED BY <1>1, <1>2

(* Where the cursor goes. *)
LEMMA NextHeadValue ==
    ASSUME NEW h \in 0..(MaxRecent - 1)
    PROVE  (h + 1) % MaxRecent = IF h + 1 < MaxRecent THEN h + 1 ELSE 0
<1> DEFINE a == h + 1
<1>1. MaxRecent \in Nat \ {0} /\ a \in 0..(2 * MaxRecent - 1)
  BY DetectorAssumption
<1>2. a % MaxRecent = IF a < MaxRecent THEN a ELSE a - MaxRecent
  <2> HIDE DEF a
  <2> QED BY <1>1, Wrap
<1> QED BY <1>1, <1>2

-----------------------------------------------------------------------------
LEMMA InitDetectorInv == LoopInit => DetectorInv
<1> SUFFICES ASSUME LoopInit PROVE DetectorInv
  OBVIOUS
<1>1. LoopTypeOK
  <2>1. 0 \in 0..(MaxRecent - 1) /\ 0 \in 0..MaxRecent
    BY DetectorAssumption
  <2>2. DOMAIN turn = {} /\ DOMAIN pc = {} /\ DOMAIN msg = {}
    BY DEF LoopInit
  <2>3. ring \in [0..(MaxRecent - 1) -> Entry \cup {None}]
    BY DEF LoopInit
  <2>4. log \in Seq(Entry) /\ hist \in Seq(Pair) /\ turn \in Seq(LoggedCall) /\ Len(turn) <= Workers
    BY DetectorAssumption DEF LoopInit
  <2> QED BY <2>1, <2>2, <2>3, <2>4 DEF LoopInit, LoopTypeOK
<1>2. RingIsRecentLog
  BY DetectorAssumption DEF LoopInit, RingIsRecentLog
<1>3. DOMAIN turn = {}
  BY DEF LoopInit
<1> QED BY <1>1, <1>2, <1>3 DEF DetectorInv

(* Recording a call shifts the window by one. *)
LEMMA AddCallStep ==
    ASSUME LoopTypeOK, RingIsRecentLog, NEW e \in Entry, AddCall(e)
    PROVE  /\ RingIsRecentLog'
           /\ ring' \in [0..(MaxRecent - 1) -> Entry \cup {None}]
           /\ head' \in 0..(MaxRecent - 1) /\ count' \in 0..MaxRecent
           /\ log' \in Seq(Entry)
<1> DEFINE N == MaxRecent
           n == Len(log)
<1>1. /\ N \in Nat \ {0} /\ head \in 0..(N - 1) /\ count \in 0..N
      /\ log \in Seq(Entry) /\ n \in Nat
      /\ ring \in [0..(N - 1) -> Entry \cup {None}]
  BY DetectorAssumption DEF LoopTypeOK
<1>2. /\ head' = IF head + 1 < N THEN head + 1 ELSE 0
      /\ head' \in 0..(N - 1)
  BY <1>1, NextHeadValue DEF AddCall, NextHead
<1>3. /\ ring' \in [0..(N - 1) -> Entry \cup {None}]
      /\ ring'[head] = e
      /\ \A i \in 0..(N - 1) : i # head => ring'[i] = ring[i]
  BY <1>1 DEF AddCall
<1>4. /\ log' \in Seq(Entry) /\ Len(log') = n + 1 /\ log'[n + 1] = e
      /\ \A i \in 1..n : log'[i] = log[i]
  BY <1>1 DEF AddCall
<1>5. /\ count = IF n < N THEN n ELSE N
      /\ \A k \in 0..(count - 1) : ring[(head - 1 - k + N) % N] = log[n - k]
  BY DEF RingIsRecentLog, At, Index
<1>6. count' = (IF n + 1 < N THEN n + 1 ELSE N) /\ count' \in 0..N
  BY <1>1, <1>5 DEF AddCall
<1>7. ASSUME NEW k \in 0..(count' - 1)
      PROVE  ring'[(head' - 1 - k + N) % N] = log'[n + 1 - k]
  <2> DEFINE p == (head' - 1 - k + N) % N
  <2>1. k \in 0..(N - 1) /\ k <= n
    BY <1>1, <1>6
  <2>2. p = IF head' - 1 - k >= 0 THEN head' - 1 - k ELSE head' - 1 - k + N
    BY <1>2, <2>1, IndexValue
  <2>3. CASE k = 0
    <3>1. p = head
      BY <2>2, <2>3, <1>1, <1>2
    <3>2. n + 1 - k = n + 1
      BY <2>3, <1>1
    <3> HIDE DEF p, n
    <3>3. ring'[p] = log'[n + 1 - k]
      BY <3>1, <3>2, <1>3, <1>4
    <3> QED BY <3>3 DEF p
  <2>4. CASE k # 0
    <3>1. k - 1 \in 0..(count - 1) /\ k - 1 \in 0..(N - 1)
      BY <2>1, <2>4, <1>1, <1>5, <1>6
    <3>2. (head - 1 - (k - 1) + N) % N =
             IF head - 1 - (k - 1) >= 0 THEN head - 1 - (k - 1) ELSE head - 1 - (k - 1) + N
      BY <3>1, <1>1, IndexValue
    <3>3. p = (head - 1 - (k - 1) + N) % N /\ p \in 0..(N - 1) /\ p # head
      BY <2>1, <2>2, <2>4, <3>2, <1>1, <1>2
    <3>4. ring[(head - 1 - (k - 1) + N) % N] = log[n - (k - 1)]
      BY <3>1, <1>5
    <3>5. n - (k - 1) \in 1..n /\ n - (k - 1) = n + 1 - k
      BY <2>1, <2>4, <1>1
    <3> HIDE DEF p, n
    <3>6. ring'[p] = log[n + 1 - k]
      BY <3>3, <3>4, <3>5, <1>3
    <3> QED BY <3>5, <3>6, <1>4 DEF p
  <2> QED BY <2>3, <2>4
<1>8. RingIsRecentLog'
  BY <1>1, <1>4, <1>6, <1>7 DEF RingIsRecentLog, At, Index
<1> QED BY <1>2, <1>3, <1>4, <1>6, <1>8

(* The counts a warning can quote. *)
LEMMA WarningBounded == ASSUME LoopTypeOK PROVE Warning \in 0..MaxRecent
<1>1. ASSUME NEW S \in SUBSET (0..(count - 1)) PROVE Cardinality(S) \in 0..MaxRecent
  <2>1. count \in Nat /\ count <= MaxRecent /\ MaxRecent \in Nat
    BY DetectorAssumption DEF LoopTypeOK
  <2>2. IsFiniteSet(0..(count - 1)) /\ Cardinality(0..(count - 1)) = count
    <3>1. 0 \in Int /\ count - 1 \in Int
      BY <2>1
    <3> QED BY <2>1, <3>1, FS_Interval
  <2>3. Cardinality(S) \in Nat /\ Cardinality(S) <= count
    BY <2>2, FS_Subset, FS_CardinalityType
  <2> QED BY <2>1, <2>3
<1>2. SameArgs \in 0..MaxRecent /\ SameResult \in 0..MaxRecent
  BY <1>1 DEF SameArgs, SameResult, Trailing
<1> QED BY <1>2, DetectorAssumption DEF Warning

(* A rebuilt ring holds exactly its seeds. *)
LEMMA NewRunStep == ASSUME DetectorInv, NewRun PROVE DetectorInv'
<1> DEFINE N == MaxRecent
           m == IF Len(hist) < N THEN Len(hist) ELSE N
<1>1. N \in Nat \ {0} /\ hist \in Seq(Pair) /\ Len(hist) \in Nat /\ m \in 0..N
  BY DetectorAssumption DEF DetectorInv, LoopTypeOK
<1>2. Seeds \in Seq(Entry) /\ Len(Seeds) = m
  <2>1. ASSUME NEW i \in 1..m PROVE SeedEntry(hist[Len(hist) - m + i]) \in Entry
    <3>1. Len(hist) - m + i \in 1..Len(hist)
      BY <1>1
    <3> HIDE DEF m
    <3>2. hist[Len(hist) - m + i] \in Pair
      BY <1>1, <3>1
    <3> QED BY <3>2 DEF SeedEntry, Entry, Pair
  <2>2. Seeds = [i \in 1..m |-> SeedEntry(hist[Len(hist) - m + i])]
    BY DEF Seeds
  <2> HIDE DEF m
  <2> QED BY <1>1, <2>1, <2>2
<1>3. /\ log' = Seeds /\ count' = m
      /\ ring' = [i \in 0..(N - 1) |-> IF i < m THEN Seeds[i + 1] ELSE None]
      /\ head' = m % N
  BY <1>2 DEF NewRun
<1>4. head' = IF m < N THEN m ELSE 0
  <2>1. m \in 0..(2 * N - 1)
    BY <1>1
  <2> HIDE DEF m
  <2>2. m % N = IF m < N THEN m ELSE m - N
    BY <1>1, <2>1, Wrap, Zenon
  <2> QED BY <1>1, <1>3, <2>2
<1> HIDE DEF m
<1>5. ASSUME NEW k \in 0..(m - 1)
      PROVE  ring'[(head' - 1 - k + N) % N] = log'[m - k]
  <2>1. head' \in 0..(N - 1) /\ k \in 0..(N - 1) /\ m - k - 1 \in 0..(N - 1) /\ m - k - 1 < m
    BY <1>1, <1>4
  <2>2. (head' - 1 - k + N) % N = m - k - 1
    BY <2>1, <1>1, <1>4, IndexValue
  <2>3. ring'[m - k - 1] = Seeds[m - k - 1 + 1]
    BY <2>1, <1>3
  <2> QED BY <2>1, <2>2, <2>3, <1>1, <1>3
<1>6. RingIsRecentLog'
  <2>1. count' = (IF Len(log') < N THEN Len(log') ELSE N) /\ count' = m /\ Len(log') = m
    BY <1>1, <1>2, <1>3
  <2>2. \A k \in 0..(count' - 1) : ring'[(head' - 1 - k + N) % N] = log'[Len(log') - k]
    BY <2>1, <1>5, Zenon
  <2> QED BY <2>1, <2>2, Zenon DEF RingIsRecentLog, At, Index
<1>7. ring' \in [0..(N - 1) -> Entry \cup {None}]
  <2>1. \A i \in 0..(N - 1) : i < m => Seeds[i + 1] \in Entry
    BY <1>1, <1>2
  <2> QED BY <2>1, <1>3
<1>8. LoopTypeOK'
  <2>1. head' \in 0..(N - 1) /\ count' \in 0..N /\ log' \in Seq(Entry)
    BY <1>1, <1>2, <1>3, <1>4
  <2>2. UNCHANGED <<hist, turn, pc, msg>> /\ fatal' \in BOOLEAN
    BY DEF NewRun
  <2> HIDE DEF N
  <2> QED BY <1>7, <2>1, <2>2 DEF DetectorInv, LoopTypeOK, N
<1> QED BY <1>6, <1>8 DEF DetectorInv, NewRun

(* The pairs a turn persists. *)
LEMMA AnswersArePairs ==
    ASSUME LoopTypeOK, turn # <<>>
    PROVE  LET new == [w \in DOMAIN turn |->
                  [tool |-> turn[w].tool, args |-> turn[w].args,
                   result |-> IF msg[w] = NoMsg THEN NotRun ELSE msg[w].result,
                   warn |-> msg[w].warn, of |-> Len(turn)]]
           IN  new \in Seq(Pair) /\ Len(new) = Len(turn) /\ DOMAIN new = 1..Len(turn)
<1> DEFINE new == [w \in DOMAIN turn |->
                  [tool |-> turn[w].tool, args |-> turn[w].args,
                   result |-> IF msg[w] = NoMsg THEN NotRun ELSE msg[w].result,
                   warn |-> msg[w].warn, of |-> Len(turn)]]
<1>1. ASSUME NEW w \in DOMAIN turn PROVE new[w] \in Pair
  <2>1. /\ turn[w] \in LoggedCall /\ msg[w] \in Msg /\ 0 \in 0..MaxRecent
        /\ Len(turn) \in 1..Workers
    BY <1>1, DetectorAssumption DEF LoopTypeOK
  <2>2. CASE msg[w] = NoMsg
    BY <2>1, <2>2 DEF LoggedCall, Pair, NoMsg, Content
  <2>3. CASE msg[w] # NoMsg
    BY <2>1, <2>3 DEF LoggedCall, Pair, Msg, Content
  <2> QED BY <2>2, <2>3
<1>2. turn \in Seq(LoggedCall) /\ DOMAIN turn = 1..Len(turn) /\ Len(turn) \in Nat
  BY DEF LoopTypeOK
<1>3. DOMAIN new = 1..Len(turn) /\ new = [w \in 1..Len(turn) |-> new[w]]
  BY <1>2
<1>4. new \in Seq(Pair) /\ Len(new) = Len(turn)
  <2> HIDE DEF new
  <2> QED BY <1>1, <1>2, <1>3
<1> QED BY <1>3, <1>4

LEMMA NextDetectorInv == ASSUME DetectorInv, [LoopNext]_loopVars PROVE DetectorInv'
<1> USE DEF DetectorInv
<1>1. ASSUME UNCHANGED detector PROVE RingIsRecentLog'
  <2>1. ring' = ring /\ head' = head /\ count' = count /\ log' = log
    BY <1>1 DEF detector
  <2> QED BY <2>1 DEF RingIsRecentLog, At, Index
<1>2. CASE StartTurn
  <2>1. PICK k \in 1..Workers : \E batch \in [1..k -> LoggedCall] :
          /\ turn' = batch
          /\ pc' = [w \in 1..k |-> "start"]
          /\ msg' = [w \in 1..k |-> NoMsg]
    BY <1>2 DEF StartTurn
  <2>2. k \in Nat /\ turn' \in [1..k -> LoggedCall] /\ turn' \in Seq(LoggedCall) /\ DOMAIN turn' = 1..k
    BY <2>1, DetectorAssumption
  <2>3. LoopTypeOK'
    BY <1>2, <2>1, <2>2 DEF StartTurn, LoopTypeOK, Msg
  <2>4. \A w \in DOMAIN turn' : pc'[w] = "start"
    BY <2>1, <2>2
  <2> QED BY <1>1, <1>2, <2>3, <2>4 DEF StartTurn, detector
<1>3. ASSUME NEW w \in DOMAIN turn, SeesFatal(w) \/ Begin(w) \/ AnswerWithoutRunning(w)
      PROVE  DetectorInv'
  <2>1. [result |-> Refused, warn |-> 0] \in Msg
    BY DetectorAssumption DEF Msg, Content
  <2>2. LoopTypeOK'
    BY <1>3, <2>1 DEF SeesFatal, Begin, AnswerWithoutRunning, LoopTypeOK
  <2>3. \A v \in DOMAIN turn' : pc'[v] = "added" => msg'[v].result \in Results
    BY <1>3 DEF SeesFatal, Begin, AnswerWithoutRunning, LoopTypeOK
  <2> QED BY <1>1, <1>3, <2>2, <2>3 DEF SeesFatal, Begin, AnswerWithoutRunning, detector
<1>4. ASSUME NEW w \in DOMAIN turn, ExecuteAndAdd(w) PROVE DetectorInv'
  <2>1. PICK r \in Results :
          /\ AddCall([tool |-> turn[w].tool, args |-> turn[w].args, result |-> r])
          /\ msg' = [msg EXCEPT ![w] = [result |-> r, warn |-> 0]]
    BY <1>4 DEF ExecuteAndAdd
  <2>2. /\ [tool |-> turn[w].tool, args |-> turn[w].args, result |-> r] \in Entry
        /\ [result |-> r, warn |-> 0] \in Msg
    <3>1. turn[w] \in LoggedCall /\ 0 \in 0..MaxRecent
      BY DetectorAssumption DEF LoopTypeOK
    <3> QED BY <3>1 DEF LoggedCall, Entry, Content, Msg
  <2>3. /\ RingIsRecentLog'
        /\ ring' \in [0..(MaxRecent - 1) -> Entry \cup {None}]
        /\ head' \in 0..(MaxRecent - 1) /\ count' \in 0..MaxRecent
        /\ log' \in Seq(Entry)
    BY <2>1, <2>2, AddCallStep
  <2>4. LoopTypeOK'
    BY <1>4, <2>1, <2>2, <2>3 DEF ExecuteAndAdd, LoopTypeOK
  <2>5. \A v \in DOMAIN turn' : pc'[v] = "added" => msg'[v].result \in Results
    BY <1>4, <2>1 DEF ExecuteAndAdd, LoopTypeOK
  <2> QED BY <2>3, <2>4, <2>5
<1>5. ASSUME NEW w \in DOMAIN turn, Detect(w) PROVE DetectorInv'
  <2>1. /\ pc[w] = "added" /\ msg[w] \in Msg /\ NoMsg \in Msg
        /\ msg[w].result \in Results /\ msg[w] # NoMsg
    <3>1. pc[w] = "added" /\ msg[w] \in Msg /\ msg[w].result \in Results
      BY <1>5 DEF Detect, LoopTypeOK
    <3> QED BY <3>1, DetectorAssumption DEF Msg, NoMsg
  <2>2. [msg[w] EXCEPT !.warn = Warning] \in Msg
    BY <2>1, WarningBounded DEF Msg
  <2>3. LoopTypeOK'
    BY <1>5, <2>1, <2>2 DEF Detect, LoopTypeOK
  <2>4. \A v \in DOMAIN turn' : pc'[v] = "added" => msg'[v].result \in Results
    BY <1>5 DEF Detect, LoopTypeOK
  <2> QED BY <1>1, <1>5, <2>3, <2>4 DEF Detect, detector
<1>6. CASE EndTurn
  <2> DEFINE new == [w \in DOMAIN turn |->
                  [tool |-> turn[w].tool, args |-> turn[w].args,
                   result |-> IF msg[w] = NoMsg THEN NotRun ELSE msg[w].result,
                   warn |-> msg[w].warn, of |-> Len(turn)]]
  <2>2. new \in Seq(Pair)
    <3>1. turn # <<>>
      BY <1>6 DEF EndTurn, TurnOver
    <3> QED BY <3>1, AnswersArePairs, Zenon
  <2>3. hist' \in Seq(Pair)
    <3>1. hist' = hist \o new /\ hist \in Seq(Pair)
      BY <1>6 DEF EndTurn, LoopTypeOK
    <3> HIDE DEF new
    <3> QED BY <2>2, <3>1
  <2>4. /\ DOMAIN turn' = {} /\ DOMAIN pc' = {} /\ DOMAIN msg' = {}
        /\ turn' \in Seq(LoggedCall) /\ Len(turn') <= Workers
        /\ UNCHANGED <<ring, head, count, log, fatal>>
    BY <1>6, DetectorAssumption DEF EndTurn
  <2>5. LoopTypeOK'
    BY <2>3, <2>4 DEF LoopTypeOK
  <2> QED BY <1>1, <2>4, <2>5 DEF detector
<1>7. CASE NewRun
  BY <1>7, NewRunStep
<1>8. CASE UNCHANGED loopVars
  BY <1>1, <1>8 DEF loopVars, detector, LoopTypeOK
<1> QED BY <1>2, <1>3, <1>4, <1>5, <1>6, <1>7, <1>8 DEF LoopNext

(* The window property and the types hold in every reachable state. *)
THEOREM DetectorInvariant == LoopSpec => []DetectorInv
BY InitDetectorInv, NextDetectorInv, PTL DEF LoopSpec

(* The detector and the turn under way keep their types. *)
THEOREM DetectorTypeCorrect == LoopSpec => []LoopTypeOK
<1>1. DetectorInv => LoopTypeOK
  BY DEF DetectorInv
<1> QED BY <1>1, DetectorInvariant, PTL

(* For every capacity, at(k) is the k-th latest call given to AddCall. *)
THEOREM RingIsAlwaysRecentLog == LoopSpec => []RingIsRecentLog
<1>1. DetectorInv => RingIsRecentLog
  BY DEF DetectorInv
<1> QED BY <1>1, DetectorInvariant, PTL

-----------------------------------------------------------------------------
(* A call of the turn was executed and answered. *)
Ran == \E w \in DOMAIN turn : msg[w].result \in Results

(* The last call to be added is still before its Detect, or was judged. *)
JudgedInv ==
    Ran /\ ~fatal => (\E w \in DOMAIN turn : pc[w] = "added") \/ ~EndsRepeating(KillAt)

(* Every call of the history was executed, one in a turn. *)
OnePerTurn == \A i \in DOMAIN hist : hist[i].result \in Results /\ hist[i].of = 1

(* The log without its last d entries is the end of the history. *)
Follows(d) ==
    /\ Len(log) >= d /\ Len(log) - d <= Len(hist)
    /\ \A k \in 0..(Len(log) - d - 1) : log[Len(log) - d - k] = SeedEntry(hist[Len(hist) - k])

NoAnswerYet == \A w \in DOMAIN turn : pc[w] \in {"start", "run"} => msg[w] = NoMsg

(* The log is ahead of the history by the call of the turn that ran. *)
InStep ==
    /\ turn = <<>> => Follows(0)
    /\ Len(turn) = 1 =>
          IF msg[1].result \in Results
          THEN /\ Follows(1)
               /\ log[Len(log)] = [tool |-> turn[1].tool, args |-> turn[1].args,
                                   result |-> msg[1].result]
          ELSE pc[1] \in {"start", "run"} => Follows(0)

AheadInv == NoAnswerYet /\ (OnePerTurn => InStep)

(* Detect counts a run of one and the same call in full. *)
LEMMA RepeatsKill ==
    ASSUME LoopTypeOK, RingIsRecentLog, EndsRepeating(KillAt)
    PROVE  Kills
<1> DEFINE Same == {k \in Trailing : At(k).args = At(0).args}
<1>1. /\ KillAt \in Nat /\ WarnAt \in Nat /\ MaxRecent \in Nat /\ WarnAt <= KillAt
      /\ KillAt <= MaxRecent /\ count \in Nat /\ Len(log) \in Nat
  BY DetectorAssumption DEF LoopTypeOK
<1>2. KillAt <= count
  BY <1>1 DEF RingIsRecentLog, EndsRepeating
<1>3. ASSUME NEW k \in 0..(KillAt - 1)
      PROVE  At(k).tool = At(0).tool /\ At(k).args = At(0).args
  <2>1. k \in 0..(count - 1) /\ 0 \in 0..(count - 1)
    BY <1>1, <1>2
  <2>2. At(k) = log[Len(log) - k] /\ At(0) = log[Len(log)]
    BY <1>1, <2>1 DEF RingIsRecentLog
  <2>3. Len(log) - k \in (Len(log) - KillAt + 1)..Len(log)
    BY <1>1
  <2> QED BY <2>2, <2>3 DEF EndsRepeating, SameCall
<1>4. 0..(KillAt - 1) \subseteq Same
  <2> SUFFICES ASSUME NEW k \in 0..(KillAt - 1) PROVE k \in Same
    OBVIOUS
  <2>1. k \in 0..(count - 1) /\ \A j \in 0..k : j \in 0..(KillAt - 1)
    BY <1>1, <1>2
  <2> QED BY <2>1, <1>3 DEF Trailing
<1>5. IsFiniteSet(Same)
  <2>1. IsFiniteSet(0..(count - 1))
    BY <1>1, FS_Interval
  <2>2. Same \subseteq 0..(count - 1)
    BY DEF Trailing
  <2> QED BY <2>1, <2>2, FS_Subset
<1>6. Cardinality(0..(KillAt - 1)) = KillAt
  <2>1. 0 \in Int /\ KillAt - 1 \in Int
    BY <1>1
  <2> QED BY <1>1, <2>1, FS_Interval
<1>7. Cardinality(Same) \in Nat /\ Cardinality(0..(KillAt - 1)) <= Cardinality(Same)
  <2> HIDE DEF Same
  <2> QED BY <1>4, <1>5, FS_Subset, FS_CardinalityType
<1>8. SameArgs >= KillAt
  BY <1>1, <1>6, <1>7 DEF SameArgs
<1> QED BY <1>1, <1>2, <1>8 DEF Kills

LEMMA JudgedStep == DetectorInv /\ JudgedInv /\ [LoopNext]_loopVars => JudgedInv'
<1> SUFFICES ASSUME LoopTypeOK, RingIsRecentLog, JudgedInv, [LoopNext]_loopVars
             PROVE  JudgedInv'
  BY DEF DetectorInv
<1>1. Refused \notin Results /\ None \notin Results
  BY DetectorAssumption
<1>2. CASE StartTurn
  <2>1. PICK n \in 1..Workers : \E batch \in [1..n -> LoggedCall] :
           turn' = batch /\ msg' = [w \in 1..n |-> NoMsg]
    BY <1>2 DEF StartTurn
  <2>2. \A w \in DOMAIN turn' : msg'[w] = NoMsg
    BY <2>1
  <2> QED BY <1>1, <2>2 DEF JudgedInv, Ran, NoMsg
<1>3. ASSUME EndTurn \/ NewRun PROVE JudgedInv'
  <2>1. turn' = <<>>
    BY <1>3 DEF EndTurn, NewRun
  <2> QED BY <2>1 DEF JudgedInv, Ran
<1>4. ASSUME NEW w \in DOMAIN turn, SeesFatal(w) \/ Begin(w) \/ AnswerWithoutRunning(w)
      PROVE  JudgedInv'
  <2>1. /\ turn' = turn /\ fatal' = fatal /\ log' = log
        /\ pc[w] # "added" /\ \A v \in DOMAIN turn : v # w => pc'[v] = pc[v]
        /\ \A v \in DOMAIN turn : msg'[v] = msg[v] \/ msg'[v].result = Refused
    BY <1>4 DEF SeesFatal, Begin, AnswerWithoutRunning, LoopTypeOK
  <2>2. Ran' => Ran
    BY <1>1, <2>1 DEF Ran
  <2>3. EndsRepeating(KillAt)' = EndsRepeating(KillAt)
    BY <2>1 DEF EndsRepeating
  <2> QED BY <2>1, <2>2, <2>3 DEF JudgedInv
<1>5. ASSUME NEW w \in DOMAIN turn, ExecuteAndAdd(w) PROVE JudgedInv'
  BY <1>5 DEF ExecuteAndAdd, JudgedInv, LoopTypeOK
<1>6. ASSUME NEW w \in DOMAIN turn, Detect(w) PROVE JudgedInv'
  <2>1. EndsRepeating(KillAt) => Kills
    BY RepeatsKill
  <2>2. fatal' = (fatal \/ Kills) /\ log' = log
    BY <1>6 DEF Detect
  <2>3. EndsRepeating(KillAt)' = EndsRepeating(KillAt)
    BY <2>2 DEF EndsRepeating
  <2> QED BY <2>1, <2>2, <2>3 DEF JudgedInv
<1>7. CASE UNCHANGED loopVars
  BY <1>7 DEF loopVars, JudgedInv, Ran, EndsRepeating
<1> QED BY <1>2, <1>3, <1>4, <1>5, <1>6, <1>7 DEF LoopNext

-----------------------------------------------------------------------------
(* What the history says, as far as it says it of the same entries. *)
LEMMA FollowsStands ==
    ASSUME NEW d \in {0, 1}, UNCHANGED <<log, hist>>, Follows(d) PROVE Follows(d)'
  BY DEF Follows

(* Adding a call puts the log one further ahead. *)
LEMMA FollowsAdd ==
    ASSUME LoopTypeOK, NEW e \in Entry, log' = Append(log, e), UNCHANGED hist, Follows(0)
    PROVE  Follows(1)' /\ log'[Len(log')] = e
<1>1. /\ log \in Seq(Entry) /\ Len(log) \in Nat /\ Len(log') = Len(log) + 1
      /\ log'[Len(log) + 1] = e /\ \A i \in 1..Len(log) : log'[i] = log[i]
  BY DEF LoopTypeOK
<1>2. ASSUME NEW k \in 0..(Len(log') - 1 - 1)
      PROVE  log'[Len(log') - 1 - k] = SeedEntry(hist[Len(hist) - k])
  <2>1. k \in 0..(Len(log) - 0 - 1) /\ Len(log) - 0 - k \in 1..Len(log)
        /\ Len(log') - 1 - k = Len(log) - 0 - k
    BY <1>1
  <2>2. log[Len(log) - 0 - k] = SeedEntry(hist[Len(hist) - k])
    BY <2>1 DEF Follows
  <2> QED BY <1>1, <2>1, <2>2
<1>3. Len(log') >= 1 /\ Len(log') - 1 <= Len(hist)
  BY <1>1 DEF Follows
<1> QED BY <1>1, <1>2, <1>3 DEF Follows

(* Persisting the call that ran closes the gap. *)
LEMMA FollowsPersist ==
    ASSUME LoopTypeOK, NEW p \in Pair, hist' = Append(hist, p), UNCHANGED log, Follows(1),
           log[Len(log)] = SeedEntry(p)
    PROVE  Follows(0)'
<1>1. /\ hist \in Seq(Pair) /\ Len(hist) \in Nat /\ Len(hist') = Len(hist) + 1
      /\ hist'[Len(hist) + 1] = p /\ \A i \in 1..Len(hist) : hist'[i] = hist[i]
      /\ log' = log /\ log \in Seq(Entry) /\ Len(log) \in Nat
  BY DEF LoopTypeOK
<1>2. ASSUME NEW k \in 0..(Len(log) - 0 - 1)
      PROVE  log[Len(log) - 0 - k] = SeedEntry(hist'[Len(hist') - k])
  <2>1. CASE k = 0
    BY <1>1, <2>1
  <2>2. CASE k # 0
    <3>1. /\ k - 1 \in 0..(Len(log) - 1 - 1)
          /\ Len(log) - 0 - k = Len(log) - 1 - (k - 1)
          /\ Len(hist') - k = Len(hist) - (k - 1) /\ Len(hist) - (k - 1) \in 1..Len(hist)
      BY <1>1, <2>2 DEF Follows
    <3>2. log[Len(log) - 1 - (k - 1)] = SeedEntry(hist[Len(hist) - (k - 1)])
      BY <3>1 DEF Follows
    <3> QED BY <1>1, <3>1, <3>2
  <2> QED BY <2>1, <2>2
<1>3. Len(log) >= 0 /\ Len(log) - 0 <= Len(hist')
  BY <1>1 DEF Follows
<1> QED BY <1>1, <1>2, <1>3 DEF Follows, SeedEntry

(* The seeds are the end of the history. *)
LEMMA SeedsFollow ==
    ASSUME LoopTypeOK, log' = Seeds, UNCHANGED hist
    PROVE  /\ Follows(0)'
           /\ Len(log') = IF Len(hist) < MaxRecent THEN Len(hist) ELSE MaxRecent
<1> DEFINE m == IF Len(hist) < MaxRecent THEN Len(hist) ELSE MaxRecent
<1>1. /\ MaxRecent \in Nat /\ hist \in Seq(Pair) /\ Len(hist) \in Nat /\ m \in 0..Len(hist)
  BY DetectorAssumption DEF LoopTypeOK
<1>2. Seeds = [i \in 1..m |-> SeedEntry(hist[Len(hist) - m + i])]
  BY DEF Seeds
<1> HIDE DEF m
<1>3. Len(log') = m /\ \A i \in 1..m : log'[i] = SeedEntry(hist[Len(hist) - m + i])
  BY <1>1, <1>2
<1>4. ASSUME NEW k \in 0..(Len(log') - 0 - 1)
      PROVE  log'[Len(log') - 0 - k] = SeedEntry(hist[Len(hist) - k])
  <2>1. m - k \in 1..m /\ Len(log') - 0 - k = m - k /\ Len(hist) - m + (m - k) = Len(hist) - k
    BY <1>1, <1>3
  <2> QED BY <1>3, <2>1
<1>5. Follows(0)'
  BY <1>1, <1>3, <1>4 DEF Follows, SeedEntry
<1> QED BY <1>3, <1>5 DEF m

(* The end of a turn of one call, which ran and was answered. *)
LEMMA TurnFollows ==
    ASSUME LoopTypeOK, AheadInv, EndTurn, OnePerTurn' PROVE OnePerTurn /\ Follows(0)'
<1> DEFINE new == [w \in DOMAIN turn |->
                  [tool |-> turn[w].tool, args |-> turn[w].args,
                   result |-> IF msg[w] = NoMsg THEN NotRun ELSE msg[w].result,
                   warn |-> msg[w].warn, of |-> Len(turn)]]
           n == Len(turn)
<1>1. /\ n \in Nat \ {0} /\ DOMAIN turn = 1..n /\ turn \in Seq(LoggedCall) /\ n <= Workers
      /\ Workers \in Nat /\ MaxRecent \in Nat
      /\ hist \in Seq(Pair) /\ Len(hist) \in Nat /\ msg[1] \in Msg
  BY DetectorAssumption DEF EndTurn, TurnOver, LoopTypeOK
<1>2. new = [w \in 1..n |-> new[w]] /\ \A w \in 1..n : new[w].of = n
  BY <1>1
<1>3. hist' = hist \o new /\ log' = log
  BY DEF EndTurn
<1>4. new[1].result = IF msg[1] = NoMsg THEN NotRun ELSE msg[1].result
  BY <1>1
<1>5. new[1] = [tool |-> turn[1].tool, args |-> turn[1].args, result |-> new[1].result,
                warn |-> msg[1].warn, of |-> n]
  BY <1>1
<1> HIDE DEF new, n
<1>6. new \in Seq(Pair) /\ Len(new) = n /\ DOMAIN new = 1..n
  <2>1. turn # <<>>
    BY DEF EndTurn, TurnOver
  <2> QED BY <2>1, AnswersArePairs, Zenon DEF n, new
<1>7. /\ Len(hist') = Len(hist) + n
      /\ DOMAIN hist' = 1..(Len(hist) + n) /\ DOMAIN hist = 1..Len(hist)
      /\ \A i \in 1..Len(hist) : hist'[i] = hist[i]
      /\ hist'[Len(hist) + 1] = new[1]
  <2>1. PICK v \in Seq(Pair) : v = new
    BY <1>6
  <2>2. Len(v) = n /\ hist' = hist \o v /\ n \in Nat /\ 1 <= n
    BY <1>1, <1>3, <1>6, <2>1
  <2>3. hist'[Len(hist) + 1] = v[1]
    BY <1>1, <2>2
  <2>0. hist \in Seq(Pair) /\ Len(hist) \in Nat
    BY <1>1
  <2>4. Len(hist') = Len(hist) + n
    BY <2>0, <2>2, ConcatProperties
  <2>5. DOMAIN hist' = 1..(Len(hist) + n) /\ DOMAIN hist = 1..Len(hist)
    <3>1. hist \o v \in Seq(Pair) /\ Len(hist \o v) = Len(hist) + n
      BY <2>0, <2>2, ConcatProperties
    <3> QED BY <2>0, <2>2, <3>1
  <2>6. \A i \in 1..Len(hist) : hist'[i] = hist[i]
    BY <2>0, <2>2, ConcatProperties
  <2> QED BY <2>1, <2>3, <2>4, <2>5, <2>6
<1>8. OnePerTurn
  <2>1. \A i \in DOMAIN hist : i \in DOMAIN hist' /\ hist'[i] = hist[i]
    BY <1>1, <1>7
  <2> QED BY <2>1 DEF OnePerTurn
<1>9. new[1].result \in Results /\ n = 1
  <2>1. Len(hist) + 1 \in DOMAIN hist'
    BY <1>1, <1>7
  <2>2. hist'[Len(hist) + 1].result \in Results /\ hist'[Len(hist) + 1].of = 1
    BY <2>1 DEF OnePerTurn
  <2>3. 1 \in 1..n
    BY <1>1
  <2> QED BY <1>2, <1>7, <2>2, <2>3
<1>10. msg[1] # NoMsg /\ msg[1].result = new[1].result /\ msg[1].result \in Results
  BY <1>4, <1>9, DetectorAssumption
<1>11. Follows(1) /\ log[Len(log)] = [tool |-> turn[1].tool, args |-> turn[1].args,
                                      result |-> msg[1].result]
  BY <1>8, <1>9, <1>10 DEF AheadInv, InStep, NoAnswerYet, n
<1>12. new[1] \in Pair
  <2>1. turn[1] \in LoggedCall
    BY <1>1
  <2>2. msg[1].warn \in 0..MaxRecent /\ n \in 1..Workers /\ new[1].result \in Content
    BY <1>1, <1>9, <1>10 DEF Msg, Content
  <2> QED BY <1>5, <2>1, <2>2 DEF Pair, LoggedCall
<1>13. hist' = Append(hist, new[1])
  <2>1. new = <<new[1]>>
    BY <1>6, <1>9
  <2>2. hist \o <<new[1]>> = Append(hist, new[1])
    BY <1>1, <1>12
  <2> QED BY <1>3, <2>1, <2>2
<1>14. log[Len(log)] = SeedEntry(new[1])
  BY <1>5, <1>10, <1>11 DEF SeedEntry
<1> QED BY <1>3, <1>8, <1>11, <1>12, <1>13, <1>14, FollowsPersist

LEMMA AheadStep == DetectorInv /\ AheadInv /\ [LoopNext]_loopVars => AheadInv'
<1> SUFFICES ASSUME DetectorInv, AheadInv, [LoopNext]_loopVars PROVE AheadInv'
  OBVIOUS
<1>1. LoopTypeOK /\ Refused \notin Results /\ None \notin Results
  BY DetectorAssumption DEF DetectorInv
<1>2. ASSUME UNCHANGED hist PROVE OnePerTurn' = OnePerTurn
  BY <1>2 DEF OnePerTurn
<1>3. CASE StartTurn
  <2>1. PICK n \in 1..Workers : \E batch \in [1..n -> LoggedCall] :
           turn' = batch /\ msg' = [w \in 1..n |-> NoMsg]
    BY <1>3 DEF StartTurn
  <2>2. turn' # <<>> /\ \A w \in DOMAIN turn' : msg'[w] = NoMsg
    BY <2>1
  <2>3. Len(turn') = 1 => msg'[1] = NoMsg
    <3>1. turn' \in Seq(LoggedCall)
      BY <2>1
    <3> QED BY <2>2, <3>1
  <2>4. turn = <<>> /\ UNCHANGED <<log, hist>>
    BY <1>3 DEF StartTurn
  <2>5. OnePerTurn' => Follows(0)'
    BY <1>2, <2>4, FollowsStands DEF AheadInv, InStep, NoAnswerYet
  <2> QED BY <1>1, <2>2, <2>3, <2>5 DEF AheadInv, InStep, NoAnswerYet, NoMsg
<1>4. ASSUME NEW w \in DOMAIN turn,
             SeesFatal(w) \/ Begin(w) \/ AnswerWithoutRunning(w) \/ Detect(w)
      PROVE  AheadInv'
  <2>1. /\ UNCHANGED <<hist, log, turn>> /\ turn # <<>> /\ pc[w] # "done"
        /\ \A v \in DOMAIN turn : v # w => pc'[v] = pc[v] /\ msg'[v] = msg[v]
        /\ msg'[w] = msg[w] \/ pc'[w] = "done"
        /\ pc'[w] \in {"start", "run"} => pc[w] = "start"
    BY <1>1, <1>4 DEF SeesFatal, Begin, AnswerWithoutRunning, Detect, LoopTypeOK
  <2>2. msg'[w].result \in Results => msg'[w].result = msg[w].result
    <3>1. CASE Detect(w)
      BY <1>1, <3>1 DEF Detect, LoopTypeOK, NoMsg, Msg
    <3>2. CASE SeesFatal(w) \/ Begin(w) \/ AnswerWithoutRunning(w)
      BY <1>1, <3>2 DEF SeesFatal, Begin, AnswerWithoutRunning, LoopTypeOK
    <3> QED BY <1>4, <3>1, <3>2
  <2>3. NoAnswerYet'
    BY <2>1 DEF AheadInv, NoAnswerYet
  <2>4. ASSUME OnePerTurn', Len(turn) = 1 PROVE InStep'
    <3>1. w = 1
      <4>1. turn \in Seq(LoggedCall)
        BY <1>1 DEF LoopTypeOK
      <4> QED BY <4>1, <2>4
    <3>2. OnePerTurn /\ InStep
      BY <1>2, <2>1, <2>4 DEF AheadInv
    <3>3. CASE msg'[1].result \in Results
      <4>1. msg[1].result = msg'[1].result /\ msg[1].result \in Results
        BY <2>2, <3>1, <3>3
      <4>2. Follows(1)' /\ log[Len(log)] = [tool |-> turn[1].tool, args |-> turn[1].args,
                                            result |-> msg[1].result]
        BY <2>1, <2>4, <3>2, <3>3, <4>1, FollowsStands DEF InStep
      <4> QED BY <2>1, <3>3, <4>1, <4>2 DEF InStep
    <3>4. CASE msg'[1].result \notin Results
      <4>1. ASSUME pc'[1] \in {"start", "run"} PROVE Follows(0)'
        <5>1. pc[1] = "start" /\ msg[1] = NoMsg
          BY <2>1, <3>1, <4>1 DEF AheadInv, NoAnswerYet
        <5>2. Follows(0)
          BY <1>1, <2>4, <3>2, <5>1 DEF InStep, NoMsg
        <5> QED BY <2>1, <5>2, FollowsStands
      <4> QED BY <2>1, <3>4, <4>1 DEF InStep
    <3> QED BY <3>3, <3>4
  <2> QED BY <2>1, <2>3, <2>4 DEF AheadInv, InStep
<1>5. ASSUME NEW w \in DOMAIN turn, ExecuteAndAdd(w) PROVE AheadInv'
  <2>1. PICK r \in Results :
          /\ log' = Append(log, [tool |-> turn[w].tool, args |-> turn[w].args, result |-> r])
          /\ msg' = [msg EXCEPT ![w] = [result |-> r, warn |-> 0]]
    BY <1>5 DEF ExecuteAndAdd, AddCall
  <2>2. /\ UNCHANGED <<hist, turn>> /\ turn # <<>> /\ pc[w] = "run" /\ pc'[w] = "added"
        /\ \A v \in DOMAIN turn : v # w => pc'[v] = pc[v] /\ msg'[v] = msg[v]
        /\ msg'[w].result = r
    <3>1. UNCHANGED <<hist, turn>> /\ pc[w] = "run" /\ pc' = [pc EXCEPT ![w] = "added"]
      BY <1>5 DEF ExecuteAndAdd
    <3>2. DOMAIN pc = DOMAIN turn /\ DOMAIN msg = DOMAIN turn
      BY <1>1 DEF LoopTypeOK
    <3>3. turn # <<>>
      OBVIOUS
    <3>4. msg'[w] = [result |-> r, warn |-> 0]
      BY <2>1, <3>2
    <3> QED BY <2>1, <3>1, <3>2, <3>3, <3>4
  <2>3. NoAnswerYet'
    BY <2>2 DEF AheadInv, NoAnswerYet
  <2>4. ASSUME OnePerTurn', Len(turn) = 1 PROVE InStep'
    <3>1. w = 1 /\ turn[1] \in LoggedCall
      <4>1. turn \in Seq(LoggedCall)
        BY <1>1 DEF LoopTypeOK
      <4> QED BY <4>1, <2>4
    <3>2. OnePerTurn /\ InStep
      BY <1>2, <2>2, <2>4 DEF AheadInv
    <3>3. Follows(0)
      <4>1. msg[1] = NoMsg
        BY <2>2, <3>1 DEF AheadInv, NoAnswerYet
      <4> QED BY <1>1, <2>2, <2>4, <3>1, <3>2, <4>1 DEF InStep, NoMsg
    <3> DEFINE e == [tool |-> turn[1].tool, args |-> turn[1].args, result |-> r]
    <3>4. e \in Entry /\ log' = Append(log, e)
      BY <2>1, <3>1 DEF Entry, LoggedCall, Content
    <3>5. Follows(1)' /\ log'[Len(log')] = e
      <4> HIDE DEF e
      <4> QED BY <1>1, <2>2, <3>3, <3>4, FollowsAdd
    <3> QED BY <2>2, <3>1, <3>5 DEF InStep
  <2> QED BY <2>2, <2>3, <2>4 DEF AheadInv, InStep
<1>6. CASE EndTurn
  <2>1. turn' = <<>> /\ Len(turn') = 0
    BY <1>6 DEF EndTurn
  <2> QED BY <1>1, <1>6, <2>1, TurnFollows DEF AheadInv, InStep, NoAnswerYet
<1>7. CASE NewRun
  <2>1. turn' = <<>> /\ Len(turn') = 0 /\ log' = Seeds /\ UNCHANGED hist
    BY <1>7 DEF NewRun
  <2> QED BY <1>1, <2>1, SeedsFollow DEF AheadInv, InStep, NoAnswerYet
<1>8. CASE UNCHANGED loopVars
  <2>1. UNCHANGED <<log, hist, turn, msg, pc>>
    BY <1>8 DEF loopVars
  <2> QED BY <1>2, <2>1, FollowsStands DEF AheadInv, InStep, NoAnswerYet
<1> QED BY <1>3, <1>4, <1>5, <1>6, <1>7, <1>8 DEF LoopNext

LEMMA InitJudged == LoopInit => JudgedInv /\ AheadInv
<1> SUFFICES ASSUME LoopInit PROVE JudgedInv /\ AheadInv
  OBVIOUS
<1>1. turn = <<>> /\ log = <<>> /\ hist = <<>> /\ Len(turn) = 0 /\ Len(log) = 0 /\ Len(hist) = 0
  BY DEF LoopInit
<1>2. Follows(0)
  BY <1>1 DEF Follows
<1> QED BY <1>1, <1>2 DEF JudgedInv, Ran, AheadInv, InStep, NoAnswerYet

(***************************************************************************)
(* For every threshold, capacity and number of concurrent calls: a wave    *)
(* after which the log ends in loopKillThreshold identical calls, the last *)
(* of them just executed, is aborted (AddCall and Detect, anti_loop.go).   *)
(***************************************************************************)
THEOREM RepeatsAreAlwaysKilled == LoopSpec => []FinalRepeatsAreKilled
<1>1. DetectorInv /\ JudgedInv => FinalRepeatsAreKilled
  <2> SUFFICES ASSUME DetectorInv, JudgedInv, TurnOver, ~fatal, Ran PROVE ~EndsRepeating(KillAt)
    BY DEF FinalRepeatsAreKilled, Ran
  <2> QED BY DEF JudgedInv, TurnOver, DetectorInv, LoopTypeOK
<1>2. LoopSpec => []JudgedInv
  BY InitJudged, JudgedStep, DetectorInvariant, PTL DEF LoopSpec
<1> QED BY <1>1, <1>2, DetectorInvariant, PTL

(* Rebuilding looks at the calls the live detector looked at. *)
LEMMA SeedsMatch ==
    ASSUME DetectorInv, DetectorInv', AheadInv, NewRun, OnePerTurn, NEW k \in 0..(count - 1)
    PROVE  At(k)' = At(k)
<1>1. /\ LoopTypeOK /\ RingIsRecentLog /\ RingIsRecentLog'
      /\ turn = <<>> /\ log' = Seeds /\ hist' = hist
      /\ Len(log) \in Nat /\ Len(hist) \in Nat /\ MaxRecent \in Nat
  BY DetectorAssumption DEF DetectorInv, LoopTypeOK, NewRun
<1>2. /\ Follows(0) /\ Follows(0)'
      /\ Len(log') = IF Len(hist) < MaxRecent THEN Len(hist) ELSE MaxRecent
  BY <1>1, SeedsFollow DEF AheadInv, InStep, NoAnswerYet
<1>3. /\ k \in 0..(count' - 1) /\ k \in 0..(Len(log) - 0 - 1) /\ k \in 0..(Len(log') - 0 - 1)
      /\ Len(log) - 0 - k = Len(log) - k /\ Len(log') - 0 - k = Len(log') - k
  BY <1>1, <1>2 DEF RingIsRecentLog, Follows
<1>4. At(k) = log[Len(log) - k] /\ At(k)' = log'[Len(log') - k]
  BY <1>1, <1>3 DEF RingIsRecentLog, At, Index
<1>5. /\ log[Len(log) - k] = SeedEntry(hist[Len(hist) - k])
      /\ log'[Len(log') - k] = SeedEntry(hist[Len(hist) - k])
  BY <1>1, <1>2, <1>3 DEF Follows, SeedEntry
<1> QED BY <1>4, <1>5

(***************************************************************************)
(* A detector rebuilt from a history of calls that ran, one in a turn,     *)
(* holds what the live one held, warnings notwithstanding                  *)
(* (loopDetectorFromHistory, stripLoopWarning).                            *)
(***************************************************************************)
THEOREM RebuiltDetectorMatches == LoopSpec => SeedMatchesLive
<1>1. DetectorInv /\ DetectorInv' /\ AheadInv /\ [LoopNext]_loopVars
        => [NewRun /\ (\A i \in DOMAIN hist : hist[i].result \in Results /\ hist[i].of = 1)
              => \A k \in 0..(count - 1) : At(k)' = At(k)]_loopVars
  BY SeedsMatch DEF OnePerTurn
<1>2. LoopSpec => []AheadInv
  BY InitJudged, AheadStep, DetectorInvariant, PTL DEF LoopSpec
<1> QED BY <1>1, <1>2, DetectorInvariant, PTL DEF LoopSpec, SeedMatchesLive

-----------------------------------------------------------------------------
(***************************************************************************)
(* The profiles of the in-memory session manager, for any number of keys,  *)
(* thresholds and summaries under way.  An unspoilt session has one        *)
(* summary under way at most, and that one or the profile covers what      *)
(* lastSumLen counts.                                                      *)
(***************************************************************************)

Flight == [key : MemKeys, new : SUBSET Nat, previous : SUBSET Nat]
Reasons == {"overlap", "cut", "failed", "late"}

MemTypeOK ==
    /\ Known \subseteq MemKeys /\ \A k \in Known : sessions[k] \in Seq(Nat)
    /\ behaviors \in [MemKeys -> SUBSET Nat] /\ lastSumLen \in [MemKeys -> Nat]
    /\ flying \subseteq Flight /\ said \in Nat
    /\ spoilt \in [MemKeys -> SUBSET Reasons]

Flights(k) == {f \in flying : f.key = k}

(* The messages that lastSumLen counts as summarized. *)
Taught(k) == {sessions[k][i] : i \in (1 .. lastSumLen[k]) \intersect DOMAIN sessions[k]}

GoneIsForgotten(k) ==
    k \notin Known =>
        /\ lastSumLen[k] = 0
        /\ Flights(k) # {} => "late" \in spoilt[k]
        /\ "late" \notin spoilt[k] => behaviors[k] = {}

KnownIsCovered(k) ==
    k \in Known /\ spoilt[k] = {} =>
        /\ lastSumLen[k] <= Len(sessions[k])
        /\ \A f, g \in Flights(k) : f = g
        /\ \A f \in Flights(k) : Taught(k) \subseteq Merged(f)
        /\ Flights(k) = {} => Taught(k) \subseteq behaviors[k]

MemInv == MemTypeOK /\ \A k \in MemKeys : GoneIsForgotten(k) /\ KnownIsCovered(k)

LEMMA InitMemInv == MemInit => MemInv
<1> SUFFICES ASSUME MemInit PROVE MemInv
  OBVIOUS
<1>1. Known = {}
  BY DEF MemInit, Known
<1> QED BY <1>1 DEF MemInit, MemInv, MemTypeOK, GoneIsForgotten, KnownIsCovered, Flights

-----------------------------------------------------------------------------
(* A step that leaves a key alone. *)
LEMMA KeyStands ==
    ASSUME NEW k \in MemKeys, GoneIsForgotten(k), KnownIsCovered(k),
           k \in Known' <=> k \in Known,
           k \in Known => sessions'[k] = sessions[k],
           behaviors'[k] = behaviors[k], lastSumLen'[k] = lastSumLen[k], spoilt'[k] = spoilt[k],
           Flights(k)' = Flights(k)
    PROVE  GoneIsForgotten(k)' /\ KnownIsCovered(k)'
<1>1. k \in Known => Taught(k)' = Taught(k)
  BY DEF Taught
<1> QED BY <1>1 DEF GoneIsForgotten, KnownIsCovered, Merged

(* The session of a key is written, the others stay. *)
LEMMA WithStep ==
    ASSUME MemTypeOK, NEW k \in MemKeys, NEW s \in Seq(Nat), sessions' = With(k, s)
    PROVE  /\ Known' = Known \union {k} /\ sessions'[k] = s
           /\ \A j \in Known : j # k => sessions'[j] = sessions[j]
           /\ Known' \subseteq MemKeys /\ \A j \in Known' : sessions'[j] \in Seq(Nat)
  BY DEF With, Known, MemTypeOK

LEMMA RemainingStep ==
    ASSUME MemTypeOK, NEW ks, sessions' = Remaining(ks)
    PROVE  /\ Known' = Known \ ks
           /\ \A j \in Known' : sessions'[j] = sessions[j]
           /\ Known' \subseteq MemKeys /\ \A j \in Known' : sessions'[j] \in Seq(Nat)
  BY DEF Remaining, Known, MemTypeOK

-----------------------------------------------------------------------------
(* What a run may save: the log with its first messages as they were. *)
LEMMA Revision ==
    ASSUME MemTypeOK, NEW k \in MemKeys,
           NEW s \in {Messages(k) \o [i \in 1 .. n |-> said + i] : n \in 0 .. 2}
                     \union {SubSeq(Messages(k), 1, n) : n \in 0 .. Len(Messages(k))}
    PROVE  /\ s \in Seq(Nat) /\ Messages(k) \in Seq(Nat)
           /\ \A i \in 1 .. Len(s) : i <= Len(Messages(k)) => s[i] = Messages(k)[i]
<1>1. Messages(k) \in Seq(Nat) /\ Len(Messages(k)) \in Nat
  BY DEF Messages, MemTypeOK
<1> DEFINE m == Messages(k)
<1> HIDE DEF m
<1>2. CASE \E n \in 0 .. 2 : s = m \o [i \in 1 .. n |-> said + i]
  <2>1. PICK n \in 0 .. 2 : s = m \o [i \in 1 .. n |-> said + i]
    BY <1>2
  <2>2. [i \in 1 .. n |-> said + i] \in Seq(Nat)
    BY <2>1 DEF MemTypeOK
  <2>3. PICK t \in Seq(Nat) : s = m \o t
    BY <2>1, <2>2
  <2> QED BY <1>1, <2>3, ConcatProperties DEF m
<1>3. CASE \E n \in 0 .. Len(m) : s = SubSeq(m, 1, n)
  <2>1. PICK n \in 0 .. Len(m) : s = SubSeq(m, 1, n)
    BY <1>3
  <2> QED BY <1>1, <2>1, SubSeqProperties DEF m
<1> QED BY <1>2, <1>3 DEF m

(* What a sequence holds after its first n elements. *)
TailSet(s, n) == LET t == SubSeq(s, n + 1, Len(s)) IN {t[j] : j \in DOMAIN t}

LEMMA TailElements ==
    ASSUME NEW s \in Seq(Nat), NEW n \in Nat, n <= Len(s), NEW i \in (n + 1) .. Len(s)
    PROVE  s[i] \in TailSet(s, n)
<1>1. PICK l \in Nat : l = Len(s)
  OBVIOUS
<1>2. PICK m \in Int : m = n + 1
  OBVIOUS
<1>3. m \in Int /\ l \in Int /\ \A j \in m .. l : s[j] \in Nat
  BY <1>1, <1>2
<1>4. /\ SubSeq(s, m, l) \in Seq(Nat)
      /\ Len(SubSeq(s, m, l)) = IF m <= l THEN l - m + 1 ELSE 0
      /\ \A j \in 1 .. l - m + 1 : SubSeq(s, m, l)[j] = s[m + j - 1]
  BY ONLY <1>3, SubSeqProperties
<1>5. PICK t : t = SubSeq(s, m, l)
  OBVIOUS
<1>6. PICK j \in Int : j = i - n
  BY <1>1
<1>7. j \in 1 .. l - m + 1 /\ m + j - 1 = i /\ m <= l
  BY <1>1, <1>2, <1>6
<1>8. t[j] = s[i] /\ j \in 1 .. Len(t) /\ t \in Seq(Nat)
  BY ONLY <1>4, <1>5, <1>7, l \in Nat, m \in Int
<1>9. t[j] = s[i] /\ j \in DOMAIN t
  BY <1>8
<1> QED BY <1>1, <1>2, <1>5, <1>9 DEF TailSet

LEMMA SaveStep ==
    ASSUME MemInv, NEW k \in MemKeys, SaveHistory(k) PROVE MemInv'
<1>1. PICK s \in {Messages(k) \o [i \in 1 .. n |-> said + i] : n \in 0 .. 2}
                 \union {SubSeq(Messages(k), 1, n) : n \in 0 .. Len(Messages(k))} :
         /\ said' = said + Cardinality({i \in SetOf(s) : i > said})
         /\ sessions' = With(k, s)
         /\ IF shouldSummarize(k, s)
            THEN /\ lastSumLen' = [lastSumLen EXCEPT ![k] = Len(s)]
                 /\ flying' = flying \union
                        {[key |-> k, new |-> SetOf(Since(k, s)), previous |-> behaviors[k]]}
                 /\ IF \E f \in flying : f.key = k THEN Spoil(k, "overlap")
                    ELSE spoilt' = spoilt
            ELSE /\ UNCHANGED <<lastSumLen, flying>>
                 /\ IF Rewrites(k, s) THEN Spoil(k, "cut") ELSE spoilt' = spoilt
  BY DEF SaveHistory
<1> DEFINE m == Messages(k)
<1>2. /\ MemTypeOK /\ s \in Seq(Nat) /\ m \in Seq(Nat)
      /\ \A i \in 1 .. Len(s) : i <= Len(m) => s[i] = m[i]
      /\ Len(s) \in Nat /\ Len(m) \in Nat /\ UNCHANGED behaviors
  BY <1>1, Revision DEF MemInv, SaveHistory
<1>3. /\ Known' = Known \union {k} /\ sessions'[k] = s
      /\ \A j \in Known : j # k => sessions'[j] = sessions[j]
      /\ Known' \subseteq MemKeys /\ \A j \in Known' : sessions'[j] \in Seq(Nat)
  BY <1>1, <1>2, WithStep
<1>4. said' \in Nat
  <2>1. IsFiniteSet({i \in SetOf(s) : i > said})
    <3>1. IsFiniteSet(SetOf(s))
      <4>1. IsFiniteSet(DOMAIN s)
        <5>1. DOMAIN s = 1 .. Len(s) /\ 1 \in Int /\ Len(s) \in Int
          BY <1>2
        <5> QED BY <5>1, FS_Interval
      <4>2. s \in Surjection(DOMAIN s, SetOf(s))
        <5>1. s \in [DOMAIN s -> SetOf(s)]
          BY <1>2 DEF SetOf
        <5>2. \A v \in SetOf(s) : \E i \in DOMAIN s : s[i] = v
          BY DEF SetOf
        <5> QED BY <5>1, <5>2 DEF Surjection
      <4> QED BY <4>1, <4>2, FS_Surjection
    <3> QED BY <3>1, FS_Subset
  <2>2. Cardinality({i \in SetOf(s) : i > said}) \in Nat
    BY <2>1, FS_CardinalityType
  <2> QED BY <1>1, <1>2, <2>2 DEF MemTypeOK
<1> DEFINE new == [key |-> k, new |-> SetOf(Since(k, s)), previous |-> behaviors[k]]
<1>5. k \in Known => m = sessions[k]
  BY DEF Messages
<1>6. lastSumLen[k] \in Nat /\ Trigger \in Nat /\ Gap \in Nat
  BY <1>2, MemAssumption DEF MemTypeOK
<1> HIDE DEF m, new
<1>7. CASE shouldSummarize(k, s)
  <2>1. /\ lastSumLen' = [lastSumLen EXCEPT ![k] = Len(s)] /\ flying' = flying \union {new}
        /\ spoilt' = IF Flights(k) # {} THEN [spoilt EXCEPT ![k] = @ \union {"overlap"}] ELSE spoilt
    BY <1>1, <1>7 DEF Spoil, Flights, new
  <2>2. /\ lastSumLen[k] <= Len(s) /\ Since(k, s) \in Seq(Nat)
        /\ \A i \in (lastSumLen[k] + 1) .. Len(s) : s[i] \in SetOf(Since(k, s))
    <3>1. lastSumLen[k] + Gap <= Len(s)
      BY <1>2, <1>6, <1>7 DEF shouldSummarize
    <3>2. lastSumLen[k] + 1 \in 1 .. Len(s) + 1 /\ Len(s) \in 0 .. Len(s)
      BY <1>2, <1>6, <3>1
    <3>3. Since(k, s) \in Seq(Nat)
      BY <1>2, <3>2, SubSeqProperties DEF Since
    <3>4. ASSUME NEW i \in (lastSumLen[k] + 1) .. Len(s) PROVE s[i] \in SetOf(Since(k, s))
      <4>1. SetOf(Since(k, s)) = TailSet(s, lastSumLen[k])
        BY DEF SetOf, Since, TailSet
      <4>2. PICK a \in Nat : a = lastSumLen[k]
        BY <1>6
      <4>3. a <= Len(s) /\ i \in (a + 1) .. Len(s)
        BY <1>2, <1>6, <3>1, <3>4, <4>2
      <4>4. s[i] \in TailSet(s, a)
        BY ONLY <1>2, <4>3, a \in Nat, TailElements
      <4> QED BY <4>1, <4>2, <4>4
    <3> QED BY <1>2, <1>6, <3>1, <3>3, <3>4
  <2>3. new \in Flight
    <3>1. SetOf(Since(k, s)) \in SUBSET Nat
      BY <2>2 DEF SetOf
    <3> QED BY <1>2, <3>1 DEF Flight, new, MemTypeOK
  <2>4. /\ lastSumLen' \in [MemKeys -> Nat] /\ lastSumLen'[k] = Len(s)
        /\ \A j \in MemKeys : j # k => lastSumLen'[j] = lastSumLen[j] /\ spoilt'[j] = spoilt[j]
        /\ spoilt' \in [MemKeys -> SUBSET Reasons]
        /\ Flights(k) # {} => spoilt'[k] # {}
        /\ spoilt[k] \subseteq spoilt'[k]
    BY <1>2, <2>1 DEF MemTypeOK, Reasons
  <2>5. MemTypeOK'
    BY <1>2, <1>3, <1>4, <2>1, <2>3, <2>4 DEF MemTypeOK
  <2>6. ASSUME NEW j \in MemKeys, j # k PROVE GoneIsForgotten(j)' /\ KnownIsCovered(j)'
    <3>1. Flights(j)' = Flights(j)
      BY <2>1, <2>6 DEF Flights, new
    <3> QED BY <1>2, <1>3, <2>4, <2>6, <3>1, KeyStands DEF MemInv
  <2>7. KnownIsCovered(k)'
    <3> SUFFICES ASSUME spoilt'[k] = {}
                 PROVE  /\ Len(s) <= Len(s)
                        /\ \A f, g \in Flights(k)' : f = g
                        /\ \A f \in Flights(k)' : Taught(k)' \subseteq Merged(f)
                        /\ Flights(k)' # {}
      BY <1>3, <2>4 DEF KnownIsCovered, Merged
    <3>1. Flights(k) = {} /\ spoilt[k] = {}
      BY <2>4
    <3>2. Flights(k)' = {new}
      BY <2>1, <3>1 DEF Flights, new
    <3>3. lastSumLen[k] <= Len(m) /\ Taught(k) \subseteq behaviors[k]
      <4>1. CASE k \in Known
        BY <1>5, <3>1, <4>1 DEF MemInv, KnownIsCovered
      <4>2. CASE k \notin Known
        <5>1. lastSumLen[k] = 0
          BY <4>2 DEF MemInv, GoneIsForgotten
        <5> QED BY <1>2, <5>1 DEF Taught
      <4> QED BY <4>1, <4>2
    <3>4. ASSUME NEW i \in 1 .. Len(s) PROVE s[i] \in behaviors[k] \union SetOf(Since(k, s))
      <4>1. CASE i <= lastSumLen[k]
        <5>1. k \in Known
          BY <1>6, <4>1 DEF MemInv, GoneIsForgotten
        <5>2. i <= Len(m) /\ s[i] = m[i] /\ i \in DOMAIN m
          BY <1>2, <1>6, <3>3, <4>1
        <5>3. m[i] \in Taught(k)
          BY <1>5, <1>6, <4>1, <5>1, <5>2 DEF Taught
        <5> QED BY <3>3, <5>2, <5>3
      <4>2. CASE ~(i <= lastSumLen[k])
        BY <1>2, <1>6, <2>2, <4>2
      <4> QED BY <4>1, <4>2
    <3>5. Taught(k)' \subseteq behaviors[k] \union SetOf(Since(k, s))
      <4>1. Taught(k)' = {s[i] : i \in (1 .. Len(s)) \intersect DOMAIN s}
        BY <1>3, <2>4 DEF Taught
      <4> QED BY <3>4, <4>1
    <3> QED BY <1>2, <3>2, <3>5 DEF Merged, new
  <2> QED BY <1>3, <2>5, <2>6, <2>7 DEF MemInv, GoneIsForgotten
<1>8. CASE ~shouldSummarize(k, s)
  <2>1. /\ UNCHANGED <<lastSumLen, flying>>
        /\ spoilt' = IF Rewrites(k, s) THEN [spoilt EXCEPT ![k] = @ \union {"cut"}] ELSE spoilt
    BY <1>1, <1>8 DEF Spoil
  <2>2. /\ \A j \in MemKeys : j # k => spoilt'[j] = spoilt[j]
        /\ spoilt' \in [MemKeys -> SUBSET Reasons]
        /\ spoilt'[k] = {} => spoilt[k] = {} /\ ~Rewrites(k, s)
    BY <1>2, <2>1 DEF MemTypeOK, Reasons
  <2>3. MemTypeOK'
    BY <1>2, <1>3, <1>4, <2>1, <2>2 DEF MemTypeOK
  <2>4. \A j \in MemKeys : Flights(j)' = Flights(j)
    BY <2>1 DEF Flights
  <2>5. ASSUME NEW j \in MemKeys, j # k PROVE GoneIsForgotten(j)' /\ KnownIsCovered(j)'
    BY <1>2, <1>3, <2>1, <2>2, <2>4, <2>5, KeyStands DEF MemInv
  <2>6. KnownIsCovered(k)'
    <3> SUFFICES ASSUME spoilt'[k] = {}
                 PROVE  /\ lastSumLen[k] <= Len(s)
                        /\ \A f, g \in Flights(k) : f = g
                        /\ \A f \in Flights(k) : Taught(k)' \subseteq Merged(f)
                        /\ Flights(k) = {} => Taught(k)' \subseteq behaviors[k]
      BY <1>2, <1>3, <2>1, <2>4 DEF KnownIsCovered, Merged
    <3>1. spoilt[k] = {} /\ lastSumLen[k] <= Len(s)
      BY <1>2, <1>6, <2>2 DEF Rewrites
    <3>2. CASE k \in Known
      <4>1. /\ lastSumLen[k] <= Len(m)
            /\ \A f, g \in Flights(k) : f = g
            /\ \A f \in Flights(k) : Taught(k) \subseteq Merged(f)
            /\ Flights(k) = {} => Taught(k) \subseteq behaviors[k]
        BY <1>5, <3>1, <3>2 DEF MemInv, KnownIsCovered
      <4>2. Taught(k)' \subseteq Taught(k)
        <5> SUFFICES ASSUME NEW i \in 1 .. lastSumLen[k], i \in DOMAIN s
                     PROVE  s[i] \in Taught(k)
          BY <1>3, <2>1 DEF Taught
        <5>1. i \in 1 .. Len(s) /\ i <= Len(m) /\ i \in 1 .. Len(m)
          BY <1>2, <1>6, <4>1
        <5>2. s[i] = m[i] /\ i \in DOMAIN m
          BY <1>2, <5>1
        <5> QED BY <1>5, <3>2, <5>2 DEF Taught
      <4> QED BY <3>1, <4>1, <4>2
    <3>3. CASE k \notin Known
      <4>1. lastSumLen[k] = 0 /\ Flights(k) = {}
        BY <3>1, <3>3 DEF MemInv, GoneIsForgotten
      <4>2. Taught(k)' = {}
        BY <2>1, <4>1 DEF Taught
      <4> QED BY <3>1, <4>1, <4>2
    <3> QED BY <3>2, <3>3
  <2> QED BY <1>3, <2>3, <2>5, <2>6 DEF MemInv, GoneIsForgotten
<1> QED BY <1>7, <1>8

LEMMA SummarizedStep ==
    ASSUME MemInv, NEW f \in flying, Summarized(f) PROVE MemInv'
<1> DEFINE k == f.key
<1>1. /\ MemTypeOK /\ f \in Flight /\ k \in MemKeys /\ f \in Flights(k)
      /\ UNCHANGED <<sessions, lastSumLen, said>> /\ flying' = flying \ {f}
  BY DEF MemInv, MemTypeOK, Flight, Flights, Summarized
<1>2. /\ Known' = Known /\ \A j \in MemKeys : Taught(j)' = Taught(j)
      /\ \A j \in MemKeys : Flights(j)' = Flights(j) \ {f}
  BY <1>1 DEF Known, Taught, Flights
<1>3. /\ behaviors' \in [MemKeys -> SUBSET Nat] /\ spoilt' \in [MemKeys -> SUBSET Reasons]
      /\ \A j \in MemKeys : j # k => behaviors'[j] = behaviors[j] /\ spoilt'[j] = spoilt[j]
      /\ \/ behaviors'[k] = Merged(f) /\ spoilt'[k] = spoilt[k]
         \/ behaviors'[k] = behaviors[k] /\ spoilt'[k] = spoilt[k] \union {"failed"}
  <2>1. CASE behaviors' = [behaviors EXCEPT ![f.key] = Merged(f)] /\ UNCHANGED spoilt
    BY <1>1, <2>1 DEF MemTypeOK, Flight, Merged
  <2>2. CASE Spoil(f.key, "failed") /\ UNCHANGED behaviors
    BY <1>1, <2>2 DEF MemTypeOK, Spoil, Reasons
  <2> QED BY <2>1, <2>2 DEF Summarized
<1> HIDE DEF k
<1>4. MemTypeOK'
  BY <1>1, <1>2, <1>3 DEF MemTypeOK
<1>5. ASSUME NEW j \in MemKeys, j # k PROVE GoneIsForgotten(j)' /\ KnownIsCovered(j)'
  <2>1. Flights(j)' = Flights(j)
    BY <1>2, <1>5 DEF Flights, k
  <2> QED BY <1>1, <1>2, <1>3, <1>5, <2>1, KeyStands DEF MemInv
<1>6. GoneIsForgotten(k)'
  BY <1>1, <1>2, <1>3 DEF MemInv, GoneIsForgotten
<1>7. KnownIsCovered(k)'
  <2> SUFFICES ASSUME k \in Known, spoilt'[k] = {}
               PROVE  /\ lastSumLen[k] <= Len(sessions[k])
                      /\ \A g, h \in Flights(k)' : g = h
                      /\ \A g \in Flights(k)' : Taught(k) \subseteq Merged(g)
                      /\ Taught(k) \subseteq behaviors'[k]
    BY <1>1, <1>2 DEF KnownIsCovered, Merged
  <2>1. spoilt[k] = {} /\ behaviors'[k] = Merged(f)
    BY <1>3
  <2>2. /\ lastSumLen[k] <= Len(sessions[k])
        /\ \A g, h \in Flights(k) : g = h
        /\ \A g \in Flights(k) : Taught(k) \subseteq Merged(g)
    BY <1>1, <2>1 DEF MemInv, KnownIsCovered
  <2> QED BY <1>1, <1>2, <2>1, <2>2
<1> QED BY <1>4, <1>5, <1>6, <1>7 DEF MemInv

LEMMA MemForkStep ==
    ASSUME MemInv, NEW k \in MemKeys, NEW new \in MemKeys, Fork(k, new) PROVE MemInv'
<1>1. /\ MemTypeOK /\ k \in Known /\ new \notin Known /\ new # k
      /\ behaviors' = [behaviors EXCEPT ![new] = behaviors[k]]
      /\ lastSumLen' = [lastSumLen EXCEPT ![new] = 0]
      /\ UNCHANGED <<flying, said, spoilt>> /\ Flights(new) = {}
  BY DEF MemInv, Fork, ForkedSum, Flights
<1>2. PICK n \in 0 .. Len(sessions[k]) : sessions' = With(new, SubSeq(sessions[k], 1, n))
  BY DEF Fork
<1>3. SubSeq(sessions[k], 1, n) \in Seq(Nat) /\ Len(SubSeq(sessions[k], 1, n)) = n
  <2>1. sessions[k] \in Seq(Nat)
    BY <1>1 DEF MemTypeOK
  <2> QED BY <2>1, SubSeqProperties
<1> DEFINE s == SubSeq(sessions[k], 1, n)
<1> HIDE DEF s
<1>4. /\ Known' = Known \union {new} /\ sessions'[new] = s
      /\ \A j \in Known : j # new => sessions'[j] = sessions[j]
      /\ Known' \subseteq MemKeys /\ \A j \in Known' : sessions'[j] \in Seq(Nat)
  BY <1>1, <1>2, <1>3, WithStep DEF s
<1>5. \A j \in MemKeys : Flights(j)' = Flights(j)
  BY <1>1 DEF Flights
<1>6. MemTypeOK'
  BY <1>1, <1>4 DEF MemTypeOK
<1>7. ASSUME NEW j \in MemKeys, j # new PROVE GoneIsForgotten(j)' /\ KnownIsCovered(j)'
  <2>1. /\ behaviors'[j] = behaviors[j] /\ lastSumLen'[j] = lastSumLen[j]
        /\ spoilt'[j] = spoilt[j]
    BY <1>1, <1>7 DEF MemTypeOK
  <2> QED BY <1>4, <1>5, <1>7, <2>1, KeyStands DEF MemInv
<1>8. GoneIsForgotten(new)' /\ KnownIsCovered(new)'
  <2>1. lastSumLen'[new] = 0 /\ Taught(new)' = {}
    BY <1>1 DEF MemTypeOK, Taught
  <2>2. 0 <= Len(sessions'[new])
    BY <1>3, <1>4 DEF s
  <2> QED BY <1>1, <1>4, <1>5, <2>1, <2>2 DEF GoneIsForgotten, KnownIsCovered
<1> QED BY <1>6, <1>7, <1>8 DEF MemInv

(* What is left of the keys that go, and the others. *)
LEMMA ForgetStep ==
    ASSUME MemInv, NEW ks, Forget(ks), UNCHANGED <<flying, said>>
    PROVE  MemInv'
<1>1. /\ MemTypeOK /\ UNCHANGED <<flying, said>>
      /\ behaviors' = [k \in MemKeys |-> IF k \in ks THEN {} ELSE behaviors[k]]
      /\ lastSumLen' = [k \in MemKeys |-> IF k \in ks THEN 0 ELSE lastSumLen[k]]
      /\ spoilt' = [k \in MemKeys |-> IF k \notin ks THEN spoilt[k]
                       ELSE IF \E f \in flying : f.key = k THEN {"late"} ELSE {}]
  BY DEF Forget, MemInv
<1>2. /\ Known' = Known \ ks
      /\ \A j \in Known' : sessions'[j] = sessions[j]
      /\ Known' \subseteq MemKeys /\ \A j \in Known' : sessions'[j] \in Seq(Nat)
  BY <1>1, RemainingStep DEF Forget
<1>3. \A j \in MemKeys : Flights(j)' = Flights(j)
  BY <1>1 DEF Flights
<1>4. MemTypeOK'
  <2>1. behaviors' \in [MemKeys -> SUBSET Nat] /\ lastSumLen' \in [MemKeys -> Nat]
    BY <1>1 DEF MemTypeOK
  <2>2. spoilt' \in [MemKeys -> SUBSET Reasons]
    BY <1>1 DEF MemTypeOK, Reasons
  <2> QED BY <1>1, <1>2, <2>1, <2>2 DEF MemTypeOK
<1>5. ASSUME NEW j \in MemKeys PROVE GoneIsForgotten(j)' /\ KnownIsCovered(j)'
  <2>1. CASE j \in ks
    <3>1. /\ j \notin Known' /\ lastSumLen'[j] = 0 /\ behaviors'[j] = {}
          /\ Flights(j) # {} => "late" \in spoilt'[j]
      BY <1>1, <1>2, <2>1 DEF Flights
    <3> QED BY <1>3, <3>1 DEF GoneIsForgotten, KnownIsCovered
  <2>2. CASE j \notin ks
    <3>1. /\ behaviors'[j] = behaviors[j] /\ lastSumLen'[j] = lastSumLen[j]
          /\ spoilt'[j] = spoilt[j]
      BY <1>1, <2>2
    <3> QED BY <1>2, <1>3, <2>2, <3>1, KeyStands DEF MemInv
  <2> QED BY <2>1, <2>2
<1> QED BY <1>4, <1>5 DEF MemInv

LEMMA MemNextInv == MemInv /\ [MemNext]_memVars => MemInv'
<1> SUFFICES ASSUME MemInv, [MemNext]_memVars PROVE MemInv'
  OBVIOUS
<1>1. ASSUME UNCHANGED <<sessions, behaviors, lastSumLen, flying, said, spoilt>> PROVE MemInv'
  <2>1. Known' = Known /\ MemTypeOK'
    BY <1>1 DEF MemInv, MemTypeOK, Known
  <2>2. ASSUME NEW k \in MemKeys PROVE GoneIsForgotten(k)' /\ KnownIsCovered(k)'
    <3>1. Flights(k)' = Flights(k)
      BY <1>1 DEF Flights
    <3> QED BY <1>1, <2>1, <3>1, KeyStands DEF MemInv
  <2> QED BY <2>1, <2>2 DEF MemInv
<1>2. CASE PurgeDeletedBefore
  <2>1. PICK ks \in SUBSET deletedAt : purgeKeyLocked(ks)
    BY <1>2 DEF PurgeDeletedBefore
  <2> QED BY <1>2, <2>1, ForgetStep DEF PurgeDeletedBefore, purgeKeyLocked
<1>3. CASE evictExpired
  <2>1. PICK ks \in SUBSET Known : Forget(ks)
    BY <1>3 DEF evictExpired
  <2> QED BY <1>3, <2>1, ForgetStep DEF evictExpired
<1>4. ASSUME NEW k \in MemKeys, Delete(k) PROVE MemInv'
  <2>1. Forget({k}) /\ UNCHANGED <<flying, said>>
    BY <1>4 DEF Delete, purgeKeyLocked
  <2> QED BY <2>1, ForgetStep
<1>5. ASSUME NEW k \in MemKeys, SoftDelete(k) \/ Restore(k) PROVE MemInv'
  BY <1>1, <1>5 DEF SoftDelete, Restore, summaries
<1>6. CASE UNCHANGED memVars
  BY <1>1, <1>6 DEF memVars
<1> QED BY <1>2, <1>3, <1>4, <1>5, <1>6, SaveStep, SummarizedStep, MemForkStep DEF MemNext

(***************************************************************************)
(* The profile of a session covers every message up to lastSumLen once no  *)
(* summary of it is being made, except for the ways spoilt names, and no   *)
(* profile outlives its session except through a summary that was under    *)
(* way (SaveHistory, UpdateBehaviorSummary, Delete, evictExpired).         *)
(***************************************************************************)
THEOREM ProfilesAlwaysMatch == MemSpec => []ProfilesMatchSessions
<1>1. MemInv => ProfilesMatchSessions
  <2> SUFFICES ASSUME MemInv, NEW k \in MemKeys
               PROVE  /\ k \in Known /\ spoilt[k] = {} /\ (\A f \in flying : f.key # k) =>
                            Taught(k) \subseteq behaviors[k]
                      /\ k \notin Known /\ "late" \notin spoilt[k] => behaviors[k] = {}
    BY DEF MemInv, MemTypeOK, ProfilesMatchSessions, ProfileIsComplete,
           NoProfileWithoutSession, Taught
  <2> QED BY DEF MemInv, GoneIsForgotten, KnownIsCovered, Flights
<1> QED BY <1>1, InitMemInv, MemNextInv, PTL DEF MemSpec

-----------------------------------------------------------------------------
(***************************************************************************)
(* Skills: whatever the sources hold, every skill has one fate.            *)
(***************************************************************************)

SkillEntry ==
    [source : SkillSources, name : 1 .. NNames, cost : {1, 2}, files : BOOLEAN,
     trust : {"trusted", "untrusted"}]
Refusal ==
    [source : SkillSources, name : 1 .. NNames,
     why : {"duplicate name", "budget exhausted", "refused", "unreadable"}]
SkillSet == [skills : SUBSET SkillEntry, skipped : SUBSET Refusal]

\* What is in S of the directory of a source.
Here(S, s, n) == {x \in S : x.source = s /\ x.name = n}

NoFate(set, s, n) == Here(set.skills, s, n) = {} /\ Here(set.skipped, s, n) = {}
OneFate(set, s, n) ==
    \E x : \/ Here(set.skills, s, n) = {x} /\ Here(set.skipped, s, n) = {}
           \/ Here(set.skills, s, n) = {} /\ Here(set.skipped, s, n) = {x}

\* A set keeps to the limits of a source, and a name in it stands for one skill.
Orderly(set) ==
    /\ set \in SkillSet /\ IsFiniteSet(set.skills)
    /\ Cardinality(set.skills) <= MaxSkills /\ Cost(set.skills) <= MaxCatalog
    /\ \A x, y \in set.skills : x.name = y.name => x = y

\* new is set with the fate of one directory.
AddsFate(new, set, s, n) ==
    /\ Orderly(new) /\ OneFate(new, s, n)
    /\ set.skills \subseteq new.skills /\ set.skipped \subseteq new.skipped
    /\ \A t, m : t # s \/ m # n =>
          /\ Here(new.skills, t, m) = Here(set.skills, t, m)
          /\ Here(new.skipped, t, m) = Here(set.skipped, t, m)

\* The units of the catalog are finitely many, more for more skills, and a skill
\* adds its own.
LEMMA CostProperties ==
    ASSUME NEW S \in SUBSET SkillEntry, IsFiniteSet(S)
    PROVE  /\ Cost(S) \in Nat
           /\ \A T \in SUBSET S : Cost(T) <= Cost(S)
           /\ \A sk \in SkillEntry : sk \notin S => Cost(S \union {sk}) = Cost(S) + sk.cost
<1> DEFINE Units(T) == {u \in T \X {1, 2} : u[2] <= u[1].cost}
<1>1. IsFiniteSet({1, 2})
  <2>1. IsFiniteSet({1} \union {2})
    BY FS_Singleton, FS_AddElement
  <2> QED
    BY <2>1
<1>2. \A T \in SUBSET S : IsFiniteSet(Units(T)) /\ Units(T) \subseteq Units(S)
  <2> TAKE T \in SUBSET S
  <2>1. IsFiniteSet(T)
    BY FS_Subset
  <2>2. IsFiniteSet(T \X {1, 2})
    BY ONLY <1>1, <2>1, FS_Product
  <2>3. Units(T) \in SUBSET (T \X {1, 2})
    OBVIOUS
  <2>4. IsFiniteSet(Units(T))
    BY ONLY <2>2, <2>3, FS_Subset
  <2>5. Units(T) \subseteq Units(S)
    OBVIOUS
  <2> QED
    BY ONLY <2>4, <2>5
<1>3. IsFiniteSet(Units(S)) /\ Cost(S) \in Nat
  <2>1. IsFiniteSet(Units(S))
    BY <1>2
  <2> QED
    BY <2>1, FS_CardinalityType DEF Cost
<1>4. \A T \in SUBSET S : Cost(T) <= Cost(S)
  <2> TAKE T \in SUBSET S
  <2>1. Units(T) \in SUBSET Units(S)
    BY <1>2
  <2> HIDE DEF Units
  <2>2. Cardinality(Units(T)) <= Cardinality(Units(S))
    BY ONLY <1>3, <2>1, FS_Subset
  <2> QED
    BY <2>2 DEF Cost, Units
<1>5. ASSUME NEW sk \in SkillEntry, sk \notin S PROVE Cost(S \union {sk}) = Cost(S) + sk.cost
  <2>1. PICK own : own = IF sk.cost = 1 THEN {<<sk, 1>>} ELSE {<<sk, 1>>, <<sk, 2>>}
    OBVIOUS
  <2>2. sk.cost \in {1, 2}
    BY DEF SkillEntry
  <2>3. IsFiniteSet(own) /\ Cardinality(own) = sk.cost
    <3>1. IsFiniteSet({<<sk, 1>>}) /\ Cardinality({<<sk, 1>>}) = 1
      BY FS_Singleton
    <3>2. <<sk, 2>> \notin {<<sk, 1>>}
      OBVIOUS
    <3>3. IsFiniteSet({<<sk, 1>>} \union {<<sk, 2>>}) /\ Cardinality({<<sk, 1>>} \union {<<sk, 2>>}) = 2
      <4>1. PICK one, b : one = {<<sk, 1>>} /\ b = <<sk, 2>>
        OBVIOUS
      <4>2. IsFiniteSet(one) /\ Cardinality(one) = 1 /\ b \notin one
        BY ONLY <3>1, <3>2, <4>1
      <4>3. IsFiniteSet(one \union {b}) /\ Cardinality(one \union {b}) = Cardinality(one) + 1
        BY ONLY <4>2, FS_AddElement
      <4>4. 1 + 1 = 2
        OBVIOUS
      <4> QED
        BY ONLY <4>1, <4>2, <4>3, <4>4
    <3>4. {<<sk, 1>>} \union {<<sk, 2>>} = {<<sk, 1>>, <<sk, 2>>}
      OBVIOUS
    <3> QED
      BY ONLY <2>1, <2>2, <3>1, <3>3, <3>4
  <2>4. \A T, u : u \in Units(T) <=> \E x \in T, j \in {1, 2} : u = <<x, j>> /\ j <= x.cost
    OBVIOUS
  <2>5. Units(S \union {sk}) = Units(S) \union own /\ Units(S) \intersect own = {}
    <3>1. PICK mine, all : mine = Units(S) /\ all = Units(S \union {sk})
      OBVIOUS
    <3>2. \A u : u \in mine <=> \E x \in S, j \in {1, 2} : u = <<x, j>> /\ j <= x.cost
      BY ONLY <2>4, <3>1
    <3>3. \A u : u \in all <=> \E x \in S \union {sk}, j \in {1, 2} : u = <<x, j>> /\ j <= x.cost
      BY ONLY <2>4, <3>1
    <3>4. \A u : u \in own <=> \E j \in {1, 2} : u = <<sk, j>> /\ j <= sk.cost
      <4>1. CASE sk.cost = 1
        BY <2>1, <4>1
      <4>2. CASE sk.cost = 2
        BY <2>1, <4>2
      <4> QED
        BY <2>2, <4>1, <4>2
    <3>5. \A u : u \in all <=> u \in mine \/ u \in own
      BY ONLY <3>2, <3>3, <3>4
    <3>6. \A u \in own : u \notin mine
      BY ONLY <3>2, <3>4, sk \notin S
    <3>7. all = mine \union own /\ mine \intersect own = {}
      BY ONLY <3>5, <3>6
    <3> QED
      BY ONLY <3>1, <3>7
  <2>6. PICK a \in Nat : a = Cardinality(Units(S)) /\ a = Cost(S)
    BY <1>3 DEF Cost
  <2>7. Cardinality(Units(S) \union own) = a + sk.cost
    <3> HIDE DEF Units
    <3>1. Cardinality(Units(S) \union own) = a + sk.cost - Cardinality(Units(S) \intersect own)
      BY ONLY <1>3, <2>3, <2>6, FS_Union
    <3>2. Cardinality(Units(S) \intersect own) = 0
      BY <2>5, FS_EmptySet
    <3>3. a + sk.cost - 0 = a + sk.cost
      BY ONLY <2>2, a \in Nat
    <3> QED
      BY ONLY <3>1, <3>2, <3>3
  <2> QED
    BY <2>5, <2>6, <2>7 DEF Cost
<1> QED
  BY <1>3, <1>4, <1>5

\* A set takes note of what it skips.
LEMMA SkipAdds ==
    ASSUME NEW set, Orderly(set), NEW sk, sk.source \in SkillSources, sk.name \in 1 .. NNames,
           NoFate(set, sk.source, sk.name),
           NEW why \in {"duplicate name", "budget exhausted", "refused", "unreadable"}
    PROVE  AddsFate(Skip(set, sk, why), set, sk.source, sk.name)
<1>1. PICK r : r = [source |-> sk.source, name |-> sk.name, why |-> why]
  OBVIOUS
<1>2. PICK new : new = Skip(set, sk, why)
  OBVIOUS
<1>3. r \in Refusal /\ r.source = sk.source /\ r.name = sk.name
  BY <1>1 DEF Refusal
<1>4. new \in SkillSet /\ new.skills = set.skills /\ new.skipped = set.skipped \union {r}
  BY <1>1, <1>2, <1>3 DEF Skip, Orderly, SkillSet
<1>5. Orderly(new)
  BY <1>4 DEF Orderly
<1>6. Here(new.skills, sk.source, sk.name) = {} /\ Here(new.skipped, sk.source, sk.name) = {r}
  BY <1>3, <1>4 DEF NoFate, Here
<1>7. \A t, m : t # sk.source \/ m # sk.name =>
         /\ Here(new.skills, t, m) = Here(set.skills, t, m)
         /\ Here(new.skipped, t, m) = Here(set.skipped, t, m)
  BY <1>3, <1>4 DEF Here
<1> QED
  BY <1>2, <1>4, <1>5, <1>6, <1>7 DEF AddsFate, OneFate

\* A skill that is considered is admitted within the limits, or skipped.
LEMMA ConsiderAdds ==
    ASSUME NEW set, Orderly(set), NEW sk \in SkillEntry, NoFate(set, sk.source, sk.name)
    PROVE  AddsFate(consider(set, sk), set, sk.source, sk.name)
<1>0. sk.source \in SkillSources /\ sk.name \in 1 .. NNames /\ sk.cost \in {1, 2}
  BY DEF SkillEntry
<1>1. CASE sk.name \in Named(set)
  BY <1>0, <1>1, SkipAdds DEF consider
<1>2. CASE sk.name \notin Named(set) /\ (Cardinality(set.skills) >= MaxSkills \/ ~Fits(set, sk))
  BY <1>0, <1>2, SkipAdds DEF consider
<1>3. CASE sk.name \notin Named(set) /\ ~(Cardinality(set.skills) >= MaxSkills) /\ Fits(set, sk)
  <2>1. PICK new : new = consider(set, sk)
    OBVIOUS
  <2>2. set.skills \in SUBSET SkillEntry /\ set.skipped \in SUBSET Refusal /\ IsFiniteSet(set.skills)
    BY DEF Orderly, SkillSet
  <2>3. /\ new \in SkillSet /\ new.skills = set.skills \union {sk} /\ new.skipped = set.skipped
    BY <1>3, <2>1, <2>2 DEF consider, Orderly, SkillSet
  <2>4. sk \notin set.skills /\ \A x \in set.skills : x.name # sk.name
    BY <1>3 DEF Named
  <2>5. IsFiniteSet(new.skills) /\ Cardinality(new.skills) <= MaxSkills
    <3>1. PICK c \in Nat : c = Cardinality(set.skills)
      BY <2>2, FS_CardinalityType
    <3>2. IsFiniteSet(set.skills \union {sk}) /\ Cardinality(set.skills \union {sk}) = c + 1
      BY ONLY <2>2, <2>4, <3>1, FS_AddElement
    <3>3. MaxSkills \in Nat
      BY SkillAssumption
    <3>4. ~(c >= MaxSkills)
      BY <1>3, <3>1
    <3>5. c + 1 <= MaxSkills
      BY ONLY <3>3, <3>4, c \in Nat
    <3> QED
      BY ONLY <2>3, <3>2, <3>5
  <2>6. Cost(new.skills) <= MaxCatalog
    <3>1. Cost(set.skills \union {sk}) = Cost(set.skills) + sk.cost
      BY <2>2, <2>4, CostProperties
    <3> QED
      BY <1>3, <2>3, <3>1 DEF Fits
  <2>7. Orderly(new)
    BY <2>3, <2>4, <2>5, <2>6 DEF Orderly
  <2>8. Here(new.skills, sk.source, sk.name) = {sk} /\ Here(new.skipped, sk.source, sk.name) = {}
    BY <2>3 DEF NoFate, Here
  <2>9. \A t, m : t # sk.source \/ m # sk.name =>
           /\ Here(new.skills, t, m) = Here(set.skills, t, m)
           /\ Here(new.skipped, t, m) = Here(set.skipped, t, m)
    BY <2>3 DEF Here
  <2> QED
    BY <2>1, <2>3, <2>7, <2>8, <2>9 DEF AddsFate, OneFate
<1> QED
  BY <1>1, <1>2, <1>3

\* What admit is given is admitted or skipped.
LEMMA AdmitAdds ==
    ASSUME NEW set, Orderly(set), NEW s \in SkillSources, NEW n \in 1 .. NNames,
           NEW found, NoFate(set, s, n), found = NoSkill("refused") \/ found \in SkillDocs
    PROVE  AddsFate(admit(set, s, n, found), set, s, n)
<1>1. PICK sk : sk = [source |-> s, name |-> n, cost |-> found.cost, files |-> found.files,
                      trust |-> TrustOf[s]]
  OBVIOUS
<1>2. sk.source = s /\ sk.name = n
  BY <1>1
<1>3. admit(set, s, n, found) =
         IF Cardinality(set.skills) >= MaxSkills THEN Skip(set, sk, "budget exhausted")
         ELSE IF found.kind # "skill" THEN Skip(set, sk, found.kind)
         ELSE consider(set, sk)
  BY <1>1 DEF admit
<1>4. CASE Cardinality(set.skills) >= MaxSkills
  BY <1>2, <1>3, <1>4, SkipAdds
<1>0. \/ found.kind = "refused"
      \/ found.kind = "skill" /\ found.cost \in {1, 2} /\ found.files \in BOOLEAN
  <2>1. CASE found = NoSkill("refused")
    BY ONLY <2>1 DEF NoSkill
  <2>2. CASE found \in SkillDocs
    <3>1. found \in [kind : {"skill"}, cost : {1, 2}, files : BOOLEAN]
      BY <2>2, SkillAssumption
    <3> QED
      BY ONLY <3>1
  <2> QED
    BY <2>1, <2>2
<1>5. CASE ~(Cardinality(set.skills) >= MaxSkills) /\ found.kind # "skill"
  <2>1. found.kind = "refused"
    BY <1>0, <1>5
  <2> QED
    BY <1>2, <1>3, <1>5, <2>1, SkipAdds
<1>6. CASE ~(Cardinality(set.skills) >= MaxSkills) /\ found.kind = "skill"
  <2>1. found.cost \in {1, 2} /\ found.files \in BOOLEAN
    BY <1>0, <1>6
  <2>2. TrustOf[s] \in {"trusted", "untrusted"}
    BY SkillAssumption DEF SkillSources
  <2>3. sk \in SkillEntry
    BY <1>1, <2>1, <2>2 DEF SkillEntry
  <2> QED
    BY <1>2, <1>3, <1>6, <2>3, ConsiderAdds
<1> QED
  BY <1>4, <1>5, <1>6

\* What the walk does not turn away from is admitted or skipped.
LEMMA VisitAdds ==
    ASSUME NEW set, Orderly(set), NEW s \in SkillSources, NEW n \in 1 .. NNames,
           NEW found \in Found, found \notin LeftOut, NoFate(set, s, n)
    PROVE  AddsFate(visit(set, s, n, found), set, s, n)
<1>1. \/ found = NoSkill("unreadable")
      \/ found = NoSkill("refused") \/ found \in SkillDocs
  BY DEF Found
<1>2. CASE found = NoSkill("unreadable")
  <2>1. PICK sk : sk = [source |-> s, name |-> n]
    OBVIOUS
  <2>2. sk.source = s /\ sk.name = n
    BY <2>1
  <2>3. found.kind = "unreadable"
    BY ONLY <1>2 DEF NoSkill
  <2>4. visit(set, s, n, found) = Skip(set, sk, "unreadable")
    BY <2>1, <2>3 DEF visit
  <2> QED
    BY <2>2, <2>4, SkipAdds
<1>3. CASE found = NoSkill("refused") \/ found \in SkillDocs
  <2>1. found.kind # "unreadable"
    <3>1. CASE found = NoSkill("refused")
      BY ONLY <3>1 DEF NoSkill
    <3>2. CASE found \in SkillDocs
      <4>1. found \in [kind : {"skill"}, cost : {1, 2}, files : BOOLEAN]
        BY <3>2, SkillAssumption
      <4> QED
        BY ONLY <4>1
    <3> QED
      BY <1>3, <3>1, <3>2
  <2> QED
    BY <1>3, <2>1, AdmitAdds DEF visit
<1> QED
  BY <1>1, <1>2, <1>3

\* What the walk, and then the merge, has behind it.
Behind(s, n) == s < loading.source \/ (s = loading.source /\ n < loading.name)
Walked(s, n) == loading.phase # "walk" \/ Behind(s, n)
MergedDir(s, n) == loading.phase = "ready" \/ (loading.phase = "merge" /\ Behind(s, n))
MergedSource(s) == loading.phase = "ready" \/ (loading.phase = "merge" /\ s < loading.source)

SkillTypes ==
    /\ dirs \in [SkillSources -> [1 .. NNames -> Found]]
    /\ loading \in [source : SkillSources, name : 1 .. NNames, phase : {"walk", "merge", "ready"}]
    /\ sets \in [SkillSources -> SkillSet] /\ (\A s \in SkillSources : Orderly(sets[s]))
    /\ Orderly(merged)

\* The walk gives every directory behind it one fate in the set of its source.
WalkInv ==
    /\ \A s \in SkillSources : \A x \in sets[s].skills \union sets[s].skipped : x.source = s
    /\ \A s \in SkillSources, n \in 1 .. NNames :
          IF dirs[s][n] \notin LeftOut /\ Walked(s, n) THEN OneFate(sets[s], s, n)
          ELSE NoFate(sets[s], s, n)

\* The merge gives one fate to what a source had admitted, skill by skill, and
\* then to what it had skipped.
MergeInv ==
    /\ loading.phase = "walk" => merged = EmptySet
    /\ \A s \in SkillSources, n \in 1 .. NNames :
          IF Here(sets[s].skills, s, n) = {}
          THEN /\ Here(merged.skills, s, n) = {}
               /\ MergedSource(s) => Here(merged.skipped, s, n) = Here(sets[s].skipped, s, n)
               /\ ~MergedSource(s) => Here(merged.skipped, s, n) = {}
          ELSE IF MergedDir(s, n) THEN OneFate(merged, s, n) ELSE NoFate(merged, s, n)

\* Nothing stands in the way of the first source.
FirstInv ==
    /\ loading.phase = "merge" /\ loading.source = 1 => merged.skills \subseteq sets[1].skills
    /\ \A x \in sets[1].skills : MergedDir(1, x.name) => x \in merged.skills

ServedInv == \A got \in served : got.tool = "read_skill" => got.skill.trust = "trusted"

SkillIInv == SkillTypes /\ WalkInv /\ MergeInv /\ FirstInv /\ ServedInv

LEMMA SourcesAreSome == Len(TrustOf) \in Nat /\ Len(TrustOf) >= 1 /\ SkillSources = 1 .. Len(TrustOf)
BY SkillAssumption DEF SkillSources

LEMMA SkillInitHolds == SkillInit => SkillIInv
<1> SUFFICES ASSUME SkillInit PROVE SkillIInv
  OBVIOUS
<1>0. NNames \in Nat /\ NNames >= 1 /\ MaxSkills \in Nat /\ MaxCatalog \in Nat
  BY SkillAssumption
<1>1. EmptySet \in SkillSet /\ EmptySet.skills = {} /\ EmptySet.skipped = {}
  BY DEF EmptySet, SkillSet
<1>2. Orderly(EmptySet)
  <2>1. IsFiniteSet({}) /\ Cardinality({}) = 0
    BY FS_EmptySet
  <2>2. {u \in {} \X {1, 2} : u[2] <= u[1].cost} = {}
    OBVIOUS
  <2>3. Cost({}) = 0
    BY <2>1, <2>2 DEF Cost
  <2> QED
    BY <1>0, <1>1, <2>1, <2>3 DEF Orderly
<1>3. SkillTypes
  BY <1>0, <1>1, <1>2, SourcesAreSome DEF SkillInit, SkillTypes
<1>4. \A s \in SkillSources : sets[s] = EmptySet
  BY DEF SkillInit
<1>5. merged = EmptySet /\ served = {}
  BY DEF SkillInit
<1>6. loading.phase = "walk" /\ loading.source = 1 /\ loading.name = 1
  BY DEF SkillInit
<1>7. \A s \in SkillSources, n \in 1 .. NNames :
         ~Walked(s, n) /\ ~MergedDir(s, n) /\ ~MergedSource(s)
  BY <1>0, <1>6, SourcesAreSome DEF Walked, MergedDir, MergedSource, Behind
<1>8. \A s, n : Here(EmptySet.skills, s, n) = {} /\ Here(EmptySet.skipped, s, n) = {}
  BY <1>1 DEF Here
<1>9. WalkInv
  BY <1>1, <1>4, <1>7, <1>8 DEF WalkInv, NoFate
<1>10. MergeInv
  BY <1>4, <1>5, <1>7, <1>8 DEF MergeInv
<1>11. FirstInv
  BY <1>1, <1>4, <1>6, <1>5, SourcesAreSome DEF FirstInv
<1>12. ServedInv
  BY <1>5 DEF ServedInv
<1> QED
  BY <1>3, <1>9, <1>10, <1>11, <1>12 DEF SkillIInv

\* The walk and the merge go through the directories in order.
LEMMA Advances ==
    ASSUME SkillTypes, NEW s, NEW n, s = loading.source, n = loading.name,
           \/ n < NNames /\ loading' = [loading EXCEPT !.name = n + 1]
           \/ ~(n < NNames) /\ s < Len(TrustOf)
                 /\ loading' = [loading EXCEPT !.source = s + 1, !.name = 1]
    PROVE  /\ loading' \in [source : SkillSources, name : 1 .. NNames, phase : {"walk", "merge", "ready"}]
           /\ loading'.phase = loading.phase
           /\ loading'.source = IF n < NNames THEN s ELSE s + 1
           /\ \A t \in SkillSources, m \in 1 .. NNames :
                 Behind(t, m)' <=> Behind(t, m) \/ (t = s /\ m = n)
<1>0. NNames \in Nat /\ NNames >= 1
  BY SkillAssumption
<1>1. PICK k \in Nat : k = Len(TrustOf) /\ k >= 1 /\ SkillSources = 1 .. k
  BY SourcesAreSome
<1>2. /\ loading = [source |-> s, name |-> n, phase |-> loading.phase]
      /\ loading.phase \in {"walk", "merge", "ready"} /\ s \in 1 .. k /\ n \in 1 .. NNames
  BY <1>1 DEF SkillTypes
<1>3. PICK p : p = loading.phase
  OBVIOUS
<1>4. CASE n < NNames
  <2>1. loading' = [source |-> s, name |-> n + 1, phase |-> p]
    BY <1>2, <1>3, <1>4
  <2>2. n + 1 \in 1 .. NNames
    BY ONLY <1>0, <1>2, <1>4
  <2>3. loading'.source = s /\ loading'.name = n + 1 /\ loading'.phase = p
    BY ONLY <2>1
  <2>4. ASSUME NEW t \in SkillSources, NEW m \in 1 .. NNames
        PROVE  Behind(t, m)' <=> Behind(t, m) \/ (t = s /\ m = n)
    <3>1. (t < s \/ (t = s /\ m < n + 1)) <=> (t < s \/ (t = s /\ m < n)) \/ (t = s /\ m = n)
      BY ONLY <1>2, m \in 1 .. NNames, <1>0
    <3> QED
      BY <2>3, <3>1 DEF Behind
  <2> QED
    BY <1>1, <1>2, <1>3, <1>4, <2>1, <2>2, <2>3, <2>4
<1>5. CASE ~(n < NNames)
  <2>0. s < k
    BY <1>1, <1>5
  <2>1. loading' = [source |-> s + 1, name |-> 1, phase |-> p]
    BY <1>2, <1>3, <1>5
  <2>2. s + 1 \in 1 .. k /\ 1 \in 1 .. NNames
    BY ONLY <1>0, <1>1, <1>2, <2>0
  <2>3. loading'.source = s + 1 /\ loading'.name = 1 /\ loading'.phase = p
    BY ONLY <2>1
  <2>4. ASSUME NEW t \in SkillSources, NEW m \in 1 .. NNames
        PROVE  Behind(t, m)' <=> Behind(t, m) \/ (t = s /\ m = n)
    <3>0. t \in 1 .. k
      BY <1>1
    <3>1. (t < s + 1 \/ (t = s + 1 /\ m < 1)) <=> (t < s \/ (t = s /\ m < n)) \/ (t = s /\ m = n)
      BY ONLY <1>1, <1>2, <1>5, <3>0, m \in 1 .. NNames, <1>0
    <3> QED
      BY <2>3, <3>1 DEF Behind
  <2> QED
    BY <1>1, <1>2, <1>3, <1>5, <2>1, <2>2, <2>3, <2>4
<1> QED
  BY <1>4, <1>5

\* A directory walked has its fate, one ahead has none.
LEMMA WalkHolds == SkillIInv /\ WalkDir => SkillIInv'
<1> SUFFICES ASSUME SkillIInv, WalkDir PROVE SkillIInv'
  OBVIOUS
<1> USE DEF SkillIInv
<1>0. NNames \in Nat /\ NNames >= 1
  BY SkillAssumption
<1>1. PICK s, n : s = loading.source /\ n = loading.name
  OBVIOUS
<1>2. PICK k \in Nat : k = Len(TrustOf) /\ k >= 1 /\ SkillSources = 1 .. k
  BY SourcesAreSome
<1>3. s \in SkillSources /\ n \in 1 .. NNames /\ loading.phase = "walk"
  BY <1>1 DEF SkillTypes, WalkDir
<1>4. UNCHANGED <<dirs, merged, served>>
  BY DEF WalkDir
<1>5. \/ n < NNames /\ loading' = [loading EXCEPT !.name = n + 1]
      \/ ~(n < NNames) /\ s < Len(TrustOf)
            /\ loading' = [loading EXCEPT !.source = s + 1, !.name = 1]
      \/ ~(n < NNames) /\ ~(s < Len(TrustOf)) /\ loading' = [source |-> 1, name |-> 1, phase |-> "merge"]
  BY <1>1 DEF WalkDir
<1>6. /\ loading' \in [source : SkillSources, name : 1 .. NNames, phase : {"walk", "merge", "ready"}]
      /\ loading'.phase \in {"walk", "merge"}
      /\ loading'.phase = "merge" => loading'.source = 1 /\ loading'.name = 1
      /\ \A t \in SkillSources, m \in 1 .. NNames :
            Walked(t, m)' <=> Walked(t, m) \/ (t = s /\ m = n)
  <2>1. CASE ~(n < NNames) /\ ~(s < Len(TrustOf)) /\ loading' = [source |-> 1, name |-> 1, phase |-> "merge"]
    <3>1. loading'.phase = "merge" /\ loading'.source = 1 /\ loading'.name = 1
      BY ONLY <2>1
    <3>2. \A t \in SkillSources, m \in 1 .. NNames : (t < s \/ (t = s /\ m < n)) \/ (t = s /\ m = n)
      <4> SUFFICES ASSUME NEW t \in 1 .. k, NEW m \in 1 .. NNames
                   PROVE  (t < s \/ (t = s /\ m < n)) \/ (t = s /\ m = n)
        BY <1>2
      <4>1. ~(n < NNames) /\ ~(s < k) /\ s \in 1 .. k
        BY <1>2, <1>3, <2>1
      <4> QED
        BY ONLY <4>1, <1>0, <1>3, k \in Nat, t \in 1 .. k, m \in 1 .. NNames
    <3> QED
      BY <1>0, <1>1, <1>2, <1>3, <2>1, <3>1, <3>2 DEF Walked, Behind
  <2>2. CASE \/ n < NNames /\ loading' = [loading EXCEPT !.name = n + 1]
             \/ ~(n < NNames) /\ s < Len(TrustOf)
                   /\ loading' = [loading EXCEPT !.source = s + 1, !.name = 1]
    <3>1. SkillTypes /\ s = loading.source /\ n = loading.name
      BY <1>1
    <3>2. /\ loading' \in [source : SkillSources, name : 1 .. NNames, phase : {"walk", "merge", "ready"}]
          /\ loading'.phase = loading.phase
          /\ \A t \in SkillSources, m \in 1 .. NNames :
                Behind(t, m)' <=> Behind(t, m) \/ (t = s /\ m = n)
      BY ONLY <2>2, <3>1, Advances
    <3> QED
      BY ONLY <1>3, <3>2 DEF Walked
  <2> QED
    BY <1>5, <2>1, <2>2
<1>7. ~Walked(s, n)
  BY <1>0, <1>1, <1>2, <1>3 DEF Walked, Behind
<1>8. PICK found : found = dirs[s][n]
  OBVIOUS
<1>9. found \in Found
  BY <1>3, <1>8 DEF SkillTypes
<1>10. sets' = [sets EXCEPT ![s] = visit(sets[s], s, n, found)]
  BY <1>1, <1>8 DEF WalkDir
<1>11. NoFate(sets[s], s, n) /\ Orderly(sets[s])
  BY <1>3, <1>7 DEF WalkInv, SkillTypes
<1>12. /\ sets' \in [SkillSources -> SkillSet]
       /\ \A t \in SkillSources : t # s => sets'[t] = sets[t]
       /\ found \in LeftOut => sets'[s] = sets[s]
       /\ found \notin LeftOut => AddsFate(sets'[s], sets[s], s, n)
  <2>1. CASE found \in LeftOut
    <3>1. visit(sets[s], s, n, found) = sets[s]
      BY <2>1 DEF visit
    <3> QED
      BY <1>3, <1>10, <2>1, <3>1 DEF SkillTypes
  <2>2. CASE found \notin LeftOut
    <3>1. PICK new : new = visit(sets[s], s, n, found)
      OBVIOUS
    <3>2. AddsFate(new, sets[s], s, n)
      BY <1>3, <1>9, <1>11, <2>2, <3>1, VisitAdds
    <3>3. sets' = [sets EXCEPT ![s] = new]
      BY <1>10, <2>2, <3>1
    <3>4. new \in SkillSet
      BY <3>2 DEF AddsFate, Orderly
    <3> QED
      BY <1>3, <2>2, <3>2, <3>3, <3>4 DEF SkillTypes
  <2> QED
    BY <2>1, <2>2
<1>13. SkillTypes'
  <2>1. Orderly(sets'[s])
    BY <1>11, <1>12 DEF AddsFate
  <2>2. \A t \in SkillSources : Orderly(sets'[t])
    BY <1>12, <2>1 DEF SkillTypes
  <2>3. Orderly(merged')
    BY <1>4 DEF SkillTypes
  <2> QED
    BY <1>4, <1>6, <1>12, <2>2, <2>3 DEF SkillTypes
<1>14. WalkInv'
  <2>1. ASSUME NEW t \in SkillSources, NEW x \in sets'[t].skills \union sets'[t].skipped
        PROVE  x.source = t
    <3>1. CASE t # s \/ found \in LeftOut
      BY <1>12, <3>1 DEF WalkInv
    <3>2. CASE t = s /\ found \notin LeftOut /\ x.source # s
      <4>1. \A m : /\ Here(sets'[s].skills, x.source, m) = Here(sets[s].skills, x.source, m)
                   /\ Here(sets'[s].skipped, x.source, m) = Here(sets[s].skipped, x.source, m)
        BY <1>12, <3>2 DEF AddsFate
      <4>2. x \in Here(sets'[s].skills, x.source, x.name) \/ x \in Here(sets'[s].skipped, x.source, x.name)
        BY <3>2 DEF Here
      <4>3. x \in sets[s].skills \union sets[s].skipped
        BY <4>1, <4>2 DEF Here
      <4> QED
        BY <1>3, <3>2, <4>3 DEF WalkInv
    <3> QED
      BY <3>1, <3>2
  <2>2. ASSUME NEW t \in SkillSources, NEW m \in 1 .. NNames
        PROVE  IF dirs'[t][m] \notin LeftOut /\ Walked(t, m)' THEN OneFate(sets'[t], t, m)
               ELSE NoFate(sets'[t], t, m)
    <3>1. IF dirs[t][m] \notin LeftOut /\ Walked(t, m) THEN OneFate(sets[t], t, m)
          ELSE NoFate(sets[t], t, m)
      BY DEF WalkInv
    <3>2. CASE t = s /\ m = n
      BY <1>4, <1>6, <1>7, <1>8, <1>12, <3>1, <3>2 DEF AddsFate
    <3>3. CASE t # s \/ found \in LeftOut
      BY <1>4, <1>6, <1>8, <1>12, <3>1, <3>2, <3>3
    <3>4. CASE t = s /\ m # n /\ found \notin LeftOut
      <4>1. /\ Here(sets'[t].skills, t, m) = Here(sets[t].skills, t, m)
            /\ Here(sets'[t].skipped, t, m) = Here(sets[t].skipped, t, m)
        BY <1>12, <3>4 DEF AddsFate
      <4> QED
        BY <1>4, <1>6, <3>1, <3>4, <4>1 DEF OneFate, NoFate
    <3> QED
      BY <3>2, <3>3, <3>4
  <2> QED
    BY <2>1, <2>2 DEF WalkInv
<1>15. \A t \in SkillSources, m \in 1 .. NNames : ~MergedDir(t, m)' /\ ~MergedSource(t)'
  BY <1>0, <1>2, <1>6 DEF MergedDir, MergedSource, Behind
<1>16. merged' = EmptySet /\ \A t, m : Here(merged'.skills, t, m) = {} /\ Here(merged'.skipped, t, m) = {}
  BY <1>3, <1>4 DEF MergeInv, EmptySet, Here
<1>17. MergeInv'
  BY <1>15, <1>16 DEF MergeInv, NoFate
<1>18. FirstInv'
  <2>1. merged'.skills = {}
    BY <1>16 DEF EmptySet
  <2>2. \A x \in sets'[1].skills : x.name \in 1 .. NNames
    BY <1>13, <1>2 DEF SkillTypes, SkillSet, SkillEntry
  <2> QED
    BY <1>2, <1>15, <2>1, <2>2 DEF FirstInv
<1> QED
  BY <1>4, <1>13, <1>14, <1>17, <1>18 DEF ServedInv

\* What is considered adds at most itself.
LEMMA ConsiderAddsOne ==
    ASSUME NEW set, Orderly(set), NEW sk \in SkillEntry
    PROVE  consider(set, sk).skills \subseteq set.skills \union {sk}
<1>1. set = [skills |-> set.skills, skipped |-> set.skipped]
  BY DEF Orderly, SkillSet
<1>2. \A why : Skip(set, sk, why).skills = set.skills
  BY <1>1 DEF Skip
<1>3. [set EXCEPT !.skills = set.skills \union {sk}].skills = set.skills \union {sk}
  BY <1>1
<1> QED
  BY <1>2, <1>3 DEF consider

\* A skill of the first set is admitted while it is the only one merged.
LEMMA FirstIsAdmitted ==
    ASSUME NEW set, Orderly(set), NEW first, Orderly(first), set.skills \subseteq first.skills,
           NEW sk \in first.skills, sk \notin set.skills
    PROVE  sk \in consider(set, sk).skills
<1>1. /\ set.skills \in SUBSET SkillEntry /\ IsFiniteSet(set.skills)
      /\ first.skills \in SUBSET SkillEntry /\ IsFiniteSet(first.skills) /\ sk \in SkillEntry
  BY DEF Orderly, SkillSet
<1>2. sk.name \notin Named(set)
  BY DEF Named, Orderly
<1>3. PICK with : with = set.skills \union {sk}
  OBVIOUS
<1>4. with \in SUBSET first.skills
  BY <1>3
<1>5. ~(Cardinality(set.skills) >= MaxSkills)
  <2>1. PICK c \in Nat : c = Cardinality(set.skills)
    BY <1>1, FS_CardinalityType
  <2>2. Cardinality(with) = c + 1
    BY ONLY <1>1, <1>3, <2>1, sk \notin set.skills, FS_AddElement
  <2>3. PICK d \in Nat : d = Cardinality(first.skills)
    BY <1>1, FS_CardinalityType
  <2>4. Cardinality(with) <= Cardinality(first.skills)
    BY ONLY <1>1, <1>4, FS_Subset
  <2>5. MaxSkills \in Nat /\ d <= MaxSkills
    BY <2>3, SkillAssumption DEF Orderly
  <2>6. ~(c >= MaxSkills)
    BY ONLY <2>2, <2>3, <2>4, <2>5, c \in Nat
  <2> QED
    BY ONLY <2>1, <2>6
<1>6. Fits(set, sk)
  <2>1. Cost(with) <= Cost(first.skills) /\ Cost(first.skills) \in Nat
    BY <1>1, <1>4, CostProperties
  <2>2. Cost(with) = Cost(set.skills) + sk.cost /\ Cost(set.skills) \in Nat
    BY <1>1, <1>3, CostProperties, sk \notin set.skills
  <2>3. MaxCatalog \in Nat /\ Cost(first.skills) <= MaxCatalog
    BY SkillAssumption DEF Orderly
  <2>4. Cost(set.skills) + sk.cost <= MaxCatalog
    <3>1. PICK a, b, c : /\ a = Cost(first.skills) /\ b = Cost(with)
                         /\ c = Cost(set.skills) + sk.cost /\ a \in Nat
      BY <2>1
    <3>2. b <= a /\ b = c /\ a <= MaxCatalog
      BY <2>1, <2>2, <2>3, <3>1
    <3>3. c \in Nat
      <4>1. sk.cost \in Nat
        BY <1>1 DEF SkillEntry
      <4> QED
        BY <2>2, <3>1, <4>1
    <3> QED
      BY <2>3, <3>1, <3>2, <3>3
  <2> QED
    BY <2>4 DEF Fits
<1>7. set = [skills |-> set.skills, skipped |-> set.skipped]
  BY DEF Orderly, SkillSet
<1> QED
  BY <1>2, <1>5, <1>6, <1>7 DEF consider

\* The merge gives the next skill its fate; the last step of a source adds what
\* that had skipped.
LEMMA MergeHolds == SkillIInv /\ MergeNext => SkillIInv'
<1> SUFFICES ASSUME SkillIInv, MergeNext PROVE SkillIInv'
  OBVIOUS
<1> USE DEF SkillIInv
<1>0. NNames \in Nat /\ NNames >= 1
  BY SkillAssumption
<1>1. PICK s, n : s = loading.source /\ n = loading.name
  OBVIOUS
<1>2. PICK k \in Nat : k = Len(TrustOf) /\ k >= 1 /\ SkillSources = 1 .. k
  BY SourcesAreSome
<1>3. s \in SkillSources /\ n \in 1 .. NNames /\ loading.phase = "merge"
  BY <1>1 DEF SkillTypes, MergeNext
<1>4. UNCHANGED <<dirs, sets, served>>
  BY DEF MergeNext
<1>5. \/ n < NNames /\ loading' = [loading EXCEPT !.name = n + 1]
      \/ ~(n < NNames) /\ s < Len(TrustOf)
            /\ loading' = [loading EXCEPT !.source = s + 1, !.name = 1]
      \/ ~(n < NNames) /\ ~(s < Len(TrustOf)) /\ loading' = [loading EXCEPT !.phase = "ready"]
  BY <1>1 DEF MergeNext
<1>6. /\ loading' \in [source : SkillSources, name : 1 .. NNames, phase : {"walk", "merge", "ready"}]
      /\ loading'.phase \in {"merge", "ready"}
      /\ loading'.phase = "merge" /\ loading'.source = 1 => s = 1
      /\ \A t \in SkillSources, m \in 1 .. NNames :
            MergedDir(t, m)' <=> MergedDir(t, m) \/ (t = s /\ m = n)
      /\ \A t \in SkillSources : MergedSource(t)' <=> MergedSource(t) \/ (t = s /\ n = NNames)
  <2>1. CASE ~(n < NNames) /\ ~(s < Len(TrustOf)) /\ loading' = [loading EXCEPT !.phase = "ready"]
    <3>0. loading = [source |-> s, name |-> n, phase |-> "merge"]
      BY <1>1, <1>3 DEF SkillTypes
    <3>1. loading' = [source |-> s, name |-> n, phase |-> "ready"]
      BY <2>1, <3>0
    <3>2. s = k /\ n = NNames
      <4>1. ~(n < NNames) /\ ~(s < k) /\ s \in 1 .. k
        BY <1>2, <1>3, <2>1
      <4> QED
        BY ONLY <4>1, <1>0, <1>3, k \in Nat
    <3>3. ASSUME NEW t \in SkillSources PROVE t < s \/ t = s
      BY ONLY <1>2, <3>2, <3>3
    <3>4. ASSUME NEW m \in 1 .. NNames PROVE m < n \/ m = n
      BY ONLY <1>0, <3>2, <3>4
    <3>5. loading'.phase = "ready"
      BY <3>1
    <3>6. \A t \in SkillSources, m \in 1 .. NNames : MergedDir(t, m)' /\ MergedSource(t)'
      BY <3>5 DEF MergedDir, MergedSource
    <3>7. \A t \in SkillSources, m \in 1 .. NNames : MergedDir(t, m) \/ (t = s /\ m = n)
      BY <1>1, <1>3, <3>3, <3>4 DEF MergedDir, Behind
    <3>8. \A t \in SkillSources : MergedSource(t) \/ (t = s /\ n = NNames)
      BY <1>1, <1>3, <3>2, <3>3 DEF MergedSource
    <3> QED
      BY <1>3, <3>1, <3>5, <3>6, <3>7, <3>8
  <2>2. CASE \/ n < NNames /\ loading' = [loading EXCEPT !.name = n + 1]
             \/ ~(n < NNames) /\ s < Len(TrustOf)
                   /\ loading' = [loading EXCEPT !.source = s + 1, !.name = 1]
    <3>1. /\ loading' \in [source : SkillSources, name : 1 .. NNames, phase : {"walk", "merge", "ready"}]
          /\ loading'.phase = "merge"
          /\ loading'.source = IF n < NNames THEN s ELSE s + 1
          /\ \A t \in SkillSources, m \in 1 .. NNames :
                Behind(t, m)' <=> Behind(t, m) \/ (t = s /\ m = n)
      <4>1. SkillTypes /\ s = loading.source /\ n = loading.name
        BY <1>1
      <4>2. /\ loading' \in [source : SkillSources, name : 1 .. NNames, phase : {"walk", "merge", "ready"}]
            /\ loading'.phase = loading.phase
            /\ loading'.source = IF n < NNames THEN s ELSE s + 1
            /\ \A t \in SkillSources, m \in 1 .. NNames :
                  Behind(t, m)' <=> Behind(t, m) \/ (t = s /\ m = n)
        BY ONLY <2>2, <4>1, Advances
      <4> QED
        BY ONLY <1>3, <4>2
    <3>2. \A t \in SkillSources, m \in 1 .. NNames :
             MergedDir(t, m)' <=> MergedDir(t, m) \/ (t = s /\ m = n)
      BY <1>3, <3>1 DEF MergedDir
    <3>3. CASE n < NNames
      <4>1. loading'.source = s
        BY <3>1, <3>3
      <4> QED
        BY <1>0, <1>1, <1>3, <3>1, <3>2, <3>3, <4>1 DEF MergedSource
    <3>4. CASE ~(n < NNames)
      <4>1. loading'.source = s + 1 /\ n = NNames
        BY <1>0, <1>3, <3>1, <3>4
      <4>2. ASSUME NEW t \in SkillSources PROVE t < s + 1 <=> (t < s \/ t = s)
        BY ONLY <1>2, <1>3, <4>2
      <4>3. s + 1 # 1
        BY ONLY <1>2, <1>3
      <4>4. \A t \in SkillSources : MergedSource(t)' <=> MergedSource(t) \/ (t = s /\ n = NNames)
        BY <1>1, <1>3, <3>1, <4>1, <4>2 DEF MergedSource
      <4> QED
        BY <3>1, <3>2, <4>1, <4>3, <4>4
    <3> QED
      BY <3>3, <3>4
  <2> QED
    BY <1>5, <2>1, <2>2
<1>7. /\ ~MergedDir(s, n) /\ ~MergedSource(s)
      /\ \A t \in SkillSources : MergedSource(t) => t # s
  BY <1>0, <1>1, <1>2, <1>3 DEF MergedDir, MergedSource, Behind
<1>8. PICK mine : mine = {sk \in sets[s].skills : sk.name = n}
  OBVIOUS
<1>9. mine = Here(sets[s].skills, s, n)
  BY <1>3, <1>8 DEF WalkInv, Here
<1>10. PICK with : with = IF mine = {} THEN merged ELSE consider(merged, CHOOSE sk \in mine : TRUE)
  OBVIOUS
<1>11. merged' = IF n < NNames THEN with ELSE [with EXCEPT !.skipped = with.skipped \union sets[s].skipped]
  BY <1>1, <1>8, <1>10 DEF MergeNext
<1>12. Orderly(sets[s]) /\ Orderly(merged) /\ sets[s].skills \in SUBSET SkillEntry
       /\ sets[s].skipped \in SUBSET Refusal
  BY <1>3 DEF SkillTypes, Orderly, SkillSet
<1>13. mine # {} => \E sk \in mine : mine = {sk} /\ with = consider(merged, sk) /\ sk \in SkillEntry
                                      /\ sk.source = s /\ sk.name = n
  <2> SUFFICES ASSUME mine # {}
               PROVE  \E sk \in mine : mine = {sk} /\ with = consider(merged, sk) /\ sk \in SkillEntry
                                      /\ sk.source = s /\ sk.name = n
    OBVIOUS
  <2>1. PICK sk : sk = CHOOSE x \in mine : TRUE
    OBVIOUS
  <2>2. sk \in mine
    BY <2>1
  <2>3. sk \in sets[s].skills /\ sk.source = s /\ sk.name = n /\ sk \in SkillEntry
    BY <1>9, <1>12, <2>2 DEF Here
  <2>4. \A x \in mine : x = sk
    BY <1>8, <1>12, <2>2 DEF Orderly
  <2>5. mine = {sk}
    BY <2>2, <2>4
  <2>6. with = consider(merged, sk)
    BY <1>10, <2>1
  <2> QED
    BY <2>2, <2>3, <2>5, <2>6
<1>14. /\ Orderly(with) /\ merged.skills \subseteq with.skills
       /\ \A t, m : t # s \/ m # n \/ mine = {} =>
             /\ Here(with.skills, t, m) = Here(merged.skills, t, m)
             /\ Here(with.skipped, t, m) = Here(merged.skipped, t, m)
       /\ mine # {} => OneFate(with, s, n)
  <2>1. CASE mine = {}
    BY <1>10, <1>12, <2>1
  <2>2. CASE mine # {}
    <3>1. PICK sk \in mine : /\ with = consider(merged, sk) /\ sk \in SkillEntry
                             /\ sk.source = s /\ sk.name = n
      BY <1>13, <2>2
    <3>2. NoFate(merged, s, n)
      BY <1>3, <1>7, <1>9, <2>2 DEF MergeInv
    <3>3. AddsFate(with, merged, s, n)
      BY <1>12, <3>1, <3>2, ConsiderAdds
    <3> QED
      BY <2>2, <3>3 DEF AddsFate
  <2> QED
    BY <2>1, <2>2
<1>15. /\ merged' \in SkillSet /\ merged'.skills = with.skills
       /\ n < NNames => merged'.skipped = with.skipped
       /\ ~(n < NNames) => merged'.skipped = with.skipped \union sets[s].skipped
  <2>1. with \in SkillSet /\ with = [skills |-> with.skills, skipped |-> with.skipped]
        /\ with.skipped \in SUBSET Refusal /\ with.skills \in SUBSET SkillEntry
    BY <1>14 DEF Orderly, SkillSet
  <2>2. CASE n < NNames
    BY <1>11, <2>1, <2>2
  <2>3. CASE ~(n < NNames)
    <3>1. merged' = [skills |-> with.skills, skipped |-> with.skipped \union sets[s].skipped]
      BY <1>11, <2>1, <2>3
    <3> QED
      BY <1>12, <2>1, <2>3, <3>1 DEF SkillSet
  <2> QED
    BY <2>2, <2>3
<1>16. SkillTypes'
  <2>1. Orderly(merged')
    BY <1>14, <1>15 DEF Orderly
  <2> QED
    BY <1>4, <1>6, <2>1 DEF SkillTypes
<1>17. WalkInv'
  <2>1. \A t, m : Walked(t, m) /\ Walked(t, m)'
    BY <1>3, <1>6 DEF Walked
  <2> QED
    BY <1>4, <2>1 DEF WalkInv
<1>18. /\ \A t, m : Here(merged'.skills, t, m) = Here(with.skills, t, m)
       /\ \A t, m : (t # s \/ n < NNames) => Here(merged'.skipped, t, m) = Here(with.skipped, t, m)
       /\ ~(n < NNames) =>
            \A m : Here(merged'.skipped, s, m) = Here(with.skipped, s, m) \union Here(sets[s].skipped, s, m)
  <2>1. \A x \in sets[s].skipped : x.source = s
    BY <1>3 DEF WalkInv
  <2> QED
    BY <1>15, <2>1 DEF Here
<1>19. MergeInv'
  <2>1. ASSUME NEW t \in SkillSources, NEW m \in 1 .. NNames
        PROVE  IF Here(sets'[t].skills, t, m) = {}
               THEN /\ Here(merged'.skills, t, m) = {}
                    /\ MergedSource(t)' => Here(merged'.skipped, t, m) = Here(sets'[t].skipped, t, m)
                    /\ ~MergedSource(t)' => Here(merged'.skipped, t, m) = {}
               ELSE IF MergedDir(t, m)' THEN OneFate(merged', t, m) ELSE NoFate(merged', t, m)
    <3>1. CASE Here(sets[t].skills, t, m) = {}
      <4>1. /\ Here(merged.skills, t, m) = {}
            /\ MergedSource(t) => Here(merged.skipped, t, m) = Here(sets[t].skipped, t, m)
            /\ ~MergedSource(t) => Here(merged.skipped, t, m) = {}
        BY <3>1 DEF MergeInv
      <4>2. t # s \/ m # n \/ mine = {}
        BY <1>9, <3>1
      <4>3. /\ Here(with.skills, t, m) = Here(merged.skills, t, m)
            /\ Here(with.skipped, t, m) = Here(merged.skipped, t, m)
        BY <1>14, <4>2
      <4>4. CASE t = s /\ ~(n < NNames)
        <5>1. n = NNames
          BY <1>0, <1>3, <4>4
        <5>2. ~MergedSource(t) /\ MergedSource(t)'
          BY ONLY <1>3, <1>6, <1>7, <4>4, <5>1
        <5>3. /\ Here(merged'.skills, t, m) = Here(with.skills, t, m)
              /\ Here(merged'.skipped, t, m) = Here(with.skipped, t, m) \union Here(sets[t].skipped, t, m)
          BY ONLY <1>18, <4>4
        <5>4. Here(with.skipped, t, m) = {}
          BY ONLY <4>1, <4>3, <5>2
        <5>5. Here(merged'.skills, t, m) = {} /\ Here(merged'.skipped, t, m) = Here(sets[t].skipped, t, m)
          BY ONLY <4>1, <4>3, <5>3, <5>4
        <5> QED
          BY <1>4, <3>1, <5>2, <5>5
      <4>5. CASE t # s \/ n < NNames
        <5>1. MergedSource(t)' <=> MergedSource(t)
          BY <1>0, <1>3, <1>6, <4>5
        <5>2. Here(merged'.skills, t, m) = {} /\ Here(merged'.skipped, t, m) = Here(merged.skipped, t, m)
          BY ONLY <1>18, <4>1, <4>3, <4>5
        <5>3. /\ MergedSource(t)' => Here(merged'.skipped, t, m) = Here(sets[t].skipped, t, m)
              /\ ~MergedSource(t)' => Here(merged'.skipped, t, m) = {}
          BY ONLY <4>1, <5>1, <5>2
        <5> QED
          BY <1>4, <3>1, <5>2, <5>3
      <4> QED
        BY <4>4, <4>5
    <3>2. CASE Here(sets[t].skills, t, m) # {}
      <4>1. Here(sets[t].skipped, t, m) = {}
        BY <3>2 DEF WalkInv, OneFate, NoFate
      <4>2. /\ Here(merged'.skills, t, m) = Here(with.skills, t, m)
            /\ Here(merged'.skipped, t, m) = Here(with.skipped, t, m)
        <5>1. CASE t # s \/ n < NNames
          BY ONLY <1>18, <5>1
        <5>2. CASE t = s /\ ~(n < NNames)
          <6>1. /\ Here(merged'.skills, t, m) = Here(with.skills, t, m)
                /\ Here(merged'.skipped, t, m) = Here(with.skipped, t, m) \union Here(sets[t].skipped, t, m)
            BY ONLY <1>18, <5>2
          <6> QED
            BY ONLY <4>1, <6>1
        <5> QED
          BY ONLY <5>1, <5>2
      <4>3. CASE t = s /\ m = n
        BY <1>4, <1>6, <1>9, <1>14, <3>2, <4>2, <4>3 DEF OneFate
      <4>4. CASE t # s \/ m # n
        <5>1. /\ Here(with.skills, t, m) = Here(merged.skills, t, m)
              /\ Here(with.skipped, t, m) = Here(merged.skipped, t, m)
          BY <1>14, <4>4
        <5>2. IF MergedDir(t, m) THEN OneFate(merged, t, m) ELSE NoFate(merged, t, m)
          BY <3>2 DEF MergeInv
        <5>3. MergedDir(t, m)' <=> MergedDir(t, m)
          BY <1>6, <4>4
        <5>4. OneFate(merged, t, m) => OneFate(merged', t, m)
          BY <4>2, <5>1 DEF OneFate
        <5>5. NoFate(merged, t, m) => NoFate(merged', t, m)
          BY <4>2, <5>1 DEF NoFate
        <5> QED
          BY <1>4, <3>2, <5>2, <5>3, <5>4, <5>5
      <4> QED
        BY <4>3, <4>4
    <3> QED
      BY <3>1, <3>2
  <2>2. loading'.phase # "walk"
    BY <1>6
  <2> QED
    BY <2>1, <2>2 DEF MergeInv
<1>20. FirstInv'
  <2>1. ASSUME loading'.phase = "merge", loading'.source = 1 PROVE merged'.skills \subseteq sets'[1].skills
    <3>1. s = 1 /\ merged.skills \subseteq sets[1].skills
      BY <1>1, <1>3, <1>6, <2>1 DEF FirstInv
    <3>2. with.skills \subseteq merged.skills \union mine
      <4>1. CASE mine = {}
        BY <1>10, <4>1
      <4>2. CASE mine # {}
        BY <1>12, <1>13, <4>2, ConsiderAddsOne
      <4> QED
        BY <4>1, <4>2
    <3> QED
      BY <1>4, <1>8, <1>15, <3>1, <3>2
  <2>2. ASSUME NEW x \in sets'[1].skills, MergedDir(1, x.name)' PROVE x \in merged'.skills
    <3>0. 1 \in SkillSources /\ x \in sets[1].skills /\ x.name \in 1 .. NNames
      BY <1>2, <1>4 DEF SkillTypes, SkillSet, SkillEntry
    <3>1. CASE MergedDir(1, x.name)
      BY <1>14, <1>15, <3>0, <3>1 DEF FirstInv
    <3>2. CASE s = 1 /\ x.name = n /\ ~MergedDir(1, x.name)
      <4>1. x \in mine
        BY <1>8, <3>0, <3>2
      <4>2. with = consider(merged, x)
        BY <1>13, <4>1
      <4>3. merged.skills \subseteq sets[s].skills
        BY <1>1, <1>3, <3>2 DEF FirstInv
      <4>4. NoFate(merged, s, n)
        BY <1>3, <1>7, <1>9, <4>1 DEF MergeInv
      <4>5. x \notin merged.skills
        BY <1>9, <4>1, <4>4 DEF NoFate, Here
      <4>6. x \in with.skills
        BY <1>12, <3>0, <3>2, <4>2, <4>3, <4>5, FirstIsAdmitted
      <4> QED
        BY <1>15, <4>6
    <3> QED
      BY <1>6, <2>2, <3>0, <3>1, <3>2
  <2> QED
    BY <2>1, <2>2 DEF FirstInv
<1> QED
  BY <1>4, <1>16, <1>17, <1>19, <1>20 DEF ServedInv

\* The tools read.
LEMMA LoadedStays ==
    ASSUME SkillIInv, UNCHANGED <<dirs, loading, sets, merged>>
    PROVE  SkillTypes' /\ WalkInv' /\ MergeInv' /\ FirstInv'
<1>1. UNCHANGED dirs /\ UNCHANGED loading /\ UNCHANGED sets /\ UNCHANGED merged
  OBVIOUS
<1>2. \A s, n : /\ Walked(s, n)' <=> Walked(s, n)
                /\ MergedDir(s, n)' <=> MergedDir(s, n)
                /\ MergedSource(s)' <=> MergedSource(s)
  BY <1>1 DEF Walked, MergedDir, MergedSource, Behind
<1>3. SkillTypes'
  BY <1>1 DEF SkillIInv, SkillTypes
<1>4. WalkInv'
  BY <1>1, <1>2 DEF SkillIInv, WalkInv
<1>5. MergeInv'
  BY <1>1, <1>2 DEF SkillIInv, MergeInv
<1>6. FirstInv'
  BY <1>1, <1>2 DEF SkillIInv, FirstInv
<1> QED
  BY <1>3, <1>4, <1>5, <1>6

LEMMA ActivateHolds ==
    ASSUME SkillIInv, NEW t \in {"read_skill", "read_skill_untrusted", "read_skill_file"},
           NEW n \in 1 .. NNames, Activate(t, n)
    PROVE  SkillIInv'
<1>1. UNCHANGED <<dirs, loading, sets, merged>>
  BY DEF Activate
<1>2. SkillTypes' /\ WalkInv' /\ MergeInv' /\ FirstInv'
  BY <1>1, LoadedStays
<1>3. PICK got : /\ got = IF t = "read_skill_file" THEN readSkillFile(n) ELSE readSkill(t, n)
                 /\ served' = {[tool |-> t, skill |-> sk] : sk \in got}
  BY DEF Activate
<1>4. t = "read_skill" => \A sk \in got : sk.trust = "trusted"
  BY <1>3 DEF readSkill
<1>5. \A x \in served' : \E sk \in got : x = [tool |-> t, skill |-> sk]
  BY <1>3
<1>6. ServedInv'
  BY <1>4, <1>5 DEF ServedInv
<1> QED
  BY <1>2, <1>6 DEF SkillIInv

THEOREM SkillsInvariant == SkillSpec => []SkillIInv
<1>1. ASSUME SkillIInv, [SkillNext]_skillVars PROVE SkillIInv'
  <2>1. CASE WalkDir
    BY <1>1, <2>1, WalkHolds
  <2>2. CASE MergeNext
    BY <1>1, <2>2, MergeHolds
  <2>3. ASSUME NEW t \in {"read_skill", "read_skill_untrusted", "read_skill_file"},
               NEW n \in 1 .. NNames, Activate(t, n)
        PROVE  SkillIInv'
    BY <1>1, <2>3, ActivateHolds
  <2>4. CASE UNCHANGED skillVars
    <3>1. SkillTypes' /\ WalkInv' /\ MergeInv' /\ FirstInv'
      BY <1>1, <2>4, LoadedStays DEF skillVars
    <3>2. ServedInv'
      BY <1>1, <2>4 DEF skillVars, SkillIInv, ServedInv
    <3> QED
      BY <3>1, <3>2 DEF SkillIInv
  <2> QED
    BY <1>1, <2>1, <2>2, <2>3, <2>4 DEF SkillNext
<1> QED
  BY <1>1, SkillInitHolds, PTL DEF SkillSpec

LEMMA SkillIInvAccounts == SkillIInv => SkillsAreAccounted
<1> SUFFICES ASSUME SkillIInv, loading.phase = "ready" PROVE SkillsAreAccounted
  BY DEF SkillsAreAccounted
<1> USE DEF SkillIInv
<1>1. \A s \in SkillSources, n \in 1 .. NNames : Walked(s, n) /\ MergedDir(s, n) /\ MergedSource(s)
  BY DEF Walked, MergedDir, MergedSource
<1>2. ASSUME NEW s \in SkillSources, NEW n \in 1 .. NNames, dirs[s][n] \notin LeftOut
      PROVE  Cardinality(Here(merged.skills, s, n)) + Cardinality(Here(merged.skipped, s, n)) = 1
  <2>1. OneFate(sets[s], s, n)
    BY <1>1, <1>2 DEF WalkInv
  <2>2. OneFate(merged, s, n)
    <3>1. CASE Here(sets[s].skills, s, n) # {}
      BY <1>1, <3>1 DEF MergeInv
    <3>2. CASE Here(sets[s].skills, s, n) = {}
      <4>1. Here(merged.skills, s, n) = {} /\ Here(merged.skipped, s, n) = Here(sets[s].skipped, s, n)
        BY <1>1, <3>2 DEF MergeInv
      <4> QED
        BY <2>1, <3>2, <4>1 DEF OneFate
    <3> QED
      BY <3>1, <3>2
  <2>3. PICK a, b, x : /\ a = Here(merged.skills, s, n) /\ b = Here(merged.skipped, s, n)
                       /\ (a = {x} /\ b = {}) \/ (a = {} /\ b = {x})
    BY <2>2 DEF OneFate
  <2>4. Cardinality({x}) = 1 /\ Cardinality({}) = 0
    BY FS_Singleton, FS_EmptySet
  <2>5. Cardinality(a) + Cardinality(b) = 1
    <3>1. CASE a = {x} /\ b = {}
      <4>1. Cardinality(a) = 1 /\ Cardinality(b) = 0
        BY ONLY <3>1, <2>4
      <4> QED
        BY ONLY <4>1
    <3>2. CASE a = {} /\ b = {x}
      <4>1. Cardinality(a) = 0 /\ Cardinality(b) = 1
        BY ONLY <3>2, <2>4
      <4> QED
        BY ONLY <4>1
    <3> QED
      BY ONLY <3>1, <3>2, <2>3
  <2> QED
    BY <2>3, <2>5
<1>3. ASSUME NEW c \in Candidates PROVE Cardinality(Admitted(c)) + Cardinality(Rejected(c)) = 1
  <2>1. c[1] \in SkillSources /\ c[2] \in 1 .. NNames /\ dirs[c[1]][c[2]] \notin LeftOut
    BY DEF Candidates, Directories
  <2>2. Admitted(c) = Here(merged.skills, c[1], c[2]) /\ Rejected(c) = Here(merged.skipped, c[1], c[2])
    BY DEF Admitted, Rejected, Here
  <2> QED
    BY <1>2, <2>1, <2>2
<1>4. \A sk \in sets[1].skills : sk \in merged.skills
  <2>1. \A x : MergedDir(1, x)
    BY DEF MergedDir
  <2> QED
    BY <2>1 DEF FirstInv
<1>5. ASSUME NEW c \in Directories \ Candidates PROVE Admitted(c) = {} /\ Rejected(c) = {}
  <2>1. PICK s \in SkillSources, n \in 1 .. NNames : s = c[1] /\ n = c[2] /\ dirs[s][n] \in LeftOut
    BY DEF Candidates, Directories
  <2>2. NoFate(sets[s], s, n)
    BY <2>1 DEF WalkInv
  <2>3. Here(merged.skills, s, n) = {} /\ Here(merged.skipped, s, n) = {}
    BY <1>1, <2>2 DEF MergeInv, NoFate
  <2> QED
    BY <2>1, <2>3 DEF Admitted, Rejected, Here
<1> QED
  BY <1>3, <1>4, <1>5 DEF SkillsAreAccounted, SkillTypes, Orderly, ServedInv

(* Nothing disappears and nothing is over budget: whatever the sources     *)
(* hold and however many they are, a merged catalog has every directory    *)
(* the walk did not turn away from once, as a skill or as skipped, and no  *)
(* trace of the others; one skill under a name, all of the first source,   *)
(* within its limits (walk, admit, consider, Merge).                       *)
THEOREM SkillsAreAccountedHolds == SkillSpec => []SkillsAreAccounted
BY SkillsInvariant, SkillIInvAccounts, PTL

-----------------------------------------------------------------------------
(***************************************************************************)
(* Permission rules: the walk over a glob and a text finds what the glob   *)
(* means, whatever the two are, where the text has no "*" in it.           *)
(***************************************************************************)

\* The glob from position g on stands for the text from position t on.
StandsFor(glob, text, g, t) ==
    \E cut \in [g .. Len(glob) -> 0 .. Len(text)] :
        /\ cut[g] = t /\ cut[Len(glob)] = Len(text)
        /\ \A h \in g .. Len(glob) - 1 : CharAt(glob, h) # "*" =>
              cut[h + 1] = cut[h] + 1 /\ CharAt(glob, h) \in {"?", CharAt(text, cut[h])}
        /\ \A h, i \in g .. Len(glob) : h <= i => cut[h] <= cut[i]

Matches(glob, text, g, t) == CharAt(glob, g) \in {"?", CharAt(text, t)}

LEMMA MeansStandsFor ==
    ASSUME NEW glob \in Seq(STRING), NEW text \in Seq(STRING)
    PROVE  Means(glob, text) <=> StandsFor(glob, text, 0, 0)
BY DEF Means, StandsFor

LEMMA StandsForEnd ==
    ASSUME NEW glob \in Seq(STRING), NEW text \in Seq(STRING), NEW t \in 0 .. Len(text)
    PROVE  StandsFor(glob, text, Len(glob), t) <=> t = Len(text)
<1>1. PICK G \in Nat, T \in Nat : G = Len(glob) /\ T = Len(text)
  OBVIOUS
<1>2. ASSUME t = T PROVE StandsFor(glob, text, G, t)
  <2>1. PICK cut : cut = [h \in G .. G |-> T]
    OBVIOUS
  <2>2. cut \in [G .. G -> 0 .. T] /\ \A h \in G .. G : cut[h] = T
    BY <1>1, <2>1
  <2>3. G .. G - 1 = {} /\ G \in G .. G
    BY ONLY G \in Nat
  <2> QED
    BY <1>1, <1>2, <2>2, <2>3 DEF StandsFor
<1>3. ASSUME StandsFor(glob, text, G, t) PROVE t = T
  BY <1>1, <1>3 DEF StandsFor
<1> QED
  BY <1>1, <1>2, <1>3

\* A cut without its first piece, and a cut with one piece more.
LEMMA StandsForStep ==
    ASSUME NEW glob \in Seq(STRING), NEW text \in Seq(STRING),
           NEW g \in 0 .. Len(glob) - 1, NEW t \in 0 .. Len(text)
    PROVE  StandsFor(glob, text, g, t) <=>
              \E u \in t .. Len(text) :
                 /\ StandsFor(glob, text, g + 1, u)
                 /\ CharAt(glob, g) # "*" => u = t + 1 /\ Matches(glob, text, g, t)
<1>1. PICK G \in Nat, T \in Nat : G = Len(glob) /\ T = Len(text)
  OBVIOUS
<1>0. g \in Nat /\ t \in Nat /\ g + 1 <= G /\ t <= T /\ g + 1 \in Nat
  BY <1>1
<1>2. ASSUME StandsFor(glob, text, g, t)
      PROVE  \E u \in t .. T :
                /\ StandsFor(glob, text, g + 1, u)
                /\ CharAt(glob, g) # "*" => u = t + 1 /\ Matches(glob, text, g, t)
  <2>1. PICK cut \in [g .. G -> 0 .. T] :
           /\ cut[g] = t /\ cut[G] = T
           /\ \A h \in g .. G - 1 : CharAt(glob, h) # "*" =>
                 cut[h + 1] = cut[h] + 1 /\ CharAt(glob, h) \in {"?", CharAt(text, cut[h])}
           /\ \A h, i \in g .. G : h <= i => cut[h] <= cut[i]
    BY <1>1, <1>2 DEF StandsFor
  <2>2. PICK rest : rest = [h \in g + 1 .. G |-> cut[h]]
    OBVIOUS
  <2>3. rest \in [g + 1 .. G -> 0 .. T] /\ \A h \in g + 1 .. G : rest[h] = cut[h]
    BY <1>0, <2>2
  <2>4. g \in g .. G /\ g + 1 \in g .. G /\ g + 1 \in g + 1 .. G /\ G \in g + 1 .. G /\ g <= g + 1
    BY ONLY <1>0, G \in Nat
  <2>5. rest[g + 1] \in t .. T
    <3>1. rest[g + 1] = cut[g + 1] /\ cut[g + 1] \in 0 .. T /\ cut[g] <= cut[g + 1]
      BY <2>1, <2>3, <2>4
    <3> QED
      BY ONLY <1>0, <2>1, <3>1, T \in Nat
  <2>6. ASSUME NEW h \in g + 1 .. G - 1
        PROVE  h \in g .. G - 1 /\ h \in g + 1 .. G /\ h + 1 \in g + 1 .. G
    BY ONLY <1>0, <2>6, G \in Nat
  <2>7. ASSUME NEW h \in g + 1 .. G PROVE h \in g .. G
    BY ONLY <1>0, <2>7, G \in Nat
  <2>8. rest[G] = T
    BY <2>1, <2>3, <2>4
  <2>9. \A h \in g + 1 .. G - 1 : CharAt(glob, h) # "*" =>
           rest[h + 1] = rest[h] + 1 /\ CharAt(glob, h) \in {"?", CharAt(text, rest[h])}
    BY <2>1, <2>3, <2>6
  <2>10. \A h, i \in g + 1 .. G : h <= i => rest[h] <= rest[i]
    BY <2>1, <2>3, <2>7
  <2>11. StandsFor(glob, text, g + 1, rest[g + 1])
    BY <1>1, <2>3, <2>8, <2>9, <2>10 DEF StandsFor
  <2>12. CharAt(glob, g) # "*" => rest[g + 1] = t + 1 /\ Matches(glob, text, g, t)
    <3>1. g \in g .. G - 1 /\ rest[g + 1] = cut[g + 1]
      BY ONLY <1>0, <2>3, <2>4, G \in Nat
    <3> QED
      BY <2>1, <3>1 DEF Matches
  <2> QED
    BY <2>5, <2>11, <2>12
<1>3. ASSUME NEW u \in t .. T, StandsFor(glob, text, g + 1, u),
             CharAt(glob, g) # "*" => u = t + 1 /\ Matches(glob, text, g, t)
      PROVE  StandsFor(glob, text, g, t)
  <2>1. PICK cut \in [g + 1 .. G -> 0 .. T] :
           /\ cut[g + 1] = u /\ cut[G] = T
           /\ \A h \in g + 1 .. G - 1 : CharAt(glob, h) # "*" =>
                 cut[h + 1] = cut[h] + 1 /\ CharAt(glob, h) \in {"?", CharAt(text, cut[h])}
           /\ \A h, i \in g + 1 .. G : h <= i => cut[h] <= cut[i]
    BY <1>1, <1>3 DEF StandsFor
  <2>2. PICK all : all = [h \in g .. G |-> IF h = g THEN t ELSE cut[h]]
    OBVIOUS
  <2>3. ASSUME NEW h \in g .. G PROVE h = g \/ (h # g /\ h \in g + 1 .. G)
    BY ONLY <1>0, <2>3, G \in Nat
  <2>4. all \in [g .. G -> 0 .. T] /\ all[g] = t /\ \A h \in g + 1 .. G : all[h] = cut[h]
    <3>1. \A h \in g + 1 .. G : h \in g .. G /\ h # g
      BY ONLY <1>0, G \in Nat
    <3>2. g \in g .. G
      BY ONLY <1>0, G \in Nat
    <3> QED
      BY <1>1, <2>2, <2>3, <3>1, <3>2
  <2>5. g + 1 \in g + 1 .. G /\ G \in g + 1 .. G
    BY ONLY <1>0, G \in Nat
  <2>6. all[G] = T
    BY <2>1, <2>4, <2>5
  <2>7. \A h \in g .. G - 1 : CharAt(glob, h) # "*" =>
           all[h + 1] = all[h] + 1 /\ CharAt(glob, h) \in {"?", CharAt(text, all[h])}
    <3> SUFFICES ASSUME NEW h \in g .. G - 1, CharAt(glob, h) # "*"
                 PROVE  all[h + 1] = all[h] + 1 /\ CharAt(glob, h) \in {"?", CharAt(text, all[h])}
      OBVIOUS
    <3>1. CASE h = g
      BY <1>3, <2>1, <2>4, <2>5, <3>1 DEF Matches
    <3>2. CASE h # g
      <4>1. h \in g + 1 .. G - 1 /\ h \in g + 1 .. G /\ h + 1 \in g + 1 .. G
        BY ONLY <1>0, <3>2, h \in g .. G - 1, G \in Nat
      <4> QED
        BY <2>1, <2>4, <4>1
    <3> QED
      BY <3>1, <3>2
  <2>8. \A h, i \in g .. G : h <= i => all[h] <= all[i]
    <3> SUFFICES ASSUME NEW h \in g .. G, NEW i \in g .. G, h <= i PROVE all[h] <= all[i]
      OBVIOUS
    <3>1. CASE h # g
      <4>1. i # g
        BY ONLY <1>0, <3>1, h \in g .. G, i \in g .. G, h <= i, G \in Nat
      <4>2. h \in g + 1 .. G /\ i \in g + 1 .. G
        BY ONLY <2>3, <3>1, <4>1, h \in g .. G, i \in g .. G
      <4> QED
        BY <2>1, <2>4, <4>2
    <3>2. CASE h = g /\ i = g
      BY <1>0, <2>4, <3>2
    <3>3. CASE h = g /\ i # g
      <4>1. i \in g + 1 .. G /\ g + 1 <= i
        BY ONLY <1>0, <3>3, i \in g .. G, G \in Nat
      <4>2. all[h] = t /\ all[i] = cut[i] /\ cut[g + 1] <= cut[i] /\ cut[i] \in 0 .. T
        BY <2>1, <2>4, <2>5, <3>3, <4>1
      <4> QED
        BY ONLY <1>0, <2>1, <4>2, u \in t .. T, T \in Nat
    <3> QED
      BY <3>1, <3>2, <3>3
  <2> QED
    BY <1>1, <2>4, <2>6, <2>7, <2>8 DEF StandsFor
<1> QED
  BY <1>1, <1>2, <1>3

LEMMA StandsForStar ==
    ASSUME NEW glob \in Seq(STRING), NEW text \in Seq(STRING),
           NEW g \in 0 .. Len(glob) - 1, NEW t \in 0 .. Len(text), CharAt(glob, g) = "*"
    PROVE  StandsFor(glob, text, g, t) <=> \E u \in t .. Len(text) : StandsFor(glob, text, g + 1, u)
BY StandsForStep

LEMMA StandsForChar ==
    ASSUME NEW glob \in Seq(STRING), NEW text \in Seq(STRING),
           NEW g \in 0 .. Len(glob) - 1, NEW t \in 0 .. Len(text), CharAt(glob, g) # "*"
    PROVE  StandsFor(glob, text, g, t) <=>
              t < Len(text) /\ Matches(glob, text, g, t) /\ StandsFor(glob, text, g + 1, t + 1)
<1>1. PICK T \in Nat : T = Len(text) /\ t \in 0 .. T
  OBVIOUS
<1>2. t + 1 \in t .. T <=> t < T
  BY ONLY <1>1
<1>3. StandsFor(glob, text, g, t) <=>
         \E u \in t .. T : StandsFor(glob, text, g + 1, u) /\ u = t + 1 /\ Matches(glob, text, g, t)
  BY <1>1, StandsForStep
<1> QED
  BY ONLY <1>1, <1>2, <1>3

\* At the end of the text only stars stand for what is left.
LEMMA StandsForNothing ==
    ASSUME NEW glob \in Seq(STRING), NEW text \in Seq(STRING), NEW g \in 0 .. Len(glob)
    PROVE  StandsFor(glob, text, g, Len(text)) <=> StarsFrom(glob, g)
<1>1. PICK G \in Nat, T \in Nat : G = Len(glob) /\ T = Len(text)
  OBVIOUS
<1>2. ASSUME StarsFrom(glob, g) PROVE StandsFor(glob, text, g, T)
  <2>1. PICK cut : cut = [h \in g .. G |-> T]
    OBVIOUS
  <2>2. cut \in [g .. G -> 0 .. T] /\ \A h \in g .. G : cut[h] = T
    BY <1>1, <2>1
  <2>3. g \in g .. G /\ G \in g .. G
    BY ONLY <1>1, g \in 0 .. Len(glob)
  <2>4. \A h \in g .. G - 1 : CharAt(glob, h) = "*"
    BY <1>1, <1>2 DEF StarsFrom
  <2>5. \A h, i \in g .. G : cut[h] <= cut[i]
    BY <1>1, <2>2
  <2> QED
    BY <1>1, <2>2, <2>3, <2>4, <2>5 DEF StandsFor
<1>3. ASSUME StandsFor(glob, text, g, T) PROVE StarsFrom(glob, g)
  <2>1. PICK cut \in [g .. G -> 0 .. T] :
           /\ cut[g] = T
           /\ \A h \in g .. G - 1 : CharAt(glob, h) # "*" => cut[h + 1] = cut[h] + 1
           /\ \A h, i \in g .. G : h <= i => cut[h] <= cut[i]
    BY <1>1, <1>3 DEF StandsFor
  <2>2. ASSUME NEW h \in g .. G PROVE cut[h] = T
    <3>1. g \in g .. G /\ g <= h
      BY ONLY <1>1, g \in 0 .. Len(glob), h \in g .. G
    <3>2. cut[h] \in 0 .. T /\ T <= cut[h]
      BY <2>1, <3>1
    <3> QED
      BY ONLY <3>2, T \in Nat
  <2>3. ASSUME NEW h \in g .. G - 1, CharAt(glob, h) # "*" PROVE FALSE
    <3>1. h \in g .. G /\ h + 1 \in g .. G
      BY ONLY <1>1, g \in 0 .. Len(glob), h \in g .. G - 1
    <3>2. T = T + 1
      BY <2>1, <2>2, <2>3, <3>1
    <3> QED
      BY ONLY <3>2, T \in Nat
  <2> QED
    BY <1>1, <2>3 DEF StarsFrom
<1> QED
  BY <1>1, <1>2, <1>3

\* A place the walk may be in, and one it stays in.
Places(glob, text) ==
    [pi : 0 .. Len(glob), si : 0 .. Len(text), star : -1 .. Len(glob) - 1, mark : 0 .. Len(text)]
Stays(glob, text, at) ==
    \/ at.si = Len(text)
    \/ /\ ~Literal(glob, text, at.pi, at.si) /\ at.star < 0
       /\ ~(at.pi < Len(glob) /\ CharAt(glob, at.pi) = "*")

\* What the walk knows: without a star, the rest of the glob decides; with one,
\* what follows the star does, from the mark on, and that stands for a stretch
\* of the text only if the rest stands for what is left of it.
Knows(glob, text, pi, si, star, mark) ==
    /\ star < pi /\ mark <= si
    /\ star = -1 => (Means(glob, text) <=> StandsFor(glob, text, pi, si))
    /\ star >= 0 =>
          /\ Means(glob, text) <=> \E u \in mark .. Len(text) : StandsFor(glob, text, star + 1, u)
          /\ \A u \in mark .. Len(text) : StandsFor(glob, text, star + 1, u) =>
                u + (si - mark) <= Len(text) /\ StandsFor(glob, text, pi, u + (si - mark))
          /\ StandsFor(glob, text, pi, si) => StandsFor(glob, text, star + 1, mark)

Plain(text) == \A i \in 1 .. Len(text) : text[i] # "*"

LEMMA KnowsAfterLiteral ==
    ASSUME NEW glob \in Seq(STRING), NEW text \in Seq(STRING), Plain(text),
           NEW pi \in 0 .. Len(glob), NEW si \in 0 .. Len(text),
           NEW star \in -1 .. Len(glob) - 1, NEW mark \in 0 .. Len(text),
           Knows(glob, text, pi, si, star, mark), si # Len(text), Literal(glob, text, pi, si)
    PROVE  /\ pi + 1 \in 0 .. Len(glob) /\ si + 1 \in 0 .. Len(text)
           /\ Knows(glob, text, pi + 1, si + 1, star, mark)
<1>1. PICK G \in Nat, T \in Nat : /\ G = Len(glob) /\ T = Len(text)
                                 /\ pi \in 0 .. G /\ si \in 0 .. T
                                 /\ star \in -1 .. G - 1 /\ mark \in 0 .. T /\ si # T
  OBVIOUS
<1>2. pi < G /\ CharAt(glob, pi) # "*" /\ Matches(glob, text, pi, si)
  <2>1. si + 1 \in 1 .. T
    BY ONLY <1>1
  <2>2. CharAt(text, si) # "*"
    BY <1>1, <2>1 DEF Plain, CharAt
  <2> QED
    BY <1>1, <2>2 DEF Literal, Matches
<1>3. pi \in 0 .. G - 1 /\ pi + 1 \in 0 .. G /\ si + 1 \in 0 .. T /\ si < T
  BY ONLY <1>1, <1>2
<1>4. \A t \in 0 .. T : StandsFor(glob, text, pi, t) <=>
         t < T /\ Matches(glob, text, pi, t) /\ StandsFor(glob, text, pi + 1, t + 1)
  BY <1>1, <1>2, <1>3, StandsForChar
<1>5. StandsFor(glob, text, pi, si) <=> StandsFor(glob, text, pi + 1, si + 1)
  BY <1>1, <1>2, <1>3, <1>4
<1>8. star < pi + 1 /\ mark <= si + 1
  <2>1. star < pi /\ mark <= si
    BY DEF Knows
  <2> QED
    BY ONLY <1>1, <2>1
<1>6. CASE star = -1
  BY <1>1, <1>3, <1>5, <1>6, <1>8 DEF Knows
<1>7. CASE star >= 0
  <2>1. /\ star < pi /\ mark <= si
        /\ Means(glob, text) <=> \E u \in mark .. T : StandsFor(glob, text, star + 1, u)
        /\ \A u \in mark .. T : StandsFor(glob, text, star + 1, u) =>
              u + (si - mark) <= T /\ StandsFor(glob, text, pi, u + (si - mark))
        /\ StandsFor(glob, text, pi, si) => StandsFor(glob, text, star + 1, mark)
    BY <1>1, <1>7 DEF Knows
  <2>2. ASSUME NEW u \in mark .. T, StandsFor(glob, text, star + 1, u)
        PROVE  /\ u + ((si + 1) - mark) <= T
               /\ StandsFor(glob, text, pi + 1, u + ((si + 1) - mark))
    <3>1. PICK v : v = u + (si - mark)
      OBVIOUS
    <3>2. v <= T /\ StandsFor(glob, text, pi, v)
      BY <2>1, <2>2, <3>1
    <3>3. v \in 0 .. T
      BY ONLY <1>1, <2>1, <3>1, <3>2, u \in mark .. T
    <3>4. v < T /\ StandsFor(glob, text, pi + 1, v + 1)
      BY <1>4, <3>2, <3>3
    <3>5. u + ((si + 1) - mark) = v + 1 /\ v + 1 <= T
      BY ONLY <1>1, <3>1, <3>3, <3>4, u \in mark .. T
    <3> QED
      BY <3>4, <3>5
  <2>4. star # -1
    BY ONLY <1>7
  <2> QED
    BY <1>1, <1>3, <1>5, <1>8, <2>1, <2>2, <2>4 DEF Knows
<1> QED
  BY <1>1, <1>6, <1>7

LEMMA KnowsAfterStar ==
    ASSUME NEW glob \in Seq(STRING), NEW text \in Seq(STRING),
           NEW pi \in 0 .. Len(glob), NEW si \in 0 .. Len(text),
           NEW star \in -1 .. Len(glob) - 1, NEW mark \in 0 .. Len(text),
           Knows(glob, text, pi, si, star, mark), pi < Len(glob), CharAt(glob, pi) = "*"
    PROVE  /\ pi + 1 \in 0 .. Len(glob) /\ pi \in -1 .. Len(glob) - 1
           /\ Knows(glob, text, pi + 1, si, pi, si)
<1>1. PICK G \in Nat, T \in Nat : /\ G = Len(glob) /\ T = Len(text)
                                 /\ pi \in 0 .. G /\ si \in 0 .. T
                                 /\ star \in -1 .. G - 1 /\ mark \in 0 .. T /\ pi < G
  OBVIOUS
<1>2. pi + 1 \in 0 .. G /\ pi \in -1 .. G - 1 /\ pi \in 0 .. G - 1
  BY ONLY <1>1
<1>3. \A t \in 0 .. T : StandsFor(glob, text, pi, t) <=>
         \E u \in t .. T : StandsFor(glob, text, pi + 1, u)
  BY <1>1, <1>2, StandsForStar
<1>4. Means(glob, text) <=> \E u \in si .. T : StandsFor(glob, text, pi + 1, u)
  <2>1. CASE star = -1
    BY <1>1, <1>3, <2>1 DEF Knows
  <2>2. CASE star >= 0
    <3>1. /\ mark <= si
          /\ Means(glob, text) <=> \E u \in mark .. T : StandsFor(glob, text, star + 1, u)
          /\ \A u \in mark .. T : StandsFor(glob, text, star + 1, u) =>
                u + (si - mark) <= T /\ StandsFor(glob, text, pi, u + (si - mark))
          /\ StandsFor(glob, text, pi, si) => StandsFor(glob, text, star + 1, mark)
      BY <1>1, <2>2 DEF Knows
    <3>2. ASSUME NEW u \in mark .. T, StandsFor(glob, text, star + 1, u)
          PROVE  \E w \in si .. T : StandsFor(glob, text, pi + 1, w)
      <4>1. PICK v : v = u + (si - mark)
        OBVIOUS
      <4>2. v <= T /\ StandsFor(glob, text, pi, v)
        BY <3>1, <3>2, <4>1
      <4>3. v \in 0 .. T /\ v >= si
        BY ONLY <1>1, <3>1, <4>1, <4>2, u \in mark .. T
      <4>4. PICK w \in v .. T : StandsFor(glob, text, pi + 1, w)
        BY <1>3, <4>2, <4>3
      <4>5. w \in si .. T
        BY ONLY <1>1, <4>3, w \in v .. T
      <4> QED
        BY <4>4, <4>5
    <3>3. ASSUME NEW w \in si .. T, StandsFor(glob, text, pi + 1, w)
          PROVE  \E u \in mark .. T : StandsFor(glob, text, star + 1, u)
      <4>1. StandsFor(glob, text, pi, si)
        BY <1>1, <1>3, <3>3
      <4>2. mark \in mark .. T
        BY ONLY <1>1
      <4> QED
        BY <3>1, <4>1, <4>2
    <3> QED
      BY ONLY <3>1, <3>2, <3>3
  <2> QED
    BY <1>1, <2>1, <2>2
<1>5. \A u \in si .. T : u + (si - si) = u /\ u <= T
  BY ONLY <1>1
<1>6. pi # -1 /\ pi < pi + 1 /\ si <= si
  BY ONLY <1>1
<1>7. Knows(glob, text, pi + 1, si, pi, si)
  BY <1>1, <1>4, <1>5, <1>6 DEF Knows
<1> QED
  BY <1>1, <1>2, <1>7

\* Where neither fits, the rest of the glob does not stand for what is left.
LEMMA NothingStandsHere ==
    ASSUME NEW glob \in Seq(STRING), NEW text \in Seq(STRING),
           NEW pi \in 0 .. Len(glob), NEW si \in 0 .. Len(text), si # Len(text),
           ~Literal(glob, text, pi, si), ~(pi < Len(glob) /\ CharAt(glob, pi) = "*")
    PROVE  ~StandsFor(glob, text, pi, si)
<1>1. CASE pi = Len(glob)
  BY <1>1, StandsForEnd
<1>2. CASE pi # Len(glob)
  <2>1. pi < Len(glob) /\ pi \in 0 .. Len(glob) - 1
    BY <1>2
  <2>2. CharAt(glob, pi) # "*" /\ ~Matches(glob, text, pi, si)
    BY <2>1 DEF Literal, Matches
  <2> QED
    BY <2>1, <2>2, StandsForChar
<1> QED
  BY <1>1, <1>2

LEMMA KnowsAfterReturn ==
    ASSUME NEW glob \in Seq(STRING), NEW text \in Seq(STRING),
           NEW pi \in 0 .. Len(glob), NEW si \in 0 .. Len(text),
           NEW star \in -1 .. Len(glob) - 1, NEW mark \in 0 .. Len(text),
           Knows(glob, text, pi, si, star, mark), si # Len(text), star >= 0,
           ~Literal(glob, text, pi, si), ~(pi < Len(glob) /\ CharAt(glob, pi) = "*")
    PROVE  /\ star + 1 \in 0 .. Len(glob) /\ mark + 1 \in 0 .. Len(text) /\ mark <= si
           /\ Knows(glob, text, star + 1, mark + 1, star, mark + 1)
<1>1. PICK G \in Nat, T \in Nat : /\ G = Len(glob) /\ T = Len(text)
                                 /\ pi \in 0 .. G /\ si \in 0 .. T
                                 /\ star \in 0 .. G - 1 /\ mark \in 0 .. T /\ si # T
  OBVIOUS
<1>2. ~StandsFor(glob, text, pi, si)
  BY NothingStandsHere
<1>3. /\ mark <= si
      /\ Means(glob, text) <=> \E u \in mark .. T : StandsFor(glob, text, star + 1, u)
      /\ \A u \in mark .. T : StandsFor(glob, text, star + 1, u) =>
            u + (si - mark) <= T /\ StandsFor(glob, text, pi, u + (si - mark))
  BY <1>1 DEF Knows
<1>4. ~StandsFor(glob, text, star + 1, mark)
  <2>1. mark \in mark .. T /\ mark + (si - mark) = si
    BY ONLY <1>1
  <2> QED
    BY <1>2, <1>3, <2>1
<1>5. star + 1 \in 0 .. G /\ mark + 1 \in 0 .. T
  BY ONLY <1>1, <1>3
<1>6. \A u \in mark .. T : u = mark \/ u \in mark + 1 .. T
  BY ONLY <1>1
<1>7. \A u \in mark + 1 .. T : u \in mark .. T /\ u + ((mark + 1) - (mark + 1)) = u /\ u <= T
  BY ONLY <1>1
<1>8. Means(glob, text) <=> \E u \in mark + 1 .. T : StandsFor(glob, text, star + 1, u)
  BY ONLY <1>3, <1>4, <1>6, <1>7
<1>9. star # -1 /\ star < star + 1 /\ mark + 1 <= mark + 1
  BY ONLY <1>1
<1>10. Knows(glob, text, star + 1, mark + 1, star, mark + 1)
  BY <1>1, <1>7, <1>8, <1>9 DEF Knows
<1> QED
  BY <1>1, <1>3, <1>5, <1>10

\* How far the walk has come.
Pace(text, at) == (at.star + 1 + at.mark) * (Len(text) + 1) + at.si
WalkOk(glob, text, at) ==
    /\ at \in Places(glob, text)
    /\ Knows(glob, text, at.pi, at.si, at.star, at.mark)

LEMMA ProductGrows ==
    ASSUME NEW a \in Nat, NEW b \in Nat, NEW k \in Nat, a + 1 <= b
    PROVE  a * k + k <= b * k
<1>1. PICK c \in Nat : c = b - (a + 1)
  OBVIOUS
<1>2. b = a + 1 + c
  BY <1>1
<1>3. (a + 1 + c) * k = a * k + k + c * k
  OBVIOUS
<1>4. c * k \in Nat /\ a * k \in Nat
  OBVIOUS
<1> QED
  BY ONLY <1>2, <1>3, <1>4, k \in Nat

LEMMA PaceIsNumber ==
    ASSUME NEW glob \in Seq(STRING), NEW text \in Seq(STRING), NEW at, WalkOk(glob, text, at)
    PROVE  Pace(text, at) \in Int
<1>1. PICK T \in Nat : T = Len(text)
  OBVIOUS
<1>2. PICK a \in Int, s \in Int : a = at.star + 1 + at.mark /\ s = at.si
  BY DEF WalkOk, Places
<1>3. a * (T + 1) \in Int
  BY ONLY a \in Int, T \in Nat
<1>4. a * (T + 1) + s \in Int
  BY ONLY <1>3, s \in Int
<1> QED
  BY <1>1, <1>2, <1>4 DEF Pace

\* A round keeps what the walk knows, and gets on unless it is the last.
LEMMA MatchRoundProperties ==
    ASSUME NEW glob \in Seq(STRING), NEW text \in Seq(STRING), Plain(text),
           NEW at, WalkOk(glob, text, at)
    PROVE  /\ WalkOk(glob, text, MatchRound(glob, text, at))
           /\ Stays(glob, text, at) => MatchRound(glob, text, at) = at
           /\ ~Stays(glob, text, at) => Pace(text, MatchRound(glob, text, at)) >= Pace(text, at) + 1
<1>1. PICK G \in Nat, T \in Nat : G = Len(glob) /\ T = Len(text)
  OBVIOUS
<1>2. PICK pi \in 0 .. G, si \in 0 .. T, star \in -1 .. G - 1, mark \in 0 .. T :
         at = [pi |-> pi, si |-> si, star |-> star, mark |-> mark]
  BY <1>1 DEF WalkOk, Places
<1>3. /\ Knows(glob, text, pi, si, star, mark)
      /\ at.pi = pi /\ at.si = si /\ at.star = star /\ at.mark = mark
  BY <1>2 DEF WalkOk
<1>4. PICK next : next = MatchRound(glob, text, at)
  OBVIOUS
<1>5. PICK pace \in Nat : pace = (star + 1 + mark) * (T + 1) + si /\ pace = Pace(text, at)
  <2>1. PICK a \in Nat : a = star + 1 + mark
    OBVIOUS
  <2>2. a * (T + 1) \in Nat
    BY ONLY a \in Nat, T \in Nat
  <2>3. (star + 1 + mark) * (T + 1) + si \in Nat
    BY ONLY <2>1, <2>2, si \in 0 .. T
  <2> QED
    BY <1>1, <1>3, <2>3 DEF Pace
<1>6. ASSUME NEW p \in 0 .. G, NEW s \in 0 .. T, NEW st \in -1 .. G - 1, NEW m \in 0 .. T,
             next = [pi |-> p, si |-> s, star |-> st, mark |-> m], Knows(glob, text, p, s, st, m)
      PROVE  WalkOk(glob, text, next) /\ Pace(text, next) = (st + 1 + m) * (T + 1) + s
  BY <1>1, <1>6 DEF WalkOk, Places, Pace
<1>7. CASE si = T
  BY <1>1, <1>3, <1>7 DEF MatchRound, Stays
<1>8. CASE si # T /\ Literal(glob, text, pi, si)
  <2>1. next = [pi |-> pi + 1, si |-> si + 1, star |-> star, mark |-> mark]
    BY <1>1, <1>2, <1>3, <1>4, <1>8 DEF MatchRound
  <2>2. pi + 1 \in 0 .. G /\ si + 1 \in 0 .. T /\ Knows(glob, text, pi + 1, si + 1, star, mark)
    BY <1>1, <1>3, <1>8, KnowsAfterLiteral
  <2>3. WalkOk(glob, text, next) /\ Pace(text, next) = (star + 1 + mark) * (T + 1) + (si + 1)
    BY <1>6, <2>1, <2>2
  <2>4. Pace(text, next) >= pace + 1
    <3>1. PICK b : b = (star + 1 + mark) * (T + 1)
      OBVIOUS
    <3>2. b \in Int
      BY ONLY <3>1, star \in -1 .. G - 1, mark \in 0 .. T, T \in Nat, G \in Nat
    <3> QED
      BY ONLY <1>5, <2>3, <3>1, <3>2, si \in 0 .. T, T \in Nat
  <2>5. ~Stays(glob, text, at)
    BY <1>1, <1>3, <1>8 DEF Stays
  <2> QED
    BY <1>4, <1>5, <2>3, <2>4, <2>5
<1>9. CASE si # T /\ ~Literal(glob, text, pi, si) /\ pi < G /\ CharAt(glob, pi) = "*"
  <2>1. next = [pi |-> pi + 1, si |-> si, star |-> pi, mark |-> si]
    BY <1>1, <1>2, <1>3, <1>4, <1>9 DEF MatchRound
  <2>2. pi + 1 \in 0 .. G /\ pi \in -1 .. G - 1 /\ Knows(glob, text, pi + 1, si, pi, si)
    BY <1>1, <1>3, <1>9, KnowsAfterStar
  <2>3. WalkOk(glob, text, next) /\ Pace(text, next) = (pi + 1 + si) * (T + 1) + si
    BY <1>6, <2>1, <2>2
  <2>4. star + 1 + mark + 1 <= pi + 1 + si
    <3>1. star < pi /\ mark <= si
      BY <1>3 DEF Knows
    <3> QED
      BY ONLY <3>1, pi \in 0 .. G, si \in 0 .. T, star \in -1 .. G - 1, mark \in 0 .. T,
              G \in Nat, T \in Nat
  <2>5. Pace(text, next) >= pace + 1
    <3>1. PICK a, b : a = star + 1 + mark /\ b = pi + 1 + si
      OBVIOUS
    <3>2. a \in Nat /\ b \in Nat /\ a + 1 <= b
      BY ONLY <2>4, <3>1, pi \in 0 .. G, si \in 0 .. T, star \in -1 .. G - 1, mark \in 0 .. T,
              G \in Nat, T \in Nat
    <3>3. a * (T + 1) + (T + 1) <= b * (T + 1)
      BY ONLY <3>2, T + 1 \in Nat, T \in Nat, ProductGrows
    <3>4. PICK x \in Nat, y \in Nat : x = a * (T + 1) /\ y = b * (T + 1)
      BY ONLY <3>2, T \in Nat
    <3>5. y + si >= x + si + 1
      BY ONLY <3>3, <3>4, si \in 0 .. T, T \in Nat
    <3> QED
      BY ONLY <1>5, <2>3, <3>1, <3>4, <3>5
  <2>6. ~Stays(glob, text, at)
    BY <1>1, <1>3, <1>9 DEF Stays
  <2> QED
    BY <1>4, <1>5, <2>3, <2>5, <2>6
<1>10. CASE /\ si # T /\ ~Literal(glob, text, pi, si) /\ ~(pi < G /\ CharAt(glob, pi) = "*")
            /\ star >= 0
  <2>1. next = [pi |-> star + 1, si |-> mark + 1, star |-> star, mark |-> mark + 1]
    BY <1>1, <1>2, <1>3, <1>4, <1>10 DEF MatchRound
  <2>2. /\ star + 1 \in 0 .. G /\ mark + 1 \in 0 .. T
        /\ Knows(glob, text, star + 1, mark + 1, star, mark + 1)
    BY <1>1, <1>3, <1>10, KnowsAfterReturn
  <2>3. /\ WalkOk(glob, text, next)
        /\ Pace(text, next) = (star + 1 + (mark + 1)) * (T + 1) + (mark + 1)
    BY <1>6, <2>1, <2>2
  <2>4. Pace(text, next) >= pace + 1
    <3>1. PICK a, b : a = star + 1 + mark /\ b = star + 1 + (mark + 1)
      OBVIOUS
    <3>2. a \in Nat /\ b \in Nat /\ a + 1 <= b
      BY ONLY <3>1, star \in -1 .. G - 1, mark \in 0 .. T, G \in Nat, T \in Nat
    <3>3. a * (T + 1) + (T + 1) <= b * (T + 1)
      BY ONLY <3>2, T + 1 \in Nat, T \in Nat, ProductGrows
    <3>4. PICK x \in Nat, y \in Nat : x = a * (T + 1) /\ y = b * (T + 1)
      BY ONLY <3>2, T \in Nat
    <3>5. y + (mark + 1) >= x + si + 1
      BY ONLY <3>3, <3>4, si \in 0 .. T, mark \in 0 .. T, T \in Nat
    <3> QED
      BY ONLY <1>5, <2>3, <3>1, <3>4, <3>5
  <2>5. ~Stays(glob, text, at)
    BY <1>1, <1>3, <1>10 DEF Stays
  <2> QED
    BY <1>4, <1>5, <2>3, <2>4, <2>5
<1>11. CASE /\ si # T /\ ~Literal(glob, text, pi, si) /\ ~(pi < G /\ CharAt(glob, pi) = "*")
            /\ ~(star >= 0)
  <2>1. next = at
    BY <1>1, <1>3, <1>4, <1>11 DEF MatchRound
  <2>2. Stays(glob, text, at)
    BY <1>1, <1>3, <1>11 DEF Stays
  <2> QED
    BY <1>4, <2>1, <2>2
<1> QED
  BY <1>7, <1>8, <1>9, <1>10, <1>11

\* Where the walk stays, its answer is the meaning.
LEMMA AnswerWhereItStays ==
    ASSUME NEW glob \in Seq(STRING), NEW text \in Seq(STRING),
           NEW at, WalkOk(glob, text, at), Stays(glob, text, at)
    PROVE  (at.si = Len(text) /\ StarsFrom(glob, at.pi)) <=> Means(glob, text)
<1>1. PICK G \in Nat, T \in Nat : G = Len(glob) /\ T = Len(text)
  OBVIOUS
<1>2. PICK pi \in 0 .. G, si \in 0 .. T, star \in -1 .. G - 1, mark \in 0 .. T :
         at = [pi |-> pi, si |-> si, star |-> star, mark |-> mark]
  BY <1>1 DEF WalkOk, Places
<1>3. /\ Knows(glob, text, pi, si, star, mark)
      /\ at.pi = pi /\ at.si = si /\ at.star = star /\ at.mark = mark
  BY <1>2 DEF WalkOk
<1>4. CASE si = T
  <2>1. StandsFor(glob, text, pi, T) <=> StarsFrom(glob, pi)
    BY <1>1, StandsForNothing
  <2>2. Means(glob, text) <=> StandsFor(glob, text, pi, T)
    <3>1. CASE star = -1
      BY <1>3, <1>4, <3>1 DEF Knows
    <3>2. CASE star >= 0
      <4>1. /\ mark <= T
            /\ Means(glob, text) <=> \E u \in mark .. T : StandsFor(glob, text, star + 1, u)
            /\ \A u \in mark .. T : StandsFor(glob, text, star + 1, u) =>
                  u + (T - mark) <= T /\ StandsFor(glob, text, pi, u + (T - mark))
            /\ StandsFor(glob, text, pi, T) => StandsFor(glob, text, star + 1, mark)
        BY <1>1, <1>3, <1>4, <3>2 DEF Knows
      <4>2. \A u \in mark .. T : u + (T - mark) <= T => u + (T - mark) = T
        BY ONLY mark \in 0 .. T, T \in Nat
      <4>3. mark \in mark .. T
        BY ONLY mark \in 0 .. T, T \in Nat
      <4> QED
        BY ONLY <4>1, <4>2, <4>3
    <3>3. star = -1 \/ star >= 0
      BY ONLY star \in -1 .. G - 1, G \in Nat
    <3> QED
      BY ONLY <3>1, <3>2, <3>3
  <2> QED
    BY <1>1, <1>3, <1>4, <2>1, <2>2
<1>5. CASE si # T
  <2>1. star < 0 /\ ~StandsFor(glob, text, pi, si)
    BY <1>1, <1>3, <1>5, NothingStandsHere DEF Stays
  <2>2. star = -1
    BY ONLY <2>1, star \in -1 .. G - 1, G \in Nat
  <2>3. ~Means(glob, text)
    BY <1>3, <2>1, <2>2 DEF Knows
  <2> QED
    BY <1>1, <1>3, <1>5, <2>3
<1> QED
  BY <1>4, <1>5

\* The walk has a value, round after round.
AtFirst == [pi |-> 0, si |-> 0, star |-> -1, mark |-> 0]
WalkOf(W, glob, text, n) ==
    W = [k \in 0 .. n |-> IF k = 0 THEN AtFirst ELSE MatchRound(glob, text, W[k - 1])]

LEMMA WalkExists == ASSUME NEW glob, NEW text PROVE \A n \in Nat : \E W : WalkOf(W, glob, text, n)
<1> DEFINE Bad == {n \in Nat : ~ \E W : WalkOf(W, glob, text, n)}
<1>1. SUFFICES ASSUME Bad # {} PROVE FALSE
  OBVIOUS
<1>2. PICK m \in Bad : \A k \in Bad : m <= k
  BY <1>1, LeastNatural
<1>3. CASE m = 0
  <2> DEFINE W == [k \in 0 .. 0 |-> AtFirst]
  <2>1. W = [k \in 0 .. 0 |-> IF k = 0 THEN AtFirst ELSE MatchRound(glob, text, W[k - 1])]
    OBVIOUS
  <2> QED
    BY <1>3, <2>1 DEF WalkOf
<1>4. CASE m > 0
  <2>1. m - 1 \in Nat /\ m - 1 \notin Bad
    BY <1>2, <1>4
  <2>2. PICK V : V = [k \in 0 .. (m - 1) |-> IF k = 0 THEN AtFirst ELSE MatchRound(glob, text, V[k - 1])]
    BY <2>1 DEF WalkOf
  <2> DEFINE W == [k \in 0 .. m |-> IF k = 0 THEN AtFirst ELSE MatchRound(glob, text, V[k - 1])]
  <2>3. ASSUME NEW k \in 0 .. (m - 1) PROVE V[k] = W[k]
    <3>1. k \in 0 .. m
      BY <2>1
    <3>2. V[k] = IF k = 0 THEN AtFirst ELSE MatchRound(glob, text, V[k - 1])
      BY <2>2
    <3> QED
      BY <3>1, <3>2
  <2>4. ASSUME NEW k \in 0 .. m, k # 0 PROVE V[k - 1] = W[k - 1]
    <3>1. k - 1 \in 0 .. (m - 1)
      BY <2>1, <2>4
    <3> HIDE DEF W
    <3> QED
      BY <3>1, <2>3
  <2>5. W = [k \in 0 .. m |-> IF k = 0 THEN AtFirst ELSE MatchRound(glob, text, W[k - 1])]
    BY <2>4
  <2> QED
    BY <1>2, <2>5 DEF WalkOf
<1> QED
  BY <1>2, <1>3, <1>4

\* globMatch on a text without "*": the answer of the walk is the meaning.
LEMMA MatchIsMeaning ==
    ASSUME NEW glob \in Seq(STRING), NEW text \in Seq(STRING), Plain(text)
    PROVE  globMatch(glob, text) <=> Means(glob, text)
<1>1. PICK G \in Nat, T \in Nat : G = Len(glob) /\ T = Len(text)
  OBVIOUS
<1>2. PICK R \in Nat : R = (G + T + 1) * (T + 1) /\ R = MatchRounds(glob, text)
  <2>1. (G + T + 1) * (T + 1) \in Nat
    OBVIOUS
  <2> QED
    BY <1>1, <2>1 DEF MatchRounds
<1>3. PICK W : /\ WalkOf(W, glob, text, R)
               /\ globMatch(glob, text) <=> W[R].si = Len(text) /\ StarsFrom(glob, W[R].pi)
  <2> DEFINE F(V) == V = [k \in 0 .. MatchRounds(glob, text) |->
                           IF k = 0 THEN [pi |-> 0, si |-> 0, star |-> -1, mark |-> 0]
                           ELSE MatchRound(glob, text, V[k - 1])]
  <2>1. PICK W : W = CHOOSE V : F(V)
    OBVIOUS
  <2>2. \E V : F(V)
    <3>1. PICK V : WalkOf(V, glob, text, R)
      BY WalkExists
    <3>2. F(V)
      BY <1>2, <3>1 DEF WalkOf, AtFirst
    <3> QED
      BY <3>2
  <2>3. F(W)
    BY <2>1, <2>2
  <2>4. globMatch(glob, text) <=>
           /\ W[MatchRounds(glob, text)].si = Len(text)
           /\ StarsFrom(glob, W[MatchRounds(glob, text)].pi)
    BY <2>1, Zenon DEF globMatch
  <2> QED
    BY <1>2, <2>3, <2>4 DEF WalkOf, AtFirst
<1>4. W[0] = AtFirst /\ \A k \in 1 .. R : W[k] = MatchRound(glob, text, W[k - 1])
  <2>1. 0 \in 0 .. R /\ \A k \in 1 .. R : k \in 0 .. R /\ k # 0
    OBVIOUS
  <2> QED
    BY <1>3, <2>1 DEF WalkOf
<1>5. WalkOk(glob, text, AtFirst) /\ Pace(text, AtFirst) >= 0
  <2>1. AtFirst \in Places(glob, text)
    BY <1>1 DEF AtFirst, Places
  <2>2. Knows(glob, text, 0, 0, -1, 0)
    BY MeansStandsFor DEF Knows
  <2>3. Pace(text, AtFirst) = (-1 + 1 + 0) * (T + 1) + 0
    BY <1>1 DEF Pace, AtFirst
  <2>4. (-1 + 1 + 0) * (T + 1) + 0 = 0
    BY ONLY T \in Nat
  <2> QED
    BY <2>1, <2>2, <2>3, <2>4 DEF WalkOk, AtFirst
<1> DEFINE Bad == {k \in 0 .. R : ~(/\ WalkOk(glob, text, W[k])
                                     /\ (Stays(glob, text, W[k]) \/ Pace(text, W[k]) >= k))}
<1>6. Bad = {}
  <2> SUFFICES ASSUME Bad # {} PROVE FALSE
    OBVIOUS
  <2>1. PICK m \in Bad : \A k \in Bad : m <= k
    <3>1. Bad \in SUBSET Nat
      OBVIOUS
    <3> HIDE DEF Bad
    <3> QED
      BY <3>1, LeastNatural
  <2>2. m # 0
    BY <1>4, <1>5
  <2>3. PICK j \in 0 .. R : j = m - 1 /\ j \notin Bad /\ m \in 1 .. R
    BY <2>1, <2>2
  <2>4. WalkOk(glob, text, W[j]) /\ (Stays(glob, text, W[j]) \/ Pace(text, W[j]) >= j)
    BY <2>3
  <2>5. W[m] = MatchRound(glob, text, W[j])
    BY <1>4, <2>3
  <2>6. /\ WalkOk(glob, text, W[m])
        /\ Stays(glob, text, W[j]) => W[m] = W[j]
        /\ ~Stays(glob, text, W[j]) => Pace(text, W[m]) >= Pace(text, W[j]) + 1
    BY <2>4, <2>5, MatchRoundProperties
  <2>7. ~Stays(glob, text, W[j]) => Pace(text, W[m]) >= m
    <3> SUFFICES ASSUME ~Stays(glob, text, W[j]) PROVE Pace(text, W[m]) >= m
      OBVIOUS
    <3>1. PICK x \in Int, y \in Int : x = Pace(text, W[j]) /\ y = Pace(text, W[m])
      BY <2>4, <2>6, PaceIsNumber
    <3>2. x >= j /\ y >= x + 1
      BY <2>4, <2>6, <3>1
    <3>3. y >= m
      BY ONLY <2>3, <3>2, x \in Int, y \in Int, j \in 0 .. R, R \in Nat, m \in 1 .. R
    <3> QED
      BY <3>1, <3>3
  <2> QED
    BY <2>1, <2>4, <2>6, <2>7
<1>7. WalkOk(glob, text, W[R]) /\ (Stays(glob, text, W[R]) \/ Pace(text, W[R]) >= R)
  BY <1>6
<1>8. Pace(text, W[R]) < R
  <2>1. PICK pi \in 0 .. G, si \in 0 .. T, star \in -1 .. G - 1, mark \in 0 .. T :
           W[R] = [pi |-> pi, si |-> si, star |-> star, mark |-> mark]
    BY <1>1, <1>7 DEF WalkOk, Places
  <2>2. Pace(text, W[R]) = (star + 1 + mark) * (T + 1) + si
    BY <1>1, <2>1 DEF Pace
  <2>3. PICK a, b : a = star + 1 + mark /\ b = G + T + 1
    OBVIOUS
  <2>4. a \in Nat /\ b \in Nat /\ a + 1 <= b
    BY ONLY <2>3, star \in -1 .. G - 1, mark \in 0 .. T,
              G \in Nat, T \in Nat
  <2>5. a * (T + 1) + (T + 1) <= b * (T + 1)
    BY ONLY <2>4, T + 1 \in Nat, T \in Nat, ProductGrows
  <2>6. PICK x \in Nat, y \in Nat : x = a * (T + 1) /\ y = b * (T + 1)
    BY ONLY <2>4, T \in Nat
  <2>7. x + si < y
    BY ONLY <2>5, <2>6, si \in 0 .. T, T \in Nat
  <2> QED
    BY ONLY <1>2, <2>2, <2>3, <2>6, <2>7
<1>9. Stays(glob, text, W[R])
  <2>1. PICK x \in Int : x = Pace(text, W[R])
    BY <1>7, PaceIsNumber
  <2>2. ~(x >= R)
    BY ONLY <1>8, <2>1, R \in Nat
  <2> QED
    BY ONLY <1>7, <2>1, <2>2
<1>10. (W[R].si = Len(text) /\ StarsFrom(glob, W[R].pi)) <=> Means(glob, text)
  BY <1>7, <1>9, AnswerWhereItStays
<1> QED
  BY ONLY <1>3, <1>10

-----------------------------------------------------------------------------
\* The rules are those that were parsed, and a decision is that of the rules.
RulesInv ==
    /\ rules \in [Lists -> SUBSET [tool : RuleTools, glob : Globs \cup {<<>>}]]
    /\ decided # NoCall =>
          /\ decided.args \in Arguments
          /\ decided.decision = Decision(decided.tool, decided.args)

THEOREM RulesInvariant == RulesSpec => []RulesInv
<1>1. RulesInit => RulesInv
  BY DEF RulesInit, RulesInv
<1>2. RulesInv /\ [RulesNext]_ruleVars => RulesInv'
  <2> SUFFICES ASSUME RulesInv, [RulesNext]_ruleVars PROVE RulesInv'
    OBVIOUS
  <2>1. ASSUME NEW t \in RuleTools, NEW a \in Arguments,
               decided' = [tool |-> t, args |-> a, decision |-> Decision(t, a)],
               UNCHANGED <<rules, given>>
        PROVE  RulesInv'
    <3>1. decided'.tool = t /\ decided'.args = a /\ decided'.decision = Decision(t, a)
      BY <2>1
    <3>2. Decision(t, a)' = Decision(t, a)
      BY <2>1 DEF Decision
    <3>3. Decision(decided.tool, decided.args)' = Decision(t, a)
      BY <2>1, <3>1 DEF Decision
    <3> QED
      BY <2>1, <3>1, <3>3 DEF RulesInv
  <2>2. ASSUME NEW l \in Lists, Add(l) PROVE RulesInv'
    <3>1. decided' = NoCall
      BY <2>2 DEF Add
    <3>2. rules' \in [Lists -> SUBSET [tool : RuleTools, glob : Globs \cup {<<>>}]]
      <4>1. PICK batch \in Batches :
               rules' = IF \E i \in DOMAIN batch : batch[i].form = "malformed"
                        THEN rules
                        ELSE [rules EXCEPT ![l] = @ \cup
                                {parsePermissionRule(batch[i]) : i \in DOMAIN batch}]
        BY <2>2 DEF Add
      <4>2. \A i \in DOMAIN batch : batch[i] \in Patterns
        BY DEF Batches
      <4>3. \A p \in Patterns : p.form # "malformed" =>
               parsePermissionRule(p) \in [tool : RuleTools, glob : Globs \cup {<<>>}]
        BY DEF Patterns, parsePermissionRule
      <4> QED
        BY <4>1, <4>2, <4>3 DEF RulesInv
    <3> QED
      BY <3>1, <3>2 DEF RulesInv
  <2>3. CASE UNCHANGED ruleVars
    BY <2>3 DEF ruleVars, RulesInv, Decision
  <2> QED
    BY <2>1, <2>2, <2>3 DEF RulesNext, Check
<1> QED
  BY <1>1, <1>2, PTL DEF RulesSpec

(* A decision is the one its rules mean, for any globs and any arguments   *)
(* without a "*" in them (Check, globMatch).                               *)
THEOREM DecisionsAlwaysFollowMeaning ==
    ASSUME \A args \in Arguments : Plain(args)
    PROVE  RulesSpec => []DecisionsFollowMeaning
<1>1. RulesInv => DecisionsFollowMeaning
  <2> SUFFICES ASSUME RulesInv, decided # NoCall PROVE DecisionsFollowMeaning
    BY DEF DecisionsFollowMeaning
  <2>1. PICK t, a : t = decided.tool /\ a = decided.args
    OBVIOUS
  <2>2. a \in Arguments /\ a \in Seq(STRING) /\ Plain(a) /\ decided.decision = Decision(t, a)
    BY <2>1, RulesAssumption DEF RulesInv
  <2>3. ASSUME NEW list \in Lists, NEW r \in rules[list]
        PROVE  Covers(r, t, a) <=> r.tool = t /\ (r.glob = <<>> \/ Means(r.glob, a))
    <3>1. r.glob \in Globs \cup {<<>>}
      BY DEF RulesInv
    <3>2. CASE r.glob = <<>>
      BY <3>2 DEF Covers
    <3>3. CASE r.glob # <<>>
      <4>1. r.glob \in Seq(STRING)
        BY <3>1, <3>3, RulesAssumption
      <4>2. globMatch(r.glob, a) <=> Means(r.glob, a)
        BY <2>2, <4>1, MatchIsMeaning
      <4> QED
        BY <3>3, <4>2 DEF Covers
    <3> QED
      BY <3>2, <3>3
  <2>4. \A list \in Lists : (\E r \in rules[list] : Covers(r, t, a)) <=>
           \E r \in rules[list] : r.tool = t /\ (r.glob = <<>> \/ Means(r.glob, a))
    BY <2>3
  <2>5. {"deny", "allow", "confirm"} \subseteq Lists
    BY DEF Lists
  <2> QED
    BY <2>1, <2>2, <2>4, <2>5 DEF DecisionsFollowMeaning, Decision
<1> QED
  BY <1>1, RulesInvariant, PTL

-----------------------------------------------------------------------------
(***************************************************************************)
(* The SQL validator.  What a statement says is read from its tokens       *)
(* without the comments, and EnsureLimit reads a shorter statement, the    *)
(* one without its last semicolons.  Both are given by the same prefix,    *)
(* which is what the lemmas below compare.                                 *)
(***************************************************************************)

LEMMA AppendIs ==
    ASSUME NEW S, NEW w \in Seq(S), NEW x \in S
    PROVE  /\ Append(w, x) \in Seq(S) /\ Len(w) \in Nat
           /\ Len(Append(w, x)) = Len(w) + 1 /\ Append(w, x)[Len(w) + 1] = x
           /\ \A i \in 1 .. Len(w) : Append(w, x)[i] = w[i]
  OBVIOUS

\* Where a set of numbers that leaves out 0 begins.
LEMMA FirstMember ==
    ASSUME NEW N \in Nat, NEW Bad \in SUBSET (0 .. N), Bad # {}, 0 \notin Bad
    PROVE  \E n \in 1 .. N, j \in 0 .. N :
             n \in Bad /\ j \notin Bad /\ j + 1 = n /\ n - 1 = j
<1>1. PICK n \in Bad : \A k \in Bad : n <= k
  BY LeastNatural
<1>2. n \in 0 .. N /\ n # 0
  OBVIOUS
<1>3. PICK j \in 0 .. N : j + 1 = n /\ n - 1 = j /\ n \in 1 .. N /\ ~(n <= j)
  <2>1. n - 1 \in 0 .. N /\ (n - 1) + 1 = n /\ n \in 1 .. N /\ ~(n <= n - 1)
    BY ONLY <1>2, N \in Nat
  <2> QED
    BY <2>1
<1> QED
  BY <1>1, <1>3

\* K is the function of the prefixes of s without their comments.
KeptOf(K, s, m) ==
    K = [n \in 0 .. m |->
            IF n = 0 THEN <<>>
            ELSE IF s[n] = "comment" THEN K[n - 1] ELSE Append(K[n - 1], s[n])]

LEMMA KeptExists == ASSUME NEW s PROVE \A m \in Nat : \E K : KeptOf(K, s, m)
<1> DEFINE Bad == {m \in Nat : ~ \E K : KeptOf(K, s, m)}
<1>1. SUFFICES ASSUME Bad # {} PROVE FALSE
  OBVIOUS
<1>2. PICK m \in Bad : \A k \in Bad : m <= k
  BY <1>1, LeastNatural
<1>3. CASE m = 0
  <2> DEFINE K == [n \in 0 .. 0 |-> <<>>]
  <2>1. KeptOf(K, s, 0)
    BY DEF KeptOf
  <2> QED
    BY <1>2, <1>3, <2>1
<1>4. CASE m > 0
  <2>1. m - 1 \in Nat /\ m - 1 \notin Bad
    BY <1>2, <1>4
  <2>2. PICK V : KeptOf(V, s, m - 1)
    BY <2>1
  <2> DEFINE Next1(A, n) == IF n = 0 THEN <<>>
                            ELSE IF s[n] = "comment" THEN A[n - 1] ELSE Append(A[n - 1], s[n])
             K == [n \in 0 .. m |-> Next1(V, n)]
  <2>3. ASSUME NEW k \in 0 .. (m - 1) PROVE V[k] = K[k]
    <3>1. k \in 0 .. m
      BY <2>1
    <3>2. V[k] = Next1(V, k)
      BY <2>2 DEF KeptOf
    <3> QED
      BY <3>1, <3>2
  <2>4. ASSUME NEW k \in 0 .. m, k # 0 PROVE V[k - 1] = K[k - 1]
    <3>1. k - 1 \in 0 .. (m - 1)
      BY <2>1, <2>4
    <3> HIDE DEF K
    <3> QED
      BY <3>1, <2>3
  <2>5. KeptOf(K, s, m)
    BY <2>4 DEF KeptOf
  <2> QED
    BY <1>2, <2>5
<1> QED
  BY <1>2, <1>3, <1>4

LEMMA KeptProperties ==
    ASSUME NEW S, NEW s \in Seq(S)
    PROVE  /\ Kept(s)[0] = <<>>
           /\ \A n \in 1 .. Len(s) :
                Kept(s)[n] = IF s[n] = "comment" THEN Kept(s)[n - 1]
                             ELSE Append(Kept(s)[n - 1], s[n])
           /\ \A n \in 0 .. Len(s) : Kept(s)[n] \in Seq(S)
<1>1. KeptOf(Kept(s), s, Len(s))
  <2> DEFINE F(V) == V = [n \in 0 .. Len(s) |->
                           IF n = 0 THEN <<>>
                           ELSE IF s[n] = "comment" THEN V[n - 1] ELSE Append(V[n - 1], s[n])]
  <2>1. PICK W : W = CHOOSE V : F(V)
    OBVIOUS
  <2>2. \E V : F(V)
    <3>1. PICK V : KeptOf(V, s, Len(s))
      BY KeptExists
    <3>2. F(V)
      BY <3>1 DEF KeptOf
    <3> QED
      BY <3>2
  <2>3. F(W)
    BY <2>1, <2>2
  <2>4. Kept(s) = W
    BY <2>1, Zenon DEF Kept
  <2> QED
    BY <2>3, <2>4 DEF KeptOf
<1>2. PICK K : K = Kept(s)
  OBVIOUS
<1>3. K = [n \in 0 .. Len(s) |->
              IF n = 0 THEN <<>>
              ELSE IF s[n] = "comment" THEN K[n - 1] ELSE Append(K[n - 1], s[n])]
  BY <1>1, <1>2 DEF KeptOf
<1>4. K[0] = <<>>
  BY <1>3
<1>5. \A n \in 1 .. Len(s) :
        K[n] = IF s[n] = "comment" THEN K[n - 1] ELSE Append(K[n - 1], s[n])
  <2>1. \A n \in 1 .. Len(s) : n \in 0 .. Len(s) /\ n # 0
    OBVIOUS
  <2> QED
    BY <1>3, <2>1
<1> DEFINE Bad == {n \in 0 .. Len(s) : K[n] \notin Seq(S)}
<1>6. Bad = {}
  <2> SUFFICES ASSUME Bad # {} PROVE FALSE
    OBVIOUS
  <2>1. 0 \notin Bad
    <3>1. <<>> \in Seq(S)
      OBVIOUS
    <3> QED
      BY <1>4, <3>1
  <2>2. PICK m \in 1 .. Len(s), j \in 0 .. Len(s) :
          m \in Bad /\ j \notin Bad /\ j + 1 = m /\ m - 1 = j
    <3>1. Bad \in SUBSET (0 .. Len(s)) /\ Len(s) \in Nat
      OBVIOUS
    <3> HIDE DEF Bad
    <3> QED
      BY <2>1, <3>1, FirstMember
  <2>3. m \in 1 .. Len(s) /\ m - 1 \in 0 .. Len(s) /\ m - 1 \notin Bad
    BY <2>2
  <2>4. K[m - 1] \in Seq(S) /\ s[m] \in S
    BY <2>3
  <2>5. K[m] \in Seq(S)
    <3>1. PICK w \in Seq(S), x \in S : w = K[m - 1] /\ x = s[m]
      BY <2>4
    <3>2. K[m] = IF x = "comment" THEN w ELSE Append(w, x)
      BY <1>5, <2>3, <3>1
    <3>3. Append(w, x) \in Seq(S)
      OBVIOUS
    <3> QED
      BY <3>2, <3>3
  <2> QED
    BY <2>2, <2>5
<1> QED
  BY <1>2, <1>4, <1>5, <1>6

\* D is the function of the depths before the first m tokens of s and after them.
DepthOf(D, s, m) ==
    D = [i \in 1 .. m |->
            IF i = 1 THEN 0
            ELSE IF s[i - 1] = "open" THEN D[i - 1] + 1
            ELSE IF s[i - 1] = "close" /\ D[i - 1] > 0 THEN D[i - 1] - 1
            ELSE D[i - 1]]

LEMMA DepthExists == ASSUME NEW s PROVE \A m \in Nat : \E D : DepthOf(D, s, m)
<1> DEFINE Bad == {m \in Nat : ~ \E D : DepthOf(D, s, m)}
<1>1. SUFFICES ASSUME Bad # {} PROVE FALSE
  OBVIOUS
<1>2. PICK m \in Bad : \A k \in Bad : m <= k
  BY <1>1, LeastNatural
<1>3. CASE m = 0
  <2> DEFINE D == [i \in 1 .. 0 |-> 0]
  <2>1. DepthOf(D, s, 0)
    BY DEF DepthOf
  <2> QED
    BY <1>2, <1>3, <2>1
<1>4. CASE m > 0
  <2>1. m - 1 \in Nat /\ m - 1 \notin Bad
    BY <1>2, <1>4
  <2>2. PICK V : DepthOf(V, s, m - 1)
    BY <2>1
  <2> DEFINE Next1(A, i) == IF i = 1 THEN 0
                            ELSE IF s[i - 1] = "open" THEN A[i - 1] + 1
                            ELSE IF s[i - 1] = "close" /\ A[i - 1] > 0 THEN A[i - 1] - 1
                            ELSE A[i - 1]
             D == [i \in 1 .. m |-> Next1(V, i)]
  <2>3. ASSUME NEW k \in 1 .. (m - 1) PROVE V[k] = D[k]
    <3>1. k \in 1 .. m
      BY <2>1
    <3>2. V[k] = Next1(V, k)
      BY <2>2 DEF DepthOf
    <3> QED
      BY <3>1, <3>2
  <2>4. ASSUME NEW k \in 1 .. m, k # 1 PROVE V[k - 1] = D[k - 1]
    <3>1. k - 1 \in 1 .. (m - 1)
      BY <2>1, <2>4
    <3> HIDE DEF D
    <3> QED
      BY <3>1, <2>3
  <2>5. DepthOf(D, s, m)
    BY <2>4 DEF DepthOf
  <2> QED
    BY <1>2, <2>5
<1> QED
  BY <1>2, <1>3, <1>4

\* The depth that a token t leaves.
Deeper(d, t) == IF t = "open" THEN d + 1 ELSE IF t = "close" /\ d > 0 THEN d - 1 ELSE d

LEMMA DepthProperties ==
    ASSUME NEW S, NEW s \in Seq(S)
    PROVE  /\ DepthAt(s)[1] = 0
           /\ \A i \in 1 .. Len(s) : DepthAt(s)[i + 1] = Deeper(DepthAt(s)[i], s[i])
           /\ \A i \in 1 .. Len(s) + 1 : DepthAt(s)[i] \in Nat
<1>1. DepthOf(DepthAt(s), s, Len(s) + 1)
  <2> DEFINE F(V) == V = [i \in 1 .. Len(s) + 1 |->
                           IF i = 1 THEN 0
                           ELSE IF s[i - 1] = "open" THEN V[i - 1] + 1
                           ELSE IF s[i - 1] = "close" /\ V[i - 1] > 0 THEN V[i - 1] - 1
                           ELSE V[i - 1]]
  <2>1. PICK W : W = CHOOSE V : F(V)
    OBVIOUS
  <2>2. \E V : F(V)
    <3>1. PICK V : DepthOf(V, s, Len(s) + 1)
      <4>1. Len(s) + 1 \in Nat
        OBVIOUS
      <4> QED
        BY <4>1, DepthExists
    <3>2. F(V)
      BY <3>1 DEF DepthOf
    <3> QED
      BY <3>2
  <2>3. F(W)
    BY <2>1, <2>2
  <2>4. DepthAt(s) = W
    BY <2>1, Zenon DEF DepthAt
  <2> QED
    BY <2>3, <2>4 DEF DepthOf
<1>2. PICK D : D = DepthAt(s)
  OBVIOUS
<1>3. D = [i \in 1 .. Len(s) + 1 |->
              IF i = 1 THEN 0
              ELSE IF s[i - 1] = "open" THEN D[i - 1] + 1
              ELSE IF s[i - 1] = "close" /\ D[i - 1] > 0 THEN D[i - 1] - 1
              ELSE D[i - 1]]
  BY <1>1, <1>2 DEF DepthOf
<1>4. D[1] = 0
  <2>1. 1 \in 1 .. Len(s) + 1
    OBVIOUS
  <2> QED
    BY <1>3, <2>1
<1>5. ASSUME NEW i \in 1 .. Len(s) PROVE D[i + 1] = Deeper(D[i], s[i])
  <2>1. i + 1 \in 1 .. Len(s) + 1 /\ i + 1 # 1 /\ (i + 1) - 1 = i
    OBVIOUS
  <2>2. D[i + 1] = IF s[i] = "open" THEN D[i] + 1
                   ELSE IF s[i] = "close" /\ D[i] > 0 THEN D[i] - 1
                   ELSE D[i]
    BY <1>3, <2>1
  <2> QED
    BY <2>2 DEF Deeper
<1> DEFINE Bad == {i \in 1 .. Len(s) + 1 : D[i] \notin Nat}
<1>6. Bad = {}
  <2> SUFFICES ASSUME Bad # {} PROVE FALSE
    OBVIOUS
  <2>1. PICK m \in Bad : \A k \in Bad : m <= k
    <3>1. Bad \in SUBSET Nat
      OBVIOUS
    <3> HIDE DEF Bad
    <3> QED
      BY <3>1, LeastNatural
  <2>2. m # 1
    BY <1>4
  <2>3. PICK j \in 1 .. Len(s) : j = m - 1 /\ j \notin Bad
    BY <2>1, <2>2
  <2>4. D[j] \in Nat /\ D[j + 1] = Deeper(D[j], s[j]) /\ j + 1 = m
    BY <1>5, <2>3
  <2>5. D[m] \in Nat
    BY <2>4 DEF Deeper
  <2> QED
    BY <2>1, <2>5
<1> QED
  BY <1>2, <1>4, <1>5, <1>6

(***************************************************************************)
(* A prefix decides what is kept of it and the depths in it.               *)
(***************************************************************************)
Agree(s, t, m) == m <= Len(s) /\ m <= Len(t) /\ \A i \in 1 .. m : s[i] = t[i]

LEMMA KeptOfPrefix ==
    ASSUME NEW S, NEW s \in Seq(S), NEW t \in Seq(S), NEW m \in Nat, Agree(s, t, m)
    PROVE  \A n \in 0 .. m : Kept(s)[n] = Kept(t)[n]
<1> DEFINE Bad == {n \in 0 .. m : Kept(s)[n] # Kept(t)[n]}
<1> SUFFICES ASSUME Bad # {} PROVE FALSE
  OBVIOUS
<1>1. 0 \notin Bad
  BY KeptProperties
<1>2. PICK n \in 1 .. m, j \in 0 .. m : n \in Bad /\ j \notin Bad /\ j + 1 = n /\ n - 1 = j
  <2>1. Bad \in SUBSET (0 .. m)
    OBVIOUS
  <2> HIDE DEF Bad
  <2> QED
    BY <1>1, <2>1, FirstMember
<1>3. n \in 1 .. m /\ n - 1 \in 0 .. m /\ n - 1 \notin Bad
  BY <1>2
<1>4. s[n] = t[n] /\ n \in 1 .. Len(s) /\ n \in 1 .. Len(t)
  BY <1>3 DEF Agree
<1>5. Kept(s)[n - 1] = Kept(t)[n - 1]
  BY <1>3
<1>6. Kept(s)[n] = IF s[n] = "comment" THEN Kept(s)[n - 1] ELSE Append(Kept(s)[n - 1], s[n])
  BY <1>4, KeptProperties
<1>7. Kept(t)[n] = IF t[n] = "comment" THEN Kept(t)[n - 1] ELSE Append(Kept(t)[n - 1], t[n])
  BY <1>4, KeptProperties
<1>8. Kept(s)[n] = Kept(t)[n]
  BY <1>4, <1>5, <1>6, <1>7, Zenon
<1> QED
  BY <1>2, <1>8

LEMMA DepthOfPrefix ==
    ASSUME NEW S, NEW s \in Seq(S), NEW t \in Seq(S), NEW m \in Nat, Agree(s, t, m)
    PROVE  \A n \in 1 .. m + 1 : DepthAt(s)[n] = DepthAt(t)[n]
<1> DEFINE Bad == {n \in 1 .. m + 1 : DepthAt(s)[n] # DepthAt(t)[n]}
<1> SUFFICES ASSUME Bad # {} PROVE FALSE
  OBVIOUS
<1>1. PICK n \in Bad : \A k \in Bad : n <= k
  <2>1. Bad \in SUBSET Nat
    OBVIOUS
  <2> HIDE DEF Bad
  <2> QED
    BY <2>1, LeastNatural
<1>2. n # 1
  BY DepthProperties
<1>3. PICK j \in 1 .. m : j + 1 = n /\ j \notin Bad
  <2>1. n - 1 \in 1 .. m /\ (n - 1) + 1 = n /\ n - 1 \notin Bad
    BY <1>1, <1>2
  <2> QED
    BY <2>1
<1>4. s[j] = t[j] /\ j \in 1 .. Len(s) /\ j \in 1 .. Len(t)
  BY DEF Agree
<1>5. DepthAt(s)[j] = DepthAt(t)[j]
  BY <1>3
<1>6. DepthAt(s)[j + 1] = Deeper(DepthAt(s)[j], s[j])
  BY <1>4, DepthProperties
<1>7. DepthAt(t)[j + 1] = Deeper(DepthAt(t)[j], t[j])
  BY <1>4, DepthProperties
<1>8. DepthAt(s)[n] = DepthAt(t)[n]
  BY <1>3, <1>4, <1>5, <1>6, <1>7, Zenon
<1> QED
  BY <1>1, <1>8

\* Without its comments a prefix is as deep at its end as with them.
LEMMA DepthOfKept ==
    ASSUME NEW S, NEW s \in Seq(S)
    PROVE  \A n \in 0 .. Len(s) : DepthAt(Kept(s)[n])[Len(Kept(s)[n]) + 1] = DepthAt(s)[n + 1]
<1> DEFINE End(n) == DepthAt(Kept(s)[n])[Len(Kept(s)[n]) + 1]
<1> DEFINE Bad == {n \in 0 .. Len(s) : End(n) # DepthAt(s)[n + 1]}
<1> SUFFICES ASSUME Bad # {} PROVE FALSE
  OBVIOUS
<1>1. 0 \notin Bad
  <2>1. Kept(s)[0] = <<>> /\ Len(<<>>) = 0 /\ <<>> \in Seq(S)
    BY KeptProperties
  <2>2. DepthAt(<<>>)[1] = 0 /\ DepthAt(s)[1] = 0
    BY <2>1, DepthProperties
  <2>3. End(0) = DepthAt(s)[0 + 1]
    BY <2>1, <2>2
  <2> QED
    BY <2>3
<1>2. PICK n \in 1 .. Len(s), j \in 0 .. Len(s) :
        n \in Bad /\ j \notin Bad /\ j + 1 = n /\ n - 1 = j
  <2>1. Bad \in SUBSET (0 .. Len(s)) /\ Len(s) \in Nat
    OBVIOUS
  <2> HIDE DEF Bad
  <2> QED
    BY <1>1, <2>1, FirstMember
<1>3. j + 1 = n /\ j \notin Bad /\ n - 1 = j /\ n \in 1 .. Len(s)
  BY <1>2
<1>4. PICK w \in Seq(S), x \in S : w = Kept(s)[j] /\ x = s[n]
  BY <1>3, KeptProperties
<1>5. Kept(s)[n] = IF x = "comment" THEN w ELSE Append(w, x)
  BY <1>3, <1>4, KeptProperties
<1>6. DepthAt(s)[n + 1] = Deeper(DepthAt(s)[n], x)
  BY <1>3, <1>4, DepthProperties
<1>7. DepthAt(w)[Len(w) + 1] = DepthAt(s)[n]
  BY <1>3, <1>4
<1>8. CASE x = "comment"
  <2>1. End(n) = DepthAt(w)[Len(w) + 1]
    BY <1>5, <1>8
  <2>2. DepthAt(s)[n + 1] = DepthAt(s)[n]
    BY <1>6, <1>8 DEF Deeper
  <2> QED
    BY <1>2, <1>7, <2>1, <2>2
<1>9. CASE x # "comment"
  <2>1. PICK v \in Seq(S) : v = Append(w, x) /\ v = Kept(s)[n]
    <3>1. Append(w, x) \in Seq(S)
      OBVIOUS
    <3> QED
      BY <1>5, <1>9, <3>1
  <2>2. Len(v) = Len(w) + 1 /\ v[Len(w) + 1] = x /\ Len(w) \in Nat
        /\ \A i \in 1 .. Len(w) : v[i] = w[i]
    <3>1. /\ Len(Append(w, x)) = Len(w) + 1 /\ Append(w, x)[Len(w) + 1] = x
          /\ \A i \in 1 .. Len(w) : Append(w, x)[i] = w[i]
      BY ONLY w \in Seq(S), x \in S, AppendIs
    <3>2. Len(w) \in Nat
      OBVIOUS
    <3> QED
      BY <2>1, <3>1, <3>2
  <2>3. Agree(v, w, Len(w))
    BY <2>2 DEF Agree
  <2>4. Len(w) + 1 \in 1 .. Len(w) + 1 /\ Len(w) + 1 \in 1 .. Len(v)
    BY <2>2
  <2>5. DepthAt(v)[Len(w) + 1] = DepthAt(w)[Len(w) + 1]
    BY <2>2, <2>3, <2>4, DepthOfPrefix
  <2>6. DepthAt(v)[(Len(w) + 1) + 1] = Deeper(DepthAt(v)[Len(w) + 1], v[Len(w) + 1])
    BY <2>4, DepthProperties
  <2>7. End(n) = Deeper(DepthAt(s)[n], x)
    BY <1>7, <2>1, <2>2, <2>5, <2>6
  <2> QED
    BY <1>2, <1>6, <2>7
<1> QED
  BY <1>8, <1>9

\* What is kept is some of what was there.
LEMMA KeptTokens ==
    ASSUME NEW S, NEW s \in Seq(S)
    PROVE  \A n \in 0 .. Len(s) :
             \A i \in 1 .. Len(Kept(s)[n]) : \E j \in 1 .. n : s[j] = Kept(s)[n][i]
<1> DEFINE Drawn(n) == \A i \in 1 .. Len(Kept(s)[n]) : \E j \in 1 .. n : s[j] = Kept(s)[n][i]
<1> DEFINE Bad == {n \in 0 .. Len(s) : ~Drawn(n)}
<1> SUFFICES ASSUME Bad # {} PROVE FALSE
  OBVIOUS
<1>1. 0 \notin Bad
  <2>1. Kept(s)[0] = <<>> /\ Len(<<>>) = 0
    BY KeptProperties
  <2>2. Drawn(0)
    BY <2>1
  <2> QED
    BY <2>2
<1>2. PICK n \in 1 .. Len(s), j \in 0 .. Len(s) :
        n \in Bad /\ j \notin Bad /\ j + 1 = n /\ n - 1 = j
  <2>1. Bad \in SUBSET (0 .. Len(s)) /\ Len(s) \in Nat
    OBVIOUS
  <2> HIDE DEF Bad
  <2> QED
    BY <1>1, <2>1, FirstMember
<1>3. j + 1 = n /\ j \notin Bad /\ n - 1 = j /\ n \in 1 .. Len(s)
  BY <1>2
<1>4. PICK w \in Seq(S), x \in S : w = Kept(s)[j] /\ x = s[n]
  BY <1>3, KeptProperties
<1>5. Kept(s)[n] = IF x = "comment" THEN w ELSE Append(w, x)
  BY <1>3, <1>4, KeptProperties
<1>6. /\ Len(Append(w, x)) = Len(w) + 1 /\ Append(w, x)[Len(w) + 1] = x
      /\ \A i \in 1 .. Len(w) : Append(w, x)[i] = w[i]
  BY ONLY w \in Seq(S), x \in S, AppendIs
<1>7. Len(w) \in Nat
  OBVIOUS
<1>8. \A i \in 1 .. Len(w) : \E k \in 1 .. j : s[k] = w[i]
  BY <1>3, <1>4
<1>9. ASSUME NEW i \in 1 .. Len(w) PROVE \E k \in 1 .. n : s[k] = w[i]
  <2>1. PICK k \in 1 .. j : s[k] = w[i]
    BY <1>8
  <2>2. k \in 1 .. n
    BY <1>3
  <2> QED
    BY <2>1, <2>2
<1>10. ASSUME NEW i \in 1 .. Len(Kept(s)[n]) PROVE \E k \in 1 .. n : s[k] = Kept(s)[n][i]
  <2>1. CASE x = "comment"
    BY <1>5, <1>9, <2>1
  <2>2. CASE x # "comment"
    <3>1. PICK v : v = Append(w, x) /\ v = Kept(s)[n]
      BY <1>5, <2>2
    <3>2. i \in 1 .. Len(w) \/ i = Len(w) + 1
      BY <1>6, <1>7, <1>10, <3>1
    <3>3. CASE i \in 1 .. Len(w)
      BY <1>6, <1>9, <3>1, <3>3
    <3>4. CASE i = Len(w) + 1
      <4>1. n \in 1 .. n
        BY <1>3
      <4> QED
        BY <1>4, <1>6, <3>1, <3>4, <4>1
    <3> QED
      BY <3>2, <3>3, <3>4
  <2> QED
    BY <2>1, <2>2
<1> QED
  BY <1>2, <1>10

-----------------------------------------------------------------------------
\* Where TrimSemicolons cuts.
LEMMA TrimmedLenProperties ==
    ASSUME NEW S, NEW s \in Seq(S)
    PROVE  /\ TrimmedLen(s) \in 0 .. Len(s)
           /\ TrimmedLen(s) > 0 => s[TrimmedLen(s)] # "semicolon"
           /\ \A i \in TrimmedLen(s) + 1 .. Len(s) : s[i] = "semicolon"
<1> DEFINE Ends(n) == (n > 0 => s[n] # "semicolon") /\ \A i \in n + 1 .. Len(s) : s[i] = "semicolon"
<1>1. PICK N \in Nat : N = Len(s)
  OBVIOUS
<1>2. PICK After \in SUBSET (0 .. N) : \A k : k \in After <=> k \in 1 .. N /\ s[k] # "semicolon"
  <2>1. {k \in 1 .. N : s[k] # "semicolon"} \in SUBSET (0 .. N)
    OBVIOUS
  <2> QED
    BY <2>1
<1>3. \E n \in 0 .. N : Ends(n)
  <2>1. CASE After = {}
    <3>1. 0 \in 0 .. N
      OBVIOUS
    <3>2. \A i \in 0 + 1 .. N : s[i] = "semicolon"
      BY <1>2, <2>1
    <3>3. Ends(0)
      BY <1>1, <3>2
    <3> QED
      BY <3>1, <3>3
  <2>2. CASE After # {}
    <3>1. PICK n \in After : \A k \in After : k <= n
      BY <2>2, GreatestNatural
    <3>2. n \in 1 .. N /\ s[n] # "semicolon"
      BY <1>2
    <3>3. ASSUME NEW i \in n + 1 .. N PROVE s[i] = "semicolon"
      <4>1. i \in 1 .. N /\ ~(i <= n)
        BY ONLY <3>2, i \in n + 1 .. N, N \in Nat
      <4> QED
        BY <1>2, <3>1, <4>1
    <3>4. n \in 0 .. N
      BY ONLY <3>2, N \in Nat
    <3>5. Ends(n)
      BY <1>1, <3>2, <3>3
    <3> QED
      BY <3>4, <3>5
  <2> QED
    BY <2>1, <2>2
<1>4. TrimmedLen(s) = CHOOSE n \in 0 .. N : Ends(n)
  BY <1>1 DEF TrimmedLen
<1>5. TrimmedLen(s) \in 0 .. N /\ Ends(TrimmedLen(s))
  <2> HIDE DEF Ends
  <2> QED
    BY <1>3, <1>4
<1> QED
  BY <1>1, <1>5

LEMMA FirstOfProperties ==
    ASSUME NEW I \in SUBSET Nat, I # {}
    PROVE  FirstOf(I) \in I /\ \A j \in I : FirstOf(I) <= j
<1>1. \E i \in I : \A j \in I : i <= j
  BY LeastNatural
<1> QED
  BY <1>1 DEF FirstOf

\* The first keyword is the first token that opens no parenthesis.
FirstWordAt(s, p) == p \in 1 .. Len(s) /\ s[p] # "open" /\ \A j \in 1 .. p - 1 : s[j] = "open"

LEMMA FirstWordIs ==
    ASSUME NEW S, NEW s \in Seq(S), NEW p, FirstWordAt(s, p)
    PROVE  firstKeyword(s) = s[p]
<1> DEFINE I == {i \in 1 .. Len(s) : s[i] # "open"}
<1>1. p \in I /\ I \in SUBSET Nat
  BY DEF FirstWordAt
<1>2. FirstOf(I) \in I /\ FirstOf(I) <= p
  BY <1>1, FirstOfProperties
<1>3. FirstOf(I) = p
  <2>1. FirstOf(I) \in Nat /\ p \in Nat /\ FirstOf(I) >= 1
    BY <1>1, <1>2
  <2>2. ~(FirstOf(I) \in 1 .. p - 1)
    BY <1>2 DEF FirstWordAt
  <2> QED
    BY <1>2, <2>1, <2>2
<1>4. firstKeyword(s) = IF I = {} THEN "none" ELSE s[FirstOf(I)]
  BY DEF firstKeyword
<1> QED
  BY <1>1, <1>3, <1>4

LEMMA FirstWordExists ==
    ASSUME NEW S, NEW s \in Seq(S), firstKeyword(s) # "none"
    PROVE  \E p : FirstWordAt(s, p) /\ firstKeyword(s) = s[p]
<1> DEFINE I == {i \in 1 .. Len(s) : s[i] # "open"}
<1>1. firstKeyword(s) = IF I = {} THEN "none" ELSE s[FirstOf(I)]
  BY DEF firstKeyword
<1>2. I # {} /\ I \in SUBSET Nat
  <2>1. I \in SUBSET Nat
    OBVIOUS
  <2>2. I # {}
    <3> HIDE DEF I
    <3> QED
      BY <1>1
  <2> QED
    BY <2>1, <2>2
<1>3. FirstOf(I) \in I /\ \A j \in I : FirstOf(I) <= j
  BY <1>2, FirstOfProperties
<1>4. PICK p \in I : p = FirstOf(I)
  BY <1>3
<1>5. ASSUME NEW j \in 1 .. p - 1 PROVE s[j] = "open"
  <2>1. p \in 1 .. Len(s) /\ Len(s) \in Nat
    OBVIOUS
  <2>2. j \in 1 .. Len(s) /\ ~(p <= j)
    BY ONLY <2>1, j \in 1 .. p - 1
  <2> QED
    BY <1>3, <1>4, <2>2
<1>6. FirstWordAt(s, p)
  BY <1>5 DEF FirstWordAt
<1> QED
  BY <1>1, <1>2, <1>4, <1>6

LEMMA SameFirstWord ==
    ASSUME NEW S, NEW x \in Seq(S), NEW y \in Seq(S), NEW m \in Nat, Agree(x, y, m),
           NEW p, FirstWordAt(x, p), p <= m
    PROVE  firstKeyword(y) = x[p]
<1>1. p \in 1 .. m /\ \A j \in 1 .. p - 1 : j \in 1 .. m
  <2>1. p \in 1 .. Len(x) /\ Len(x) \in Nat
    BY DEF FirstWordAt
  <2> QED
    BY ONLY <2>1, p <= m, m \in Nat
<1>2. m <= Len(y) /\ Len(y) \in Nat /\ \A i \in 1 .. m : x[i] = y[i]
  BY DEF Agree
<1>3. p \in 1 .. Len(y)
  BY ONLY <1>1, <1>2, m \in Nat
<1>4. FirstWordAt(y, p)
  BY <1>1, <1>2, <1>3 DEF FirstWordAt
<1>5. firstKeyword(y) = y[p]
  BY <1>4, FirstWordIs
<1> QED
  BY <1>1, <1>2, <1>5

-----------------------------------------------------------------------------
(***************************************************************************)
(* s without its comments is u, what is kept of it before its last         *)
(* semicolons, and then these semicolons.                                  *)
(***************************************************************************)
Trailed(s, u, n, k) ==
    /\ Len(Kept(s)[k]) = Len(u) + (k - n)
    /\ \A i \in 1 .. Len(u) : Kept(s)[k][i] = u[i]
    /\ \A i \in Len(u) + 1 .. Len(u) + (k - n) : Kept(s)[k][i] = "semicolon"
    /\ DepthAt(s)[k + 1] = DepthAt(s)[n + 1]

LEMMA SemicolonsTrail ==
    ASSUME NEW S, NEW s \in Seq(S), NEW n, n = TrimmedLen(s), NEW u, u = Kept(s)[n]
    PROVE  \A k \in n .. Len(s) : Trailed(s, u, n, k)
<1>1. PICK N \in Nat : N = Len(s)
  OBVIOUS
<1>2. n \in 0 .. N /\ n \in Nat /\ \A i \in n + 1 .. N : s[i] = "semicolon"
  <2>1. n \in 0 .. N /\ \A i \in n + 1 .. N : s[i] = "semicolon"
    BY <1>1, TrimmedLenProperties
  <2> QED
    BY <2>1
<1>3. PICK L \in Nat : L = Len(u)
  <2>1. u \in Seq(S)
    BY <1>1, <1>2, KeptProperties
  <2> QED
    BY <2>1
<1> DEFINE Bad == {k \in n .. N : ~Trailed(s, u, n, k)}
<1> SUFFICES ASSUME Bad # {} PROVE FALSE
  BY <1>1
<1>4. PICK k \in Bad : \A j \in Bad : k <= j
  <2>1. Bad \in SUBSET Nat
    BY <1>2
  <2> HIDE DEF Bad
  <2> QED
    BY <2>1, LeastNatural
<1>5. k # n
  <2>1. n - n = 0 /\ L + 0 = L /\ (L + 1) .. L = {}
    BY ONLY <1>2, L \in Nat
  <2>2. Trailed(s, u, n, n)
    BY <1>3, <2>1 DEF Trailed
  <2> QED
    BY <1>4, <2>2
<1>6. PICK j \in n .. N : j + 1 = k /\ k - 1 = j /\ j \notin Bad /\ k \in 1 .. N /\ k \in n + 1 .. N
  <2>1. k \in n .. N
    OBVIOUS
  <2>2. k - 1 \in n .. N /\ (k - 1) + 1 = k /\ k \in 1 .. N /\ k \in n + 1 .. N /\ ~(k <= k - 1)
    BY ONLY <1>2, <1>5, <2>1, N \in Nat
  <2> HIDE DEF Bad
  <2> QED
    BY <1>4, <2>2
<1>7. Trailed(s, u, n, j)
  BY <1>6
<1>8. s[k] = "semicolon" /\ s[k] \in S
  BY <1>1, <1>2, <1>6
<1>9. PICK w \in Seq(S), x \in S : w = Kept(s)[j] /\ x = s[k]
  <2>1. j \in 0 .. N
    BY ONLY <1>2, j \in n .. N
  <2> QED
    BY <1>1, <1>8, <2>1, KeptProperties
<1>10. Kept(s)[k] = Append(w, x)
  BY <1>1, <1>6, <1>8, <1>9, KeptProperties
<1>11. /\ Len(Append(w, x)) = Len(w) + 1 /\ Append(w, x)[Len(w) + 1] = x
       /\ \A i \in 1 .. Len(w) : Append(w, x)[i] = w[i]
  BY ONLY w \in Seq(S), x \in S, AppendIs
<1>12. Len(w) = L + (j - n)
  BY <1>3, <1>7, <1>9 DEF Trailed
<1>13. Len(w) + 1 = L + (k - n)
  BY ONLY <1>2, <1>6, <1>12, L \in Nat, N \in Nat
<1>14. ASSUME NEW i \in 1 .. L PROVE Append(w, x)[i] = u[i]
  <2>1. i \in 1 .. Len(w)
    BY ONLY <1>2, <1>12, L \in Nat, i \in 1 .. L, j \in n .. N, N \in Nat
  <2>2. w[i] = u[i]
    BY <1>3, <1>7, <1>9 DEF Trailed
  <2> QED
    BY <1>11, <2>1, <2>2
<1>15. ASSUME NEW i \in L + 1 .. L + (k - n) PROVE Append(w, x)[i] = "semicolon"
  <2>1. (i \in L + 1 .. L + (j - n) /\ i \in 1 .. Len(w)) \/ i = Len(w) + 1
    BY ONLY <1>2, <1>6, <1>12, <1>13, L \in Nat, i \in L + 1 .. L + (k - n), N \in Nat
  <2>2. CASE i = Len(w) + 1
    BY <1>8, <1>9, <1>11, <2>2
  <2>3. CASE i \in L + 1 .. L + (j - n) /\ i \in 1 .. Len(w)
    <3>1. w[i] = "semicolon"
      BY <1>3, <1>7, <1>9, <2>3 DEF Trailed
    <3> QED
      BY <1>11, <2>3, <3>1
  <2> QED
    BY <2>1, <2>2, <2>3
<1>16. DepthAt(s)[k + 1] = DepthAt(s)[n + 1]
  <2>1. DepthAt(s)[k + 1] = Deeper(DepthAt(s)[k], s[k])
    BY <1>1, <1>6, DepthProperties
  <2>2. Deeper(DepthAt(s)[k], s[k]) = DepthAt(s)[k]
    BY <1>8 DEF Deeper
  <2>3. DepthAt(s)[k] = DepthAt(s)[n + 1]
    BY <1>6, <1>7 DEF Trailed
  <2> QED
    BY <2>1, <2>2, <2>3
<1>17. Trailed(s, u, n, k)
  BY <1>3, <1>10, <1>11, <1>13, <1>14, <1>15, <1>16 DEF Trailed
<1> QED
  BY <1>4, <1>17

\* What is kept before the last semicolons ends with no semicolon, unless a
\* comment hides one.
LEMMA LastKept ==
    ASSUME NEW S, NEW s \in Seq(S), NEW n, n = TrimmedLen(s), ~SemicolonHidden(s),
           NEW u, u = Kept(s)[n], NEW L \in Nat, L = Len(u), L > 0
    PROVE  u[L] # "semicolon"
<1>1. PICK N \in Nat : N = Len(s)
  OBVIOUS
<1>2. n \in 0 .. N /\ (n > 0 => s[n] # "semicolon")
  BY <1>1, TrimmedLenProperties
<1>3. n # 0
  <2>1. Kept(s)[0] = <<>> /\ Len(<<>>) = 0
    BY KeptProperties
  <2> QED
    BY <2>1
<1>4. n \in 1 .. N /\ s[n] # "semicolon" /\ n - 1 \in 0 .. N /\ n \in Nat
  BY <1>2, <1>3
<1>5. CASE s[n] = "comment"
  <2>1. PICK j \in 1 .. n : s[j] = u[L]
    <3>1. \A i \in 1 .. Len(Kept(s)[n]) : \E j \in 1 .. n : s[j] = Kept(s)[n][i]
      BY <1>1, <1>2, KeptTokens
    <3>2. L \in 1 .. L
      BY ONLY L \in Nat, L > 0
    <3> QED
      BY <3>1, <3>2
  <2>2. s[j] # "semicolon"
    <3>1. j \in 1 .. N /\ n \in 1 .. N /\ (j < n \/ j = n)
      BY ONLY <1>4, j \in 1 .. n, N \in Nat
    <3> QED
      BY <1>1, <1>4, <1>5, <3>1 DEF SemicolonHidden
  <2> QED
    BY <2>1, <2>2
<1>6. CASE s[n] # "comment"
  <2>1. PICK w \in Seq(S), x \in S : w = Kept(s)[n - 1] /\ x = s[n]
    BY <1>1, <1>4, KeptProperties
  <2>2. u = Append(w, x)
    BY <1>1, <1>4, <1>6, <2>1, KeptProperties
  <2>3. Len(Append(w, x)) = Len(w) + 1 /\ Append(w, x)[Len(w) + 1] = x
    BY ONLY w \in Seq(S), x \in S, AppendIs
  <2> QED
    BY <1>4, <2>1, <2>2, <2>3
<1> QED
  BY <1>5, <1>6

-----------------------------------------------------------------------------
(***************************************************************************)
(* The last statement of u.  It begins behind the cut a, and is the last   *)
(* one of every sequence that goes on from u with a semicolon, with the    *)
(* end, or with LIMIT and the end.                                         *)
(***************************************************************************)
LastCut(u, L, a) ==
    /\ a \in 0 .. L - 1 /\ (a = 0 \/ u[a] = "semicolon")
    /\ \A c \in 1 .. L : u[c] = "semicolon" => c <= a

LEMMA LastCutExists ==
    ASSUME NEW u, NEW L \in Nat, L > 0, u[L] # "semicolon"
    PROVE  \E a : LastCut(u, L, a)
<1>1. PICK I \in SUBSET (0 .. L) : \A c : c \in I <=> c = 0 \/ (c \in 1 .. L /\ u[c] = "semicolon")
  <2> DEFINE J == {c \in 0 .. L : c = 0 \/ u[c] = "semicolon"}
  <2>1. J \in SUBSET (0 .. L)
    OBVIOUS
  <2>2. \A c : c \in J <=> c = 0 \/ (c \in 1 .. L /\ u[c] = "semicolon")
    OBVIOUS
  <2> HIDE DEF J
  <2> QED
    BY <2>1, <2>2
<1>2. I # {}
  BY <1>1
<1>3. PICK a \in I : \A k \in I : k <= a
  BY <1>2, GreatestNatural
<1>4. a \in 0 .. L - 1
  <2>1. a # L /\ a \in 0 .. L
    BY <1>1
  <2> QED
    BY ONLY <2>1, L \in Nat
<1> QED
  BY <1>1, <1>3, <1>4 DEF LastCut

LEMMA CutsAre ==
    ASSUME NEW t, Len(t) \in Nat
    PROVE  /\ Cuts(t) \in SUBSET (0 .. Len(t) + 1) /\ 0 \in Cuts(t) /\ Len(t) + 1 \in Cuts(t)
           /\ \A c : c \in Cuts(t) <=>
                     c = 0 \/ c = Len(t) + 1 \/ (c \in 1 .. Len(t) /\ t[c] = "semicolon")
  BY DEF Cuts

LEMMA StatementsAre ==
    ASSUME NEW t, NEW p
    PROVE  p \in Statements(t) <=>
               /\ p \in Cuts(t) \X Cuts(t)
               /\ p[1] + 1 < p[2] /\ ~\E c \in Cuts(t) : p[1] < c /\ c < p[2]
  BY DEF Statements

LEMMA StatementsFinite ==
    ASSUME NEW t, Len(t) \in Nat
    PROVE  IsFiniteSet(Statements(t))
<1>1. IsFiniteSet(0 .. Len(t) + 1)
  <2>1. 0 \in Int /\ Len(t) + 1 \in Int
    OBVIOUS
  <2> QED
    BY <2>1, FS_Interval
<1>2. IsFiniteSet(Cuts(t))
  <2>1. Cuts(t) \in SUBSET (0 .. Len(t) + 1)
    BY CutsAre
  <2> QED
    BY <1>1, <2>1, FS_Subset
<1>3. IsFiniteSet(Cuts(t) \X Cuts(t))
  BY <1>2, FS_Product
<1>4. Statements(t) \in SUBSET (Cuts(t) \X Cuts(t))
  BY DEF Statements
<1> QED
  BY <1>3, <1>4, FS_Subset

\* t begins with u, which ends there or at a semicolon.
Begins(t, M, u, L) ==
    /\ M = Len(t) /\ L <= M /\ \A i \in 1 .. L : t[i] = u[i]
    /\ L < M => t[L + 1] = "semicolon"

LEMMA LastStatement ==
    ASSUME NEW u, NEW L \in Nat, L > 0, NEW a, LastCut(u, L, a),
           NEW t, NEW M \in Nat, Begins(t, M, u, L)
    PROVE  <<a, L + 1>> \in Statements(t)
<1>0. M = Len(t) /\ L <= M /\ (\A i \in 1 .. L : t[i] = u[i]) /\ (L < M => t[L + 1] = "semicolon")
  BY DEF Begins
<1>1. a \in 0 .. L - 1 /\ a \in Nat
  BY DEF LastCut
<1>2. L + 1 \in Cuts(t)
  <2>1. L + 1 = M + 1 \/ (L < M /\ L + 1 \in 1 .. M)
    BY ONLY <1>0, L \in Nat, M \in Nat
  <2> QED
    BY <1>0, <2>1, CutsAre
<1>3. a \in Cuts(t)
  <2>1. a = 0 \/ (a \in 1 .. L /\ a \in 1 .. M)
    BY ONLY <1>0, <1>1, L \in Nat, M \in Nat
  <2>2. a = 0 \/ (a \in 1 .. M /\ t[a] = "semicolon")
    BY <1>0, <2>1 DEF LastCut
  <2> QED
    BY <1>0, <2>2, CutsAre
<1>4. ASSUME NEW c \in Cuts(t), a < c, c < L + 1 PROVE FALSE
  <2>1. c \in 0 .. M + 1 /\ (c = 0 \/ c = M + 1 \/ (c \in 1 .. M /\ t[c] = "semicolon"))
    BY <1>0, CutsAre
  <2>2. c \in 1 .. L /\ c # M + 1 /\ c # 0
    BY ONLY <1>0, <1>1, <1>4, <2>1, L \in Nat, M \in Nat
  <2>3. c <= a
    BY <1>0, <2>1, <2>2 DEF LastCut
  <2> QED
    BY ONLY <1>1, <1>4, <2>2, <2>3, L \in Nat
<1>5. a + 1 < L + 1
  BY ONLY <1>1, L \in Nat
<1> QED
  BY <1>2, <1>3, <1>4, <1>5, StatementsAre

\* v is u and one more token.
Goes(v, u, L) ==
    Len(v) = L + 1 /\ (\A i \in 1 .. L : v[i] = u[i]) /\ v[L + 1] # "semicolon"

LEMMA LimitedStatement ==
    ASSUME NEW u, NEW L \in Nat, L > 0, NEW a, LastCut(u, L, a),
           NEW t, NEW M \in Nat, Begins(t, M, u, L), Statements(t) = {<<a, L + 1>>},
           NEW v, Goes(v, u, L)
    PROVE  Statements(v) = {<<a, L + 2>>}
<1>0. /\ M = Len(t) /\ L <= M /\ (\A i \in 1 .. L : t[i] = u[i])
      /\ Len(v) = L + 1 /\ (\A i \in 1 .. L : v[i] = u[i]) /\ v[L + 1] # "semicolon"
  BY DEF Begins, Goes
<1>1. a \in 0 .. L - 1 /\ a \in Nat
  BY DEF LastCut
<1>2. Len(v) \in Nat /\ Len(v) + 1 = L + 2
  BY ONLY <1>0, L \in Nat
<1>3. \A c : c \in Cuts(v) <=> c = 0 \/ c = L + 2 \/ (c \in 1 .. L /\ v[c] = "semicolon")
  <2> SUFFICES ASSUME NEW c
               PROVE  c \in Cuts(v)
                        <=> c = 0 \/ c = L + 2 \/ (c \in 1 .. L /\ v[c] = "semicolon")
    OBVIOUS
  <2>1. c \in Cuts(v) <=> c = 0 \/ c = L + 2 \/ (c \in 1 .. Len(v) /\ v[c] = "semicolon")
    BY <1>2, CutsAre
  <2>2. c \in 1 .. Len(v) <=> c \in 1 .. L \/ c = L + 1
    BY ONLY <1>0, L \in Nat
  <2> QED
    BY <1>0, <2>1, <2>2
<1>4. a \in Cuts(v) /\ L + 2 \in Cuts(v)
  <2>1. a = 0 \/ (a \in 1 .. L)
    BY ONLY <1>1, L \in Nat
  <2>2. a = 0 \/ (a \in 1 .. L /\ v[a] = "semicolon")
    BY <1>0, <2>1 DEF LastCut
  <2> QED
    BY <1>3, <2>2
<1>5. ASSUME NEW c \in Cuts(v), a < c, c < L + 2 PROVE FALSE
  <2>1. c \in 1 .. L /\ v[c] = "semicolon"
    <3>1. c = 0 \/ c = L + 2 \/ (c \in 1 .. L /\ v[c] = "semicolon")
      BY <1>3
    <3>2. c # 0 /\ c # L + 2
      BY ONLY <1>1, <1>5, L \in Nat
    <3> QED
      BY <3>1, <3>2
  <2>2. c <= a
    BY <1>0, <2>1 DEF LastCut
  <2> QED
    BY ONLY <1>1, <1>5, <2>1, <2>2, L \in Nat
<1>6. <<a, L + 2>> \in Statements(v)
  <2>1. a + 1 < L + 2
    BY ONLY <1>1, L \in Nat
  <2> QED
    BY <1>4, <1>5, <2>1, StatementsAre
<1>7. ASSUME NEW c \in Cuts(v), NEW d \in Cuts(v), <<c, d>> \in Statements(v)
      PROVE  c = a /\ d = L + 2
  <2>1. c + 1 < d /\ \A e \in Cuts(v) : ~(c < e /\ e < d)
    BY <1>7, StatementsAre
  <2>2. /\ c = 0 \/ c = L + 2 \/ (c \in 1 .. L /\ v[c] = "semicolon")
        /\ d = 0 \/ d = L + 2 \/ (d \in 1 .. L /\ v[d] = "semicolon")
    BY <1>3
  <2>3. CASE d = L + 2
    <3>1. c \in Nat /\ c # L + 2
      BY ONLY <2>1, <2>2, <2>3, L \in Nat
    <3>2. c <= a
      <4>1. c = 0 \/ (c \in 1 .. L /\ u[c] = "semicolon")
        BY <1>0, <2>2, <3>1
      <4> QED
        BY <1>1, <4>1 DEF LastCut
    <3>3. ~(c < a /\ a < L + 2)
      BY <1>4, <2>1, <2>3
    <3> QED
      BY ONLY <1>1, <2>3, <3>1, <3>2, <3>3, L \in Nat
  <2>4. CASE d # L + 2
    <3>1. d \in 1 .. L /\ v[d] = "semicolon" /\ (c = 0 \/ (c \in 1 .. L /\ v[c] = "semicolon"))
      <4>1. d # 0 /\ c # L + 2
        BY ONLY <2>1, <2>2, <2>4, L \in Nat
      <4> QED
        BY <2>2, <2>4, <4>1
    <3>2. \A e \in 1 .. L : e \in 1 .. M /\ e # M + 1 /\ e # 0 /\ v[e] = t[e]
      <4>1. \A e \in 1 .. L : e \in 1 .. M /\ e # M + 1 /\ e # 0
        BY ONLY <1>0, L \in Nat, M \in Nat
      <4> QED
        BY <1>0, <4>1
    <3>3. c \in Cuts(t) /\ d \in Cuts(t)
      BY <1>0, <3>1, <3>2, CutsAre
    <3>4. ASSUME NEW e \in Cuts(t), c < e, e < d PROVE FALSE
      <4>1. e \in 0 .. M + 1 /\ (e = 0 \/ e = M + 1 \/ (e \in 1 .. M /\ t[e] = "semicolon"))
        BY <1>0, CutsAre
      <4>2. e \in 1 .. L
        BY ONLY <1>0, <3>1, <3>4, <4>1, L \in Nat, M \in Nat
      <4>3. v[e] = "semicolon"
        BY <3>2, <4>1, <4>2
      <4>4. e \in Cuts(v)
        BY <1>3, <4>2, <4>3
      <4> QED
        BY <2>1, <3>4, <4>4
    <3>5. <<c, d>> \in Statements(t)
      BY <2>1, <3>3, <3>4, StatementsAre
    <3>6. d = L + 1
      BY <3>5
    <3> QED
      BY ONLY <3>1, <3>6, L \in Nat
  <2> QED
    BY <2>3, <2>4
<1>8. ASSUME NEW p \in Statements(v) PROVE p = <<a, L + 2>>
  <2>1. PICK c \in Cuts(v), d \in Cuts(v) : p = <<c, d>>
    BY StatementsAre
  <2> QED
    BY <1>7, <2>1
<1> QED
  BY <1>6, <1>8

\* ClassifySQL of a statement with one statement between the cuts a and b.
LEMMA ClassOfOne ==
    ASSUME NEW s, NEW t, t = StripSQLComments(s), NEW a, NEW b, Statements(t) = {<<a, b>>}
    PROVE  ClassifySQL(s) = "read"
             <=> firstKeyword(SubSeq(t, a + 1, Len(t))) \in readOnlyHeads
<1>1. Cardinality(Statements(t)) = 1
  BY FS_Singleton
<1>2. (CHOOSE p \in Statements(t) : TRUE)[1] = a
  <2>1. PICK q : q = CHOOSE p \in Statements(t) : TRUE
    OBVIOUS
  <2>2. q = <<a, b>>
    BY <2>1
  <2> QED
    BY <2>1, <2>2
<1>3. PICK h : h = firstKeyword(SubSeq(t, a + 1, Len(t)))
  OBVIOUS
<1>4. ClassifySQL(s) = IF Cardinality(Statements(t)) # 1 THEN "unknown"
                       ELSE IF h \in readOnlyHeads THEN "read"
                       ELSE IF h \in mutationHeads THEN "mutation"
                       ELSE IF h \in ddlHeads THEN "ddl"
                       ELSE "unknown"
  BY <1>2, <1>3, Zenon DEF ClassifySQL
<1> QED
  BY <1>1, <1>3, <1>4

LEMMA ReadIsOne ==
    ASSUME NEW s, ClassifySQL(s) = "read", IsFiniteSet(Statements(StripSQLComments(s)))
    PROVE  \E p : Statements(StripSQLComments(s)) = {p}
<1>1. Cardinality(Statements(StripSQLComments(s))) = 1
  BY DEF ClassifySQL
<1> QED
  BY <1>1, FS_Singleton

\* y is what follows the a-th token of t.
Rest(y, t, M, a) ==
    /\ y = SubSeq(t, a + 1, M) /\ Len(y) = M - a
    /\ \A i \in 1 .. M - a : y[i] = t[a + i]

LEMMA TailFrom ==
    ASSUME NEW S, NEW t \in Seq(S), NEW M \in Nat, M = Len(t), NEW a \in Nat, a <= M
    PROVE  \E y \in Seq(S) : Rest(y, t, M, a)
<1>1. PICK m : m = a + 1
  OBVIOUS
<1>2. m \in 1 .. Len(t) + 1 /\ M \in m - 1 .. Len(t)
  BY ONLY <1>1, M = Len(t), a \in Nat, M \in Nat, a <= M
<1>3. /\ SubSeq(t, m, M) \in Seq(S) /\ Len(SubSeq(t, m, M)) = M - m + 1
      /\ \A i \in 1 .. M - m + 1 : SubSeq(t, m, M)[i] = t[m + i - 1]
  BY ONLY <1>2, t \in Seq(S), Stretch
<1>4. M - m + 1 = M - a /\ \A i \in 1 .. M - a : m + i - 1 = a + i
  BY ONLY <1>1, a \in Nat, M \in Nat
<1>5. PICK y \in Seq(S) : /\ y = SubSeq(t, m, M) /\ Len(y) = M - m + 1
                          /\ \A i \in 1 .. M - m + 1 : y[i] = t[m + i - 1]
  BY <1>3
<1>6. ASSUME NEW i \in 1 .. M - a PROVE y[i] = t[a + i]
  <2>1. m + i - 1 = a + i /\ i \in 1 .. M - m + 1
    BY <1>4
  <2>2. y[i] = t[m + i - 1]
    BY <1>5, <2>1
  <2> QED
    BY <2>1, <2>2
<1>7. Rest(y, t, M, a)
  BY <1>1, <1>4, <1>5, <1>6 DEF Rest
<1> QED
  BY <1>7

(***************************************************************************)
(* EnsureLimit on a statement that is read: the result is read too, and    *)
(* has a LIMIT outside parentheses.                                        *)
(***************************************************************************)
LEMMA EnsureLimitLimits ==
    ASSUME NEW S, "LIMIT" \in S, NEW s \in Seq(S), MaxRows > 0, ClassifySQL(s) = "read",
           Reads(s), Balanced(s), ~SemicolonHidden(s)
    PROVE  /\ ClassifySQL(EnsureLimit(s)) = "read"
           /\ hasTopLevelLimit(StripSQLComments(EnsureLimit(s)))
<1>1. PICK N \in Nat : N = Len(s)
  OBVIOUS
<1>2. PICK n \in Nat : n = TrimmedLen(s) /\ n \in 0 .. N
  BY <1>1, TrimmedLenProperties
<1>3. PICK u \in Seq(S) : u = Kept(s)[n]
  BY <1>1, <1>2, KeptProperties
<1>4. PICK t \in Seq(S) : t = StripSQLComments(s) /\ t = Kept(s)[N]
  <2>1. N \in 0 .. N
    OBVIOUS
  <2> QED
    BY <1>1, <2>1, KeptProperties DEF StripSQLComments
<1>5. PICK L \in Nat, M \in Nat : L = Len(u) /\ M = Len(t)
  OBVIOUS
<1>6. /\ M = L + (N - n) /\ L <= M
      /\ \A i \in 1 .. L : t[i] = u[i]
      /\ \A i \in L + 1 .. M : t[i] = "semicolon"
      /\ DepthAt(s)[N + 1] = DepthAt(s)[n + 1]
  <2>1. N \in n .. N
    BY ONLY <1>2, N \in Nat
  <2>2. Trailed(s, u, n, N)
    BY <1>1, <1>2, <1>3, <2>1, SemicolonsTrail
  <2>3. /\ M = L + (N - n) /\ \A i \in 1 .. L : t[i] = u[i]
        /\ \A i \in L + 1 .. L + (N - n) : t[i] = "semicolon"
        /\ DepthAt(s)[N + 1] = DepthAt(s)[n + 1]
    BY <1>4, <1>5, <2>2 DEF Trailed
  <2>4. L <= M
    BY ONLY <1>2, <2>3, L \in Nat, N \in Nat
  <2> QED
    BY <2>3, <2>4
<1>7. Agree(t, u, L) /\ Agree(u, t, L)
  BY <1>5, <1>6 DEF Agree
\* The first word of s is in u.
<1>8. PICK p : FirstWordAt(t, p) /\ t[p] \in {"SELECT", "WITH"}
  <2>1. firstKeyword(t) \in {"SELECT", "WITH"}
    BY <1>4 DEF Reads
  <2>2. firstKeyword(t) # "none"
    BY <2>1
  <2> QED
    BY <2>1, <2>2, FirstWordExists
<1>9. p <= L /\ p \in 1 .. L
  <2>1. p \in 1 .. M /\ t[p] # "semicolon"
    BY <1>5, <1>8 DEF FirstWordAt
  <2>2. p \notin L + 1 .. M
    BY <1>6, <2>1
  <2> QED
    BY ONLY <2>1, <2>2, L \in Nat, M \in Nat
<1>10. firstKeyword(u) \in {"SELECT", "WITH"} /\ L > 0
  <2>1. firstKeyword(u) = t[p]
    BY <1>7, <1>8, <1>9, SameFirstWord
  <2>2. L > 0
    BY ONLY <1>9, L \in Nat
  <2> QED
    BY <1>8, <2>1, <2>2
\* What EnsureLimit reads is u.
<1>11. PICK x \in Seq(S) : /\ x = TrimSemicolons(s) /\ Len(x) = n
                           /\ \A i \in 1 .. n : x[i] = s[i]
  <2>1. 1 \in 1 .. Len(s) + 1 /\ n \in 1 - 1 .. Len(s) /\ n - 1 + 1 = n
        /\ \A i \in 1 .. n : 1 + i - 1 = i
    BY ONLY <1>1, <1>2
  <2>2. /\ SubSeq(s, 1, n) \in Seq(S) /\ Len(SubSeq(s, 1, n)) = n - 1 + 1
        /\ \A i \in 1 .. n - 1 + 1 : SubSeq(s, 1, n)[i] = s[1 + i - 1]
    BY ONLY <2>1, s \in Seq(S), Stretch
  <2>3. TrimSemicolons(s) = SubSeq(s, 1, n)
    BY <1>2 DEF TrimSemicolons
  <2> QED
    BY <2>1, <2>2, <2>3
<1>12. StripSQLComments(x) = u
  <2>1. Agree(x, s, n)
    BY <1>1, <1>2, <1>11 DEF Agree
  <2>2. n \in 0 .. n
    OBVIOUS
  <2>3. Kept(x)[n] = Kept(s)[n]
    BY <2>1, <2>2, KeptOfPrefix
  <2> QED
    BY <1>3, <1>11, <2>3 DEF StripSQLComments
<1>13. EnsureLimit(s) = IF hasTopLevelLimit(u) THEN s ELSE Limited(s)
  <2>1. MaxRows # 0
    BY StatementAssumption
  <2> QED
    BY <1>10, <1>11, <1>12, <2>1 DEF EnsureLimit
<1>14. CASE hasTopLevelLimit(u)
  <2>1. PICK i \in 1 .. L : u[i] = "LIMIT" /\ DepthAt(u)[i] = 0
    BY <1>5, <1>14 DEF hasTopLevelLimit, Outer
  <2>2. i \in 1 .. L + 1 /\ i \in 1 .. M
    BY ONLY <1>6, L \in Nat, M \in Nat, i \in 1 .. L
  <2>3. DepthAt(t)[i] = 0 /\ t[i] = "LIMIT"
    BY <1>6, <1>7, <2>1, <2>2, DepthOfPrefix
  <2>4. hasTopLevelLimit(t)
    BY <1>5, <2>2, <2>3 DEF hasTopLevelLimit, Outer
  <2> QED
    BY <1>4, <1>13, <1>14, <2>4
<1>15. CASE ~hasTopLevelLimit(u)
  \* Limited(s) without its comments is u and LIMIT.
  <2>1. PICK r \in Seq(S) : r = EnsureLimit(s) /\ r = Append(x, "LIMIT")
    <3>1. x \o <<"LIMIT">> = Append(x, "LIMIT") /\ Append(x, "LIMIT") \in Seq(S)
      OBVIOUS
    <3> QED
      BY <1>11, <1>13, <1>15, <3>1 DEF Limited
  <2>2. Len(r) = n + 1 /\ r[n + 1] = "LIMIT" /\ \A i \in 1 .. n : r[i] = x[i]
    <3>1. /\ Len(Append(x, "LIMIT")) = Len(x) + 1 /\ Append(x, "LIMIT")[Len(x) + 1] = "LIMIT"
          /\ \A i \in 1 .. Len(x) : Append(x, "LIMIT")[i] = x[i]
      BY ONLY x \in Seq(S), "LIMIT" \in S, AppendIs
    <3> QED
      BY <1>11, <2>1, <3>1
  <2>3. Kept(r)[n] = u
    <3>1. Agree(r, x, n)
      BY <1>11, <2>2 DEF Agree
    <3>2. n \in 0 .. n
      OBVIOUS
    <3>3. Kept(r)[n] = Kept(x)[n]
      BY <3>1, <3>2, KeptOfPrefix
    <3> QED
      BY <1>11, <1>12, <3>3 DEF StripSQLComments
  <2>4. PICK v \in Seq(S) : v = StripSQLComments(r) /\ v = Append(u, "LIMIT")
    <3>1. n + 1 \in 1 .. Len(r) /\ (n + 1) - 1 = n
      BY <2>2
    <3>2. Kept(r)[n + 1] = Append(u, "LIMIT")
      BY <2>2, <2>3, <3>1, KeptProperties
    <3>3. Append(u, "LIMIT") \in Seq(S)
      BY ONLY u \in Seq(S), "LIMIT" \in S, AppendIs
    <3> QED
      BY <2>2, <3>2, <3>3 DEF StripSQLComments
  <2>5. Len(v) = L + 1 /\ v[L + 1] = "LIMIT" /\ \A i \in 1 .. L : v[i] = u[i]
    <3>1. /\ Len(Append(u, "LIMIT")) = Len(u) + 1 /\ Append(u, "LIMIT")[Len(u) + 1] = "LIMIT"
          /\ \A i \in 1 .. Len(u) : Append(u, "LIMIT")[i] = u[i]
      BY ONLY u \in Seq(S), "LIMIT" \in S, AppendIs
    <3> QED
      BY <1>5, <2>4, <3>1
  \* It is one statement with the same head.
  <2>6. PICK a : LastCut(u, L, a)
    <3>1. u[L] # "semicolon"
      BY <1>2, <1>3, <1>5, <1>10, LastKept
    <3> QED
      BY <1>10, <3>1, LastCutExists
  <2>7. L < M => t[L + 1] = "semicolon"
    <3>1. L < M => L + 1 \in L + 1 .. M
      BY ONLY L \in Nat, M \in Nat
    <3> QED
      BY <1>6, <3>1
  <2>8. Begins(t, M, u, L) /\ Statements(t) = {<<a, L + 1>>}
    <3>0. Begins(t, M, u, L)
      BY <1>5, <1>6, <2>7 DEF Begins
    <3>1. <<a, L + 1>> \in Statements(t)
      BY <1>10, <2>6, <3>0, LastStatement
    <3>2. \E q : Statements(t) = {q}
      <4>1. IsFiniteSet(Statements(t))
        BY <1>5, StatementsFinite
      <4> QED
        BY <1>4, <4>1, ReadIsOne
    <3> QED
      BY <3>0, <3>1, <3>2
  <2>9. Statements(v) = {<<a, L + 2>>}
    <3>1. Goes(v, u, L)
      BY <2>5 DEF Goes
    <3> QED
      BY ONLY <1>10, <2>6, <2>8, <3>1, L \in Nat, M \in Nat, LimitedStatement
  <2>10. a \in 0 .. L - 1 /\ a \in Nat
    BY <2>6 DEF LastCut
  <2>11. PICK y \in Seq(S) : Rest(y, t, M, a)
    <3>1. a <= M /\ M = Len(t)
      BY ONLY <1>5, <1>6, <2>10, L \in Nat, M \in Nat
    <3> QED
      BY ONLY <2>10, <3>1, t \in Seq(S), M \in Nat, TailFrom
  <2>12. PICK K \in Nat, z \in Seq(S) : K = L + 1 /\ Rest(z, v, K, a)
    <3>1. PICK K \in Nat : K = L + 1
      OBVIOUS
    <3>2. K = Len(v) /\ a <= K
      BY ONLY <2>5, <2>10, <3>1, L \in Nat
    <3>3. PICK z \in Seq(S) : Rest(z, v, K, a)
      BY ONLY <2>10, <3>2, v \in Seq(S), K \in Nat, TailFrom
    <3> QED
      BY <3>1, <3>3
  <2>13. firstKeyword(y) \in readOnlyHeads
    BY <1>4, <1>5, <2>8, <2>11, ClassOfOne DEF Rest
  <2>14. PICK k : FirstWordAt(y, k) /\ firstKeyword(y) = y[k]
    <3>1. firstKeyword(y) # "none"
      BY <2>13 DEF readOnlyHeads
    <3> QED
      BY <3>1, FirstWordExists
  <2>15. k <= L - a
    <3>1. k \in 1 .. M - a
      BY <2>11, <2>14 DEF FirstWordAt, Rest
    <3>2. t[a + k] # "semicolon"
      BY <2>11, <2>13, <2>14, <3>1 DEF readOnlyHeads, Rest
    <3>3. a + k \notin L + 1 .. M
      BY <1>6, <3>2
    <3> QED
      BY ONLY <2>10, <3>1, <3>3, L \in Nat, M \in Nat
  <2>16. L - a \in Nat /\ Agree(y, z, L - a)
    <3>1. /\ L - a \in Nat /\ L - a <= M - a /\ L - a <= K - a
          /\ \A i \in 1 .. L - a : i \in 1 .. M - a /\ i \in 1 .. K - a /\ a + i \in 1 .. L
      BY ONLY <1>6, <2>10, <2>12, L \in Nat, M \in Nat
    <3>2. ASSUME NEW i \in 1 .. L - a PROVE y[i] = z[i]
      <4>0. i \in 1 .. M - a /\ i \in 1 .. K - a /\ a + i \in 1 .. L
        BY <3>1
      <4>1. y[i] = t[a + i] /\ z[i] = v[a + i]
        BY <2>11, <2>12, <4>0, Zenon DEF Rest
      <4>2. t[a + i] = u[a + i] /\ v[a + i] = u[a + i]
        BY <1>6, <2>5, <4>0
      <4> QED
        BY <4>1, <4>2
    <3>3. Len(y) = M - a /\ Len(z) = K - a
      BY <2>11, <2>12, Zenon DEF Rest
    <3> QED
      BY <3>1, <3>2, <3>3 DEF Agree
  <2>17. firstKeyword(z) \in readOnlyHeads
    BY <2>13, <2>14, <2>15, <2>16, SameFirstWord
  <2>18. ClassifySQL(r) = "read"
    BY <2>4, <2>5, <2>9, <2>12, <2>17, ClassOfOne DEF Rest
  \* The parentheses are closed where LIMIT stands.
  <2>19. DepthAt(u)[L + 1] = 0
    <3>1. DepthAt(u)[L + 1] = DepthAt(s)[n + 1]
      BY <1>1, <1>2, <1>3, <1>5, DepthOfKept
    <3> QED
      BY <1>1, <1>6, <3>1 DEF Balanced
  <2>20. DepthAt(v)[L + 1] = 0
    <3>1. Agree(v, u, L)
      BY <1>5, <2>5 DEF Agree
    <3>2. L + 1 \in 1 .. L + 1
      OBVIOUS
    <3> QED
      BY <2>19, <3>1, <3>2, DepthOfPrefix
  <2>21. hasTopLevelLimit(v)
    <3>1. L + 1 \in 1 .. Len(v)
      BY <2>5
    <3> QED
      BY <2>5, <2>20, <3>1 DEF hasTopLevelLimit, Outer
  <2> QED
    BY <2>1, <2>4, <2>18, <2>21
<1> QED
  BY <1>14, <1>15

-----------------------------------------------------------------------------
\* What the database was given for a read is what EnsureLimit makes of it.
StmtIInv ==
    /\ query \in Seq(Words)
    /\ sent.how = "query" => ClassifySQL(query) = "read" /\ sent.sql = EnsureLimit(query)

THEOREM StatementInvariant == StmtSpec => []StmtIInv
<1>1. StmtInit => StmtIInv
  <2> SUFFICES ASSUME StmtInit PROVE StmtIInv
    OBVIOUS
  <2>1. query \in Seq(Words)
    BY DEF StmtInit, BoundedSeq, SeqOf
  <2> QED
    BY <2>1 DEF StmtInit, StmtIInv, Unsent
<1>2. StmtIInv /\ [StmtNext]_stmtVars => StmtIInv'
  <2> SUFFICES ASSUME StmtIInv, [StmtNext]_stmtVars PROVE StmtIInv'
    OBVIOUS
  <2>1. CASE UNCHANGED stmtVars
    BY <2>1 DEF StmtIInv, stmtVars
  <2>2. CASE Execute
    <3>1. PICK kind : kind = ClassifySQL(query)
      OBVIOUS
    <3>2. sent' = IF Rejects(kind) THEN [how |-> "rejected", sql |-> <<>>]
                  ELSE IF kind = "read" THEN [how |-> "query", sql |-> EnsureLimit(query)]
                  ELSE [how |-> "exec", sql |-> query]
      BY <2>2, <3>1 DEF Execute
    <3>3. query' = query
      BY <2>2 DEF Execute
    <3>4. sent'.how = "query" => kind = "read" /\ sent'.sql = EnsureLimit(query)
      BY <3>2
    <3> QED
      BY <3>1, <3>3, <3>4 DEF StmtIInv
  <2> QED
    BY <2>1, <2>2 DEF StmtNext
<1> QED
  BY <1>1, <1>2, PTL DEF StmtSpec

(***************************************************************************)
(* The LIMIT of executeRead: for every set of words and every length,      *)
(* MaxRows and permission, what is sent for a SELECT or WITH whose         *)
(* parentheses match and in which no comment follows a semicolon is one    *)
(* statement with a LIMIT of its own.                                      *)
(***************************************************************************)
THEOREM ReadsAreAlwaysLimited == StmtSpec => []ReadsAreLimited
<1>1. StmtIInv => ReadsAreLimited
  <2> SUFFICES ASSUME StmtIInv, sent.how = "query", MaxRows > 0, Reads(query),
                      Balanced(query), ~SemicolonHidden(query)
               PROVE  /\ ClassifySQL(sent.sql) = "read"
                      /\ hasTopLevelLimit(StripSQLComments(sent.sql))
    BY DEF ReadsAreLimited
  <2>0. PICK S : S = Words \union {"LIMIT"}
    OBVIOUS
  <2>1. PICK s \in Seq(S) : s = query /\ "LIMIT" \in S
    <3>1. query \in Seq(S)
      BY <2>0 DEF StmtIInv
    <3> QED
      BY <2>0, <3>1
  <2>2. ClassifySQL(s) = "read" /\ sent.sql = EnsureLimit(s)
    BY <2>1 DEF StmtIInv
  <2>3. Reads(s) /\ Balanced(s) /\ ~SemicolonHidden(s)
    BY <2>1
  <2> QED
    BY <2>1, <2>2, <2>3, EnsureLimitLimits
<1> QED
  BY <1>1, StatementInvariant, PTL

-----------------------------------------------------------------------------
(***************************************************************************)
(* The trajectory grader.  matchSet keeps a matching, the calls of augment *)
(* under way form a path along it, and the expected calls that were left   *)
(* without one are held off by a set of recorded calls that are all given  *)
(* to others: nothing outside the set is accepted by those who are left or *)
(* by those who hold a member of it.                                       *)
(***************************************************************************)
Recorded == 1..grade.n

TrajTypes ==
    /\ grade.n \in Nat /\ grade.accepts \in SUBSET (Wanted \X Recorded)
    /\ placing \in 1..NExpected + 1
    /\ assigned \in [Recorded -> 0..NExpected]
    /\ matched \in SUBSET (1..placing - 1)
    /\ path \in Seq(0..grade.n) /\ seen \in SUBSET Recorded
    /\ path # <<>> => placing <= NExpected

\* What is assigned is a matching of the matched ones.
MatchingInv ==
    /\ \A a \in Recorded : assigned[a] # Free => assigned[a] \in matched /\ Accepts(assigned[a], a)
    /\ \A e \in matched : \E a \in Recorded : assigned[a] = e
    /\ \A a, b \in Recorded : assigned[a] = assigned[b] /\ assigned[a] # Free => a = b

\* Each call of augment asks in place of the one who holds what the call around
\* it tries, and has tried what it accepts up to where it is.
PathInv ==
    /\ \A i \in 1..Len(path) : i < Len(path) => path[i] # 0
    /\ \A i \in 1..Len(path) : path[i] # 0 => path[i] \in seen /\ Accepts(Asking(i), path[i])
    /\ \A i, j \in 1..Len(path) : path[i] = path[j] /\ path[i] # 0 => i = j
    /\ \A i \in 1..Len(path) : \A b \in Recorded : b <= path[i] /\ Accepts(Asking(i), b) => b \in seen

Settled(a) == \A b \in Recorded : Accepts(assigned[a], b) => b \in seen

\* What was tried is taken, and whoever holds it is asking or has asked in vain.
SeenInv ==
    /\ \A a \in seen : assigned[a] # Free
    /\ \A a \in seen : (\E i \in 1..Len(path) : i < Len(path) /\ path[i] = a) \/ Settled(a)

\* R holds off the expected calls that were left without a recorded one.
HoldsOff(R) ==
    /\ \A a \in R : assigned[a] # Free
    /\ \A a \in R : \A b \in Recorded : Accepts(assigned[a], b) => b \in R
    /\ \A e \in 1..placing - 1 : e \notin matched => \A b \in Recorded : Accepts(e, b) => b \in R
HeldInv == \E R \in SUBSET Recorded : HoldsOff(R)

TrajIInv == TrajTypes /\ MatchingInv /\ PathInv /\ SeenInv /\ HeldInv

LEMMA TrajInitHolds == TrajInit => TrajIInv
<1> SUFFICES ASSUME TrajInit PROVE TrajIInv
  OBVIOUS
<1>1. NExpected \in Nat /\ NActual \in Nat
  BY TrajectoryAssumption
<1>2. PICK n \in Nat : /\ \E accepts \in SUBSET (Wanted \X (1..n)) :
                              grade = [n |-> n, accepts |-> accepts]
                       /\ assigned = [a \in 1..n |-> Free]
  <2>1. PICK from \in [1..NActual -> Sources], subagents \in BOOLEAN, ignoreReused \in BOOLEAN :
          LET n == Cardinality(filterCalls(from, subagents, ignoreReused))
          IN /\ \E accepts \in SUBSET (Wanted \X (1..n)) : grade = [n |-> n, accepts |-> accepts]
             /\ assigned = [a \in 1..n |-> Free]
    BY DEF TrajInit
  <2>2. PICK n : n = Cardinality(filterCalls(from, subagents, ignoreReused))
    OBVIOUS
  <2>3. n \in Nat
    <3>1. IsFiniteSet(1..NActual)
      BY <1>1, FS_Interval
    <3>2. filterCalls(from, subagents, ignoreReused) \in SUBSET (1..NActual)
      BY DEF filterCalls
    <3>3. IsFiniteSet(filterCalls(from, subagents, ignoreReused))
      BY <3>1, <3>2, FS_Subset
    <3> QED
      BY <2>2, <3>3, FS_CardinalityType
  <2>4. PICK accepts \in SUBSET (Wanted \X (1..n)) : grade = [n |-> n, accepts |-> accepts]
    BY <2>1, <2>2
  <2>5. assigned = [a \in 1..n |-> Free]
    BY <2>1, <2>2
  <2> QED
    BY <2>3, <2>4, <2>5
<1>3. grade.n = n /\ grade.accepts \in SUBSET (Wanted \X (1..n)) /\ Recorded = 1..n
  BY <1>2 DEF Recorded
<1>4. placing = 1 /\ matched = {} /\ path = <<>> /\ seen = {} /\ Len(path) = 0
  BY DEF TrajInit
<1>5. \A a \in Recorded : assigned[a] = 0
  BY <1>2, <1>3 DEF Free
<1>6. TrajTypes
  <2>1. assigned \in [Recorded -> 0..NExpected]
    BY <1>1, <1>2, <1>3 DEF Free
  <2>2. placing \in 1..NExpected + 1
    BY <1>1, <1>4
  <2> QED
    BY <1>3, <1>4, <2>1, <2>2 DEF TrajTypes
<1>7. MatchingInv /\ PathInv /\ SeenInv
  BY <1>4, <1>5 DEF MatchingInv, PathInv, SeenInv, Free
<1>8. HoldsOff({}) /\ {} \in SUBSET Recorded
  <2>1. 1..placing - 1 = {}
    BY <1>4
  <2> QED
    BY <2>1 DEF HoldsOff
<1> QED
  BY <1>6, <1>7, <1>8 DEF TrajIInv, HeldInv

\* What the innermost call tries next is the least of what it has to try.
LEMMA TryingIs ==
    ASSUME TrajTypes, path # <<>>, Untried # {}
    PROVE  /\ Trying \in Recorded /\ Trying \notin seen /\ path[Len(path)] < Trying
           /\ Accepts(Asking(Len(path)), Trying)
           /\ \A b \in Recorded :
                path[Len(path)] < b /\ b < Trying /\ Accepts(Asking(Len(path)), b) => b \in seen
<1>1. PICK n \in Nat : n = grade.n
  BY DEF TrajTypes
<1>2. PICK l \in 0..n : l = path[Len(path)]
  BY <1>1 DEF TrajTypes
<1>3. \A a : a \in Untried <=>
          a \in l + 1..n /\ a \notin seen /\ Accepts(Asking(Len(path)), a)
  BY <1>1, <1>2 DEF Untried
<1>4. Untried \in SUBSET Nat
  <2>1. \A a \in l + 1..n : a \in Nat
    OBVIOUS
  <2> QED
    BY <1>3, <2>1
<1>5. Trying \in Untried /\ \A b \in Untried : Trying <= b
  <2>1. \E a \in Untried : \A b \in Untried : a <= b
    BY <1>4, LeastNatural
  <2> QED
    BY <2>1 DEF Trying
<1>6. PICK t : t = Trying /\ t \in l + 1..n
  BY <1>3, <1>5
<1>7. t \in 1..n /\ l < t /\ t \in Nat
  BY ONLY <1>6, l \in 0..n, n \in Nat
<1>8. ASSUME NEW b \in 1..n, l < b, b < t, Accepts(Asking(Len(path)), b) PROVE b \in seen
  <2>1. b \in l + 1..n /\ ~(t <= b)
    BY ONLY <1>7, <1>8, l \in 0..n, n \in Nat
  <2> QED
    BY <1>3, <1>5, <1>6, <1>8, <2>1
<1> QED
  BY <1>1, <1>2, <1>3, <1>5, <1>6, <1>7, <1>8 DEF Recorded

\* What no step changes.
LEMMA GradeStands ==
    ASSUME grade' = grade
    PROVE  Recorded' = Recorded /\ \A e, a : Accepts(e, a)' <=> Accepts(e, a)
  BY DEF Recorded, Accepts

LEMMA PlaceStep == ASSUME TrajIInv, Place PROVE TrajIInv'
<1>1. /\ path = <<>> /\ placing <= NExpected /\ path' = <<0>> /\ seen' = {} /\ grade' = grade
      /\ placing' = placing /\ assigned' = assigned /\ matched' = matched
  BY DEF Place
<1>2. Recorded' = Recorded /\ \A e, a : Accepts(e, a)' <=> Accepts(e, a)
  BY <1>1, GradeStands
<1>3. Len(path') = 1 /\ path'[1] = 0
  BY <1>1
<1>4. TrajTypes'
  <2>1. 0 \in 0..grade.n
    BY DEF TrajIInv, TrajTypes
  <2>2. path' \in Seq(0..grade.n)
    BY <1>1, <2>1
  <2> QED
    BY <1>1, <1>2, <2>2 DEF TrajIInv, TrajTypes
<1>5. MatchingInv'
  BY <1>1, <1>2 DEF TrajIInv, MatchingInv
<1>6. PathInv'
  <2>1. \A b \in Recorded' : ~(b <= 0)
    BY DEF Recorded
  <2> QED
    BY <1>3, <2>1 DEF PathInv
<1>7. SeenInv'
  BY <1>1 DEF SeenInv
<1>8. HeldInv'
  BY <1>1, <1>2 DEF TrajIInv, HeldInv, HoldsOff
<1> QED
  BY <1>4, <1>5, <1>6, <1>7, <1>8 DEF TrajIInv

LEMMA DisplaceStep == ASSUME TrajIInv, Displace PROVE TrajIInv'
<1>1. /\ path # <<>> /\ Untried # {} /\ assigned[Trying] # Free
      /\ path' = Append(PathTo(Trying), 0) /\ seen' = seen \union {Trying} /\ grade' = grade
      /\ placing' = placing /\ assigned' = assigned /\ matched' = matched
  BY DEF Displace
<1>2. Recorded' = Recorded /\ \A e, a : Accepts(e, a)' <=> Accepts(e, a)
  BY <1>1, GradeStands
<1>3. TrajTypes /\ MatchingInv /\ PathInv /\ SeenInv /\ HeldInv
  BY DEF TrajIInv
<1>4. PICK n \in Nat : n = grade.n /\ Recorded = 1..n
  BY <1>3 DEF TrajTypes, Recorded
<1>5. PICK k \in Nat : k = Len(path) /\ k >= 1 /\ k \in 1..k
  <2>1. path \in Seq(0..n)
    BY <1>3, <1>4 DEF TrajTypes
  <2>2. Len(path) \in Nat /\ Len(path) >= 1
    BY <1>1, <2>1, EmptySeq
  <2> QED
    BY <2>2
<1>6. PICK t \in 1..n : t = Trying
  BY <1>1, <1>3, <1>4, TryingIs
<1>7. /\ t \notin seen /\ path[k] < t /\ Accepts(Asking(k), t)
      /\ \A b \in 1..n : path[k] < b /\ b < t /\ Accepts(Asking(k), b) => b \in seen
  BY <1>1, <1>3, <1>4, <1>5, <1>6, TryingIs
<1>8. /\ path' \in Seq(0..n) /\ Len(path') = k + 1
      /\ path'[k] = t /\ path'[k + 1] = 0 /\ \A i \in 1..k - 1 : path'[i] = path[i]
  <2>1. path \in Seq(0..n) /\ t \in 0..n
    BY <1>3, <1>4 DEF TrajTypes
  <2>2. PICK q : q = [path EXCEPT ![k] = t]
    OBVIOUS
  <2>3. /\ q \in Seq(0..n) /\ Len(q) = k /\ q[k] = t /\ \A i \in 1..k - 1 : q[i] = path[i]
    BY <1>5, <2>1, <2>2
  <2>4. path' = Append(q, 0)
    BY <1>1, <1>5, <1>6, <2>2 DEF PathTo
  <2>5. 0 \in 0..n /\ \A i \in 1..k - 1 : i \in 1..k
    BY <1>5
  <2>6. /\ Append(q, 0) \in Seq(0..n) /\ Len(Append(q, 0)) = Len(q) + 1
        /\ Append(q, 0)[Len(q) + 1] = 0 /\ \A i \in 1..Len(q) : Append(q, 0)[i] = q[i]
    <3>1. q \in Seq(0..n) /\ 0 \in 0..n
      BY <2>3, <2>5
    <3> QED
      BY ONLY <3>1, AppendIs
  <2> QED
    BY <1>5, <2>3, <2>4, <2>5, <2>6
<1>9. \A i \in 1..k : Asking(i)' = Asking(i)
  <2> SUFFICES ASSUME NEW i \in 1..k PROVE Asking(i)' = Asking(i)
    OBVIOUS
  <2>1. i = 1 \/ i - 1 \in 1..k - 1
    BY <1>5
  <2> QED
    BY <1>1, <1>8, <2>1 DEF Asking
<1>10. Asking(k + 1)' = assigned[t]
  <2>1. k + 1 # 1 /\ (k + 1) - 1 = k
    BY <1>5
  <2> QED
    BY <1>1, <1>8, <2>1 DEF Asking
<1>11. \A i \in 1..k + 1 : i = k + 1 \/ i = k \/ (i \in 1..k - 1 /\ i \in 1..k /\ i < k)
  BY <1>5
<1>12. TrajTypes'
  BY <1>1, <1>2, <1>3, <1>4, <1>6, <1>8 DEF TrajTypes
<1>13. MatchingInv'
  BY <1>1, <1>2, <1>3 DEF MatchingInv
<1>14. PathInv'
  <2>1. \A i \in 1..k - 1 : path[i] # 0 /\ path[i] \in seen /\ Accepts(Asking(i), path[i])
    BY <1>3, <1>5, <1>11 DEF PathInv
  <2>2. ASSUME NEW i \in 1..Len(path'), i < Len(path') PROVE path'[i] # 0
    BY <1>8, <1>11, <2>1, <2>2
  <2>3. ASSUME NEW i \in 1..Len(path'), path'[i] # 0
        PROVE  path'[i] \in seen' /\ Accepts(Asking(i), path[i])'
    <3>1. i \in 1..k /\ (i = k \/ (i \in 1..k - 1 /\ i < k))
      BY ONLY <1>8, <1>11, <2>3, k \in Nat, i \in 1..Len(path')
    <3>2. PICK x : x = path'[i] /\ x \in seen' /\ Accepts(Asking(i), x)
      BY <1>1, <1>6, <1>7, <1>8, <2>1, <3>1
    <3>3. Asking(i)' = Asking(i)
      BY <1>9, <3>1
    <3> QED
      BY <1>2, <3>2, <3>3
  <2>4. ASSUME NEW i \in 1..Len(path'), NEW j \in 1..Len(path'), path'[i] = path'[j], path'[i] # 0
        PROVE  i = j
    <3>1. \A x, y \in 1..k - 1 : path[x] = path[y] => x = y
      BY <1>3, <1>5, <1>11, <2>1 DEF PathInv
    <3> QED
      BY <1>7, <1>8, <1>11, <2>1, <2>4, <3>1
  <2>5. ASSUME NEW i \in 1..Len(path'), NEW b \in Recorded', b <= path'[i], Accepts(Asking(i), b)'
        PROVE  b \in seen'
    <3>1. b \in 1..n /\ i \in 1..k + 1
      BY <1>2, <1>4, <1>8
    <3>2. CASE i = k + 1
      BY <1>8, <2>5, <3>1, <3>2
    <3>3. CASE i = k
      <4>1. path[k] \in 0..n
        BY <1>3, <1>4, <1>5 DEF TrajTypes
      <4>2. Accepts(Asking(k), b) /\ b <= t
        BY <1>2, <1>5, <1>8, <1>9, <2>5, <3>3
      <4>3. b = t \/ b <= path[k] \/ (path[k] < b /\ b < t)
        BY ONLY <4>1, <4>2, <3>1, t \in 1..n, n \in Nat
      <4>4. b <= path[k] => b \in seen
        BY <1>3, <1>4, <1>5, <3>1, <4>2 DEF PathInv
      <4> QED
        BY <1>1, <1>6, <1>7, <3>1, <4>2, <4>3, <4>4
    <3>4. CASE i \in 1..k - 1 /\ i \in 1..k
      <4>1. Accepts(Asking(i), b) /\ b <= path[i]
        BY <1>2, <1>8, <1>9, <2>5, <3>4
      <4>2. b \in seen
        BY <1>3, <1>4, <1>5, <3>1, <3>4, <4>1 DEF PathInv
      <4> QED
        BY <1>1, <4>2
    <3> QED
      BY <1>11, <3>1, <3>2, <3>3, <3>4
  <2> QED
    BY <2>2, <2>3, <2>4, <2>5 DEF PathInv
<1>15. SeenInv'
  <2>1. ASSUME NEW a \in seen' PROVE assigned'[a] # Free
    BY <1>1, <1>3, <2>1 DEF SeenInv
  <2>2. ASSUME NEW a \in seen'
        PROVE  (\E i \in 1..Len(path') : i < Len(path') /\ path'[i] = a) \/ Settled(a)'
    <3>1. CASE a = t
      <4>1. k \in 1..k + 1 /\ k < k + 1
        BY <1>5
      <4> QED
        BY <1>8, <3>1, <4>1
    <3>2. CASE a \in seen /\ \E i \in 1..Len(path) : i < Len(path) /\ path[i] = a
      <4>1. PICK i \in 1..k : i < k /\ path[i] = a
        BY <1>5, <3>2
      <4>2. i \in 1..k - 1 /\ i \in 1..k + 1 /\ i < k + 1
        BY <1>5, <4>1
      <4> QED
        BY <1>8, <4>1, <4>2
    <3>3. CASE a \in seen /\ Settled(a)
      BY <1>1, <1>2, <3>3 DEF Settled
    <3> QED
      BY <1>1, <1>3, <1>6, <2>2, <3>1, <3>2, <3>3 DEF SeenInv
  <2> QED
    BY <2>1, <2>2 DEF SeenInv
<1>16. HeldInv'
  BY <1>1, <1>2, <1>3 DEF HeldInv, HoldsOff
<1> QED
  BY <1>12, <1>13, <1>14, <1>15, <1>16 DEF TrajIInv

LEMMA GiveStep == ASSUME TrajIInv, Give PROVE TrajIInv'
<1>1. /\ path # <<>> /\ Untried # {} /\ assigned[Trying] = Free
      /\ assigned' = [a \in 1..grade.n |->
                        IF \E i \in 1..Len(path) : PathTo(Trying)[i] = a
                        THEN Asking(CHOOSE i \in 1..Len(path) : PathTo(Trying)[i] = a)
                        ELSE assigned[a]]
      /\ matched' = matched \union {placing} /\ placing' = placing + 1
      /\ path' = <<>> /\ seen' = {} /\ grade' = grade
  BY DEF Give
<1>2. Recorded' = Recorded /\ \A e, a : Accepts(e, a)' <=> Accepts(e, a)
  BY <1>1, GradeStands
<1>3. TrajTypes /\ MatchingInv /\ PathInv /\ SeenInv /\ HeldInv
  BY DEF TrajIInv
<1>4. PICK n \in Nat : n = grade.n /\ Recorded = 1..n
  BY <1>3 DEF TrajTypes, Recorded
<1>5. PICK k \in Nat : k = Len(path) /\ k >= 1 /\ k \in 1..k
  <2>1. path \in Seq(0..n)
    BY <1>3, <1>4 DEF TrajTypes
  <2>2. Len(path) \in Nat /\ Len(path) >= 1
    BY <1>1, <2>1, EmptySeq
  <2> QED
    BY <2>2
<1>6. PICK t \in 1..n : t = Trying
  BY <1>1, <1>3, <1>4, TryingIs
<1>7. t \notin seen /\ Accepts(Asking(k), t) /\ assigned[t] = 0
  BY <1>1, <1>3, <1>4, <1>5, <1>6, TryingIs DEF Free
<1>8. PICK q : /\ q = PathTo(t) /\ q \in Seq(0..n) /\ Len(q) = k
               /\ q[k] = t /\ \A i \in 1..k - 1 : q[i] = path[i]
  <2>1. path \in Seq(0..n) /\ t \in 0..n
    BY <1>3, <1>4 DEF TrajTypes
  <2>2. PICK q : q = [path EXCEPT ![k] = t]
    OBVIOUS
  <2>3. /\ q \in Seq(0..n) /\ Len(q) = k /\ q[k] = t /\ \A i \in 1..k - 1 : q[i] = path[i]
    BY <1>5, <2>1, <2>2
  <2> QED
    BY <1>5, <2>2, <2>3 DEF PathTo
<1>9. \A i \in 1..k : i = k \/ (i \in 1..k - 1 /\ i < k /\ i + 1 \in 1..k /\ i + 1 # 1 /\ (i + 1) - 1 = i)
  BY <1>5
<1>10. \A i \in 1..k : i = 1 \/ (i - 1 \in 1..k - 1 /\ i - 1 \in 1..k /\ (i - 1) + 1 = i)
  BY <1>5
<1>11. /\ \A i \in 1..k - 1 : q[i] = path[i] /\ q[i] # 0 /\ q[i] \in seen /\ Accepts(Asking(i), q[i])
       /\ \A i \in 1..k - 1 : q[i] \in 1..n /\ assigned[q[i]] # 0
  <2>1. \A i \in 1..k - 1 : i \in 1..k /\ i < k
    BY <1>5
  <2>2. \A i \in 1..k - 1 : path[i] # 0 /\ path[i] \in seen /\ Accepts(Asking(i), path[i])
    BY <1>3, <1>5, <2>1 DEF PathInv
  <2>3. \A a \in seen : a \in 1..n /\ assigned[a] # 0
    BY <1>3, <1>4 DEF SeenInv, TrajTypes, Free
  <2> QED
    BY <1>8, <2>2, <2>3
<1>12. \A i \in 1..k : q[i] \in 1..n /\ Accepts(Asking(i), q[i])
  BY <1>6, <1>7, <1>8, <1>9, <1>11
<1>13. ASSUME NEW i \in 1..k, NEW j \in 1..k, q[i] = q[j] PROVE i = j
  <2>1. CASE i \in 1..k - 1 /\ j \in 1..k - 1
    BY <1>3, <1>5, <1>11, <1>13, <2>1 DEF PathInv
  <2> QED
    BY <1>7, <1>8, <1>9, <1>11, <1>13, <2>1
<1>14. Asking(1) = placing /\ \A i \in 1..k - 1 : Asking(i + 1) = assigned[q[i]]
  <2>1. \A i \in 1..k - 1 : i + 1 # 1 /\ (i + 1) - 1 = i
    BY <1>5
  <2> QED
    BY <1>8, <2>1 DEF Asking
<1>15. placing \notin matched /\ matched \in SUBSET (1..placing - 1)
       /\ placing \in 1..NExpected /\ NExpected \in Nat
  <2>1. NExpected \in Nat
    BY TrajectoryAssumption
  <2>2. placing \in 1..NExpected + 1 /\ matched \in SUBSET (1..placing - 1) /\ placing <= NExpected
    BY <1>1, <1>3 DEF TrajTypes
  <2>3. placing \notin 1..placing - 1 /\ placing \in 1..NExpected
    BY ONLY <2>1, <2>2
  <2> QED
    BY <2>1, <2>2, <2>3
<1>16. \A a \in 1..n : assigned[a] # 0 => assigned[a] \in matched /\ Accepts(assigned[a], a)
  BY <1>3, <1>4 DEF MatchingInv, Free
<1>17. \A a, b \in 1..n : assigned[a] = assigned[b] /\ assigned[a] # 0 => a = b
  BY <1>3, <1>4 DEF MatchingInv, Free
<1>18. \A i \in 1..k : i = 1 \/ Asking(i) \in matched
  <2> SUFFICES ASSUME NEW i \in 1..k, i # 1 PROVE Asking(i) \in matched
    OBVIOUS
  <2>1. PICK x \in 1..k - 1 : x + 1 = i
    BY <1>10
  <2>2. Asking(i) = assigned[q[x]] /\ q[x] \in 1..n /\ assigned[q[x]] # 0
    BY <1>11, <1>14, <2>1
  <2> QED
    BY <1>16, <2>2
<1>19. ASSUME NEW i \in 1..k, NEW j \in 1..k, Asking(i) = Asking(j) PROVE i = j
  <2>1. CASE i = 1 \/ j = 1
    BY <1>14, <1>15, <1>18, <1>19, <2>1
  <2>2. CASE i # 1 /\ j # 1
    <3>1. PICK x \in 1..k - 1 : x + 1 = i /\ x \in 1..k /\ x = i - 1
      BY <1>10, <2>2
    <3>2. PICK y \in 1..k - 1 : y + 1 = j /\ y \in 1..k /\ y = j - 1
      BY <1>10, <2>2
    <3>3. assigned[q[x]] = assigned[q[y]] /\ assigned[q[x]] # 0
      BY <1>11, <1>14, <1>19, <3>1, <3>2
    <3>4. q[x] = q[y]
      BY <1>11, <1>17, <3>3
    <3> QED
      BY <1>13, <3>1, <3>2, <3>4
  <2> QED
    BY <2>1, <2>2
<1>20. /\ \A i \in 1..k : assigned'[q[i]] = Asking(i)
       /\ \A a \in 1..n : (\A i \in 1..k : q[i] # a) => assigned'[a] = assigned[a]
  <2>1. assigned' = [a \in 1..n |-> IF \E i \in 1..k : q[i] = a
                                    THEN Asking(CHOOSE i \in 1..k : q[i] = a) ELSE assigned[a]]
    BY <1>1, <1>4, <1>5, <1>6, <1>8
  <2>2. ASSUME NEW i \in 1..k PROVE (CHOOSE j \in 1..k : q[j] = q[i]) = i
    BY <1>13
  <2> QED
    BY <1>12, <2>1, <2>2
<1>21. \A a \in 1..n : (\E i \in 1..k : q[i] = a) \/ assigned'[a] = assigned[a]
  BY <1>20
<1>22. TrajTypes'
  <2>1. assigned' \in [1..n -> 0..NExpected]
    <3>1. \A i \in 1..k : Asking(i) \in 0..NExpected
      <4>1. \A e \in matched : e \in 0..NExpected
        BY ONLY <1>15
      <4>2. placing \in 0..NExpected
        BY ONLY <1>15
      <4> QED
        BY <1>14, <1>18, <4>1, <4>2
    <3>2. assigned \in [1..n -> 0..NExpected]
      BY <1>3, <1>4 DEF TrajTypes
    <3>3. \A a \in 1..n : assigned'[a] \in 0..NExpected
      BY <1>20, <1>21, <3>1, <3>2
    <3>4. assigned' = [a \in 1..n |-> assigned'[a]]
      BY <1>1, <1>4
    <3> QED
      BY <3>3, <3>4
  <2>2. placing' \in 1..NExpected + 1 /\ matched' \in SUBSET (1..placing' - 1)
    <3>1. placing + 1 \in 1..NExpected + 1 /\ \A e \in 1..placing - 1 : e \in 1..(placing + 1) - 1
      BY ONLY <1>15
    <3>2. placing \in 1..(placing + 1) - 1
      BY ONLY <1>15
    <3> QED
      BY <1>1, <1>15, <3>1, <3>2
  <2>3. path' \in Seq(0..grade'.n) /\ seen' \in SUBSET Recorded'
    BY <1>1
  <2> QED
    BY <1>1, <1>2, <1>3, <1>4, <2>1, <2>2, <2>3 DEF TrajTypes
<1>23. MatchingInv'
  <2>1. ASSUME NEW a \in 1..n, assigned'[a] # 0
        PROVE  assigned'[a] \in matched' /\ Accepts(assigned'[a], a)
    <3>1. CASE \E i \in 1..k : q[i] = a
      <4>1. PICK i \in 1..k : q[i] = a /\ assigned'[a] = Asking(i)
        BY <1>20, <3>1
      <4>2. Asking(i) \in matched'
        BY <1>1, <1>14, <1>18
      <4> QED
        BY <1>12, <4>1, <4>2
    <3>2. CASE assigned'[a] = assigned[a]
      BY <1>1, <1>16, <2>1, <3>2
    <3> QED
      BY <1>21, <3>1, <3>2
  <2>2. ASSUME NEW e \in matched' PROVE \E a \in 1..n : assigned'[a] = e
    <3>1. CASE e = placing
      <4>1. 1 \in 1..k
        BY <1>5
      <4> QED
        BY <1>12, <1>14, <1>20, <3>1, <4>1
    <3>2. CASE e \in matched
      <4>1. PICK a \in 1..n : assigned[a] = e /\ e # 0
        <5>1. e # 0
          BY ONLY <1>15, <3>2
        <5> QED
          BY <1>3, <1>4, <3>2, <5>1 DEF MatchingInv
      <4>2. CASE \E i \in 1..k : q[i] = a
        <5>1. PICK i \in 1..k : q[i] = a
          BY <4>2
        <5>2. i \in 1..k - 1 /\ i + 1 \in 1..k
          BY <1>7, <1>8, <1>9, <4>1, <5>1
        <5> QED
          BY <1>12, <1>14, <1>20, <4>1, <5>1, <5>2
      <4> QED
        BY <1>21, <4>1, <4>2
    <3> QED
      BY <1>1, <3>1, <3>2
  <2>3. ASSUME NEW a \in 1..n, NEW i \in 1..k, \A j \in 1..k : q[j] # a
        PROVE  assigned[a] # Asking(i)
    <3>1. CASE i = 1
      BY <1>14, <1>15, <1>16, <3>1, 0 \notin 1..NExpected
    <3>2. CASE i # 1
      <4>1. PICK x \in 1..k - 1 : x + 1 = i /\ x \in 1..k /\ x = i - 1
        BY <1>10, <3>2
      <4> QED
        <5>1. assigned[q[x]] = Asking(i) /\ assigned[q[x]] # 0 /\ q[x] \in 1..n /\ q[x] # a
          BY <1>11, <1>14, <2>3, <4>1
        <5> QED
          BY <1>17, <5>1
    <3> QED
      BY <3>1, <3>2
  <2>4. ASSUME NEW a \in 1..n, NEW b \in 1..n, assigned'[a] = assigned'[b], assigned'[a] # 0
        PROVE  a = b
    <3>1. CASE \E i \in 1..k : q[i] = a
      <4>1. PICK i \in 1..k : q[i] = a /\ assigned'[a] = Asking(i)
        BY <1>20, <3>1
      <4>2. PICK j \in 1..k : q[j] = b /\ assigned'[b] = Asking(j)
        BY <1>20, <2>3, <2>4, <4>1
      <4> QED
        BY <1>19, <2>4, <4>1, <4>2
    <3>2. CASE \A i \in 1..k : q[i] # a
      <4>1. assigned'[a] = assigned[a]
        BY <1>20, <3>2
      <4>2. \A i \in 1..k : q[i] # b
        <5> SUFFICES ASSUME NEW i \in 1..k, q[i] = b PROVE FALSE
          OBVIOUS
        <5>1. assigned'[b] = Asking(i)
          BY <1>20
        <5>2. assigned[a] # Asking(i)
          BY <2>3, <3>2
        <5> QED
          BY <2>4, <4>1, <5>1, <5>2
      <4> QED
        BY <1>17, <1>20, <2>4, <4>1, <4>2
    <3> QED
      BY <3>1, <3>2
  <2> QED
    BY <1>2, <1>4, <2>1, <2>2, <2>4 DEF MatchingInv, Free
<1>24. PathInv' /\ SeenInv'
  <2>1. Len(path') = 0 /\ 1..Len(path') = {}
    BY <1>1
  <2> QED
    BY <1>1, <2>1 DEF PathInv, SeenInv
<1>25. HeldInv'
  <2>1. PICK R \in SUBSET (1..n) : HoldsOff(R)
    BY <1>3, <1>4 DEF HeldInv
  <2>2. ASSUME NEW i \in 1..k PROVE q[i] \notin R
    <3> DEFINE In == {j \in 1..k : q[j] \in R}
    <3>1. SUFFICES ASSUME In # {} PROVE FALSE
      OBVIOUS
    <3>2. PICK m \in In : \A j \in In : j <= m
      <4>1. In \in SUBSET (0..k)
        OBVIOUS
      <4> HIDE DEF In
      <4> QED
        BY <3>1, <4>1, GreatestNatural
    <3>3. m \in 1..k /\ q[m] \in R
      OBVIOUS
    <3>4. m # k
      BY <1>7, <1>8, <2>1, <3>3 DEF HoldsOff, Free
    <3>5. m \in 1..k - 1 /\ m + 1 \in 1..k /\ ~(m + 1 <= m)
      BY <1>9, <3>3, <3>4
    <3>6. Accepts(assigned[q[m]], q[m + 1]) /\ q[m + 1] \in 1..n
      BY <1>12, <1>14, <3>5
    <3>7. q[m + 1] \in R
      BY <1>4, <2>1, <3>3, <3>6 DEF HoldsOff
    <3> QED
      BY <3>2, <3>5, <3>7
  <2>3. \A a \in R : assigned'[a] = assigned[a]
    BY <1>21, <2>1, <2>2
  <2>4. \A e \in 1..placing' - 1 : e \notin matched' => e \in 1..placing - 1 /\ e \notin matched
    <3>1. \A e \in 1..(placing + 1) - 1 : e = placing \/ e \in 1..placing - 1
      BY ONLY <1>15
    <3> QED
      BY <1>1, <3>1
  <2>5. HoldsOff(R)'
    BY <1>2, <1>4, <2>1, <2>3, <2>4 DEF HoldsOff
  <2> QED
    BY <1>2, <1>4, <2>1, <2>5 DEF HeldInv
<1> QED
  BY <1>22, <1>23, <1>24, <1>25 DEF TrajIInv

LEMMA GiveUpStep == ASSUME TrajIInv, GiveUp PROVE TrajIInv'
<1>1. /\ path # <<>> /\ Untried = {} /\ path' = SubSeq(path, 1, Len(path) - 1)
      /\ grade' = grade /\ assigned' = assigned /\ matched' = matched
      /\ (Len(path) = 1 => placing' = placing + 1 /\ seen' = {})
      /\ (Len(path) # 1 => placing' = placing /\ seen' = seen)
  BY DEF GiveUp
<1>2. Recorded' = Recorded /\ \A e, a : Accepts(e, a)' <=> Accepts(e, a)
  BY <1>1, GradeStands
<1>3. TrajTypes /\ MatchingInv /\ PathInv /\ SeenInv /\ HeldInv
  BY DEF TrajIInv
<1>4. PICK n \in Nat : n = grade.n /\ Recorded = 1..n
  BY <1>3 DEF TrajTypes, Recorded
<1>5. PICK k \in Nat : k = Len(path) /\ k >= 1 /\ k \in 1..k
  <2>1. path \in Seq(0..n)
    BY <1>3, <1>4 DEF TrajTypes
  <2>2. Len(path) \in Nat /\ Len(path) >= 1
    BY <1>1, <2>1, EmptySeq
  <2> QED
    BY <2>2
<1>6. \A b \in Recorded : Accepts(Asking(k), b) => b \in seen
  <2> SUFFICES ASSUME NEW b \in 1..n, Accepts(Asking(k), b) PROVE b \in seen
    BY <1>4
  <2>1. PICK l \in 0..n : l = path[k]
    BY <1>3, <1>4, <1>5 DEF TrajTypes
  <2>2. b <= l \/ b \in l + 1..n
    BY ONLY b \in 1..n, l \in 0..n, n \in Nat
  <2>3. b <= l => b \in seen
    BY <1>3, <1>4, <1>5, <2>1 DEF PathInv
  <2>4. b \in l + 1..n => b \in seen
    BY <1>1, <1>4, <1>5, <2>1 DEF Untried
  <2> QED
    BY <2>2, <2>3, <2>4
<1>7. PICK p \in Seq(0..n) : p = path' /\ Len(p) = k - 1 /\ \A i \in 1..k - 1 : p[i] = path[i]
  <2>1. path \in Seq(0..n) /\ 1 \in 1..Len(path) + 1 /\ k - 1 \in 1 - 1..Len(path)
    <3>1. 1 \in 1..k + 1 /\ k - 1 \in 1 - 1..k
      BY ONLY <1>5
    <3> QED
      BY <1>3, <1>4, <1>5, <3>1 DEF TrajTypes
  <2>2. PICK q : q = SubSeq(path, 1, k - 1)
    OBVIOUS
  <2>3. q \in Seq(0..n) /\ Len(q) = (k - 1) - 1 + 1
        /\ \A i \in 1..(k - 1) - 1 + 1 : q[i] = path[1 + i - 1]
    BY ONLY <2>1, <2>2, Stretch
  <2>4. (k - 1) - 1 + 1 = k - 1 /\ \A i \in 1..k - 1 : 1 + i - 1 = i
    BY <1>5
  <2>5. Len(q) = k - 1 /\ \A i \in 1..k - 1 : q[i] = path[i]
    BY <2>3, <2>4
  <2> QED
    BY <1>1, <1>5, <2>2, <2>3, <2>5
<1>8. /\ \A i \in 1..k - 1 : i \in 1..k /\ i < k
      /\ \A i \in 1..k : i = k \/ i \in 1..k - 1
      /\ \A i \in 1..k - 1 : i = 1 \/ i - 1 \in 1..k - 1
  BY <1>5
<1>9. MatchingInv'
  BY <1>1, <1>2, <1>3 DEF MatchingInv
<1>10. CASE k = 1
  <2>1. placing' = placing + 1 /\ seen' = {} /\ Len(path') = 0 /\ path' = <<>> /\ 1..0 = {}
    <3>1. Len(p) = 0
      BY <1>7, <1>10
    <3> QED
      BY <1>1, <1>5, <1>7, <1>10, <3>1, EmptySeq
  <2>2. /\ placing \in 1..NExpected /\ NExpected \in Nat
    BY <1>1, <1>3, TrajectoryAssumption DEF TrajTypes
  <2>3. placing + 1 \in 1..NExpected + 1 /\ (\A e \in 1..placing - 1 : e \in 1..(placing + 1) - 1)
        /\ \A e \in 1..(placing + 1) - 1 : e = placing \/ e \in 1..placing - 1
    BY ONLY <2>2
  <2>4. TrajTypes'
    <3>1. matched \in SUBSET (1..(placing + 1) - 1)
      BY <1>3, <2>3 DEF TrajTypes
    <3> QED
      BY <1>1, <1>2, <1>3, <1>4, <1>7, <2>1, <2>3, <3>1 DEF TrajTypes
  <2>5. PathInv' /\ SeenInv'
    BY <2>1 DEF PathInv, SeenInv
  <2>6. HeldInv'
    <3>1. PICK R \in SUBSET Recorded : HoldsOff(R)
      BY <1>3 DEF HeldInv
    <3>2. PICK Q \in SUBSET Recorded : Q = R \union seen
      BY <1>3 DEF TrajTypes
    <3>3. \A a \in seen : assigned[a] # Free /\ Settled(a)
      <4>1. \A i \in 1..Len(path) : ~(i < Len(path))
        BY <1>5, <1>10
      <4> QED
        BY <1>3, <4>1 DEF SeenInv
    <3>4. \A a \in Q : assigned[a] # Free
      BY <3>1, <3>2, <3>3 DEF HoldsOff
    <3>5. \A a \in Q : \A b \in Recorded : Accepts(assigned[a], b) => b \in Q
      BY <3>1, <3>2, <3>3 DEF HoldsOff, Settled
    <3>6. ASSUME NEW e \in 1..placing' - 1, e \notin matched', NEW b \in Recorded, Accepts(e, b)
          PROVE  b \in Q
      <4>1. CASE e = placing
        BY <1>6, <1>10, <3>2, <3>6, <4>1 DEF Asking
      <4>2. CASE e \in 1..placing - 1
        BY <1>1, <3>1, <3>2, <3>6, <4>2 DEF HoldsOff
      <4> QED
        BY <2>1, <2>3, <4>1, <4>2
    <3>7. HoldsOff(Q)'
      BY <1>1, <1>2, <3>4, <3>5, <3>6 DEF HoldsOff
    <3> QED
      BY <1>2, <3>7 DEF HeldInv
  <2> QED
    BY <1>9, <2>4, <2>5, <2>6 DEF TrajIInv
<1>11. CASE k # 1
  <2>1. placing' = placing /\ seen' = seen
    BY <1>1, <1>5, <1>11
  <2>2. TrajTypes'
    <3>1. path' \in Seq(0..grade'.n)
      BY <1>1, <1>4, <1>7
    <3>2. placing <= NExpected
      BY <1>1, <1>3 DEF TrajTypes
    <3> QED
      BY <1>1, <1>2, <1>3, <2>1, <3>1, <3>2 DEF TrajTypes
  <2>3. \A i \in 1..k - 1 : Asking(i)' = Asking(i) /\ path'[i] = path[i]
    BY <1>1, <1>7, <1>8, <2>1 DEF Asking
  <2>4. PathInv'
    <3>1. /\ \A i \in 1..k - 1 : i < k - 1 => path[i] # 0
          /\ \A i, j \in 1..k - 1 : path[i] = path[j] /\ path[i] # 0 => i = j
          /\ \A i \in 1..k - 1 : path[i] # 0 => path[i] \in seen /\ Accepts(Asking(i), path[i])
          /\ \A i \in 1..k - 1 : \A b \in Recorded :
               b <= path[i] /\ Accepts(Asking(i), b) => b \in seen
      BY <1>3, <1>5, <1>8 DEF PathInv
    <3>2. ASSUME NEW i \in 1..k - 1 , path'[i] # 0
          PROVE  path'[i] \in seen' /\ Accepts(Asking(i), path[i])'
      <4>1. PICK x : x = path'[i] /\ x \in seen' /\ Accepts(Asking(i), x)
        BY <2>1, <2>3, <3>1, <3>2
      <4>2. Asking(i)' = Asking(i)
        BY <2>3
      <4> QED
        BY <1>2, <4>1, <4>2
    <3>3. ASSUME NEW i \in 1..k - 1, NEW b \in Recorded, b <= path'[i], Accepts(Asking(i), b)'
          PROVE  b \in seen'
      BY <1>2, <2>1, <2>3, <3>1, <3>3
    <3> QED
      BY <1>2, <1>7, <2>3, <3>1, <3>2, <3>3 DEF PathInv
  <2>5. SeenInv'
    <3>1. ASSUME NEW a \in seen
          PROVE  (\E i \in 1..Len(path') : i < Len(path') /\ path'[i] = a) \/ Settled(a)'
      <4>1. CASE Settled(a)
        BY <1>1, <1>2, <2>1, <4>1 DEF Settled
      <4>2. CASE \E i \in 1..Len(path) : i < Len(path) /\ path[i] = a
        <5>1. PICK i \in 1..k : i < k /\ path[i] = a
          BY <1>5, <4>2
        <5>2. i \in 1..k - 1 /\ (i < k - 1 \/ i = k - 1)
          BY <1>5, <5>1
        <5>3. CASE i < k - 1
          BY <1>7, <2>3, <5>1, <5>2, <5>3
        <5>4. CASE i = k - 1
          <6>1. Asking(k) = assigned[a]
            BY <1>5, <1>11, <5>1, <5>4 DEF Asking
          <6>2. Settled(a)
            BY <1>6, <6>1 DEF Settled
          <6> QED
            BY <1>1, <1>2, <2>1, <6>2 DEF Settled
        <5> QED
          BY <5>2, <5>3, <5>4
      <4> QED
        BY <1>3, <4>1, <4>2 DEF SeenInv
    <3> QED
      BY <1>1, <1>3, <2>1, <3>1 DEF SeenInv
  <2>6. HeldInv'
    BY <1>1, <1>2, <1>3, <2>1 DEF HeldInv, HoldsOff
  <2> QED
    BY <1>9, <2>2, <2>4, <2>5, <2>6 DEF TrajIInv
<1> QED
  BY <1>10, <1>11

LEMMA TrajInductive == TrajIInv /\ [TrajNext]_trajVars => TrajIInv'
<1> SUFFICES ASSUME TrajIInv, [TrajNext]_trajVars PROVE TrajIInv'
  OBVIOUS
<1>1. CASE UNCHANGED trajVars
  <2>1. /\ grade' = grade /\ placing' = placing /\ assigned' = assigned
        /\ matched' = matched /\ path' = path /\ seen' = seen
    BY <1>1 DEF trajVars
  <2> QED
    BY <2>1 DEF TrajIInv, TrajTypes, MatchingInv, PathInv, SeenInv, HeldInv, HoldsOff, Settled,
                Recorded, Accepts, Asking
<1> QED
  BY <1>1, PlaceStep, DisplaceStep, GiveStep, GiveUpStep DEF TrajNext

\* The inductive invariant of the grader (matchSet, augment).
THEOREM TrajInvariant == TrajSpec => []TrajIInv
  BY TrajInitHolds, TrajInductive, PTL DEF TrajSpec

-----------------------------------------------------------------------------
\* No assignment gives a recorded call to more of the expected ones than are
\* matched: those that are not are held off, and what f gives to them, or to
\* the holders of what holds them off, is held by others in turn.
LEMMA MatchedIsMost ==
    ASSUME TrajIInv, NEW S \in SUBSET (1..placing - 1), NEW f \in Assignments(S)
    PROVE  IsFiniteSet(matched) /\ Cardinality(S) <= Cardinality(matched)
<1>1. TrajTypes /\ MatchingInv
  BY DEF TrajIInv
<1>2. PICK n \in Nat : n = grade.n /\ Recorded = 1..n
  BY <1>1 DEF TrajTypes, Recorded
<1>3. PICK R \in SUBSET (1..n) : HoldsOff(R)
  BY <1>2 DEF TrajIInv, HeldInv
<1>4. /\ \A e \in S : f[e] \in 1..n /\ Accepts(e, f[e])
      /\ \A d, e \in S : f[d] = f[e] => d = e
  BY <1>2 DEF Assignments
<1>5. PICK X : \A e : e \in X <=> e \in S /\ (e \notin matched \/ \E a \in R : assigned[a] = e)
  <2>1. PICK Y : Y = {e \in S : e \notin matched \/ \E a \in R : assigned[a] = e}
    OBVIOUS
  <2> QED
    BY <2>1
<1>6. ASSUME NEW e \in X
      PROVE  e \in S /\ f[e] \in R /\ assigned[f[e]] \in matched /\ assigned[f[e]] # Free
  <2>1. e \in S /\ f[e] \in 1..n /\ Accepts(e, f[e])
    BY <1>4, <1>5
  <2>2. f[e] \in R
    BY <1>2, <1>3, <1>5, <2>1 DEF HoldsOff
  <2> QED
    BY <1>1, <1>2, <1>3, <2>1, <2>2 DEF HoldsOff, MatchingInv
<1>7. PICK g : g = [e \in S |-> IF e \in X THEN assigned[f[e]] ELSE e]
  OBVIOUS
<1>8. g \in [S -> matched]
  <2>1. \A e \in S : e \notin X => e \in matched
    BY <1>5
  <2> QED
    BY <1>6, <1>7, <2>1
<1>9. ASSUME NEW d \in S, NEW e \in S, g[d] = g[e] PROVE d = e
  <2>1. CASE d \in X /\ e \in X
    <3>1. assigned[f[d]] = assigned[f[e]] /\ f[d] \in 1..n /\ f[e] \in 1..n /\ assigned[f[d]] # Free
      BY <1>4, <1>6, <1>7, <1>9, <2>1
    <3>2. f[d] = f[e]
      BY <1>1, <1>2, <3>1 DEF MatchingInv
    <3> QED
      BY <1>4, <3>2
  <2>2. CASE d \notin X /\ e \notin X
    BY <1>7, <1>9, <2>2
  <2>3. CASE d \in X /\ e \notin X
    BY <1>5, <1>6, <1>7, <1>9, <2>3
  <2>4. CASE d \notin X /\ e \in X
    BY <1>5, <1>6, <1>7, <1>9, <2>4
  <2> QED
    BY <2>1, <2>2, <2>3, <2>4
<1>10. g \in Injection(S, matched)
  BY <1>8, <1>9 DEF Injection, IsInjective
<1>11. IsFiniteSet(matched)
  <2>1. 1 \in Int /\ placing - 1 \in Int /\ matched \in SUBSET (1..placing - 1)
    BY <1>1, TrajectoryAssumption DEF TrajTypes
  <2>2. IsFiniteSet(1..placing - 1)
    BY <2>1, FS_Interval
  <2> QED
    BY <2>1, <2>2, FS_Subset
<1> QED
  BY <1>10, <1>11, FS_Injection

\* What is recorded is an assignment of the matched ones.
LEMMA AssignedIsOne ==
    ASSUME TrajIInv
    PROVE  \E f \in Assignments(matched) : \A e \in matched : assigned[f[e]] = e
<1>1. MatchingInv /\ TrajTypes
  BY DEF TrajIInv
<1>2. PICK f : f = [e \in matched |-> CHOOSE a \in Recorded : assigned[a] = e]
  OBVIOUS
<1>3. \A e \in matched : f[e] \in Recorded /\ assigned[f[e]] = e
  BY <1>1, <1>2 DEF MatchingInv
<1>4. \A e \in matched : e # Free
  <2>1. \A e \in 1..placing - 1 : e # 0
    BY <1>1 DEF TrajTypes
  <2> QED
    BY <1>1, <2>1 DEF TrajTypes, Free
<1>5. \A e \in matched : Accepts(e, f[e])
  BY <1>1, <1>3, <1>4 DEF MatchingInv
<1>6. \A d, e \in matched : f[d] = f[e] => d = e
  BY <1>3
<1>7. f \in [matched -> Recorded]
  BY <1>2, <1>3
<1> QED
  BY <1>3, <1>5, <1>6, <1>7 DEF Assignments, Recorded

-----------------------------------------------------------------------------
(* The in-order mode: how many are found after each recorded call. *)
OneMore(x, a) == IF x < NExpected /\ Accepts(x + 1, a) THEN x + 1 ELSE x
FoundOf(W, m) == W = [a \in 0..m |-> IF a = 0 THEN 0 ELSE OneMore(W[a - 1], a)]

LEMMA FoundExists == \A m \in Nat : \E W : FoundOf(W, m)
<1> DEFINE Bad == {m \in Nat : ~ \E W : FoundOf(W, m)}
<1>1. SUFFICES ASSUME Bad # {} PROVE FALSE
  OBVIOUS
<1>2. PICK m \in Bad : \A k \in Bad : m <= k
  BY <1>1, LeastNatural
<1>3. CASE m = 0
  <2> DEFINE W == [a \in 0..0 |-> 0]
  <2>1. FoundOf(W, 0)
    <3>1. \A a \in 0..0 : a = 0
      OBVIOUS
    <3> QED
      BY <3>1 DEF FoundOf
  <2> QED
    BY <1>3, <2>1
<1>4. CASE m # 0
  <2>1. PICK p \in Nat : m = p + 1
    BY <1>4
  <2>2. p \notin Bad
    BY <1>2, <2>1
  <2>3. PICK V : FoundOf(V, p)
    BY <2>2
  <2> DEFINE W == [a \in 0..m |-> IF a = m THEN OneMore(V[p], m) ELSE V[a]]
  <2>4. \A a \in 0..m : W[a] = IF a = 0 THEN 0 ELSE OneMore(W[a - 1], a)
    <3>1. ASSUME NEW a \in 0..m PROVE W[a] = IF a = 0 THEN 0 ELSE OneMore(W[a - 1], a)
      <4>1. CASE a = m
        <5>1. a # 0 /\ a - 1 = p /\ p \in 0..m /\ p # m
          BY <2>1, <4>1
        <5> QED
          BY <4>1, <5>1
      <4>2. CASE a # m /\ a # 0
        <5>1. a \in 0..p /\ a - 1 \in 0..m /\ a - 1 # m
          BY <2>1, <4>2
        <5>2. V[a] = OneMore(V[a - 1], a)
          BY <2>3, <4>2, <5>1 DEF FoundOf
        <5> QED
          BY <4>2, <5>1, <5>2
      <4>3. CASE a # m /\ a = 0
        <5>1. 0 \in 0..p
          BY <2>1
        <5>2. V[0] = 0
          BY <2>3, <5>1 DEF FoundOf
        <5> QED
          BY <4>3, <5>2
      <4> QED
        BY <4>1, <4>2, <4>3
    <3> QED
      BY <3>1
  <2>5. FoundOf(W, m)
    <3>1. PICK Z : Z = W
      OBVIOUS
    <3>2. Z = [a \in 0..m |-> Z[a]] /\ \A a \in 0..m : Z[a] = IF a = 0 THEN 0 ELSE OneMore(Z[a - 1], a)
      BY <2>4, <3>1
    <3>3. FoundOf(Z, m)
      BY ONLY <3>2 DEF FoundOf
    <3> QED
      BY <3>1, <3>3
  <2> QED
    BY <2>5
<1> QED
  BY <1>3, <1>4

\* Each recorded call adds at most one, and exactly when it is the next one's.
FoundSo(j, n) ==
    /\ j[0] = 0
    /\ \A a \in 0..n : j[a] \in 0..NExpected
    /\ \A a \in 1..n : a - 1 \in 0..n /\ j[a] = OneMore(j[a - 1], a)
    /\ \A a, b \in 0..n : a <= b => j[a] <= j[b]

LEMMA FoundIs == ASSUME TrajTypes PROVE FoundSo(InOrderFound, grade.n)
<1>1. PICK n \in Nat : n = grade.n
  BY DEF TrajTypes
<1>2. PICK j : j = InOrderFound
  OBVIOUS
<1>3. FoundOf(j, n)
  <2> DEFINE F(V) == V = [a \in 0..grade.n |->
                IF a = 0 THEN 0
                ELSE IF V[a-1] < NExpected /\ Accepts(V[a-1] + 1, a) THEN V[a-1] + 1 ELSE V[a-1]]
  <2>1. PICK W : W = CHOOSE V : F(V)
    OBVIOUS
  <2>2. W = InOrderFound
    BY <2>1, Zenon DEF InOrderFound
  <2>3. \A V : FoundOf(V, n) <=> F(V)
    BY <1>1 DEF FoundOf, OneMore
  <2>4. \E V : F(V)
    BY <1>1, <2>3, FoundExists
  <2>5. F(W)
    <3> HIDE DEF F
    <3> QED
      BY <2>1, <2>4
  <2> QED
    BY <1>2, <2>2, <2>3, <2>5
<1>4. NExpected \in Nat
  BY TrajectoryAssumption
<1>5. j[0] = 0
  BY <1>1, <1>3 DEF FoundOf
<1>6. ASSUME NEW a \in 1..n PROVE a - 1 \in 0..n /\ j[a] = OneMore(j[a - 1], a)
  <2>1. a \in 0..n /\ a # 0 /\ a - 1 \in 0..n
    BY <1>1
  <2> QED
    BY <1>3, <2>1 DEF FoundOf
<1>7. \A a : \A x \in 0..NExpected : OneMore(x, a) \in 0..NExpected /\ x <= OneMore(x, a)
  BY <1>4 DEF OneMore
<1>8. ASSUME NEW a \in 0..n PROVE j[a] \in 0..NExpected
  <2> DEFINE Bad == {c \in 0..n : j[c] \notin 0..NExpected}
  <2>1. SUFFICES ASSUME Bad # {} PROVE FALSE
    OBVIOUS
  <2>2. 0 \notin Bad /\ Bad \in SUBSET (0..n)
    BY <1>4, <1>5
  <2>3. PICK c \in 1..n, d \in 0..n : c \in Bad /\ d \notin Bad /\ c - 1 = d
    <3> HIDE DEF Bad
    <3> QED
      <4>1. \E c \in 1..n, d \in 0..n : c \in Bad /\ d \notin Bad /\ d + 1 = c /\ c - 1 = d
        BY ONLY <2>1, <2>2, n \in Nat, FirstMember
      <4> QED
        BY <4>1
  <2> QED
    BY <1>6, <1>7, <2>3
<1>9. ASSUME NEW a \in 0..n, NEW b \in 0..n, a <= b PROVE j[a] <= j[b]
  <2> DEFINE Bad == {c \in 0..n : a <= c /\ ~(j[a] <= j[c])}
  <2>1. SUFFICES ASSUME Bad # {} PROVE FALSE
    BY <1>9
  <2>2. Bad \in SUBSET Nat
    BY <1>1
  <2>3. PICK c \in Bad : \A d \in Bad : c <= d
    <3> HIDE DEF Bad
    <3> QED
      BY <2>1, <2>2, LeastNatural
  <2>4. c \in 0..n /\ a <= c /\ ~(j[a] <= j[c])
    OBVIOUS
  <2>5. j[a] \in Nat /\ j[c] \in Nat
    <3>1. j[a] \in 0..NExpected /\ j[c] \in 0..NExpected
      BY <1>8, <2>4
    <3> QED
      BY <3>1
  <2>6. c # a
    BY <2>4, <2>5
  <2>7. c \in 1..n /\ a <= c - 1 /\ c - 1 \in 0..n /\ ~(c <= c - 1)
    BY ONLY <2>4, <2>6, a \in 0..n, n \in Nat
  <2>8. c - 1 \notin Bad
    <3> HIDE DEF Bad
    <3> QED
      BY <2>3, <2>7
  <2>9. j[a] <= j[c - 1] /\ j[c - 1] \in 0..NExpected /\ j[c] = OneMore(j[c - 1], c)
    BY <1>6, <1>8, <2>7, <2>8
  <2>10. j[c - 1] <= j[c] /\ j[c - 1] \in Nat
    BY <1>7, <2>9
  <2> QED
    BY ONLY <2>4, <2>5, <2>9, <2>10
<1> QED
  BY <1>1, <1>2, <1>5, <1>6, <1>8, <1>9 DEF FoundSo

\* InOrder(k) of CreditIsEarned.
InOrderUpTo(k) == \E f \in Assignments(1..k) : \A d, e \in 1..k : d < e => f[d] < f[e]

LEMMA FoundInOrder == ASSUME TrajTypes PROVE InOrderUpTo(matchInOrder)
<1>1. PICK n \in Nat : n = grade.n
  BY DEF TrajTypes
<1>2. PICK j : j = InOrderFound
  OBVIOUS
<1>3. NExpected \in Nat
  BY TrajectoryAssumption
<1>4. /\ j[0] = 0
      /\ \A a \in 0..n : j[a] \in 0..NExpected
      /\ \A a \in 1..n : a - 1 \in 0..n /\ j[a] = OneMore(j[a - 1], a)
      /\ \A a, b \in 0..n : a <= b => j[a] <= j[b]
  BY <1>1, <1>2, FoundIs DEF FoundSo
<1>5. PICK m \in 0..NExpected : m = j[n] /\ m = matchInOrder
  <2>1. n \in 0..n
    BY <1>1
  <2> QED
    BY <1>1, <1>2, <1>4, <2>1 DEF matchInOrder
<1>6. ASSUME NEW e \in 1..m PROVE \E a \in 1..n : j[a] = e /\ Accepts(e, a)
  <2> DEFINE Enough == {a \in 0..n : e <= j[a]}
  <2>1. n \in Enough /\ Enough \in SUBSET (0..n)
    <3>1. n \in 0..n /\ e <= m
      BY <1>3
    <3> QED
      BY <1>5, <3>1
  <2>2. 0 \notin Enough
    BY <1>3, <1>4
  <2>3. PICK c \in 1..n, d \in 0..n : c \in Enough /\ d \notin Enough /\ c - 1 = d
    <3> HIDE DEF Enough
    <3>1. \E c \in 1..n, d \in 0..n : c \in Enough /\ d \notin Enough /\ d + 1 = c /\ c - 1 = d
      BY ONLY <2>1, <2>2, n \in Nat, FirstMember
    <3> QED
      BY <3>1
  <2>4. PICK x \in 0..NExpected : x = j[d]
    BY <1>4
  <2>5. j[c] = OneMore(x, c)
    BY <1>4, <2>3, <2>4
  <2>6. e <= OneMore(x, c) /\ ~(e <= x)
    BY <2>3, <2>4, <2>5
  <2>7. x + 1 = e /\ Accepts(x + 1, c) /\ OneMore(x, c) = x + 1
    <3>1. e \in Nat /\ x \in Nat
      BY <1>3, <1>5
    <3>2. CASE x < NExpected /\ Accepts(x + 1, c)
      <4>1. OneMore(x, c) = x + 1
        BY <3>2 DEF OneMore
      <4> QED
        BY <2>6, <3>1, <3>2, <4>1
    <3>3. CASE ~(x < NExpected /\ Accepts(x + 1, c))
      BY <2>6, <3>3 DEF OneMore
    <3> QED
      BY <3>2, <3>3
  <2> QED
    BY <2>5, <2>7
<1>7. PICK f : f = [e \in 1..m |-> CHOOSE a \in 1..n : j[a] = e /\ Accepts(e, a)]
  OBVIOUS
<1>8. \A e \in 1..m : f[e] \in 1..n /\ j[f[e]] = e /\ Accepts(e, f[e])
  BY <1>6, <1>7
<1>9. f \in [1..m -> 1..n] /\ \A d, e \in 1..m : f[d] = f[e] => d = e
  BY <1>7, <1>8
<1>10. ASSUME NEW d \in 1..m, NEW e \in 1..m, d < e PROVE f[d] < f[e]
  <2>1. f[d] \in 1..n /\ f[e] \in 1..n /\ f[d] \in 0..n /\ f[e] \in 0..n
    BY <1>8
  <2>2. f[d] < f[e] \/ f[e] <= f[d]
    BY ONLY <2>1, n \in Nat
  <2>3. f[e] <= f[d] => e <= d
    BY <1>4, <1>8, <2>1
  <2>4. ~(e <= d)
    BY ONLY <1>10, d \in 1..m, e \in 1..m, m \in 0..NExpected, <1>3
  <2> QED
    BY <2>2, <2>3, <2>4
<1>11. f \in Assignments(1..m)
  BY <1>1, <1>8, <1>9 DEF Assignments
<1> QED
  BY <1>5, <1>10, <1>11 DEF InOrderUpTo

LEMMA NoMoreInOrder ==
    ASSUME TrajTypes, NEW k \in Wanted, InOrderUpTo(k)
    PROVE  k <= matchInOrder
<1>1. PICK n \in Nat : n = grade.n
  BY DEF TrajTypes
<1>2. PICK j : j = InOrderFound
  OBVIOUS
<1>3. NExpected \in Nat /\ k \in 1..NExpected /\ k \in Nat
  BY TrajectoryAssumption DEF Wanted
<1>4. /\ j[0] = 0
      /\ \A a \in 0..n : j[a] \in 0..NExpected
      /\ \A a \in 1..n : a - 1 \in 0..n /\ j[a] = OneMore(j[a - 1], a)
      /\ \A a, b \in 0..n : a <= b => j[a] <= j[b]
  BY <1>1, <1>2, FoundIs DEF FoundSo
<1>5. PICK g \in Assignments(1..k) : \A d, e \in 1..k : d < e => g[d] < g[e]
  BY DEF InOrderUpTo
<1>6. \A e \in 1..k : g[e] \in 1..n /\ g[e] \in 0..n /\ Accepts(e, g[e])
  BY <1>1, <1>5 DEF Assignments
<1>7. ASSUME NEW e \in 1..k PROVE e <= j[g[e]]
  <2> DEFINE Bad == {i \in 1..k : ~(i <= j[g[i]])}
  <2>1. SUFFICES ASSUME Bad # {} PROVE FALSE
    OBVIOUS
  <2>2. Bad \in SUBSET (0..k) /\ 0 \notin Bad
    BY <1>3
  <2>3. PICK i \in 1..k, d \in 0..k : i \in Bad /\ d \notin Bad /\ d + 1 = i /\ i - 1 = d
    <3> HIDE DEF Bad
    <3>1. \E i \in 1..k, d \in 0..k : i \in Bad /\ d \notin Bad /\ d + 1 = i /\ i - 1 = d
      BY ONLY <2>1, <2>2, <1>3, FirstMember
    <3> QED
      BY <3>1
  <2>4. PICK x \in 0..NExpected : x = j[g[i] - 1]
    BY <1>4, <1>6
  <2>5. d <= x
    <3>1. CASE d = 0
      BY <3>1, <1>3
    <3>2. CASE d # 0
      <4>1. d \in 1..k /\ d < i
        BY ONLY <1>3, <2>3, <3>2, d \in 0..k
      <4>2. d <= j[g[d]]
        BY <2>3, <4>1
      <4>3. g[d] < g[i] /\ g[d] \in 0..n /\ g[i] \in 1..n
        BY <1>5, <1>6, <4>1
      <4>4. g[d] <= g[i] - 1 /\ g[i] - 1 \in 0..n
        BY ONLY <4>3, n \in Nat
      <4>5. j[g[d]] <= x /\ j[g[d]] \in 0..NExpected
        BY <1>4, <2>4, <4>3, <4>4
      <4> QED
        BY ONLY <1>3, <4>2, <4>5, d \in 0..k, x \in 0..NExpected
    <3> QED
      BY <3>1, <3>2
  <2>6. j[g[i]] = OneMore(x, g[i]) /\ Accepts(i, g[i]) /\ ~(i <= j[g[i]])
    BY <1>4, <1>6, <2>3, <2>4
  <2>7. CASE x = d
    <3>1. x + 1 = i /\ x < NExpected /\ i <= i
      BY ONLY <1>3, <2>3, <2>7, i \in 1..k, d \in 0..k
    <3>2. OneMore(x, g[i]) = i
      BY <2>6, <3>1 DEF OneMore
    <3> QED
      BY <2>6, <3>1, <3>2
  <2>8. CASE x # d
    <3>1. i <= x /\ i <= x + 1
      BY ONLY <1>3, <2>3, <2>5, <2>8, i \in 1..k, d \in 0..k, x \in 0..NExpected
    <3>2. i <= OneMore(x, g[i])
      BY <3>1 DEF OneMore
    <3> QED
      BY <2>6, <3>2
  <2> QED
    BY <2>7, <2>8
<1>8. k <= j[g[k]] /\ g[k] \in 0..n /\ g[k] <= n
  <2>1. k \in 1..k
    BY <1>3
  <2>2. k <= j[g[k]] /\ g[k] \in 0..n
    BY <1>6, <1>7, <2>1
  <2> QED
    BY <2>2
<1>9. j[g[k]] <= j[n] /\ j[g[k]] \in 0..NExpected /\ j[n] \in 0..NExpected
  <2>1. n \in 0..n
    BY <1>1
  <2> QED
    BY <1>4, <1>8, <2>1
<1>10. k <= j[n]
  BY ONLY <1>3, <1>8, <1>9
<1> QED
  BY <1>1, <1>2, <1>10 DEF matchInOrder

-----------------------------------------------------------------------------
\* The modes agree once all the expected calls have been placed.
LEMMA ModesAgree ==
    ASSUME TrajIInv, placing > NExpected
    PROVE  (matchStrict => matchUnordered) /\ (matchUnordered => matchSuperset)
<1>1. TrajTypes
  BY DEF TrajIInv
<1>2. NExpected \in Nat
  BY TrajectoryAssumption
<1>3. placing - 1 = NExpected /\ 1..placing - 1 = Wanted
  <2>1. placing \in 1..NExpected + 1
    BY <1>1 DEF TrajTypes
  <2>2. placing - 1 = NExpected
    BY <1>2, <2>1
  <2> QED
    BY <2>2 DEF Wanted
<1>4. IsFiniteSet(Wanted) /\ Cardinality(Wanted) = NExpected
  BY <1>2, FS_Interval, 1 \in Int, NExpected \in Int DEF Wanted
<1>5. matched \in SUBSET Wanted
  BY <1>1, <1>3 DEF TrajTypes
<1>6. IsFiniteSet(matched) /\ Cardinality(matched) <= NExpected /\ Cardinality(matched) \in Nat
      /\ (Cardinality(matched) = NExpected => matched = Wanted)
  BY <1>4, <1>5, FS_Subset, FS_CardinalityType
<1>7. ASSUME matchStrict PROVE matchUnordered
  <2>1. grade.n = NExpected /\ \A e \in Wanted : Accepts(e, e)
    BY <1>7 DEF matchStrict
  <2>2. PICK f : f = [e \in Wanted |-> e]
    OBVIOUS
  <2>3. f \in Assignments(Wanted)
    BY <2>1, <2>2 DEF Assignments, Wanted
  <2>4. NExpected <= Cardinality(matched)
    BY <1>3, <1>4, <2>3, MatchedIsMost
  <2>5. Cardinality(matched) = NExpected
    BY ONLY <1>2, <1>6, <2>4
  <2> QED
    BY <2>1, <2>5 DEF matchUnordered, matchSubset
<1>8. ASSUME matchUnordered PROVE matchSuperset
  <2>1. grade.n = NExpected /\ matched = Wanted
    BY <1>6, <1>8 DEF matchUnordered, matchSubset
  <2>2. PICK f \in Assignments(Wanted) : TRUE
    BY <2>1, AssignedIsOne
  <2>3. f \in [Wanted -> Wanted] /\ (\A e \in Wanted : Accepts(e, f[e]))
        /\ \A d, e \in Wanted : f[d] = f[e] => d = e
    BY <2>1 DEF Assignments, Wanted
  <2>4. f \in Injection(Wanted, Wanted)
    BY <2>3 DEF Injection, IsInjective
  <2>5. f \in Surjection(Wanted, Wanted)
    BY <1>4, <2>4, FS_Injection
  <2>6. \A a \in Wanted : \E e \in Wanted : f[e] = a
    BY <2>5 DEF Surjection
  <2>7. 1..grade.n = Wanted
    BY <2>1 DEF Wanted
  <2> QED
    <3> SUFFICES ASSUME NEW a \in Wanted PROVE \E e \in Wanted : Accepts(e, a)
      BY <2>7 DEF matchSuperset
    <3>1. PICK e \in Wanted : f[e] = a
      BY <2>6
    <3>2. Accepts(e, f[e])
      BY <2>3
    <3> QED
      BY <3>1, <3>2
<1> QED
  BY <1>7, <1>8

LEMMA TrajCredit == TrajIInv => CreditIsEarned
<1> SUFFICES ASSUME TrajIInv PROVE CreditIsEarned
  OBVIOUS
<1>1. TrajTypes
  BY DEF TrajIInv
<1>2. \A S \in SUBSET (1..(placing - 1)) : Assignments(S) # {} => Cardinality(S) <= matchSubset
  BY MatchedIsMost DEF matchSubset
<1>3. \E f \in Assignments(matched) : \A e \in matched : assigned[f[e]] = e
  BY AssignedIsOne
<1>4. InOrderUpTo(matchInOrder) /\ \A k \in Wanted : InOrderUpTo(k) => k <= matchInOrder
  BY <1>1, FoundInOrder, NoMoreInOrder
<1>5. placing > NExpected => (matchStrict => matchUnordered) /\ (matchUnordered => matchSuperset)
  BY ModesAgree
<1> QED
  BY <1>2, <1>3, <1>4, <1>5 DEF CreditIsEarned, InOrderUpTo

\* The credit is what is earned (augment, matchSet, matchInOrder), for any
\* number of calls and any relation of the matchers: the matching grows to a
\* greatest one along augmenting paths, and the greedy in-order count is the
\* longest prefix that any choice of recorded calls could show in order.
THEOREM CreditIsAlwaysEarned == TrajSpec => []CreditIsEarned
  BY TrajInvariant, TrajCredit, PTL
===============================================================================
