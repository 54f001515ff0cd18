---------------------------- MODULE ToolScheduler ----------------------------
(***************************************************************************)
(* scheduleToolCalls (pkg/agent/scheduler.go): the tool calls of one model *)
(* turn are ordered into execution waves that respect the <output_of:ID>   *)
(* references inside their arguments.  A call is reduced to its ID and the *)
(* IDs its arguments reference, in appearance order and with repetitions,  *)
(* as parseRefs returns them.  Each pass of the "for remaining > 0" loop   *)
(* is one step.                                                            *)
(***************************************************************************)
EXTENDS Naturals, Sequences, FiniteSets

CONSTANTS
    IDs,       \* the tool-call IDs the model may emit or reference
    MaxCalls,  \* bound on the number of calls in one turn
    MaxRefs    \* bound on the references inside one call's arguments

ASSUME SchedulerAssumption ==
    /\ IsFiniteSet(IDs)
    /\ MaxCalls \in Nat
    /\ MaxRefs \in Nat

VARIABLES
    calls,   \* the batch: a sequence of [id, refs]
    phase,   \* "build", "rounds", or one of the verdicts
    deps,    \* deps[id] = the IDs that id depends on
    indeg,   \* indeg[id], defined for the calls not yet scheduled
    waves    \* the waves so far, each the set of its call IDs

vars == <<calls, phase, deps, indeg, waves>>

Call == [id : IDs, refs : UNION {[1..n -> IDs] : n \in 0..MaxRefs}]
Batch == UNION {[1..n -> Call] : n \in 0..MaxCalls}

Verdicts == {"duplicate", "unknown", "self", "cycle"}
Phases == {"build", "rounds", "done"} \cup Verdicts

IDsOf(batch) == {batch[i].id : i \in DOMAIN batch}
RefsOf(call) == {call.refs[i] : i \in DOMAIN call.refs}
Scheduled == UNION {waves[i] : i \in DOMAIN waves}

Init ==
    /\ calls \in Batch
    /\ phase = "build"
    /\ deps = [id \in {} |-> {}]
    /\ indeg = [id \in {} |-> 0]
    /\ waves = <<>>

-----------------------------------------------------------------------------
(* byID is a map: an ID that a previous call already uses is rejected. *)
HasDuplicateID == \E i, j \in DOMAIN calls : i # j /\ calls[i].id = calls[j].id

(***************************************************************************)
(* The reference check walks the calls in order and stops at the first bad *)
(* reference: one to an ID outside the batch, or one to the call itself.   *)
(***************************************************************************)
BadRef(i, k) ==
    \/ calls[i].refs[k] \notin IDsOf(calls)
    \/ calls[i].refs[k] = calls[i].id

FirstBadRef(i, k) ==
    /\ i \in DOMAIN calls /\ k \in DOMAIN calls[i].refs
    /\ BadRef(i, k)
    /\ \A j \in DOMAIN calls : \A l \in DOMAIN calls[j].refs :
          BadRef(j, l) => i < j \/ (i = j /\ k <= l)

HasBadRef == \E i \in DOMAIN calls : \E k \in DOMAIN calls[i].refs : BadRef(i, k)

(* An empty batch returns no waves at all. *)
BuildEmpty ==
    /\ phase = "build" /\ calls = <<>>
    /\ phase' = "done"
    /\ UNCHANGED <<calls, deps, indeg, waves>>

BuildDuplicate ==
    /\ phase = "build" /\ HasDuplicateID
    /\ phase' = "duplicate"
    /\ UNCHANGED <<calls, deps, indeg, waves>>

BuildBadRef ==
    /\ phase = "build" /\ ~HasDuplicateID /\ HasBadRef
    /\ \E i \in DOMAIN calls : \E k \in DOMAIN calls[i].refs :
          /\ FirstBadRef(i, k)
          /\ phase' = IF calls[i].refs[k] \notin IDsOf(calls) THEN "unknown" ELSE "self"
    /\ UNCHANGED <<calls, deps, indeg, waves>>

(***************************************************************************)
(* deps and indeg are filled together: a reference already in deps does    *)
(* not count again.                                                        *)
(***************************************************************************)
DepsOf(id) == UNION {RefsOf(calls[i]) : i \in {j \in DOMAIN calls : calls[j].id = id}}

(* Mutant of InitialIndegree: the "seen" check dropped, repeats count again. *)
CountEveryRef(id) ==
    Len((CHOOSE c \in {calls[i] : i \in DOMAIN calls} : c.id = id).refs)

InitialIndegree(id) == Cardinality(DepsOf(id))

Build ==
    /\ phase = "build" /\ calls # <<>> /\ ~HasDuplicateID /\ ~HasBadRef
    /\ phase' = "rounds"
    /\ deps' = [id \in IDsOf(calls) |-> DepsOf(id)]
    /\ indeg' = [id \in IDsOf(calls) |-> InitialIndegree(id)]
    /\ UNCHANGED <<calls, waves>>

-----------------------------------------------------------------------------
Ready == {id \in DOMAIN indeg : indeg[id] = 0}

(***************************************************************************)
(* One layer of Kahn's algorithm: the ready calls leave indeg and form the *)
(* next wave, then every call still pending loses one for each of its      *)
(* dependencies in that wave.                                              *)
(***************************************************************************)
(* Mutants of Decremented: one satisfied dependency releases the call; the *)
(* isDep test dropped, so every scheduled call decrements.                 *)
ReleasedByAny(id, wave) == IF deps[id] \cap wave # {} THEN 0 ELSE indeg[id]
DecrementForAll(id, wave) == indeg[id] - Cardinality(wave)

Decremented(id, wave) == indeg[id] - Cardinality(deps[id] \cap wave)

Round ==
    /\ phase = "rounds" /\ DOMAIN indeg # {} /\ Ready # {}
    /\ waves' = Append(waves, Ready)
    /\ indeg' = [id \in DOMAIN indeg \ Ready |-> Decremented(id, Ready)]
    /\ UNCHANGED <<calls, phase, deps>>

DetectCycle ==
    /\ phase = "rounds" /\ DOMAIN indeg # {} /\ Ready = {}
    /\ phase' = "cycle"
    /\ UNCHANGED <<calls, deps, indeg, waves>>

Finish ==
    /\ phase = "rounds" /\ DOMAIN indeg = {}
    /\ phase' = "done"
    /\ UNCHANGED <<calls, deps, indeg, waves>>

Next ==
    \/ BuildEmpty \/ BuildDuplicate \/ BuildBadRef \/ Build
    \/ Round \/ DetectCycle \/ Finish

Spec == Init /\ [][Next]_vars

-----------------------------------------------------------------------------
TypeOK ==
    /\ calls \in Batch
    /\ phase \in Phases
    /\ DOMAIN deps \subseteq IDsOf(calls)
    /\ deps \in [DOMAIN deps -> SUBSET DOMAIN deps]
    /\ DOMAIN indeg \subseteq DOMAIN deps
    /\ indeg \in [DOMAIN indeg -> Nat]
    /\ waves \in Seq(SUBSET IDsOf(calls))

(***************************************************************************)
(* Every call in wave i depends only on calls in waves before i, the       *)
(* promise scheduleToolCalls makes to executeToolWaves.                    *)
(***************************************************************************)
DependsOnEarlierWaves ==
    \A i \in DOMAIN waves : \A id \in waves[i] : \A d \in deps[id] :
        \E j \in 1..(i - 1) : d \in waves[j]

(***************************************************************************)
(* When the algorithm returns waves, every call of the batch is in exactly *)
(* one of them: no call is lost and none runs twice.                       *)
(***************************************************************************)
EachCallInOneWave ==
    /\ \A i, j \in DOMAIN waves : i # j => waves[i] \cap waves[j] = {}
    /\ phase = "done" => Scheduled = IDsOf(calls)

(***************************************************************************)
(* A set of calls that all wait on each other: the reference definition of *)
(* a cyclic batch (a finite graph has a cycle iff it has such a set).      *)
(***************************************************************************)
Stuck(S) == S # {} /\ \A id \in S : deps[id] \cap S # {}

(***************************************************************************)
(* The "cycle detected" verdict is exact: it is returned only for a batch  *)
(* with a cyclic dependency, and a batch that has one never gets waves.    *)
(***************************************************************************)
CycleVerdictExact ==
    /\ phase = "cycle" => \E S \in SUBSET DOMAIN deps : Stuck(S)
    /\ phase = "done" => \A S \in SUBSET DOMAIN deps : ~Stuck(S)

(***************************************************************************)
(* No call waits longer than its dependencies force: a call in wave i > 1  *)
(* has a dependency in wave i-1, so a turn takes the fewest waves.         *)
(***************************************************************************)
EarliestWave ==
    \A i \in DOMAIN waves : i > 1 =>
        \A id \in waves[i] : deps[id] \cap waves[i - 1] # {}

(***************************************************************************)
(* The waves are the layering of the batch: each call is in the one wave   *)
(* that its longest chain of references asks for, neither before what it   *)
(* embeds nor later than it has to.                                        *)
(***************************************************************************)
WavesAreLayers == DependsOnEarlierWaves /\ EachCallInOneWave /\ EarliestWave

=============================================================================
