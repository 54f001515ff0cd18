---------------------------- MODULE ToolTurnProofs ----------------------------
(***************************************************************************)
(* The tool turn, for any set of scenarios: turns of any length with any   *)
(* references between their calls, any caps and limits, any number of      *)
(* crashes, failed saves and resumptions.                                  *)
(***************************************************************************)
EXTENDS ToolTurn, DataLemmas

-----------------------------------------------------------------------------
(* The inductive invariant.  A goroutine lives from its spawn to its end. *)
Live == {"queued", "check", "plan", "planPrompt", "gate", "prompt", "expired",
         "ready", "run"}
PastPlanMode == {"gate", "prompt", "expired", "ready"}
PastPolicy == {"prompt", "expired", "ready", "run"}

Layered == Within[N] = sched

\* What each phase says of the turn as a whole.
PhaseInv ==
    /\ phase = "stream" =>
          /\ wave = 0 /\ sched = {} /\ pending = {} /\ ~fatal /\ faults = 0
          /\ DOMAIN leader = {}
          /\ \A c \in IDs : /\ pc[c] = "idle" /\ msgs[c] = NoMsg /\ saved[c] = NoMsg
                            /\ spec[c] = "none" => runs[c] = 0
    /\ phase # "stream" =>
          /\ wave \in 1..N
          /\ \A c \in sched, d \in IDs : d <= c => d \in sched
          /\ ~Layered => wave = 1
    /\ phase # "waves" => \A c \in IDs : pc[c] \in {"idle", "done"}

\* Where a goroutine stands says which gates it has passed.
Standing(c) ==
    /\ pc[c] \in Live =>
          /\ msgs[c] = NoMsg /\ c \notin DOMAIN leader /\ c \notin pending
          /\ c \in WaveAt(wave) /\ turn[c].refs \subseteq ResultsByID
    /\ pc[c] \in PastPolicy => Policy(c) # "deny"
    /\ pc[c] \in {"prompt", "expired"} => NeedsApproval(c)
    /\ pc[c] \in {"ready", "run"} /\ NeedsApproval(c) => c \in approved
    /\ pc[c] \in {"prompt", "expired", "planPrompt"} => lock = c

\* A call of the wave that ended without an answer waits for a decision or
\* for its leader, unless the turn is aborted.
Waiting(c) ==
    phase = "waves" =>
        /\ c \in DOMAIN leader =>
              /\ pc[c] = "done" /\ msgs[c] = NoMsg /\ c \in WaveAt(wave)
              /\ leader[c] \in WaveAt(wave) \ DOMAIN leader /\ RequiresConfirmation(c)
        /\ pc[c] = "done" /\ msgs[c] = NoMsg /\ ~fatal =>
              c \in pending \/ c \in DOMAIN leader \/ c \notin WaveAt(wave)
        /\ Layered /\ c \in Within[wave - 1] => msgs[c] # NoMsg

Deferred(c) ==
    phase \in {"waves", "idle"} /\ c \in pending =>
        /\ pc[c] = "done" /\ c \in WaveAt(wave) /\ NeedsApproval(c)
        /\ scenario.deferApprovals

\* The answers in memory are those persisted, and more.
Shown(c) == phase # "over" /\ saved[c] # NoMsg => msgs[c] = saved[c]

\* The runs of a call, the one its speculation is about to start included.
Owed(c) == runs[c] + (IF spec[c] = "chosen" THEN 1 ELSE 0)

\* A speculation is of a call that no gate of the registry stops.
Speculated(c) ==
    spec[c] # "none" =>
        /\ Owed(c) <= 1 /\ turn[c].refs = {} /\ ~RequiresConfirmation(c)
        /\ scenario.speculativeTools

\* A call that may still start has one run left.
MayStart(c) ==
    /\ phase \in {"stream", "waves"} /\ spec[c] = "none" /\ msgs[c] = NoMsg
    /\ pc[c] # "run" /\ ~(pc[c] = "done" /\ fatal)

Allowance(c) == faults + (IF SpeculatedThenDeferred(c) THEN 1 ELSE 0)

Runs(c) ==
    /\ Owed(c) <= 1 + Allowance(c)
    /\ MayStart(c) => Owed(c) <= Allowance(c)
    /\ phase = "idle" /\ saved[c] = NoMsg => Owed(c) <= Allowance(c)

\* d repeats c and comes after it: it never starts, and waits for c.
Repeated(c, d) == d \in Repeats(c) /\ c < d

Follows(c, d) ==
    Repeated(c, d) =>
        /\ runs[d] = 0 /\ pc[d] \notin Live
        /\ saved[d] = NoMsg => saved[c] = NoMsg
        /\ phase = "waves" /\ d \in sched =>
              /\ msgs[d] = NoMsg => msgs[c] = NoMsg \/ (d \in DOMAIN leader /\ leader[d] = c)
              /\ pc[c] \in Live /\ msgs[d] = NoMsg => d \in DOMAIN leader /\ leader[d] = c
              /\ d \in DOMAIN leader =>
                    leader[d] = c \/ (c \in DOMAIN leader /\ leader[c] = leader[d])
              /\ c \in DOMAIN leader /\ msgs[d] = NoMsg => d \in DOMAIN leader

IInv ==
    /\ scenario \in Scenarios /\ TypeOK
    /\ PhaseInv
    /\ \A c \in IDs : /\ Standing(c) /\ Waiting(c) /\ Deferred(c) /\ Shown(c)
                      /\ Speculated(c) /\ Runs(c)
    /\ \A c, d \in IDs : Follows(c, d)
    /\ NoCallForgotten
-----------------------------------------------------------------------------
(* Every turn has calls, in a row from the first. *)
LEMMA TurnShape ==
    ASSUME scenario \in Scenarios
    PROVE  /\ N \in Nat \ {0} /\ IDs = 1..N
           /\ \A c \in IDs : turn[c] \in Call
           /\ scenario.maxPerTurn \in Nat \ {0}
           /\ {scenario.maxParallel, scenario.maxFaults, scenario.maxResumes,
                scenario.maxToggles} \subseteq Nat
           /\ scenario.planMode \in BOOLEAN
<1>1. PICK n \in 1..MaxCalls : turn \in [1..n -> Call] BY TurnAssumption DEF turn
<1>2. n \in Nat \ {0} BY TurnAssumption
<1>3. IDs = 1..n BY <1>1 DEF IDs
<1>4. N = n BY <1>2, <1>3, FS_Interval DEF N
<1> QED BY <1>1, <1>2, <1>3, <1>4, TurnAssumption

(* The first of some calls. *)
LEMMA EarliestOf ==
    ASSUME scenario \in Scenarios, NEW S \in SUBSET IDs, S # {}
    PROVE  Earliest(S) \in S /\ \A d \in S : Earliest(S) <= d
<1>1. S \in SUBSET Nat BY TurnShape
<1>2. \E c \in S : \A d \in S : c <= d BY <1>1, LeastNatural
<1> QED BY <1>2 DEF Earliest

(* The recursion of Within has a solution, one wave after the other. *)
After(S) == {c \in sched : turn[c].refs \subseteq S}
WithinDef(W, n) == W = [k \in 0..n |-> IF k = 0 THEN {} ELSE After(W[k - 1])]

LEMMA WavesExist == \A n \in Nat : \E W : WithinDef(W, n)
<1> DEFINE Bad == {n \in Nat : ~ \E W : WithinDef(W, n)}
<1>1. SUFFICES ASSUME Bad # {} PROVE FALSE OBVIOUS
<1>2. PICK m \in Bad : \A k \in Bad : m <= k BY <1>1, LeastNatural
<1>3. CASE m = 0
  <2> DEFINE W == [k \in 0..0 |-> {}]
  <2>1. W = [k \in 0..0 |-> IF k = 0 THEN {} ELSE After(W[k - 1])] OBVIOUS
  <2> QED BY <1>3, <2>1 DEF WithinDef
<1>4. CASE m > 0
  <2>1. m - 1 \in Nat /\ m - 1 \notin Bad BY <1>2, <1>4
  <2>2. PICK V : V = [k \in 0..(m - 1) |-> IF k = 0 THEN {} ELSE After(V[k - 1])]
    BY <2>1 DEF WithinDef
  <2> DEFINE W == [k \in 0..m |-> IF k = 0 THEN {} ELSE After(V[k - 1])]
  <2>3. ASSUME NEW k \in 0..(m - 1) PROVE V[k] = W[k]
    <3>1. k \in 0..m BY <2>1
    <3>2. V[k] = IF k = 0 THEN {} ELSE After(V[k - 1]) BY <2>2
    <3> QED BY <3>1, <3>2
  <2>4. ASSUME NEW k \in 0..m, k # 0 PROVE V[k - 1] = W[k - 1]
    <3>1. k - 1 \in 0..(m - 1) BY <2>1, <2>4
    <3> HIDE DEF W
    <3> QED BY <3>1, <2>3
  <2>5. W = [k \in 0..m |-> IF k = 0 THEN {} ELSE After(W[k - 1])] BY <2>4
  <2> QED BY <1>2, <2>5 DEF WithinDef
<1> QED BY <1>2, <1>3, <1>4

LEMMA WithinStep ==
    ASSUME N \in Nat
    PROVE  /\ Within[0] = {}
           /\ \A k \in 1..N : Within[k] = After(Within[k - 1])
<1>1. WithinDef(Within, N) BY WavesExist, Zenon DEF Within, WithinDef, After
<1>2. \A k \in 0..N : Within[k] = IF k = 0 THEN {} ELSE After(Within[k - 1]) BY <1>1, Zenon DEF WithinDef
<1>3. 0 \in 0..N /\ \A k \in 1..N : k \in 0..N /\ k # 0 OBVIOUS
<1>4. Within[0] = {} BY <1>2, <1>3
<1>5. \A k \in 1..N : Within[k] = After(Within[k - 1]) BY <1>2, <1>3
<1> QED BY <1>4, <1>5

LEMMA NothingBeforeTheFirstWave == scenario \in Scenarios => Within[0] = {}
BY TurnShape, WithinStep

LEMMA NothingBeforeTheFirstWaveNext == (scenario \in Scenarios)' => (Within[0] = {})'
<1>1. (scenario \in Scenarios => Within[0] = {})' BY NothingBeforeTheFirstWave, PTL
<1> QED BY <1>1

LEMMA WavesOfSched ==
    ASSUME scenario \in Scenarios, NEW k \in 1..N
    PROVE  /\ WaveAt(k) \subseteq sched
           /\ Layered => WaveAt(k) = Within[k] \ Within[k - 1]
           /\ Within[k] = After(Within[k - 1])
<1>1. N \in Nat BY TurnShape
<1>2. Within[k] = After(Within[k - 1]) BY <1>1, WithinStep
<1> QED BY <1>2 DEF WaveAt, After, Layered

(* Calls with the same references are in the same waves. *)
LEMMA SameRefsSameWave ==
    ASSUME scenario \in Scenarios, NEW k \in 1..N, NEW c \in sched, NEW d \in sched,
           turn[c].refs = turn[d].refs
    PROVE  c \in WaveAt(k) <=> d \in WaveAt(k)
<1>1. N \in Nat BY TurnShape
<1>2. ASSUME NEW j \in 0..N PROVE c \in Within[j] <=> d \in Within[j]
  <2>1. CASE j = 0 BY <1>1, <2>1, WithinStep
  <2>2. CASE j # 0
    <3>1. Within[j] = After(Within[j - 1]) BY <1>1, <2>2, WithinStep
    <3> QED BY <3>1 DEF After
  <2> QED BY <2>1, <2>2
<1>3. k \in 0..N /\ k - 1 \in 0..N BY <1>1
<1> QED BY <1>2, <1>3 DEF WaveAt

(* A call without references is in the first wave. *)
LEMMA NoRefsFirstWave ==
    ASSUME scenario \in Scenarios, NEW k \in 1..N, NEW c \in sched, turn[c].refs = {}
    PROVE  c \in Within[k]
BY WavesOfSched DEF After

(* A call is in a later wave than what it references. *)
LEMMA RefsInEarlierWaves ==
    ASSUME scenario \in Scenarios, NEW k \in 1..N, Layered,
           NEW c \in WaveAt(k), NEW d \in turn[c].refs
    PROVE  d \notin WaveAt(k)
<1>1. c \in After(Within[k - 1]) BY WavesOfSched
<1>2. d \in Within[k - 1] BY <1>1 DEF After
<1> QED BY <1>2, WavesOfSched

(* Once the waves that follow are empty, every scheduled call has had one. *)
LEMMA AfterTheLastWave ==
    ASSUME scenario \in Scenarios, NEW k \in 1..N, Layered, LastWave(k)
    PROVE  sched \subseteq Within[k]
<1>1. N \in Nat BY TurnShape
<1> DEFINE Bad == {j \in k..N : ~(Within[j] \subseteq Within[k])}
<1>2. SUFFICES ASSUME Bad # {} PROVE FALSE
  <2>1. N \in k..N BY <1>1
  <2> QED BY <2>1 DEF Layered
<1>3. PICK m \in Bad : \A j \in Bad : m <= j
  <2>1. Bad \in SUBSET Nat BY <1>1
  <2> HIDE DEF Bad
  <2> QED BY <1>2, <2>1, LeastNatural
<1>4. m # k OBVIOUS
<1>5. m - 1 \in k..N /\ m - 1 \notin Bad BY <1>1, <1>3, <1>4
<1>6. Within[m - 1] \subseteq Within[k] BY <1>5
<1>7. WaveAt(m) = {} /\ m \in 1..N BY <1>1, <1>4 DEF LastWave
<1>8. Within[m] \subseteq Within[m - 1] BY <1>7, WavesOfSched
<1> QED BY <1>6, <1>8

-----------------------------------------------------------------------------
(* What a step of a goroutine does, whichever step it is. *)
Answers(c) ==
    \/ msgs' = msgs
    \/ /\ pc'[c] = "done"
       /\ \E m \in Messages \ {NoMsg} : msgs' = [msgs EXCEPT ![c] = m]

Defers(c) ==
    \/ pending' = pending
    \/ /\ pending' = pending \cup {c} /\ pc'[c] = "done" /\ msgs' = msgs
       /\ NeedsApproval(c) /\ scenario.deferApprovals

Executes(c) ==
    \/ runs' = runs /\ (pc'[c] = "run" => spec[c] # "none")
    \/ /\ pc[c] = "ready" /\ pc'[c] = "run" /\ spec[c] = "none"
       /\ runs' = [runs EXCEPT ![c] = @ + 1]

Passes(c) ==
    /\ pc'[c] \in PastPlanMode => pc[c] \in PastPlanMode \/ ~planMode'
    /\ pc'[c] \in PastPolicy => Policy(c) # "deny"
    /\ pc'[c] \in {"prompt", "expired"} => NeedsApproval(c)
    /\ pc'[c] \in {"ready", "run"} /\ NeedsApproval(c) => c \in approved'

Locks(c) ==
    \/ lock' = lock /\ pc'[c] \notin {"prompt", "expired", "planPrompt"}
    \/ lock' = lock /\ pc[c] = "prompt" /\ pc'[c] = "expired"
    \/ lock = 0 /\ lock' = c
    \/ lock = c /\ lock' = 0 /\ pc'[c] \notin {"prompt", "expired", "planPrompt"}

Effect(c) ==
    /\ Frame
    /\ pc[c] \in Live /\ pc' = [pc EXCEPT ![c] = pc'[c]]
    /\ pc'[c] \in (Live \cup {"done"}) \ {"queued"} /\ (pc[c] = "queued" => HasSlot)
    /\ Answers(c) /\ Defers(c) /\ Executes(c) /\ Passes(c) /\ Locks(c)
    /\ fatal' \in BOOLEAN /\ (fatal => fatal')
    /\ pc'[c] = "done" /\ msgs'[c] = NoMsg => fatal' \/ c \in pending'
    /\ pc[c] = "run" => pc'[c] = "done" /\ (msgs'[c] = NoMsg => fatal')
    /\ planMode' \in BOOLEAN /\ (planMode' => planMode)
    /\ approved \subseteq approved' /\ approved' \subseteq IDs
    /\ cache' \subseteq Tools \X {"x", "y"}

LEMMA StepTypes ==
    ASSUME IInv, NEW c \in IDs
    PROVE  /\ pc \in [IDs -> Labels] /\ msgs \in [IDs -> Messages] /\ runs \in [IDs -> Nat]
           /\ lock \in 0..N /\ fatal \in BOOLEAN /\ planMode \in BOOLEAN /\ approved \subseteq IDs
           /\ cache \subseteq Tools \X {"x", "y"}
           /\ spec[c] \in {"none", "chosen", "running", "ok", "error"}
           /\ Standing(c)
BY DEF IInv, TypeOK

LEMMA AcquireEffect == ASSUME IInv, NEW c \in IDs, Acquire(c) PROVE Effect(c)
BY StepTypes DEF Acquire, Effect, Frame, GoTo, Answer, Answers, Defers, Executes,
     Passes, Locks, Standing, Live, PastPlanMode, PastPolicy, Messages, NoMsg, Results, Errors

LEMMA CheckFatalEffect == ASSUME IInv, NEW c \in IDs, CheckFatal(c) PROVE Effect(c)
BY StepTypes DEF CheckFatal, Effect, Frame, GoTo, Answer, Answers, Defers, Executes,
     Passes, Locks, Standing, Live, PastPlanMode, PastPolicy, Messages, NoMsg, Results, Errors

LEMMA PlanAnswerEffect == ASSUME IInv, NEW c \in IDs, PlanAnswer(c) PROVE Effect(c)
BY StepTypes DEF PlanAnswer, Effect, Frame, GoTo, Answer, Answers, Defers, Executes,
     Passes, Locks, Standing, Live, PastPlanMode, PastPolicy, Messages, NoMsg, Results, Errors

LEMMA GateRefusesEffect == ASSUME IInv, NEW c \in IDs, GateRefuses(c) PROVE Effect(c)
BY StepTypes DEF GateRefuses, Effect, Frame, GoTo, Answer, Answers, Defers, Executes,
     Passes, Locks, Standing, Live, PastPlanMode, PastPolicy, Messages, NoMsg, Results, Errors

LEMMA GatePassesEffect == ASSUME IInv, NEW c \in IDs, GatePasses(c) PROVE Effect(c)
BY StepTypes DEF GatePasses, Effect, Frame, GoTo, Answer, Answers, Defers, Executes,
     Passes, Locks, Standing, Live, PastPlanMode, PastPolicy, Messages, NoMsg, Results, Errors

LEMMA GateDefersEffect == ASSUME IInv, NEW c \in IDs, GateDefers(c) PROVE Effect(c)
BY StepTypes DEF GateDefers, Effect, Frame, GoTo, Answer, Answers, Defers, Executes,
     Passes, Locks, Standing, Live, PastPlanMode, PastPolicy, Messages, NoMsg, Results, Errors

LEMMA PromptExpiresEffect == ASSUME IInv, NEW c \in IDs, PromptExpires(c) PROVE Effect(c)
BY StepTypes DEF PromptExpires, Effect, Frame, GoTo, Answers, Defers, Executes,
     Passes, Locks, Standing, Live, PastPlanMode, PastPolicy, Messages, NoMsg, Results, Errors

LEMMA HumanAnswersEffect == ASSUME IInv, NEW c \in IDs, HumanAnswers(c) PROVE Effect(c)
<1>1. CASE approved' = approved \cup {c} /\ GoTo(c, "ready") /\ UNCHANGED msgs
  BY <1>1, StepTypes DEF HumanAnswers, Effect, Frame, GoTo, Answer, Answers, Defers, Executes,
     Passes, Locks, Standing, Live, PastPlanMode, PastPolicy, Messages, NoMsg, Results, Errors
<1>2. CASE (\E m \in Denials(c) : Answer(c, m)) /\ UNCHANGED approved
  <2>1. PICK m \in {"timedOut", "refused"} : Answer(c, m) BY <1>2 DEF Denials
  <2> QED BY <1>2, <2>1, StepTypes DEF HumanAnswers, Effect, Frame, GoTo, Answer, Answers, Defers,
     Executes, Passes, Locks, Standing, Live, PastPlanMode, PastPolicy, Messages, NoMsg, Results,
     Errors
<1> QED BY <1>1, <1>2 DEF HumanAnswers

LEMMA CacheHitEffect == ASSUME IInv, NEW c \in IDs, CacheHit(c) PROVE Effect(c)
BY StepTypes DEF CacheHit, Effect, Frame, GoTo, Answer, Answers, Defers, Executes,
     Passes, Locks, Standing, Live, PastPlanMode, PastPolicy, Messages, NoMsg, Results, Errors

LEMMA ExecuteEffect == ASSUME IInv, NEW c \in IDs, Execute(c) PROVE Effect(c)
BY StepTypes DEF Execute, Effect, Frame, GoTo, Answer, Answers, Defers, Executes,
     Passes, Locks, Standing, Live, PastPlanMode, PastPolicy, Messages, NoMsg, Results, Errors

LEMMA PlanGateEffect == ASSUME IInv, NEW c \in IDs, PlanGate(c) PROVE Effect(c)
<1>1. CASE PlanLetsThrough(c) /\ GoTo(c, "gate") /\ UNCHANGED <<msgs, lock>>
  BY <1>1, StepTypes DEF PlanGate, PlanLetsThrough, Effect, Frame, GoTo, Answer, Answers, Defers,
     Executes,
     Passes, Locks, Standing, Live, PastPlanMode, PastPolicy, Messages, NoMsg, Results, Errors
<1>2. CASE lock' = c /\ GoTo(c, "planPrompt") /\ UNCHANGED msgs
  BY <1>2, StepTypes DEF PlanGate, Effect, Frame, GoTo, Answer, Answers, Defers, Executes,
     Passes, Locks, Standing, Live, PastPlanMode, PastPolicy, Messages, NoMsg, Results, Errors
<1>3. CASE Answer(c, "refused") /\ UNCHANGED lock
  BY <1>3, StepTypes DEF PlanGate, Effect, Frame, GoTo, Answer, Answers, Defers, Executes,
     Passes, Locks, Standing, Live, PastPlanMode, PastPolicy, Messages, NoMsg, Results, Errors
<1> QED BY <1>1, <1>2, <1>3 DEF PlanGate

LEMMA GateDecidedEffect == ASSUME IInv, NEW c \in IDs, GateDecided(c) PROVE Effect(c)
<1>1. CASE decisions[c] /\ approved' = approved \cup {c} /\ GoTo(c, "ready") /\ UNCHANGED msgs
  BY <1>1, StepTypes DEF GateDecided, NeedsApproval, Effect, Frame, GoTo, Answer, Answers,
     Defers, Executes,
     Passes, Locks, Standing, Live, PastPlanMode, PastPolicy, Messages, NoMsg, Results, Errors
<1>2. CASE Answer(c, "refused") /\ UNCHANGED approved
  BY <1>2, StepTypes DEF GateDecided, Effect, Frame, GoTo, Answer, Answers, Defers, Executes,
     Passes, Locks, Standing, Live, PastPlanMode, PastPolicy, Messages, NoMsg, Results, Errors
<1> QED BY <1>1, <1>2 DEF GateDecided

LEMMA GateAsksEffect == ASSUME IInv, NEW c \in IDs, GateAsks(c) PROVE Effect(c)
<1>1. CASE lock' = c /\ GoTo(c, "prompt") /\ UNCHANGED msgs
  BY <1>1, StepTypes DEF GateAsks, NeedsApproval, Effect, Frame, GoTo, Answer, Answers, Defers,
     Executes,
     Passes, Locks, Standing, Live, PastPlanMode, PastPolicy, Messages, NoMsg, Results, Errors
<1>2. CASE Answer(c, "refused") /\ UNCHANGED lock
  BY <1>2, StepTypes DEF GateAsks, Effect, Frame, GoTo, Answer, Answers, Defers, Executes,
     Passes, Locks, Standing, Live, PastPlanMode, PastPolicy, Messages, NoMsg, Results, Errors
<1> QED BY <1>1, <1>2 DEF GateAsks

LEMMA ToolReturnsEffect == ASSUME IInv, NEW c \in IDs, ToolReturns(c) PROVE Effect(c)
<1>1. PICK r \in Outcomes(c) :
         /\ cache' \in IF r = "ok" /\ Cacheable(c) THEN {cache, cache \cup {Key(c)}} ELSE {cache}
         /\ \/ Answer(c, r) /\ UNCHANGED fatal
            \/ fatal' = TRUE /\ GoTo(c, "done") /\ UNCHANGED msgs
  BY DEF ToolReturns
<1>2. r \in Messages \ {NoMsg}
  BY StepTypes DEF Outcomes, Messages, NoMsg, Results, Errors
<1>3. cache' \subseteq Tools \X {"x", "y"}
  <2>1. Key(c) \in Tools \X {"x", "y"} BY TurnShape DEF IInv, Key, Call
  <2> QED BY <1>1, <2>1, StepTypes
<1>4. CASE Answer(c, r) /\ UNCHANGED fatal
  BY <1>2, <1>3, <1>4, StepTypes DEF ToolReturns, Effect, Frame, GoTo, Answer, Answers, Defers,
     Executes, Passes, Locks, Live, PastPlanMode, PastPolicy
<1>5. CASE fatal' = TRUE /\ GoTo(c, "done") /\ UNCHANGED msgs
  BY <1>3, <1>5, StepTypes DEF ToolReturns, Effect, Frame, GoTo, Answers, Defers,
     Executes, Passes, Locks, Live, PastPlanMode, PastPolicy
<1> QED BY <1>1, <1>4, <1>5

LEMMA GoroutineEffect == ASSUME IInv, NEW c \in IDs, Goroutine(c) PROVE Effect(c)
BY AcquireEffect, CheckFatalEffect, PlanGateEffect, PlanAnswerEffect, GateRefusesEffect,
   GatePassesEffect, GateDecidedEffect, GateDefersEffect, GateAsksEffect, PromptExpiresEffect,
   HumanAnswersEffect,
   CacheHitEffect, ExecuteEffect, ToolReturnsEffect DEF Goroutine

-----------------------------------------------------------------------------
(* What the scenario and the scheduled calls determine. *)
LEMMA SameTurn ==
    ASSUME scenario' = scenario
    PROVE  /\ turn' = turn /\ IDs' = IDs /\ N' = N
           /\ \A c : /\ Registered(c)' <=> Registered(c)
                     /\ RequiresConfirmation(c)' <=> RequiresConfirmation(c)
                     /\ Policy(c)' = Policy(c)
                     /\ NeedsApproval(c)' <=> NeedsApproval(c)
                     /\ SpeculatedThenDeferred(c)' <=> SpeculatedThenDeferred(c)
                     /\ \A d : Repeated(c, d)' <=> Repeated(c, d)
BY DEF turn, IDs, N, Registered, RequiresConfirmation, Policy, NeedsApproval,
       SpeculatedThenDeferred, Repeated, Repeats, Key

LEMMA SameWaves ==
    ASSUME scenario' = scenario, sched' = sched
    PROVE  /\ Within' = Within /\ (Layered' <=> Layered)
           /\ \A k : WaveAt(k)' = WaveAt(k)
           /\ wave' = wave => WaveAt(wave)' = WaveAt(wave)
<1>1. turn' = turn /\ IDs' = IDs /\ N' = N BY SameTurn
<1>2. Within' = Within BY <1>1 DEF Within
<1> QED BY <1>1, <1>2 DEF WaveAt, Layered

LEMMA EffectFacts ==
    ASSUME IInv, NEW c \in IDs, Effect(c)
    PROVE  /\ pc' \in [IDs -> Labels] /\ msgs' \in [IDs -> Messages] /\ runs' \in [IDs -> Nat]
           /\ pending' \subseteq IDs /\ pending \subseteq pending' /\ lock' \in 0..N
           /\ \A d \in IDs \ {c} : /\ pc'[d] = pc[d] /\ msgs'[d] = msgs[d] /\ runs'[d] = runs[d]
                                   /\ d \in pending' <=> d \in pending
           /\ \A d \in IDs : msgs[d] # NoMsg => msgs'[d] = msgs[d]
           /\ ResultsByID \subseteq ResultsByID'
           /\ pc'[c] \in Live => msgs' = msgs /\ pending' = pending
           /\ scenario' = scenario /\ sched' = sched /\ phase' = phase /\ wave' = wave
           /\ leader' = leader /\ spec' = spec /\ saved' = saved /\ faults' = faults
           /\ phase = "waves" /\ msgs[c] = NoMsg
<1>1. /\ pc \in [IDs -> Labels] /\ msgs \in [IDs -> Messages] /\ runs \in [IDs -> Nat]
      /\ lock \in 0..N /\ pending \subseteq IDs /\ Standing(c)
  BY DEF IInv, TypeOK
<1>2. scenario' = scenario /\ sched' = sched /\ phase' = phase /\ wave' = wave
      /\ leader' = leader /\ spec' = spec /\ saved' = saved /\ faults' = faults
  BY DEF Effect, Frame, bounds
<1>3. phase = "waves" BY DEF IInv, PhaseInv, Effect, Live
<1>4. msgs[c] = NoMsg BY <1>1 DEF Standing, Effect
<1>5. pc'[c] \in Labels BY DEF Effect, Live, Labels
<1>6. pc' \in [IDs -> Labels] /\ \A d \in IDs \ {c} : pc'[d] = pc[d]
  BY <1>1, <1>5 DEF Effect
<1>7. /\ msgs' \in [IDs -> Messages] /\ \A d \in IDs \ {c} : msgs'[d] = msgs[d]
      /\ pc'[c] \in Live => msgs' = msgs
  BY <1>1 DEF Effect, Answers, Live
<1>8. runs' \in [IDs -> Nat] /\ \A d \in IDs \ {c} : runs'[d] = runs[d]
  BY <1>1 DEF Effect, Executes
<1>9. /\ pending' \subseteq IDs /\ pending \subseteq pending'
      /\ \A d \in IDs \ {c} : d \in pending' <=> d \in pending
      /\ pc'[c] \in Live => pending' = pending
  BY <1>1 DEF Effect, Defers, Live
<1>10. lock' \in 0..N BY <1>1, TurnShape DEF Effect, Locks, IInv
<1>11. \A d \in IDs : msgs[d] # NoMsg => msgs'[d] = msgs[d] BY <1>4, <1>7
<1>12. ResultsByID \subseteq ResultsByID' BY <1>2, <1>11, SameTurn DEF ResultsByID, NoMsg
<1> QED BY <1>1, <1>2, <1>3, <1>4, <1>6, <1>7, <1>8, <1>9, <1>10, <1>11, <1>12

LEMMA EffectStanding ==
    ASSUME IInv, NEW c \in IDs, Effect(c), NEW d \in IDs PROVE Standing(d)'
<1>1. Standing(d) /\ Standing(c) BY DEF IInv
<1>2. WaveAt(wave)' = WaveAt(wave) /\ turn' = turn /\ (NeedsApproval(d)' <=> NeedsApproval(d))
      /\ Policy(d)' = Policy(d)
  BY EffectFacts, SameTurn, SameWaves
<1>3. CASE d = c
  BY <1>1, <1>2, <1>3, EffectFacts DEF Standing, Effect, Passes, Locks, Live
<1>4. CASE d # c
  <2>1. pc[d] \in {"prompt", "expired", "planPrompt"} => lock' = d
    <3>1. c # 0 /\ d # 0 BY TurnShape DEF IInv
    <3> QED BY <1>1, <1>4, <3>1 DEF Standing, Effect, Locks
  <2> QED BY <1>1, <1>2, <1>4, <2>1, EffectFacts DEF Standing, Effect
<1> QED BY <1>3, <1>4

LEMMA EffectWaiting ==
    ASSUME IInv, NEW c \in IDs, Effect(c), NEW d \in IDs PROVE Waiting(d)'
<1>1. Waiting(d) /\ Standing(c) BY DEF IInv
<1>2. WaveAt(wave)' = WaveAt(wave) /\ Within' = Within /\ (Layered' <=> Layered)
      /\ IDs' = IDs /\ (RequiresConfirmation(d)' <=> RequiresConfirmation(d))
  BY EffectFacts, SameTurn, SameWaves
<1>3. d # c => pc'[d] = pc[d] /\ msgs'[d] = msgs[d] BY EffectFacts
<1>4. c \notin DOMAIN leader BY <1>1 DEF Standing, Effect
<1>5. d \in DOMAIN leader => pc'[d] = "done" /\ msgs'[d] = NoMsg
  BY <1>1, <1>3, <1>4, EffectFacts DEF Waiting
<1>6. pc'[d] = "done" /\ msgs'[d] = NoMsg /\ ~fatal' =>
        d \in pending' \/ d \in DOMAIN leader \/ d \notin WaveAt(wave)
  BY <1>1, <1>3, EffectFacts DEF Waiting, Effect
<1> QED BY <1>1, <1>2, <1>5, <1>6, EffectFacts DEF Waiting

LEMMA EffectDeferred ==
    ASSUME IInv, NEW c \in IDs, Effect(c), NEW d \in IDs PROVE Deferred(d)'
<1>1. Deferred(d) /\ Standing(c) BY DEF IInv
<1>2. WaveAt(wave)' = WaveAt(wave) /\ (NeedsApproval(d)' <=> NeedsApproval(d))
  BY EffectFacts, SameTurn, SameWaves
<1>3. CASE d = c
  BY <1>1, <1>2, <1>3, EffectFacts DEF Deferred, Standing, Effect, Defers, Live
<1>4. CASE d # c
  BY <1>1, <1>2, <1>4, EffectFacts DEF Deferred
<1> QED BY <1>3, <1>4

LEMMA EffectRuns ==
    ASSUME IInv, NEW c \in IDs, Effect(c), NEW d \in IDs PROVE Runs(d)' /\ Speculated(d)'
<1>1. Runs(d) /\ Speculated(d) /\ Standing(c) BY DEF IInv
<1>2. turn' = turn /\ (RequiresConfirmation(d)' <=> RequiresConfirmation(d))
      /\ (SpeculatedThenDeferred(d)' <=> SpeculatedThenDeferred(d))
  BY EffectFacts, SameTurn
<1>3. runs \in [IDs -> Nat] /\ faults \in Nat
  BY TurnShape DEF IInv, TypeOK
<1>4. Allowance(d)' = Allowance(d) /\ Allowance(d) \in Nat
  BY <1>2, <1>3, EffectFacts DEF Allowance
<1>5. CASE d # c
  <2>1. MayStart(d)' => MayStart(d)
    BY <1>5, EffectFacts DEF MayStart, Effect
  <2>2. Owed(d)' = Owed(d) BY <1>5, EffectFacts DEF Owed
  <2> QED BY <1>1, <1>2, <1>4, <1>5, <2>1, <2>2, EffectFacts DEF Runs, Speculated
<1>6. CASE d = c
  <2>1. \/ Owed(c)' = Owed(c)
        \/ Owed(c)' = Owed(c) + 1 /\ MayStart(c) /\ pc'[c] = "run" /\ spec[c] = "none"
    BY <1>3, EffectFacts DEF Effect, Executes, MayStart, Owed
  <2>2. MayStart(c)' => Owed(c)' = Owed(c) /\ MayStart(c)
    <3>1. MayStart(c)' => pc'[c] # "run" BY DEF MayStart
    <3>2. pc[c] # "done" BY DEF Effect, Live
    <3>3. MayStart(c)' => pc[c] # "run"
      BY EffectFacts DEF MayStart, Effect
    <3> QED BY <2>1, <3>1, <3>2, <3>3, EffectFacts DEF MayStart
  <2>3. Owed(c) \in Nat BY <1>3 DEF Owed
  <2>4. Runs(c)' BY <1>1, <1>3, <1>4, <1>6, <2>1, <2>2, <2>3, EffectFacts DEF Runs
  <2>5. Speculated(c)' BY <1>1, <1>2, <1>6, <2>1, EffectFacts DEF Speculated
  <2> QED BY <1>6, <2>4, <2>5
<1> QED BY <1>5, <1>6

LEMMA EffectFollows ==
    ASSUME IInv, NEW c \in IDs, Effect(c), NEW a \in IDs, NEW b \in IDs PROVE Follows(a, b)'
<1>1. Follows(a, b) /\ Standing(c) BY DEF IInv
<1>2. Repeated(a, b)' <=> Repeated(a, b) BY EffectFacts, SameTurn
<1>3. Repeated(a, b) => b # c BY <1>1 DEF Follows, Effect
<1>4. a # c => pc'[a] = pc[a] /\ msgs'[a] = msgs[a] BY EffectFacts
<1>5. Repeated(a, b) => pc'[b] = pc[b] /\ msgs'[b] = msgs[b] /\ runs'[b] = runs[b]
  BY <1>3, EffectFacts
<1>6. pc'[a] \in Live => pc[a] \in Live BY <1>4 DEF Effect
<1>7. msgs[a] = NoMsg /\ msgs'[a] # NoMsg => pc[a] \in Live BY <1>4 DEF Effect
<1> QED BY <1>1, <1>2, <1>5, <1>6, <1>7, EffectFacts DEF Follows

LEMMA EffectOthers ==
    ASSUME IInv, NEW c \in IDs, Effect(c)
    PROVE  /\ scenario' \in Scenarios /\ TypeOK' /\ PhaseInv' /\ NoCallForgotten'
           /\ \A d \in IDs : Shown(d)'
<1>1. IDs' = IDs /\ N' = N /\ Within' = Within /\ (Layered' <=> Layered)
  BY EffectFacts, SameTurn, SameWaves
<1>2. scenario' \in Scenarios BY EffectFacts DEF IInv
<1>3. TypeOK'
  <2>1. UNCHANGED <<scenario, sched, phase, wave, limited, leader, spec, overtaken, decisions,
                    saved, bounds>>
    BY DEF Effect, Frame
  <2> QED BY <1>1, <2>1, EffectFacts DEF IInv, TypeOK, Effect, bounds
<1>4. PhaseInv' BY <1>1, EffectFacts DEF IInv, PhaseInv
<1>5. NoCallForgotten' BY EffectFacts DEF NoCallForgotten
<1>6. ASSUME NEW d \in IDs PROVE Shown(d)'
  BY EffectFacts DEF IInv, Shown
<1> QED BY <1>2, <1>3, <1>4, <1>5, <1>6

LEMMA GoroutineKeeps == ASSUME IInv, NEW c \in IDs, Goroutine(c) PROVE IInv'
<1>1. Effect(c) BY GoroutineEffect
<1>2. IDs' = IDs BY <1>1, EffectFacts, SameTurn
<1>3. /\ \A d \in IDs : Standing(d)' /\ Waiting(d)' /\ Deferred(d)' /\ Speculated(d)' /\ Runs(d)'
      /\ \A a, b \in IDs : Follows(a, b)'
  BY <1>1, EffectStanding, EffectWaiting, EffectDeferred, EffectRuns, EffectFollows
<1> QED BY <1>1, <1>2, <1>3, EffectOthers DEF IInv

-----------------------------------------------------------------------------
(* The steps before the waves and those of a process that has no wave. *)
PerCall(c) ==
    Standing(c) /\ Waiting(c) /\ Deferred(c) /\ Shown(c) /\ Speculated(c) /\ Runs(c)

LEMMA IInvParts ==
    /\ IInv <=> /\ scenario \in Scenarios /\ TypeOK /\ PhaseInv /\ NoCallForgotten
                /\ \A c \in IDs : PerCall(c)
                /\ \A c, d \in IDs : Follows(c, d)
BY DEF IInv, PerCall

LEMMA Prove ==
    ASSUME scenario' = scenario, scenario \in Scenarios, TypeOK', PhaseInv', NoCallForgotten',
           \A c \in IDs : PerCall(c)', \A c, d \in IDs : Follows(c, d)'
    PROVE  IInv'
BY SameTurn DEF IInv, PerCall

LEMMA InitHolds == Init => IInv
<1> SUFFICES ASSUME Init PROVE IInv OBVIOUS
<1>1. scenario \in Scenarios /\ N \in Nat \ {0} BY TurnShape DEF Init
<1>2. TypeOK
  <2>1. /\ leader \in [DOMAIN leader -> IDs] /\ DOMAIN leader \subseteq IDs
        /\ decisions \in [DOMAIN decisions -> BOOLEAN] /\ DOMAIN decisions \subseteq IDs
    BY DEF Init
  <2>2. /\ pc \in [IDs -> Labels] /\ msgs \in [IDs -> Messages] /\ saved \in [IDs -> Messages]
        /\ spec \in [IDs -> {"none", "chosen", "running", "ok", "error"}] /\ runs \in [IDs -> Nat]
    BY DEF Init, Labels, Messages
  <2>3. /\ wave \in 0..N /\ lock \in 0..N /\ faults \in 0..scenario.maxFaults
        /\ resumes \in 0..scenario.maxResumes /\ planMode \in BOOLEAN
        /\ toggles \in 0..scenario.maxToggles
    BY <1>1, TurnShape DEF Init
  <2> QED BY <2>1, <2>2, <2>3 DEF Init, TypeOK
<1>3. PhaseInv /\ NoCallForgotten BY DEF Init, PhaseInv, NoCallForgotten
<1>4. ASSUME NEW c \in IDs PROVE PerCall(c)
  BY <1>1, TurnShape DEF Init, PerCall, Standing, Waiting, Deferred, Shown, Speculated, Runs,
     MayStart,
     Allowance, Owed, Live, PastPlanMode, PastPolicy
<1>5. ASSUME NEW c \in IDs, NEW d \in IDs PROVE Follows(c, d) BY DEF Init, Follows, Live
<1> QED BY <1>1, <1>2, <1>3, <1>4, <1>5, IInvParts

LEMMA SpeculateKeeps == ASSUME IInv, NEW e \in IDs, Speculate(e) PROVE IInv'
<1>1. UNCHANGED <<scenario, sched, phase, wave, limited, leader, pc, lock, msgs, pending,
                  fatal, approved, overtaken, decisions, planMode, cache, saved, runs, faults,
                  resumes, toggles>>
      /\ phase = "stream" /\ spec[e] = "none" /\ ShouldSpeculate(e)
      /\ spec' = [spec EXCEPT ![e] = "chosen"]
  BY DEF Speculate, bounds
<1>2. IDs' = IDs /\ N' = N /\ turn' = turn /\ Within' = Within /\ (Layered' <=> Layered)
      /\ WaveAt(wave)' = WaveAt(wave) /\ ResultsByID' = ResultsByID
  BY <1>1, SameTurn, SameWaves DEF ResultsByID
<1>3. scenario \in Scenarios /\ spec \in [IDs -> {"none", "chosen", "running", "ok", "error"}]
      /\ runs \in [IDs -> Nat] /\ faults \in Nat
  BY TurnShape DEF IInv, TypeOK
<1>4. TypeOK' BY <1>1, <1>2, <1>3 DEF IInv, TypeOK
<1>5. PhaseInv' BY <1>1, <1>2, <1>3 DEF IInv, PhaseInv
<1>6. NoCallForgotten' BY <1>1, <1>2 DEF IInv, NoCallForgotten
<1>7. ASSUME NEW c \in IDs PROVE PerCall(c)'
  <2>1. PerCall(c) /\ PhaseInv BY DEF IInv, PerCall
  <2>2. Standing(c)' BY <1>1, <1>2, <2>1, SameTurn DEF PerCall, Standing
  <2>3. Waiting(c)' /\ Deferred(c)' /\ Shown(c)'
    BY <1>1, <2>1 DEF PerCall, Waiting, Deferred, Shown
  <2>4. c # e => Owed(c)' = Owed(c) BY <1>1, <1>3 DEF Owed
  <2>5. Owed(e)' = 1 BY <1>1, <1>3, <2>1 DEF Owed, PhaseInv
  <2>6. Speculated(c)'
    BY <1>1, <1>2, <1>3, <2>1, <2>4, <2>5, SameTurn DEF PerCall, Speculated, ShouldSpeculate
  <2>7. Allowance(c)' = Allowance(c) /\ Allowance(c) \in Nat BY <1>1, <1>3, SameTurn DEF Allowance
  <2>8. Runs(c)'
    <3>1. CASE c = e BY <1>1, <1>3, <2>5, <2>7, <3>1 DEF Runs, MayStart
    <3>2. CASE c # e
      BY <1>1, <1>3, <2>1, <2>4, <2>7, <3>2 DEF PerCall, Runs, MayStart
    <3> QED BY <3>1, <3>2
  <2> QED BY <2>2, <2>3, <2>6, <2>8 DEF PerCall
<1>8. ASSUME NEW c \in IDs, NEW d \in IDs PROVE Follows(c, d)'
  BY <1>1, SameTurn DEF IInv, Follows
<1> QED BY <1>1, <1>3, <1>4, <1>5, <1>6, <1>7, <1>8, Prove

LEMMA SpeculationStartsKeeps == ASSUME IInv, NEW e \in IDs, SpeculationStarts(e) PROVE IInv'
<1>1. UNCHANGED <<scenario, sched, phase, wave, limited, leader, pc, lock, msgs, pending,
                  fatal, approved, overtaken, decisions, planMode, cache, saved, faults,
                  resumes, toggles>>
      /\ spec[e] = "chosen"
      /\ spec' = [spec EXCEPT ![e] = "running"] /\ runs' = [runs EXCEPT ![e] = @ + 1]
  BY DEF SpeculationStarts, bounds
<1>2. IDs' = IDs /\ N' = N /\ turn' = turn /\ Within' = Within /\ (Layered' <=> Layered)
      /\ WaveAt(wave)' = WaveAt(wave) /\ ResultsByID' = ResultsByID
  BY <1>1, SameTurn, SameWaves DEF ResultsByID
<1>3. scenario \in Scenarios /\ spec \in [IDs -> {"none", "chosen", "running", "ok", "error"}]
      /\ runs \in [IDs -> Nat]
  BY TurnShape DEF IInv, TypeOK
<1>4. TypeOK' BY <1>1, <1>2, <1>3 DEF IInv, TypeOK
<1>5. PhaseInv' BY <1>1, <1>2, <1>3 DEF IInv, PhaseInv
<1>6. NoCallForgotten' BY <1>1, <1>2 DEF IInv, NoCallForgotten
<1>7. ASSUME NEW c \in IDs PROVE PerCall(c)'
  <2>1. PerCall(c) BY DEF IInv, PerCall
  <2>2. Standing(c)' BY <1>1, <1>2, <2>1, SameTurn DEF PerCall, Standing
  <2>3. Waiting(c)' /\ Deferred(c)' /\ Shown(c)'
    BY <1>1, <1>2, <2>1, SameTurn DEF PerCall, Waiting, Deferred, Shown
  <2>4. Owed(c)' = Owed(c) /\ (spec'[c] = "none" <=> spec[c] = "none") BY <1>1, <1>3 DEF Owed
  <2>5. Speculated(c)' BY <1>1, <1>2, <2>1, <2>4, SameTurn DEF PerCall, Speculated
  <2>6. Runs(c)' BY <1>1, <2>1, <2>4, SameTurn DEF PerCall, Runs, MayStart, Allowance
  <2> QED BY <2>2, <2>3, <2>5, <2>6 DEF PerCall
<1>8. ASSUME NEW c \in IDs, NEW d \in IDs PROVE Follows(c, d)'
  <2>1. ~RequiresConfirmation(e) BY <1>1 DEF IInv, Speculated
  <2>2. Repeated(c, d) => RequiresConfirmation(d) BY DEF Repeated, Repeats
  <2>3. Follows(c, d) /\ (Repeated(c, d)' <=> Repeated(c, d)) BY <1>1, SameTurn DEF IInv
  <2> QED BY <1>1, <1>3, <2>1, <2>2, <2>3 DEF Follows
<1> QED BY <1>1, <1>3, <1>4, <1>5, <1>6, <1>7, <1>8, Prove

LEMMA SetPlanModeKeeps == ASSUME IInv, NEW v \in BOOLEAN, SetPlanMode(v) PROVE IInv'
<1>1. UNCHANGED <<scenario, sched, phase, wave, limited, leader, pc, lock, msgs, pending,
                  fatal, spec, approved, decisions, cache, saved, runs, faults, resumes>>
      /\ toggles < scenario.maxToggles /\ toggles' = toggles + 1 /\ planMode' = v
      /\ overtaken' = IF v THEN overtaken \cup {c \in IDs : PastPlanCheck(c)} ELSE overtaken
  BY DEF SetPlanMode
<1>2. IDs' = IDs /\ N' = N /\ turn' = turn /\ Within' = Within /\ (Layered' <=> Layered)
      /\ WaveAt(wave)' = WaveAt(wave) /\ ResultsByID' = ResultsByID
  BY <1>1, SameTurn, SameWaves DEF ResultsByID
<1>3. scenario \in Scenarios /\ TypeOK /\ scenario.maxToggles \in Nat
  BY TurnShape DEF IInv
<1>4. TypeOK'
  <2>1. toggles' \in 0..scenario.maxToggles BY <1>1, <1>3 DEF TypeOK
  <2>2. overtaken' \subseteq IDs BY <1>1, <1>3 DEF TypeOK
  <2> QED BY <1>1, <1>2, <1>3, <2>1, <2>2 DEF TypeOK
<1>5. PhaseInv' BY <1>1, <1>2 DEF IInv, PhaseInv
<1>6. NoCallForgotten' BY <1>1, <1>2 DEF IInv, NoCallForgotten
<1>7. ASSUME NEW c \in IDs PROVE PerCall(c)'
  <2>1. PerCall(c) BY DEF IInv, PerCall
  <2>2. Standing(c)' BY <1>1, <1>2, <2>1, SameTurn DEF PerCall, Standing
  <2>3. Waiting(c)' /\ Deferred(c)' /\ Shown(c)'
    BY <1>1, <1>2, <2>1, SameTurn DEF PerCall, Waiting, Deferred, Shown
  <2>4. Owed(c)' = Owed(c) BY <1>1 DEF Owed
  <2>5. Speculated(c)' /\ Runs(c)'
    BY <1>1, <1>2, <2>1, <2>4, SameTurn DEF PerCall, Speculated, Runs, MayStart, Allowance, Owed
  <2> QED BY <2>2, <2>3, <2>5 DEF PerCall
<1>8. ASSUME NEW c \in IDs, NEW d \in IDs PROVE Follows(c, d)'
  BY <1>1, SameTurn DEF IInv, Follows
<1> QED BY <1>1, <1>3, <1>4, <1>5, <1>6, <1>7, <1>8, Prove

LEMMA SpeculationEndsKeeps == ASSUME IInv, NEW e \in IDs, SpeculationEnds(e) PROVE IInv'
<1>1. UNCHANGED <<scenario, sched, phase, wave, limited, leader, pc, lock, msgs, pending, runs,
                  fatal, approved, overtaken, decisions, planMode, cache, saved, faults,
                  resumes, toggles>>
  BY DEF SpeculationEnds, bounds
<1>2. PICK r \in {"ok", "error"} : spec[e] = "running" /\ spec' = [spec EXCEPT ![e] = r]
  BY DEF SpeculationEnds
<1>3. spec \in [IDs -> {"none", "chosen", "running", "ok", "error"}] BY DEF IInv, TypeOK
<1>4. spec' \in [IDs -> {"none", "chosen", "running", "ok", "error"}]
      /\ \A c \in IDs : spec'[c] = "none" <=> spec[c] = "none"
  BY <1>2, <1>3
<1>5. IDs' = IDs /\ N' = N /\ turn' = turn /\ Within' = Within /\ (Layered' <=> Layered)
      /\ WaveAt(wave)' = WaveAt(wave) /\ ResultsByID' = ResultsByID
  BY <1>1, SameTurn, SameWaves DEF ResultsByID
<1>6. TypeOK' BY <1>1, <1>4, <1>5 DEF IInv, TypeOK
<1>7. PhaseInv' BY <1>1, <1>4, <1>5 DEF IInv, PhaseInv
<1>8. NoCallForgotten' BY <1>1, <1>5 DEF IInv, NoCallForgotten
<1>9. ASSUME NEW c \in IDs PROVE PerCall(c)'
  <2>1. PerCall(c) BY DEF IInv, PerCall
  <2>2. Standing(c)' BY <1>1, <1>5, <2>1, SameTurn DEF PerCall, Standing
  <2>3. Waiting(c)' /\ Deferred(c)' /\ Shown(c)'
    BY <1>1, <1>5, <2>1, SameTurn DEF PerCall, Waiting, Deferred, Shown
  <2>4. Owed(c)' = Owed(c) BY <1>1, <1>2, <1>3 DEF Owed
  <2>5. Speculated(c)' BY <1>1, <1>4, <1>5, <2>1, <2>4, SameTurn DEF PerCall, Speculated
  <2>6. Runs(c)' BY <1>1, <1>4, <2>1, <2>4, SameTurn DEF PerCall, Runs, MayStart, Allowance
  <2> QED BY <2>2, <2>3, <2>5, <2>6 DEF PerCall
<1>10. ASSUME NEW c \in IDs, NEW d \in IDs PROVE Follows(c, d)'
  BY <1>1, SameTurn DEF IInv, Follows
<1> QED BY <1>1, <1>6, <1>7, <1>8, <1>9, <1>10, Prove DEF IInv

LEMMA EndStreamKeeps == ASSUME IInv, EndStream PROVE IInv'
<1>1. UNCHANGED <<scenario, limited, leader, pc, lock, msgs, pending, fatal, spec, approved,
                  overtaken,
                  decisions, planMode, cache, saved, runs, faults, resumes, toggles>>
      /\ phase = "stream" /\ phase' = "waves" /\ wave' = 1
      /\ sched' = {c \in IDs : c <= scenario.maxPerTurn}
  BY DEF EndStream, bounds
<1>2. IDs' = IDs /\ N' = N /\ turn' = turn BY <1>1, SameTurn
<1>3. scenario \in Scenarios /\ PhaseInv BY DEF IInv
<1>4. N \in Nat \ {0} /\ IDs = 1..N /\ scenario.maxPerTurn \in Nat BY <1>3, TurnShape
<1>5. TypeOK' BY <1>1, <1>2, <1>4 DEF IInv, TypeOK
<1>6. PhaseInv' BY <1>1, <1>2, <1>4 DEF PhaseInv
<1>7. NoCallForgotten' BY <1>1 DEF NoCallForgotten
<1>8. ASSUME NEW c \in IDs PROVE PerCall(c)'
  <2>1. PerCall(c) /\ pc[c] = "idle" /\ pending = {} /\ DOMAIN leader = {}
    BY <1>1, <1>3 DEF IInv, PerCall, PhaseInv
  <2>2. Standing(c)' BY <1>1, <2>1 DEF Standing, Live, PastPlanMode, PastPolicy
  <2>3. Waiting(c)'
    <3>1. (Within[0] = {})' BY <1>1, <1>3, NothingBeforeTheFirstWaveNext
    <3>2. wave' - 1 = 0 BY <1>1
    <3> QED BY <1>1, <2>1, <3>1, <3>2 DEF Waiting
  <2>4. Deferred(c)' /\ Shown(c)' BY <1>1, <2>1 DEF PerCall, Deferred, Shown
  <2>5. Speculated(c)' /\ Runs(c)'
    BY <1>1, <1>2, <2>1, SameTurn DEF PerCall, Speculated, Runs, MayStart, Allowance, Owed
  <2> QED BY <2>2, <2>3, <2>4, <2>5 DEF PerCall
<1>9. ASSUME NEW c \in IDs, NEW d \in IDs PROVE Follows(c, d)'
  <2>1. Follows(c, d) /\ (Repeated(c, d)' <=> Repeated(c, d)) BY <1>1, SameTurn DEF IInv
  <2>2. pc[c] = "idle" /\ msgs[c] = NoMsg /\ DOMAIN leader = {} BY <1>1, <1>3 DEF PhaseInv
  <2> QED BY <1>1, <2>1, <2>2 DEF Follows, Live
<1> QED BY <1>1, <1>3, <1>5, <1>6, <1>7, <1>8, <1>9, Prove

LEMMA CrashKeeps == ASSUME IInv, Crash PROVE IInv'
<1>1. UNCHANGED <<scenario, sched, wave, limited, leader, saved, runs, resumes, toggles>>
      /\ phase \in {"waves", "idle"} /\ faults < scenario.maxFaults
      /\ faults' = faults + 1 /\ phase' = "idle" /\ planMode' = FALSE
      /\ cache' = {} /\ approved' = {} /\ overtaken' = {} /\ decisions' = [c \in {} |-> TRUE]
      /\ lock' = 0 /\ pending' = {} /\ fatal' = FALSE
      /\ msgs' = saved /\ pc' = [c \in IDs |-> "idle"] /\ spec' = [c \in IDs |-> "none"]
  BY DEF Crash
<1>2. IDs' = IDs /\ N' = N /\ turn' = turn /\ (Layered' <=> Layered) BY <1>1, SameTurn, SameWaves
<1>3. scenario \in Scenarios /\ N \in Nat \ {0} /\ scenario.maxFaults \in Nat /\ faults \in Nat
      /\ runs \in [IDs -> Nat]
  BY TurnShape DEF IInv, TypeOK
<1>4. TypeOK'
  <2>1. decisions' \in [DOMAIN decisions' -> BOOLEAN] /\ DOMAIN decisions' \subseteq IDs BY <1>1
  <2>2. pc' \in [IDs -> Labels] /\ spec' \in [IDs -> {"none", "chosen", "running", "ok", "error"}]
    BY <1>1 DEF Labels
  <2>3. lock' \in 0..N /\ faults' \in 0..scenario.maxFaults BY <1>1, <1>3
  <2> QED BY <1>1, <1>2, <2>1, <2>2, <2>3 DEF IInv, TypeOK
<1>5. PhaseInv' BY <1>1, <1>2 DEF IInv, PhaseInv
<1>6. NoCallForgotten' BY <1>1 DEF NoCallForgotten
<1>7. ASSUME NEW c \in IDs PROVE PerCall(c)'
  <2>1. PerCall(c) BY DEF IInv, PerCall
  <2>2. Standing(c)' /\ Waiting(c)' /\ Deferred(c)' /\ Shown(c)' /\ Speculated(c)'
    BY <1>1 DEF Standing, Waiting, Deferred, Shown, Speculated, Live, PastPlanMode, PastPolicy
  <2>3. Allowance(c)' = Allowance(c) + 1 /\ Allowance(c) \in Nat
    BY <1>1, <1>3, SameTurn DEF Allowance
  <2>4. Owed(c)' <= Owed(c) /\ Owed(c) \in Nat /\ Owed(c)' \in Nat BY <1>1, <1>3 DEF Owed
  <2>5. Runs(c)' BY <1>1, <1>3, <2>1, <2>3, <2>4 DEF PerCall, Runs, MayStart
  <2> QED BY <2>2, <2>5 DEF PerCall
<1>8. ASSUME NEW c \in IDs, NEW d \in IDs PROVE Follows(c, d)'
  BY <1>1, SameTurn DEF IInv, Follows, Live
<1> QED BY <1>1, <1>3, <1>4, <1>5, <1>6, <1>7, <1>8, Prove

LEMMA ResumeKeeps == ASSUME IInv, Resume PROVE IInv'
<1>1. UNCHANGED <<scenario, planMode, cache, saved, runs, faults, toggles>>
      /\ phase = "idle" /\ resumes < scenario.maxResumes /\ resumes' = resumes + 1
      /\ phase' = "waves" /\ wave' = 1 /\ sched' = IDs
      /\ msgs' = saved /\ pending' = {} /\ fatal' = FALSE /\ approved' = {}
      /\ overtaken' = {} /\ (\A c \in IDs : spec[c] # "chosen")
      /\ pc' = [c \in IDs |-> "idle"] /\ spec' = [c \in IDs |-> "none"]
      /\ leader' = [c \in {} |-> 0] /\ limited' = FALSE /\ lock' = 0
  BY DEF Resume
<1>2. IDs' = IDs /\ N' = N /\ turn' = turn BY <1>1, SameTurn
<1>3. scenario \in Scenarios /\ N \in Nat \ {0} /\ scenario.maxResumes \in Nat /\ resumes \in Nat
  BY TurnShape DEF IInv, TypeOK
<1>4. DOMAIN leader' = {} /\ leader' \in [{} -> IDs] BY <1>1
<1>5. TypeOK'
  <2>1. decisions' \in [DOMAIN decisions' -> BOOLEAN] /\ DOMAIN decisions' \subseteq IDs
    BY DEF Resume, Approvals, Unanswered
  <2>2. pc' \in [IDs -> Labels] /\ spec' \in [IDs -> {"none", "chosen", "running", "ok", "error"}]
    BY <1>1 DEF Labels
  <2>3. wave' \in 0..N /\ lock' \in 0..N /\ resumes' \in 0..scenario.maxResumes BY <1>1, <1>3
  <2> QED BY <1>1, <1>2, <1>4, <2>1, <2>2, <2>3 DEF IInv, TypeOK
<1>6. PhaseInv' BY <1>1, <1>2, <1>3 DEF PhaseInv
<1>7. NoCallForgotten' BY <1>1 DEF NoCallForgotten
<1>8. ASSUME NEW c \in IDs PROVE PerCall(c)'
  <2>1. PerCall(c) BY DEF IInv, PerCall
  <2>2. Standing(c)' /\ Deferred(c)' /\ Shown(c)' /\ Speculated(c)'
    BY <1>1 DEF Standing, Deferred, Shown, Speculated, Live, PastPlanMode, PastPolicy
  <2>3. Waiting(c)'
    <3>1. (Within[0] = {})' BY <1>1, <1>3, NothingBeforeTheFirstWaveNext
    <3>2. wave' - 1 = 0 BY <1>1
    <3> QED BY <1>1, <1>4, <3>1, <3>2 DEF Waiting
  <2>4. Owed(c)' = Owed(c) BY <1>1 DEF Owed
  <2>5. Runs(c)' BY <1>1, <2>1, <2>4, SameTurn DEF PerCall, Runs, MayStart, Allowance
  <2> QED BY <2>2, <2>3, <2>5 DEF PerCall
<1>9. ASSUME NEW c \in IDs, NEW d \in IDs PROVE Follows(c, d)'
  BY <1>1, <1>4, SameTurn DEF IInv, Follows, Live
<1> QED BY <1>1, <1>3, <1>5, <1>6, <1>7, <1>8, <1>9, Prove

LEMMA RunInsteadKeeps == ASSUME IInv, RunInstead PROVE IInv'
<1>1. UNCHANGED <<scenario, sched, wave, limited, leader, pc, lock, msgs, pending, fatal, spec,
                  approved, overtaken, decisions, planMode, cache, runs, faults, resumes, toggles>>
      /\ phase = "idle" /\ phase' = "over"
      /\ saved' = [c \in IDs |-> IF saved[c] = NoMsg THEN "interrupted" ELSE saved[c]]
  BY DEF RunInstead, volatile, bounds
<1>2. IDs' = IDs /\ N' = N /\ turn' = turn /\ Within' = Within /\ (Layered' <=> Layered)
      /\ WaveAt(wave)' = WaveAt(wave) /\ ResultsByID' = ResultsByID
  BY <1>1, SameTurn, SameWaves DEF ResultsByID
<1>3. TypeOK' BY <1>1, <1>2 DEF IInv, TypeOK, Messages, Errors
<1>4. PhaseInv' BY <1>1, <1>2 DEF IInv, PhaseInv
<1>5. \A c \in IDs : saved'[c] # NoMsg BY <1>1 DEF NoMsg
<1>6. NoCallForgotten' BY <1>1, <1>2, <1>5 DEF NoCallForgotten
<1>7. ASSUME NEW c \in IDs PROVE PerCall(c)'
  <2>1. PerCall(c) BY DEF IInv, PerCall
  <2>2. Standing(c)' BY <1>1, <1>2, <2>1, SameTurn DEF PerCall, Standing
  <2>3. Waiting(c)' /\ Deferred(c)' /\ Shown(c)' BY <1>1 DEF Waiting, Deferred, Shown
  <2>4. Speculated(c)' /\ Runs(c)'
    BY <1>1, <1>2, <2>1, SameTurn DEF PerCall, Speculated, Runs, MayStart, Allowance, Owed
  <2> QED BY <2>2, <2>3, <2>4 DEF PerCall
<1>8. ASSUME NEW c \in IDs, NEW d \in IDs PROVE Follows(c, d)'
  BY <1>1, <1>5, SameTurn DEF IInv, Follows
<1> QED BY <1>1, <1>3, <1>4, <1>6, <1>7, <1>8, Prove DEF IInv

-----------------------------------------------------------------------------
(* The waves. *)
Ready == Substituted(Unfinished(WaveAt(wave)))

\* Before a wave is dispatched nothing waits.
LEMMA BeforeDispatch ==
    ASSUME IInv, DispatchWave
    PROVE  /\ phase = "waves" /\ wave \in 1..N /\ pending = {} /\ DOMAIN leader = {}
           /\ \A c \in IDs : pc[c] = "idle"
<1>1. phase = "waves" /\ \A c \in IDs : pc[c] = "idle" BY DEF DispatchWave
<1>2. wave \in 1..N BY <1>1 DEF IInv, PhaseInv
<1>3. pending \subseteq IDs /\ DOMAIN leader \subseteq IDs BY DEF IInv, TypeOK
<1>4. pending = {} BY <1>1, <1>3 DEF IInv, Deferred
<1>5. DOMAIN leader = {} BY <1>1, <1>3 DEF IInv, Waiting
<1> QED BY <1>1, <1>2, <1>4, <1>5

\* The leader of a call leads itself.
LEMMA LeadersLead ==
    ASSUME IInv, DispatchWave, NEW c \in Ready, RequiresConfirmation(c)
    PROVE  LET e == Earliest(Twins(Ready, c))
           IN  /\ e \in Ready /\ RequiresConfirmation(e) /\ Key(e) = Key(c)
               /\ e = Earliest(Twins(Ready, e)) /\ \A d \in Twins(Ready, c) : e <= d
<1>1. Ready \subseteq IDs
  BY BeforeDispatch, WavesOfSched DEF Ready, Substituted, Unfinished, IInv, TypeOK
<1>2. c \in Twins(Ready, c) /\ Twins(Ready, c) \in SUBSET IDs BY <1>1 DEF Twins
<1> DEFINE e == Earliest(Twins(Ready, c))
<1>3. e \in Twins(Ready, c) /\ \A d \in Twins(Ready, c) : e <= d BY <1>2, EarliestOf DEF IInv
<1>4. Twins(Ready, e) = Twins(Ready, c) BY <1>3 DEF Twins
<1> QED BY <1>3, <1>4 DEF Twins

\* What becomes of a call of the wave: refused, spawned, or led.
LEMMA DispatchFacts ==
    ASSUME IInv, DispatchWave
    PROVE  /\ UNCHANGED <<scenario, sched, phase, wave, lock, pending, fatal, spec, approved,
                          overtaken,
                          decisions, planMode, cache, saved, runs, faults, resumes, toggles>>
           /\ Ready \subseteq WaveAt(wave) /\ Ready \subseteq IDs
           /\ \A c \in Ready : msgs[c] = NoMsg /\ turn[c].refs \subseteq ResultsByID
           /\ \A c \in IDs : c \in WaveAt(wave) /\ msgs[c] = NoMsg /\ turn[c].refs \subseteq ResultsByID
                               => c \in Ready
           /\ msgs' = [c \in IDs |-> IF c \in Unfinished(WaveAt(wave)) \ Ready THEN "refused" ELSE msgs[c]]
           /\ \A c \in IDs : msgs[c] # NoMsg => msgs'[c] = msgs[c]
           /\ \A c \in IDs : msgs'[c] = NoMsg => msgs[c] = NoMsg /\ (c \in WaveAt(wave) => c \in Ready)
           /\ \A c \in Ready : msgs'[c] = NoMsg
           /\ leader' = [c \in Duplicates(Ready) |-> Earliest(Twins(Ready, c))]
           /\ pc' = [c \in IDs |-> IF c \in Ready \ Duplicates(Ready) THEN "queued" ELSE "done"]
           /\ limited' \in BOOLEAN
<1>1. WaveAt(wave) \subseteq sched /\ sched \subseteq IDs /\ \A c \in IDs : pc[c] = "idle"
  BY BeforeDispatch, WavesOfSched DEF IInv, TypeOK
<1>2. Ready \subseteq WaveAt(wave) /\ Ready \subseteq IDs
  BY <1>1 DEF Ready, Substituted, Unfinished
<1>3. \A c \in Ready : msgs[c] = NoMsg /\ turn[c].refs \subseteq ResultsByID
  BY <1>2 DEF Ready, Substituted, Unfinished, Done
<1>4. \A c \in IDs : c \in WaveAt(wave) /\ msgs[c] = NoMsg /\ turn[c].refs \subseteq ResultsByID => c \in Ready
  BY DEF Ready, Substituted, Unfinished, Done
<1>5. msgs' = [c \in IDs |-> IF c \in Unfinished(WaveAt(wave)) \ Ready THEN "refused" ELSE msgs[c]]
  BY DEF DispatchWave, Ready
<1>6. \A c \in IDs : msgs[c] # NoMsg => msgs'[c] = msgs[c] BY <1>5 DEF Unfinished, Done
<1>7. \A c \in IDs : msgs'[c] = NoMsg => msgs[c] = NoMsg /\ (c \in WaveAt(wave) => c \in Ready)
  BY <1>5 DEF Unfinished, Done, NoMsg
<1>8. \A c \in Ready : msgs'[c] = NoMsg BY <1>2, <1>3, <1>5
<1>9. /\ leader' = [c \in Duplicates(Ready) |-> Earliest(Twins(Ready, c))]
      /\ pc' = [c \in IDs |-> IF c \in Ready \ Duplicates(Ready) THEN "queued" ELSE "done"]
      /\ limited' \in BOOLEAN
  BY DEF DispatchWave, Ready
<1>10. UNCHANGED <<scenario, sched, phase, wave, lock, pending, fatal, spec, approved, overtaken,
                  decisions, planMode, cache, saved, runs, faults, resumes, toggles>>
  BY DEF DispatchWave, bounds
<1> QED BY <1>2, <1>3, <1>4, <1>5, <1>6, <1>7, <1>8, <1>9, <1>10

LEMMA DispatchWaveKeeps == ASSUME IInv, DispatchWave PROVE IInv'
<1>1. /\ phase = "waves" /\ phase' = "waves" /\ wave \in 1..N /\ pending = {} /\ pending' = {}
      /\ DOMAIN leader = {} /\ scenario' = scenario /\ sched' = sched /\ wave' = wave
      /\ \A c \in IDs : pc[c] = "idle"
  BY BeforeDispatch, DispatchFacts
<1>2. /\ IDs' = IDs /\ N' = N /\ turn' = turn /\ Within' = Within /\ (Layered' <=> Layered)
      /\ WaveAt(wave)' = WaveAt(wave)
  BY <1>1, SameTurn, SameWaves
<1>3. scenario \in Scenarios /\ TypeOK /\ PhaseInv BY DEF IInv
<1>4. DOMAIN leader' = Duplicates(Ready) /\ Duplicates(Ready) \subseteq Ready
  BY DispatchFacts DEF Duplicates
<1>5. ASSUME NEW c \in Duplicates(Ready)
      PROVE  /\ leader'[c] \in Ready \ Duplicates(Ready) /\ RequiresConfirmation(c)
             /\ leader'[c] = Earliest(Twins(Ready, c))
  <2>1. c \in Ready /\ RequiresConfirmation(c) BY DEF Duplicates
  <2>2. leader'[c] = Earliest(Twins(Ready, c)) BY DispatchFacts
  <2> QED BY <2>1, <2>2, LeadersLead DEF Duplicates
<1>6. ResultsByID \subseteq ResultsByID' BY <1>2, DispatchFacts DEF ResultsByID, NoMsg
<1>7. \A c \in IDs : pc'[c] = IF c \in Ready \ Duplicates(Ready) THEN "queued" ELSE "done"
  BY DispatchFacts
<1>8. TypeOK'
  <2>1. leader' \in [DOMAIN leader' -> IDs] /\ DOMAIN leader' \subseteq IDs
    BY <1>4, <1>5, DispatchFacts
  <2>2. pc' \in [IDs -> Labels] BY DispatchFacts DEF Labels
  <2>3. msgs' \in [IDs -> Messages] BY <1>3, DispatchFacts DEF TypeOK, Messages, Errors
  <2> QED BY <1>2, <1>3, <2>1, <2>2, <2>3, DispatchFacts DEF TypeOK
<1>9. PhaseInv' BY <1>1, <1>2, <1>3 DEF PhaseInv
<1>10. NoCallForgotten' BY <1>1 DEF NoCallForgotten
<1>11. ASSUME NEW c \in IDs PROVE PerCall(c)'
  <2>1. PerCall(c) BY DEF IInv, PerCall
  <2>2. Standing(c)'
    <3>1. CASE c \in Ready \ Duplicates(Ready)
      <4>1. pc'[c] = "queued" BY <1>7, <3>1
      <4>2. msgs'[c] = NoMsg /\ c \notin DOMAIN leader' /\ c \in WaveAt(wave)
            /\ turn[c].refs \subseteq ResultsByID'
        BY <1>4, <1>6, <3>1, DispatchFacts
      <4> QED BY <1>1, <1>2, <4>1, <4>2 DEF Standing, PastPlanMode, PastPolicy
    <3>2. CASE c \notin Ready \ Duplicates(Ready)
      <4>1. pc'[c] = "done" BY <1>7, <3>2
      <4> QED BY <4>1 DEF Standing, Live, PastPlanMode, PastPolicy
    <3> QED BY <3>1, <3>2
  <2>3. Waiting(c)'
    <3>1. c \in DOMAIN leader' =>
             /\ pc'[c] = "done" /\ msgs'[c] = NoMsg /\ c \in WaveAt(wave)
             /\ leader'[c] \in WaveAt(wave) \ DOMAIN leader' /\ RequiresConfirmation(c)
      BY <1>4, <1>5, <1>7, DispatchFacts
    <3>2. pc'[c] = "done" /\ msgs'[c] = NoMsg => c \in DOMAIN leader' \/ c \notin WaveAt(wave)
      BY <1>4, <1>7, DispatchFacts
    <3>3. Layered /\ c \in Within[wave - 1] => msgs'[c] # NoMsg
      BY <1>1, <2>1, DispatchFacts DEF PerCall, Waiting
    <3> QED BY <1>1, <1>2, <3>1, <3>2, <3>3, SameTurn DEF Waiting
  <2>4. Deferred(c)' BY <1>1 DEF Deferred
  <2>5. Shown(c)' BY <1>1, <2>1, DispatchFacts DEF PerCall, Shown
  <2>6. Speculated(c)'
    BY <1>1, <1>2, <2>1, DispatchFacts, SameTurn DEF PerCall, Speculated, Owed
  <2>7. Runs(c)'
    <3>1. MayStart(c)' => MayStart(c) BY <1>1, DispatchFacts DEF MayStart
    <3> QED BY <1>1, <2>1, <3>1, DispatchFacts, SameTurn DEF PerCall, Runs, Allowance, Owed
  <2> QED BY <2>2, <2>3, <2>4, <2>5, <2>6, <2>7 DEF PerCall
<1>12. ASSUME NEW a \in IDs, NEW b \in IDs, Repeated(a, b) PROVE Follows(a, b)'
  <2>1. Follows(a, b) /\ (Repeated(a, b)' <=> Repeated(a, b)) BY <1>1, SameTurn DEF IInv
  <2>2. /\ RequiresConfirmation(a) /\ RequiresConfirmation(b) /\ Key(a) = Key(b)
        /\ turn[a].refs = turn[b].refs /\ a < b
    BY <1>12 DEF Repeated, Repeats, Key, RequiresConfirmation
  <2>3. b \in sched => a \in sched /\ (a \in WaveAt(wave) <=> b \in WaveAt(wave))
    <3>1. a \in Nat /\ b \in Nat BY <1>3, TurnShape
    <3>2. b \in sched => a \in sched BY <1>1, <1>3, <2>2, <3>1 DEF PhaseInv
    <3> QED BY <1>1, <1>3, <2>2, <3>2, SameRefsSameWave
  <2>4. b \in sched /\ msgs[b] = NoMsg => msgs[a] = NoMsg
    BY <1>1, <1>12, <2>1 DEF Follows
  <2>5. Ready \subseteq sched BY <1>1, <1>3, DispatchFacts, WavesOfSched
  <2>6. b \in Ready => a \in Ready BY <2>2, <2>3, <2>4, <2>5, DispatchFacts
  <2>7. a \in Ready /\ msgs[b] = NoMsg /\ b \in sched => b \in Ready BY <2>2, <2>3, DispatchFacts
  <2>8. b \in Ready => b \in Duplicates(Ready)
    <3>1. SUFFICES ASSUME b \in Ready PROVE b # Earliest(Twins(Ready, b)) BY <2>2 DEF Duplicates
    <3>2. a \in Twins(Ready, b) BY <2>2, <2>6, <3>1 DEF Twins
    <3>3. Earliest(Twins(Ready, b)) <= a BY <2>2, <3>1, <3>2, LeadersLead
    <3>4. a \in Nat /\ b \in Nat BY <1>3, TurnShape
    <3> QED BY <2>2, <3>3, <3>4
  <2>9. Twins(Ready, a) = Twins(Ready, b) BY <2>2 DEF Twins
  <2>10. a \in Ready => a \in Duplicates(Ready) \/ a = Earliest(Twins(Ready, b))
    BY <2>2, <2>9 DEF Duplicates
  <2>11. runs'[b] = 0 /\ pc'[b] \notin Live /\ (saved'[b] = NoMsg => saved'[a] = NoMsg)
    BY <1>7, <1>12, <2>1, <2>8, DispatchFacts DEF Follows, Live
  <2>12. b \in sched /\ msgs'[b] = NoMsg => msgs'[a] = NoMsg
    <3>1. SUFFICES ASSUME b \in sched, msgs'[b] = NoMsg PROVE msgs'[a] = NoMsg OBVIOUS
    <3>2. msgs[b] = NoMsg /\ msgs[a] = NoMsg /\ (b \in WaveAt(wave) => b \in Ready)
      BY <2>4, <3>1, DispatchFacts
    <3>3. a \in WaveAt(wave) => a \in Ready BY <2>3, <2>6, <3>1, <3>2
    <3> QED BY <3>2, <3>3, DispatchFacts DEF Unfinished
  <2>13. b \in sched /\ pc'[a] \in Live /\ msgs'[b] = NoMsg => b \in DOMAIN leader' /\ leader'[b] = a
    <3>1. SUFFICES ASSUME b \in sched, pc'[a] \in Live, msgs'[b] = NoMsg
          PROVE  b \in DOMAIN leader' /\ leader'[b] = a
      OBVIOUS
    <3>2. a \in Ready \ Duplicates(Ready) BY <1>7, <3>1 DEF Live
    <3>3. b \in Duplicates(Ready) BY <2>7, <2>8, <3>1, <3>2, DispatchFacts
    <3> QED BY <1>4, <1>5, <2>10, <3>2, <3>3
  <2>14. b \in DOMAIN leader' => leader'[b] = a \/ (a \in DOMAIN leader' /\ leader'[a] = leader'[b])
    BY <1>4, <1>5, <2>6, <2>9, <2>10
  <2>15. b \in sched /\ a \in DOMAIN leader' /\ msgs'[b] = NoMsg => b \in DOMAIN leader'
    BY <1>4, <2>7, <2>8, DispatchFacts
  <2> QED BY <1>1, <2>11, <2>12, <2>13, <2>14, <2>15 DEF Follows
<1>13. ASSUME NEW a \in IDs, NEW b \in IDs PROVE Follows(a, b)'
  <2>1. Repeated(a, b)' <=> Repeated(a, b) BY <1>1, SameTurn
  <2> QED BY <1>12, <2>1 DEF Follows
<1> QED BY <1>1, <1>3, <1>8, <1>9, <1>10, <1>11, <1>13, Prove

\* When the goroutines of a wave have returned and the duplicates have the
\* answers of their leaders, what is still open waits for a decision or for
\* a later wave, and a call that repeats another is open only with it.
LEMMA CopiedFacts ==
    ASSUME IInv, WaveReturned
    PROVE  /\ phase = "waves" /\ wave \in 1..N /\ \A c \in IDs : pc[c] = "done"
           /\ CopiedToDuplicates \in [IDs -> Messages]
           /\ \A c \in IDs : msgs[c] # NoMsg => CopiedToDuplicates[c] = msgs[c]
           /\ \A c \in IDs : CopiedToDuplicates[c] = NoMsg => msgs[c] = NoMsg
           /\ \A c \in IDs : CopiedToDuplicates[c] = NoMsg /\ ~fatal =>
                \/ c \in pending
                \/ c \in DOMAIN leader /\ leader[c] \in pending
                \/ c \notin WaveAt(wave)
           /\ \A c \in sched : msgs[c] = NoMsg /\ c \notin WaveAt(wave) => Layered /\ c \notin Within[wave]
           /\ \A a, b \in IDs : Repeated(a, b) /\ b \in sched /\ CopiedToDuplicates[b] = NoMsg
                                => CopiedToDuplicates[a] = NoMsg
<1> DEFINE m == CopiedToDuplicates
<1>1. phase = "waves" /\ \A c \in IDs : pc[c] = "done" BY DEF WaveReturned
<1>2. wave \in 1..N /\ (~Layered => wave = 1) BY <1>1 DEF IInv, PhaseInv
<1>3. msgs \in [IDs -> Messages] /\ leader \in [DOMAIN leader -> IDs] /\ DOMAIN leader \subseteq IDs
      /\ sched \subseteq IDs
  BY DEF IInv, TypeOK
<1>4. \A c \in IDs : m[c] = IF c \in DOMAIN leader THEN msgs[leader[c]] ELSE msgs[c]
  BY DEF CopiedToDuplicates
<1>5. m \in [IDs -> Messages] BY <1>3 DEF CopiedToDuplicates
<1> HIDE DEF m
<1>6. \A c \in DOMAIN leader : /\ msgs[c] = NoMsg /\ leader[c] \in IDs
                               /\ leader[c] \in WaveAt(wave) \ DOMAIN leader
  BY <1>1, <1>3 DEF IInv, Waiting
<1>7. \A c \in IDs : msgs[c] = NoMsg /\ ~fatal =>
         c \in pending \/ c \in DOMAIN leader \/ c \notin WaveAt(wave)
  BY <1>1 DEF IInv, Waiting
<1>8. ASSUME NEW c \in IDs, m[c] = NoMsg, ~fatal
      PROVE  \/ c \in pending
             \/ c \in DOMAIN leader /\ leader[c] \in pending
             \/ c \notin WaveAt(wave)
  <2>1. CASE c \in DOMAIN leader BY <1>4, <1>6, <1>7, <1>8, <2>1
  <2>2. CASE c \notin DOMAIN leader BY <1>4, <1>7, <1>8, <2>2
  <2> QED BY <2>1, <2>2
<1>9. ASSUME NEW c \in sched, msgs[c] = NoMsg, c \notin WaveAt(wave)
      PROVE  Layered /\ c \notin Within[wave]
  <2>1. Layered
    <3>1. SUFFICES ASSUME ~Layered PROVE FALSE OBVIOUS
    <3> QED BY <1>2, <1>9, <3>1 DEF WaveAt, Layered
  <2>2. c \notin Within[wave - 1] BY <1>1, <1>3, <1>9, <2>1 DEF IInv, Waiting
  <2> QED BY <1>2, <1>9, <2>1, <2>2, WavesOfSched DEF IInv
<1>10. ASSUME NEW a \in IDs, NEW b \in IDs, Repeated(a, b), b \in sched, m[b] = NoMsg
       PROVE  m[a] = NoMsg
  <2>1. Follows(a, b) BY DEF IInv
  <2>2. msgs[b] = NoMsg BY <1>4, <1>6, <1>10
  <2>3. CASE b \in DOMAIN leader
    <3>1. leader[b] = a \/ (a \in DOMAIN leader /\ leader[a] = leader[b])
      BY <1>1, <1>10, <2>1, <2>3 DEF Follows
    <3>2. leader[b] \notin DOMAIN leader /\ msgs[leader[b]] = NoMsg BY <1>4, <1>6, <1>10, <2>3
    <3> QED BY <1>4, <3>1, <3>2
  <2>4. CASE b \notin DOMAIN leader
    <3>1. msgs[a] = NoMsg /\ a \notin DOMAIN leader BY <1>1, <1>10, <2>1, <2>2, <2>4 DEF Follows
    <3> QED BY <1>4, <3>1
  <2> QED BY <2>3, <2>4
<1>11. \A c \in IDs : /\ msgs[c] # NoMsg => m[c] = msgs[c]
                      /\ m[c] = NoMsg => msgs[c] = NoMsg
  BY <1>4, <1>6
<1>12. m = CopiedToDuplicates BY DEF m
<1> QED BY <1>1, <1>2, <1>5, <1>8, <1>9, <1>10, <1>11, <1>12

LEMMA NextWaveKeeps == ASSUME IInv, NextWave PROVE IInv'
<1>1. /\ WaveReturned /\ ~fatal /\ pending = {} /\ ~LastWave(wave)
      /\ msgs' = CopiedToDuplicates /\ wave' = wave + 1 /\ pc' = [c \in IDs |-> "idle"]
      /\ leader' = [c \in {} |-> 0]
      /\ UNCHANGED <<scenario, sched, phase, limited, lock, pending, fatal, spec, approved,
                     overtaken,
                     decisions, planMode, cache, saved, runs, faults, resumes, toggles>>
  BY DEF NextWave, Halts, bounds
<1>2. /\ phase = "waves" /\ phase' = "waves" /\ wave \in 1..N /\ DOMAIN leader' = {}
      /\ \A c \in IDs : pc[c] = "done" /\ pc'[c] = "idle"
  BY <1>1, CopiedFacts
<1>3. IDs' = IDs /\ N' = N /\ turn' = turn /\ Within' = Within /\ (Layered' <=> Layered)
  BY <1>1, SameTurn, SameWaves
<1>4. scenario \in Scenarios /\ TypeOK /\ PhaseInv /\ N \in Nat BY TurnShape DEF IInv
<1>5. wave + 1 \in 1..N BY <1>1, <1>2, <1>4 DEF LastWave
<1>6. Layered
  <2>1. SUFFICES ASSUME ~Layered PROVE LastWave(wave) BY <1>1
  <2>2. wave = 1 BY <1>2, <1>4, <2>1 DEF PhaseInv
  <2> QED BY <1>4, <2>1, <2>2 DEF LastWave, WaveAt, Layered
<1>7. \A c \in IDs : /\ msgs[c] # NoMsg => msgs'[c] = msgs[c]
                     /\ msgs'[c] = NoMsg => msgs[c] = NoMsg /\ c \notin WaveAt(wave)
  BY <1>1, CopiedFacts
<1>8. TypeOK'
  <2>1. leader' \in [DOMAIN leader' -> IDs] /\ DOMAIN leader' \subseteq IDs BY <1>1
  <2>2. pc' \in [IDs -> Labels] BY <1>1 DEF Labels
  <2>3. msgs' \in [IDs -> Messages] BY <1>1, CopiedFacts
  <2>4. wave' \in 0..N BY <1>1, <1>4, <1>5
  <2> QED BY <1>1, <1>3, <1>4, <2>1, <2>2, <2>3, <2>4 DEF TypeOK
<1>9. PhaseInv' BY <1>1, <1>2, <1>3, <1>4, <1>5, <1>6 DEF PhaseInv
<1>10. NoCallForgotten' BY <1>2 DEF NoCallForgotten
<1>11. ASSUME NEW c \in IDs PROVE PerCall(c)'
  <2>1. PerCall(c) BY DEF IInv, PerCall
  <2>2. Standing(c)' BY <1>2 DEF Standing, Live, PastPlanMode, PastPolicy
  <2>3. Waiting(c)'
    <3>1. c \in Within[wave] => msgs'[c] # NoMsg
      <4>1. c \in Within[wave] => c \in sched BY <1>2, <1>4, WavesOfSched DEF After
      <4> QED BY <1>1, <1>7, <4>1, CopiedFacts
    <3>2. wave' - 1 = wave BY <1>1, <1>2
    <3> QED BY <1>2, <1>3, <3>1, <3>2 DEF Waiting
  <2>4. Deferred(c)' BY <1>1 DEF Deferred
  <2>5. Shown(c)' BY <1>1, <1>2, <1>7, <2>1 DEF PerCall, Shown
  <2>6. Speculated(c)' BY <1>1, <1>3, <2>1, SameTurn DEF PerCall, Speculated, Owed
  <2>7. Runs(c)'
    <3>1. MayStart(c)' => MayStart(c) BY <1>1, <1>2, <1>7 DEF MayStart
    <3> QED BY <1>1, <1>2, <2>1, <3>1, SameTurn DEF PerCall, Runs, Allowance, Owed
  <2> QED BY <2>2, <2>3, <2>4, <2>5, <2>6, <2>7 DEF PerCall
<1>12. ASSUME NEW a \in IDs, NEW b \in IDs PROVE Follows(a, b)'
  <2>1. Follows(a, b) /\ (Repeated(a, b)' <=> Repeated(a, b)) BY <1>1, SameTurn DEF IInv
  <2>2. Repeated(a, b) /\ b \in sched /\ msgs'[b] = NoMsg => msgs'[a] = NoMsg
    BY <1>1, CopiedFacts
  <2> QED BY <1>1, <1>2, <2>1, <2>2 DEF Follows, Live
<1> QED BY <1>1, <1>4, <1>8, <1>9, <1>10, <1>11, <1>12, Prove

\* What the turn records leaves open.
LEMMA RecordedFacts ==
    ASSUME IInv, WaveReturned
    PROVE  /\ Recorded \in [IDs -> Messages]
           /\ \A c \in IDs : msgs[c] # NoMsg => Recorded[c] = msgs[c]
           /\ \A c \in IDs : Recorded[c] = NoMsg =>
                /\ ~fatal /\ c \in sched /\ msgs[c] = NoMsg
                /\ \/ c \in pending
                   \/ c \in DOMAIN leader /\ leader[c] \in pending
                   \/ c \notin WaveAt(wave) /\ Layered /\ c \notin Within[wave]
           /\ \A a, b \in IDs : Repeated(a, b) /\ Recorded[b] = NoMsg => Recorded[a] = NoMsg
<1>1. \A c \in IDs :
        Recorded[c] = IF CopiedToDuplicates[c] # NoMsg THEN CopiedToDuplicates[c]
                      ELSE IF fatal THEN "sealed"
                      ELSE IF c \notin sched THEN "dropped" ELSE NoMsg
  BY DEF Recorded
<1>2. Recorded \in [IDs -> Messages]
  <2>1. CopiedToDuplicates \in [IDs -> Messages] BY CopiedFacts
  <2> QED BY <2>1 DEF Recorded, Messages, Errors
<1>3. "sealed" # NoMsg /\ "dropped" # NoMsg BY DEF NoMsg
<1>4. \A c \in IDs : msgs[c] # NoMsg => Recorded[c] = msgs[c] BY <1>1, CopiedFacts
<1>5. \A c \in IDs : Recorded[c] = NoMsg => ~fatal /\ c \in sched /\ CopiedToDuplicates[c] = NoMsg
  BY <1>1, <1>3
<1>6. ASSUME NEW c \in IDs, Recorded[c] = NoMsg
      PROVE  /\ ~fatal /\ c \in sched /\ msgs[c] = NoMsg
             /\ \/ c \in pending
                \/ c \in DOMAIN leader /\ leader[c] \in pending
                \/ c \notin WaveAt(wave) /\ Layered /\ c \notin Within[wave]
  BY <1>5, <1>6, CopiedFacts
<1>7. ASSUME NEW a \in IDs, NEW b \in IDs, Repeated(a, b), Recorded[b] = NoMsg
      PROVE  Recorded[a] = NoMsg
  <2>1. ~fatal /\ b \in sched /\ CopiedToDuplicates[b] = NoMsg BY <1>5, <1>7
  <2>2. CopiedToDuplicates[a] = NoMsg BY <1>7, <2>1, CopiedFacts
  <2>3. phase = "waves" /\ a < b /\ a \in Nat /\ b \in Nat
    BY <1>7, TurnShape, CopiedFacts DEF Repeated, IInv
  <2>4. a \in sched BY <2>1, <2>3 DEF IInv, PhaseInv
  <2> QED BY <1>1, <2>1, <2>2, <2>4
<1> QED BY <1>2, <1>4, <1>6, <1>7

LEMMA RecordTurnKeeps == ASSUME IInv, RecordTurn PROVE IInv'
<1>1. /\ WaveReturned /\ (fatal \/ pending # {} \/ LastWave(wave))
      /\ phase' = IF ~fatal /\ pending # {} THEN "idle" ELSE "over"
      /\ msgs' = Recorded
      /\ UNCHANGED <<scenario, sched, wave, limited, leader, pc, lock, pending, fatal, spec,
                     approved, overtaken, decisions, planMode, cache, runs, resumes, toggles>>
  BY DEF RecordTurn, Halts
<1>2. \/ saved' = Recorded /\ faults' = faults
      \/ faults < scenario.maxFaults /\ faults' = faults + 1 /\ saved' = saved
  BY DEF RecordTurn
<1>3. /\ phase = "waves" /\ wave \in 1..N /\ \A c \in IDs : pc[c] = "done"
  BY <1>1, CopiedFacts
<1>4. /\ IDs' = IDs /\ N' = N /\ turn' = turn /\ Within' = Within /\ (Layered' <=> Layered)
      /\ WaveAt(wave)' = WaveAt(wave)
  BY <1>1, SameTurn, SameWaves
<1>5. scenario \in Scenarios /\ TypeOK /\ PhaseInv /\ scenario.maxFaults \in Nat
      /\ faults \in Nat /\ runs \in [IDs -> Nat] /\ sched \subseteq IDs
  <2>1. scenario \in Scenarios /\ TypeOK /\ PhaseInv BY DEF IInv
  <2>2. scenario.maxFaults \in Nat BY <2>1, TurnShape
  <2> QED BY <2>1, <2>2 DEF TypeOK
<1>6. Recorded \in [IDs -> Messages] BY <1>1, RecordedFacts
<1>7. TypeOK'
  <2>1. faults' \in 0..scenario.maxFaults BY <1>2, <1>5 DEF TypeOK
  <2>2. saved' \in [IDs -> Messages] BY <1>2, <1>5, <1>6 DEF TypeOK
  <2> QED BY <1>1, <1>4, <1>5, <1>6, <2>1, <2>2 DEF TypeOK
<1>8. PhaseInv' BY <1>1, <1>3, <1>4, <1>5 DEF PhaseInv
<1>9. NoCallForgotten'
  <2>1. ASSUME phase' = "over", NEW c \in IDs PROVE msgs'[c] # NoMsg
    <3>1. SUFFICES ASSUME Recorded[c] = NoMsg PROVE FALSE BY <1>1
    <3>2. ~fatal /\ pending = {} /\ LastWave(wave) /\ c \in sched
      BY <1>1, <2>1, <3>1, RecordedFacts
    <3>3. Layered /\ c \notin Within[wave] BY <1>1, <3>1, <3>2, RecordedFacts
    <3> QED BY <1>3, <1>5, <3>2, <3>3, AfterTheLastWave
  <2>2. ASSUME NEW c \in IDs, msgs'[c] = NoMsg
        PROVE  \/ c \in pending
               \/ c \in DOMAIN leader /\ leader[c] \in pending
               \/ Within[N] = sched /\ c \notin Within[wave]
    BY <1>1, <2>2, RecordedFacts DEF Layered
  <2> QED BY <1>1, <1>4, <2>1, <2>2 DEF NoCallForgotten
<1>10. ASSUME NEW c \in IDs PROVE PerCall(c)'
  <2>1. PerCall(c) BY DEF IInv, PerCall
  <2>2. Standing(c)' BY <1>1, <1>3 DEF Standing, Live, PastPlanMode, PastPolicy
  <2>3. Waiting(c)' BY <1>1 DEF Waiting
  <2>4. Deferred(c)'
    BY <1>1, <1>3, <1>4, <2>1, SameTurn DEF PerCall, Deferred
  <2>5. Shown(c)'
    <3>1. saved[c] # NoMsg => Recorded[c] = saved[c]
      BY <1>1, <1>3, <2>1, RecordedFacts DEF PerCall, Shown
    <3> QED BY <1>1, <1>2, <3>1 DEF Shown
  <2>6. Speculated(c)' BY <1>1, <1>4, <2>1, SameTurn DEF PerCall, Speculated, Owed
  <2>7. Runs(c)'
    <3>1. Allowance(c)' = Allowance(c) + (faults' - faults) /\ Allowance(c) \in Nat
          /\ faults' \in Nat /\ faults' >= faults
      BY <1>1, <1>2, <1>5, SameTurn DEF Allowance
    <3>2. Recorded[c] = NoMsg => Owed(c) <= Allowance(c)
      <4>1. SUFFICES ASSUME Recorded[c] = NoMsg PROVE Owed(c) <= Allowance(c) OBVIOUS
      <4>2. ~fatal /\ msgs[c] = NoMsg /\ c \in sched BY <1>1, <4>1, RecordedFacts
      <4>3. CASE spec[c] = "none"
        BY <1>3, <2>1, <4>2, <4>3 DEF PerCall, Runs, MayStart
      <4>4. CASE spec[c] # "none"
        <5>1. Owed(c) <= 1 /\ turn[c].refs = {} /\ ~RequiresConfirmation(c)
              /\ scenario.speculativeTools
          BY <2>1, <4>4 DEF PerCall, Speculated
        <5>2. c \notin DOMAIN leader BY <1>3, <2>1, <5>1 DEF PerCall, Waiting
        <5>3. c \in Within[wave] BY <1>3, <1>5, <4>2, <5>1, NoRefsFirstWave
        <5>4. c \in pending BY <1>1, <4>1, <5>2, <5>3, RecordedFacts
        <5>5. NeedsApproval(c) /\ scenario.deferApprovals
          BY <1>3, <2>1, <5>4 DEF PerCall, Deferred
        <5>6. SpeculatedThenDeferred(c) BY <5>1, <5>5 DEF SpeculatedThenDeferred, NeedsApproval
        <5> QED BY <1>5, <5>1, <5>6 DEF Allowance, Owed
      <4> QED BY <4>3, <4>4
    <3>3. MayStart(c)' <=> FALSE BY <1>1 DEF MayStart
    <3>4. Owed(c)' = Owed(c) /\ Owed(c) \in Nat BY <1>1, <1>5 DEF Owed
    <3> QED BY <1>1, <1>2, <1>5, <2>1, <3>1, <3>2, <3>3, <3>4 DEF PerCall, Runs
  <2> QED BY <2>2, <2>3, <2>4, <2>5, <2>6, <2>7 DEF PerCall
<1>11. ASSUME NEW a \in IDs, NEW b \in IDs PROVE Follows(a, b)'
  <2>1. Follows(a, b) /\ (Repeated(a, b)' <=> Repeated(a, b)) BY <1>1, SameTurn DEF IInv
  <2>2. Repeated(a, b) /\ saved'[b] = NoMsg => saved'[a] = NoMsg
    BY <1>1, <1>2, <2>1, RecordedFacts DEF Follows
  <2> QED BY <1>1, <2>1, <2>2 DEF Follows
<1> QED BY <1>1, <1>5, <1>7, <1>8, <1>9, <1>10, <1>11, Prove

-----------------------------------------------------------------------------
LEMMA StutteringKeeps == ASSUME IInv, UNCHANGED vars PROVE IInv'
<1>1. UNCHANGED <<scenario, sched, phase, wave, limited, leader, pc, lock, msgs, pending, fatal,
                  spec, approved, overtaken, decisions, planMode, cache, saved, runs, faults,
                  resumes, toggles>>
  BY DEF vars, volatile, bounds
<1>2. /\ IDs' = IDs /\ N' = N /\ turn' = turn /\ Within' = Within /\ (Layered' <=> Layered)
      /\ WaveAt(wave)' = WaveAt(wave) /\ ResultsByID' = ResultsByID
  BY <1>1, SameTurn, SameWaves DEF ResultsByID
<1>3. TypeOK' BY <1>1, <1>2 DEF IInv, TypeOK
<1>4. PhaseInv' BY <1>1, <1>2 DEF IInv, PhaseInv
<1>5. NoCallForgotten' BY <1>1, <1>2 DEF IInv, NoCallForgotten
<1>6. ASSUME NEW c \in IDs PROVE PerCall(c)'
  <2>1. PerCall(c) BY DEF IInv, PerCall
  <2>2. Standing(c)' BY <1>1, <1>2, <2>1, SameTurn DEF PerCall, Standing
  <2>3. Waiting(c)' BY <1>1, <1>2, <2>1, SameTurn DEF PerCall, Waiting
  <2>4. Deferred(c)' /\ Shown(c)' BY <1>1, <1>2, <2>1, SameTurn DEF PerCall, Deferred, Shown
  <2>5. Speculated(c)' /\ Runs(c)'
    BY <1>1, <1>2, <2>1, SameTurn DEF PerCall, Speculated, Runs, MayStart, Allowance, Owed
  <2> QED BY <2>2, <2>3, <2>4, <2>5 DEF PerCall
<1>7. ASSUME NEW c \in IDs, NEW d \in IDs PROVE Follows(c, d)'
  BY <1>1, SameTurn DEF IInv, Follows
<1> QED BY <1>1, <1>3, <1>4, <1>5, <1>6, <1>7, Prove DEF IInv

LEMMA NextKeeps == IInv /\ [Next]_vars => IInv'
<1> SUFFICES ASSUME IInv, [Next]_vars PROVE IInv' OBVIOUS
<1>1. CASE Progress
  BY <1>1, EndStreamKeeps, DispatchWaveKeeps, NextWaveKeeps, RecordTurnKeeps, GoroutineKeeps,
     SpeculationStartsKeeps, SpeculationEndsKeeps DEF Progress
<1>2. CASE \E c \in IDs : Speculate(c) BY <1>2, SpeculateKeeps
<1>3. CASE Crash \/ Resume \/ RunInstead BY <1>3, CrashKeeps, ResumeKeeps, RunInsteadKeeps
<1>4. CASE \E v \in BOOLEAN : SetPlanMode(v) BY <1>4, SetPlanModeKeeps
<1>5. CASE UNCHANGED vars BY <1>5, StutteringKeeps
<1> QED BY <1>1, <1>2, <1>3, <1>4, <1>5 DEF Next

(***************************************************************************)
(* The invariant every reachable state of a tool turn satisfies, whatever  *)
(* its calls, its limits and its crashes.                                  *)
(***************************************************************************)
THEOREM TurnInvariant == Spec => []IInv
BY InitHolds, NextKeeps, PTL DEF Spec

(* The slots of a wave.  A wave that needs no semaphore has no more calls   *)
(* than slots from the start.                                              *)
Alive == {c \in IDs : pc[c] \in Live}

SlotInv ==
    scenario.maxParallel > 0 =>
        /\ limited => Cardinality(InSlot) <= scenario.maxParallel
        /\ ~limited => Cardinality(Alive) <= scenario.maxParallel

LEMMA SlotTypes ==
    ASSUME IInv
    PROVE  /\ scenario.maxParallel \in Nat /\ pc \in [IDs -> Labels] /\ limited \in BOOLEAN
           /\ \A S \in SUBSET IDs : IsFiniteSet(S) /\ Cardinality(S) \in Nat
           /\ InSlot \subseteq Alive
<1>1. scenario \in Scenarios /\ pc \in [IDs -> Labels] /\ limited \in BOOLEAN BY DEF IInv, TypeOK
<1>2. IsFiniteSet(IDs) BY <1>1, TurnShape, FS_Interval
<1>3. \A S \in SUBSET IDs : IsFiniteSet(S) /\ Cardinality(S) \in Nat
  BY <1>2, FS_Subset, FS_CardinalityType
<1> QED BY <1>1, <1>3, TurnShape DEF InSlot, Alive, Live, Labels

\* Fewer calls never break the bound.
LEMMA SlotsShrink ==
    ASSUME IInv, SlotInv, scenario' = scenario, limited' = limited,
           InSlot' \subseteq InSlot, Alive' \subseteq Alive
    PROVE  SlotInv'
<1>1. InSlot \in SUBSET IDs /\ Alive \in SUBSET IDs BY DEF InSlot, Alive
<1>2. IsFiniteSet(InSlot) /\ IsFiniteSet(Alive) BY <1>1, SlotTypes
<1>3. Cardinality(InSlot') <= Cardinality(InSlot) /\ Cardinality(Alive') <= Cardinality(Alive)
  BY <1>2, FS_Subset
<1>4. /\ Cardinality(InSlot') \in Nat /\ Cardinality(Alive') \in Nat
      /\ Cardinality(InSlot) \in Nat /\ Cardinality(Alive) \in Nat
  BY <1>2, FS_Subset, FS_CardinalityType
<1> QED BY <1>3, <1>4, SlotTypes DEF SlotInv

LEMMA EffectSlots == ASSUME IInv, SlotInv, NEW c \in IDs, Effect(c) PROVE SlotInv'
<1>1. scenario' = scenario /\ limited' = limited /\ IDs' = IDs
  BY SameTurn DEF Effect, Frame
<1>2. \A d \in IDs : d # c => pc'[d] = pc[d] BY EffectFacts
<1>3. pc[c] \in Live /\ pc'[c] \in Live \cup {"done"} /\ (pc[c] = "queued" => HasSlot)
  BY DEF Effect
<1>4. Alive' \subseteq Alive BY <1>1, <1>2, <1>3 DEF Alive
<1>5. CASE pc[c] # "queued"
  <2>1. InSlot' \subseteq InSlot BY <1>1, <1>2, <1>3, <1>5 DEF InSlot, Live
  <2> QED BY <1>1, <1>4, <2>1, SlotsShrink
<1>6. CASE pc[c] = "queued"
  <2>1. InSlot' \subseteq InSlot \cup {c} BY <1>1, <1>2 DEF InSlot
  <2>2. InSlot \in SUBSET IDs /\ Alive \in SUBSET IDs /\ c \notin InSlot BY <1>6 DEF InSlot, Alive
  <2>3. IsFiniteSet(InSlot) /\ IsFiniteSet(Alive) BY <2>2, SlotTypes
  <2>4. IsFiniteSet(InSlot \cup {c}) /\ Cardinality(InSlot \cup {c}) = Cardinality(InSlot) + 1
    BY <2>2, <2>3, FS_AddElement
  <2>5. Cardinality(InSlot') <= Cardinality(InSlot \cup {c}) BY <2>1, <2>4, FS_Subset
  <2>6. Cardinality(Alive') <= Cardinality(Alive) BY <1>4, <2>3, FS_Subset
  <2>7. /\ Cardinality(InSlot') \in Nat /\ Cardinality(Alive') \in Nat
        /\ Cardinality(InSlot) \in Nat /\ Cardinality(Alive) \in Nat
    BY <1>4, <2>1, <2>3, <2>4, FS_Subset, FS_CardinalityType
  <2>8. limited => Cardinality(InSlot) < scenario.maxParallel BY <1>3, <1>6 DEF HasSlot
  <2>9. limited => Cardinality(InSlot') <= scenario.maxParallel
    BY <2>4, <2>5, <2>7, <2>8, SlotTypes
  <2> QED BY <1>1, <2>6, <2>7, <2>9, SlotTypes DEF SlotInv
<1> QED BY <1>5, <1>6

LEMMA DispatchSlots == ASSUME IInv, DispatchWave PROVE SlotInv'
<1> DEFINE spawned == Ready \ Duplicates(Ready)
<1>1. limited' <=> scenario.maxParallel > 0 /\ Cardinality(spawned) > scenario.maxParallel
  BY DEF DispatchWave, Ready
<1>2. scenario' = scenario /\ IDs' = IDs /\ spawned \subseteq IDs
      /\ \A d \in IDs : pc'[d] = IF d \in spawned THEN "queued" ELSE "done"
  BY DispatchFacts, SameTurn
<1> HIDE DEF spawned
<1>3. InSlot' = {} /\ Alive' = spawned BY <1>2 DEF InSlot, Alive, Live
<1>4. Cardinality(spawned) \in Nat /\ Cardinality({}) = 0 BY <1>2, SlotTypes, FS_EmptySet
<1> QED BY <1>1, <1>2, <1>3, <1>4, SlotTypes DEF SlotInv

LEMMA SlotsNext == IInv /\ SlotInv /\ [Next]_vars => SlotInv'
<1> SUFFICES ASSUME IInv, SlotInv, [Next]_vars PROVE SlotInv' OBVIOUS
<1>1. CASE \E c \in IDs : Goroutine(c) BY <1>1, GoroutineEffect, EffectSlots
<1>2. CASE DispatchWave BY <1>2, DispatchSlots
<1>3. CASE Resume
  <2>1. scenario' = scenario /\ IDs' = IDs /\ ~limited' /\ \A c \in IDs : pc'[c] = "idle"
    BY <1>3, SameTurn DEF Resume
  <2>2. InSlot' = {} /\ Alive' = {} BY <2>1 DEF InSlot, Alive, Live
  <2> QED BY <2>1, <2>2, SlotTypes, FS_EmptySet DEF SlotInv
<1>4. CASE NextWave \/ Crash
  <2>1. scenario' = scenario /\ IDs' = IDs /\ limited' = limited /\ \A c \in IDs : pc'[c] = "idle"
    BY <1>4, SameTurn DEF NextWave, Crash
  <2>2. InSlot' = {} /\ Alive' = {} BY <2>1 DEF InSlot, Alive, Live
  <2> QED BY <2>1, <2>2, SlotsShrink
<1>5. ASSUME pc' = pc, limited' = limited, scenario' = scenario PROVE SlotInv'
  BY <1>5, SameTurn, SlotsShrink DEF InSlot, Alive
<1>6. CASE \/ EndStream \/ RecordTurn \/ RunInstead \/ UNCHANGED vars
           \/ \E c \in IDs : Speculate(c) \/ SpeculationStarts(c) \/ SpeculationEnds(c)
           \/ \E v \in BOOLEAN : SetPlanMode(v)
  BY <1>5, <1>6 DEF EndStream, RecordTurn, RunInstead, Speculate, SpeculationStarts,
                    SpeculationEnds, SetPlanMode, vars, volatile
<1> QED BY <1>1, <1>2, <1>3, <1>4, <1>6 DEF Next, Progress

LEMMA SlotsAlways == Spec => []SlotInv
<1>1. Init => SlotInv
  <2> SUFFICES ASSUME Init PROVE SlotInv OBVIOUS
  <2>1. InSlot = {} /\ Alive = {} BY DEF Init, InSlot, Alive, Live
  <2>2. scenario.maxParallel \in Nat BY TurnShape DEF Init
  <2> QED BY <2>1, <2>2, FS_EmptySet DEF SlotInv
<1> QED BY <1>1, SlotsNext, TurnInvariant, PTL DEF Spec

LEMMA InvariantImpliesExclusive == IInv /\ SlotInv => CallsAreExclusive
<1> SUFFICES ASSUME IInv, SlotInv PROVE CallsAreExclusive OBVIOUS
<1>1. TypeOK BY DEF IInv
<1>2. OnePrompt BY DEF OnePrompt, IInv, Standing
<1>3. RunsOnce
  <2>1. ASSUME NEW c \in IDs
        PROVE  runs[c] <= 1 + faults + (IF SpeculatedThenDeferred(c) THEN 1 ELSE 0)
    <3>1. runs \in [IDs -> Nat] /\ faults \in Nat BY TurnShape DEF IInv, TypeOK
    <3>2. runs[c] <= Owed(c) /\ Owed(c) <= 1 + Allowance(c) BY <3>1 DEF IInv, Runs, Owed
    <3> QED BY <3>1, <3>2 DEF Allowance, Owed
  <2>2. ASSUME NEW c \in IDs, NEW d \in Repeats(c) \ {c}, RequiresConfirmation(c), runs[c] > 0
        PROVE  runs[d] = 0
    <3>1. d \in IDs /\ c \in Repeats(d) BY <2>2 DEF Repeats
    <3>2. c < d \/ d < c BY <3>1, TurnShape DEF IInv
    <3>3. Follows(c, d) /\ Follows(d, c) BY <3>1 DEF IInv
    <3> QED BY <2>2, <3>1, <3>2, <3>3 DEF Follows, Repeated
  <2> QED BY <2>1, <2>2 DEF RunsOnce
<1>4. SlotsBound
  <2>1. InSlot \subseteq Alive /\ Alive \in SUBSET IDs BY SlotTypes DEF Alive
  <2>2. IsFiniteSet(Alive) BY <2>1, SlotTypes
  <2>3. Cardinality(InSlot) <= Cardinality(Alive) BY <2>1, <2>2, FS_Subset
  <2>4. Cardinality(InSlot) \in Nat /\ Cardinality(Alive) \in Nat
    BY <2>1, <2>2, FS_Subset, FS_CardinalityType
  <2> QED BY <2>3, <2>4, SlotTypes DEF SlotInv, SlotsBound
<1> QED BY <1>1, <1>2, <1>3, <1>4 DEF CallsAreExclusive

(***************************************************************************)
(* The goroutines of a turn do not disturb one another: one prompt at a    *)
(* time, no more of them at work than there are slots, and each call, and  *)
(* each group of repeated gated calls, runs once, but for what a crash, a  *)
(* lost save or a deferred speculation costs (executeToolCall, runHITLGate, *)
(* toolCallSemaphore, splitGatedDuplicates, Resume).                       *)
(***************************************************************************)
THEOREM CallsStayExclusive == Spec => []CallsAreExclusive
BY TurnInvariant, SlotsAlways, InvariantImpliesExclusive, PTL

(***************************************************************************)
(* A turn that is over has an answer to each of its calls, and a suspended *)
(* one waits only for decisions, repetitions of them and later waves       *)
(* (executeToolWaves, recordToolTurn).                                     *)
(***************************************************************************)
THEOREM NoCallIsForgotten == Spec => []NoCallForgotten
<1>1. IInv => NoCallForgotten BY DEF IInv
<1> QED BY <1>1, TurnInvariant, PTL

-----------------------------------------------------------------------------
(* In plan mode only calls it overtook have its check behind them. *)
PlanInv == \A c \in IDs : PastPlanCheck(c) /\ planMode => c \in overtaken

LEMMA PlanNext == IInv /\ PlanInv /\ [Next]_vars => PlanInv'
<1> SUFFICES ASSUME IInv, PlanInv, [Next]_vars PROVE PlanInv' OBVIOUS
<1>1. spec \in [IDs -> {"none", "chosen", "running", "ok", "error"}] /\ planMode \in BOOLEAN
  BY DEF IInv, TypeOK
<1>2. SUFFICES ASSUME NEW c \in IDs, PastPlanCheck(c)', planMode' PROVE c \in overtaken'
  <2>1. IDs' = IDs
    BY SameTurn DEF Next, Progress, Goroutine, Frame, EndStream, DispatchWave, NextWave,
       RecordTurn, SpeculationStarts, SpeculationEnds, Speculate, SetPlanMode, Crash, Resume,
       RunInstead, Acquire, CheckFatal, PlanGate, PlanAnswer, GateRefuses, GatePasses,
       GateDecided, GateDefers, GateAsks, PromptExpires, HumanAnswers, CacheHit, Execute,
       ToolReturns, vars
  <2> QED BY <2>1 DEF PlanInv
<1>3. CASE \E e \in IDs : Goroutine(e)
  <2>1. PICK e \in IDs : Effect(e) BY <1>3, GoroutineEffect
  <2>2. spec' = spec /\ overtaken' = overtaken /\ (planMode' => planMode) BY <2>1 DEF Effect, Frame
  <2>3. PastPlanCheck(c) \/ ~planMode'
    BY <2>1, <2>2, <1>2, EffectFacts DEF Effect, Passes, PastPlanMode, PastPlanCheck
  <2> QED BY <1>2, <2>2, <2>3 DEF PlanInv
<1>4. CASE \E e \in IDs : Speculate(e)
  <2>1. PICK e \in IDs : Speculate(e) BY <1>4
  <2>2. ~planMode BY <2>1 DEF Speculate, ShouldSpeculate
  <2> QED BY <1>2, <2>1, <2>2 DEF Speculate
<1>5. CASE \E e \in IDs : SpeculationStarts(e) \/ SpeculationEnds(e)
  <2>1. PICK e \in IDs : SpeculationStarts(e) \/ SpeculationEnds(e) BY <1>5
  <2>2. spec'[c] = "chosen" => spec[c] = "chosen"
    BY <1>1, <2>1 DEF SpeculationStarts, SpeculationEnds
  <2>3. PastPlanCheck(c) /\ planMode /\ overtaken' = overtaken
    BY <1>2, <2>1, <2>2 DEF SpeculationStarts, SpeculationEnds, PastPlanCheck
  <2> QED BY <2>3 DEF PlanInv
<1>6. CASE \E v \in BOOLEAN : SetPlanMode(v)
  <2>1. PICK v \in BOOLEAN : SetPlanMode(v) BY <1>6
  <2>2. PastPlanCheck(c) BY <1>2, <2>1 DEF SetPlanMode, PastPlanCheck
  <2> QED BY <1>2, <2>1, <2>2 DEF SetPlanMode
<1>7. CASE DispatchWave
  <2>1. PastPlanCheck(c) /\ planMode /\ overtaken' = overtaken
    BY <1>2, <1>7, DispatchFacts DEF PastPlanCheck
  <2> QED BY <2>1 DEF PlanInv
<1>8. CASE EndStream \/ NextWave \/ RecordTurn \/ RunInstead \/ UNCHANGED vars
  <2>1. PastPlanCheck(c) /\ planMode /\ overtaken' = overtaken
    BY <1>2, <1>8 DEF EndStream, NextWave, RecordTurn, RunInstead, vars, volatile, PastPlanCheck
  <2> QED BY <2>1 DEF PlanInv
<1>9. CASE Crash \/ Resume
  <2>1. pc'[c] = "idle" /\ spec'[c] = "none" BY <1>9 DEF Crash, Resume
  <2> QED BY <1>2, <2>1 DEF PastPlanCheck
<1> QED BY <1>3, <1>4, <1>5, <1>6, <1>7, <1>8, <1>9 DEF Next, Progress

LEMMA PlanAlways == Spec => []PlanInv
<1>1. Init => PlanInv BY DEF Init, PlanInv, PastPlanCheck
<1> QED BY <1>1, PlanNext, TurnInvariant, PTL DEF Spec

(* A step that starts a tool is a speculation or a goroutine's execution.  *)
LEMMA StartsFromReady ==
    ASSUME IInv, [Next]_vars, NEW c \in IDs, Starts(c)
    PROVE  \/ spec[c] = "chosen" /\ Speculated(c)
           \/ spec[c] = "none" /\ pc[c] = "ready" /\ Standing(c)
<1>1. runs \in [IDs -> Nat] /\ Standing(c) /\ Speculated(c) BY DEF IInv, TypeOK
<1>2. ~(runs' = runs) BY <1>1 DEF Starts
<1>3. ~UNCHANGED vars /\ ~EndStream /\ ~DispatchWave /\ ~NextWave /\ ~RecordTurn /\ ~Crash
      /\ ~Resume /\ ~RunInstead /\ (\A e \in IDs : ~SpeculationEnds(e) /\ ~Speculate(e))
      /\ \A v \in BOOLEAN : ~SetPlanMode(v)
  BY <1>2 DEF vars, EndStream, DispatchWave, NextWave, RecordTurn, Crash, Resume, RunInstead,
             SpeculationEnds, Speculate, SetPlanMode
<1>4. CASE \E e \in IDs : SpeculationStarts(e)
  <2>1. PICK e \in IDs : SpeculationStarts(e) BY <1>4
  <2>2. e = c BY <1>1, <2>1 DEF SpeculationStarts, Starts
  <2> QED BY <1>1, <2>1, <2>2 DEF SpeculationStarts
<1>5. CASE \E e \in IDs : Goroutine(e)
  <2>1. PICK e \in IDs : Effect(e) BY <1>5, GoroutineEffect
  <2>2. e = c /\ pc[e] = "ready" /\ spec[e] = "none"
    BY <1>1, <1>2, <2>1 DEF Effect, Executes, Starts
  <2> QED BY <1>1, <2>2
<1> QED BY <1>3, <1>4, <1>5 DEF Next, Progress

LEMMA PermittedStep ==
    ASSUME IInv, PlanInv, [Next]_vars, NEW c \in IDs, Starts(c)
    PROVE  /\ NeedsApproval(c) /\ (RequiresConfirmation(c) \/ spec[c] # "chosen") => c \in approved
           /\ spec[c] # "chosen" => Policy(c) # "deny"
           /\ planMode => c \in overtaken
           /\ turn[c].refs \subseteq ResultsByID
<1>1. PastPlanCheck(c) => (planMode => c \in overtaken) BY DEF PlanInv
<1>2. CASE spec[c] = "chosen" /\ Speculated(c) BY <1>1, <1>2 DEF Speculated, PastPlanCheck
<1>3. CASE spec[c] = "none" /\ pc[c] = "ready" /\ Standing(c)
  BY <1>1, <1>3 DEF Standing, Live, PastPlanCheck, PastPolicy
<1> QED BY <1>2, <1>3, StartsFromReady

LEMMA DependentsWaitStep ==
    ASSUME IInv, [Next]_vars, Within[N] = sched, ~fatal,
           NEW c \in sched, msgs[c] = NoMsg, turn[c].refs \cap pending # {}
    PROVE  msgs'[c] = NoMsg
<1>1. PICK d \in IDs : d \in pending /\ d \in turn[c].refs BY DEF IInv, TypeOK
<1>2. c \in IDs /\ scenario \in Scenarios /\ Layered BY DEF IInv, TypeOK, Layered
<1>3. SUFFICES ASSUME ~(msgs' = msgs) PROVE msgs'[c] = NoMsg OBVIOUS
<1>4. ~UNCHANGED vars /\ ~EndStream /\ ~RunInstead
      /\ (\A e \in IDs : ~SpeculationEnds(e) /\ ~Speculate(e) /\ ~SpeculationStarts(e))
      /\ \A v \in BOOLEAN : ~SetPlanMode(v)
  BY <1>3 DEF vars, volatile, EndStream, RunInstead, SpeculationEnds, Speculate,
             SpeculationStarts, SetPlanMode
<1>5. ASSUME phase \in {"waves", "idle"} PROVE c \notin WaveAt(wave)
  <2>1. wave \in 1..N BY <1>5 DEF IInv, PhaseInv
  <2>2. d \in WaveAt(wave) BY <1>1, <1>5 DEF IInv, Deferred
  <2> QED BY <1>1, <1>2, <2>1, <2>2, RefsInEarlierWaves
<1>6. CASE DispatchWave BY <1>1, <1>6, BeforeDispatch
<1>7. CASE NextWave BY <1>1, <1>7 DEF NextWave, Halts
<1>8. CASE RecordTurn
  <2>1. WaveReturned /\ msgs' = Recorded BY <1>8 DEF RecordTurn
  <2>2. phase = "waves" BY <2>1 DEF WaveReturned
  <2>3. c \notin DOMAIN leader BY <1>2, <1>5, <2>2 DEF IInv, Waiting
  <2>4. CopiedToDuplicates[c] = NoMsg BY <1>2, <2>3 DEF CopiedToDuplicates
  <2> QED BY <1>2, <2>1, <2>4 DEF Recorded
<1>9. CASE Crash \/ Resume
  <2>1. msgs' = saved /\ phase # "over" BY <1>9 DEF Crash, Resume
  <2> QED BY <1>2, <2>1 DEF IInv, Shown
<1>10. CASE \E e \in IDs : Goroutine(e)
  <2>1. PICK e \in IDs : Effect(e) BY <1>10, GoroutineEffect
  <2>2. phase = "waves" BY <2>1, EffectFacts
  <2>3. e \in WaveAt(wave) BY <2>1 DEF IInv, Standing, Effect
  <2> QED BY <1>2, <1>5, <2>1, <2>2, <2>3, EffectFacts
<1> QED BY <1>4, <1>6, <1>7, <1>8, <1>9, <1>10 DEF Next, Progress

(***************************************************************************)
(* A tool starts only with permission, in plan mode only when the mode was *)
(* turned on behind it, and with its references resolved, and no call is   *)
(* answered before the decision it depends on (runPlanModeGate, runHITLGate, *)
(* shouldSpeculate, substituteRefs, executeToolWaves).                     *)
(***************************************************************************)
THEOREM CallsStayInTurn == Spec => CallsRunInTurn
<1>1. IInv /\ PlanInv /\ [Next]_vars =>
        [\A c \in IDs : Starts(c) =>
            /\ NeedsApproval(c) /\ (RequiresConfirmation(c) \/ spec[c] # "chosen")
                  => c \in approved
            /\ spec[c] # "chosen" => Policy(c) # "deny"
            /\ planMode => c \in overtaken]_vars
  BY PermittedStep
<1>2. IInv /\ PlanInv /\ [Next]_vars =>
        [\A c \in IDs : Starts(c) => turn[c].refs \subseteq ResultsByID]_vars
  BY PermittedStep
<1>3. IInv /\ [Next]_vars =>
        [Within[N] = sched /\ ~fatal =>
            \A c \in sched : msgs[c] = NoMsg /\ turn[c].refs \cap pending # {}
                              => msgs'[c] = NoMsg]_vars
  BY DependentsWaitStep
<1> QED BY <1>1, <1>2, <1>3, TurnInvariant, PlanAlways, PTL
     DEF Spec, CallsRunInTurn, PermittedBeforeRun, ReferencesResolved, DependentsWait

=============================================================================
