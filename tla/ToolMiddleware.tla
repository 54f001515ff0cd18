---------------------------- MODULE ToolMiddleware ----------------------------
(***************************************************************************)
(* A tool behind WithSchemaValidation, WithRateLimit and WithTimeout       *)
(* (tools/middleware.go, errors.go), called by several goroutines.  Time   *)
(* passes in ticks; the clock read and the assignment of lastCall are each *)
(* under the limiter's mutex, the wait between them is not.                *)
(***************************************************************************)
EXTENDS Integers, FiniteSets

CONSTANTS
    MwCalls,     \* the calls
    Interval,    \* 1/rps, in ticks
    OwnBudget,   \* WithTimeout, in ticks
    MaxTime      \* bound on the clock

ASSUME MiddlewareAssumption == {Interval, OwnBudget, MaxTime} \subseteq Nat

VARIABLES
    clock,      \* the time
    lastCall,   \* of the rate limiter
    mw          \* each call: where it is and what it was given

mwVars == <<clock, lastCall, mw>>

Never == -Interval      \* the zero Time: long ago
NotOver == MaxTime + 1

MwInit ==
    /\ clock = 0 /\ lastCall = Never
    /\ mw = [c \in MwCalls |-> [at |-> "new", outer |-> NotOver, wake |-> 0, read |-> Never,
                                after |-> {}, started |-> Never, cause |-> "none", err |-> "none"]]

Goes(c, r) == mw' = [mw EXCEPT ![c] = r]
Ran(c) == mw[c].started # Never

\* The caller's context is done: its deadline passed, or it was cancelled.
OuterDone(c) == mw[c].outer <= clock

-----------------------------------------------------------------------------
\* The arguments do not fit the schema: malformed, not an object, a required
\* property missing, or one not of its declared primitive type.
WithSchemaValidation(c) ==
    /\ mw[c].at = "new"
    /\ \E outer \in clock..NotOver, bad \in {"invalid", "none"} :
          Goes(c, [mw[c] EXCEPT !.outer = outer, !.err = bad,
                                !.at = IF bad = "none" THEN "limit" ELSE "over"])
    /\ UNCHANGED <<clock, lastCall>>

\* The first critical section: how long to wait.  "after" notes for the property
\* which calls had started by then.
ReadLimit(c) ==
    /\ mw[c].at = "limit"
    /\ Goes(c, [mw[c] EXCEPT !.at = "waits", !.wake = lastCall + Interval, !.read = lastCall,
                         !.after = {d \in MwCalls : Ran(d)}])
    /\ UNCHANGED <<clock, lastCall>>

\* Mutant of Stamped: what was computed before the wait.
StampedEarly(c) == mw[c].read + Interval
Stamped(c) == clock

\* The second critical section, after the wait: lastCall is now, and the tool runs
\* under a context of its own, done at once when the caller's is.
Proceeds(c) ==
    /\ mw[c].at = "waits" /\ clock >= mw[c].wake
    /\ lastCall' = Stamped(c)
    /\ Goes(c, [mw[c] EXCEPT !.at = "runs", !.started = clock,
                             !.cause = IF OuterDone(c) THEN "outer" ELSE "none"])
    /\ UNCHANGED clock

WaitCancelled(c) ==
    /\ mw[c].at = "waits" /\ clock < mw[c].wake /\ OuterDone(c)
    /\ Goes(c, [mw[c] EXCEPT !.at = "over", !.err = "cancelled"])
    /\ UNCHANGED <<clock, lastCall>>

-----------------------------------------------------------------------------
\* Mutant of TimedOut: the context is done, whatever the cause.
CtxErr(c) == mw[c].cause # "none"
TimedOut(c) == mw[c].cause = "own"

\* A tool returns by itself or because its context is done, with an error or without.
ToolReturns(c) ==
    /\ mw[c].at = "runs"
    /\ \E failed \in BOOLEAN :
          Goes(c, [mw[c] EXCEPT !.at = "over",
                                !.err = IF ~failed THEN "none"
                                        ELSE IF TimedOut(c) THEN "timeout" ELSE "tool's"])
    /\ UNCHANGED <<clock, lastCall>>

\* The first of the two contexts to be done leaves its cause; a deadline that is
\* not before the caller's is not armed (context.WithTimeoutCause).
Tick ==
    /\ clock < MaxTime /\ clock' = clock + 1
    /\ mw' = [c \in MwCalls |->
                IF mw[c].at # "runs" \/ mw[c].cause # "none" THEN mw[c]
                ELSE IF mw[c].outer <= clock' THEN [mw[c] EXCEPT !.cause = "outer"]
                ELSE IF mw[c].started + OwnBudget <= clock' THEN [mw[c] EXCEPT !.cause = "own"]
                ELSE mw[c]]
    /\ UNCHANGED lastCall

MwNext ==
    \/ \E c \in MwCalls :
          WithSchemaValidation(c) \/ ReadLimit(c) \/ Proceeds(c) \/ WaitCancelled(c) \/ ToolReturns(c)
    \/ Tick

MwSpec == MwInit /\ [][MwNext]_mwVars

-----------------------------------------------------------------------------
(* Properties *)

(* Calls one after the other are throttled: a call that came to the        *)
(* limiter after another had started runs at least Interval after it.      *)
(* Calls that wait together are not spaced (WithRateLimit).                *)
LaterCallsAreSpaced ==
    \A c \in MwCalls : Ran(c) =>
        \A d \in mw[c].after : mw[c].started >= mw[d].started + Interval

(* A timeout is reported only for the whole budget: a call reported as     *)
(* timed out had all of it, and its caller's context was not done before   *)
(* (WithTimeout, TimedOut, DeadlineCause).                                 *)
TimeoutsAreOwn ==
    \A c \in MwCalls :
        mw[c].err = "timeout" =>
            clock >= mw[c].started + OwnBudget /\ mw[c].outer > mw[c].started + OwnBudget

(* What the middleware around a tool may change about a call               *)
(* (WithRateLimit, WithTimeout).                                           *)
MiddlewareIsFair == LaterCallsAreSpaced /\ TimeoutsAreOwn
=============================================================================
