----------------------------- MODULE ToolRegistry -----------------------------
(***************************************************************************)
(* The tool registry and the selector over it (tools/tool.go, selector.go):*)
(* tools are registered, instrumented and looked up while the selector     *)
(* embeds their descriptions and ranks them.  The registry and the         *)
(* selector have a lock each; the embedder is called under neither.        *)
(*                                                                         *)
(* A tool is the number of its registration and of the middlewares around  *)
(* it; its description is another one with every registration.             *)
(***************************************************************************)
EXTENDS Naturals, FiniteSets

CONSTANTS
    ToolNames,
    Pinned,        \* WithPinned
    TopK,          \* of the selector, 0 to select everything
    Selecting,     \* the callers of Select and Refresh
    MaxRegistered, \* bound on registrations and calls of Use together
    MaxRefreshes   \* bound on the calls of Refresh

ASSUME RegistryAssumption ==
    Pinned \subseteq ToolNames /\ {TopK, MaxRegistered, MaxRefreshes} \subseteq Nat

VARIABLES
    registry,   \* the tools, the debug views of them, debug, and what has been done
    index,      \* toolNames and toolEmbeds: the registration embedded for each name
    caller      \* each caller of the selector

regVars == <<registry, index, caller>>

NoTool == [reg |-> 0, layers |-> 0]
NoneGiven == [n \in ToolNames |-> NoTool]
NotSelecting == [at |-> "idle", index |-> [n \in ToolNames |-> 0],
                 chosen |-> {}, left |-> {}, picked |-> NoneGiven]

RegInit ==
    /\ registry = [tools |-> [n \in ToolNames |-> NoTool], views |-> [n \in ToolNames |-> NoTool],
                   debug |-> FALSE, regs |-> 0, uses |-> 0, refreshes |-> 0]
    /\ index = [n \in ToolNames |-> 0] /\ caller = [c \in Selecting |-> NotSelecting]

Registered == {n \in ToolNames : registry.tools[n] # NoTool}
Indexed(ix) == {n \in ToolNames : ix[n] # 0}

-----------------------------------------------------------------------------
(* Registry *)

Register(n) ==
    /\ registry.regs + registry.uses < MaxRegistered
    /\ LET t == [reg |-> registry.regs + 1, layers |-> 0]
       IN registry' = [registry EXCEPT !.regs = @ + 1, !.tools[n] = t,
                                       !.views[n] = IF registry.debug THEN t ELSE NoTool]
    /\ UNCHANGED <<index, caller>>

\* Mutant of Rewrapped: the views that exist are kept.
RewrappedMissing(tools, views) == [n \in ToolNames |-> IF views[n] # NoTool THEN views[n] ELSE tools[n]]
\* rebuildWrappedLocked: a view of each tool as it is now.
Rewrapped(tools, views) == tools

EnableDebug ==
    /\ registry' = [registry EXCEPT !.debug = TRUE, !.views = Rewrapped(registry.tools, @)]
    /\ UNCHANGED <<index, caller>>

\* Use wraps what is registered, and the views of it in debug mode.
Use ==
    /\ registry.regs + registry.uses < MaxRegistered
    /\ LET wrapped == [n \in ToolNames |-> IF n \in Registered
                                          THEN [registry.tools[n] EXCEPT !.layers = @ + 1] ELSE NoTool]
       IN registry' = [registry EXCEPT !.uses = @ + 1, !.tools = wrapped,
                         !.views = IF registry.debug THEN Rewrapped(wrapped, @) ELSE @]
    /\ UNCHANGED <<index, caller>>

\* The tool Get and All give out: the view when there is one in debug mode.
Get(n) == IF registry.debug /\ registry.views[n] # NoTool THEN registry.views[n] ELSE registry.tools[n]

\* Clone shares nothing with the original: the caller works on the copy from then
\* on.  Its views are made anew, those outside debug mode are not copied.
Clone ==
    /\ registry' = [registry EXCEPT !.views = IF registry.debug THEN Rewrapped(registry.tools, @)
                                              ELSE [n \in ToolNames |-> NoTool]]
    /\ UNCHANGED <<index, caller>>

-----------------------------------------------------------------------------
(* Selector *)

SelectBecomes(c, r) == caller' = [caller EXCEPT ![c] = r]

\* Refresh reads the registry, then embeds.
RefreshBegins(c) ==
    /\ caller[c].at = "idle" /\ registry.refreshes < MaxRefreshes
    /\ SelectBecomes(c, [NotSelecting EXCEPT !.at = "embeds", !.index = [n \in ToolNames |-> Get(n).reg]])
    /\ registry' = [registry EXCEPT !.refreshes = @ + 1]
    /\ UNCHANGED index

\* The vectors arrive, or the embedder fails and the index stays.
RefreshEnds(c) ==
    /\ caller[c].at = "embeds"
    /\ index' \in {index, caller[c].index}
    /\ SelectBecomes(c, NotSelecting) /\ UNCHANGED registry

\* Select reads the index: nothing was embedded yet, or there is nothing to rank
\* and All gives out the registry as it is, or the query is embedded.
SelectBegins(c) ==
    /\ caller[c].at = "idle"
    /\ LET ix == Indexed(index)
       IN \/ /\ ix = {}
             /\ SelectBecomes(c, [NotSelecting EXCEPT !.at = "selected"])
          \/ /\ ix # {}
             /\ \E blank \in BOOLEAN :
                  SelectBecomes(c, IF blank \/ TopK = 0 \/ TopK >= Cardinality(ix)
                    THEN [NotSelecting EXCEPT !.at = "selected", !.picked = [n \in ToolNames |-> Get(n)]]
                    ELSE [NotSelecting EXCEPT !.at = "ranks", !.index = index])
    /\ UNCHANGED <<registry, index>>

\* The TopK of the index that was read, and the pinned tools; the embedder may
\* fail.
RankTools(c) ==
    /\ caller[c].at = "ranks"
    /\ \/ \E top \in SUBSET Indexed(caller[c].index) :
             /\ Cardinality(top) = TopK
             /\ SelectBecomes(c, [caller[c] EXCEPT !.at = "gathers", !.chosen = top \union Pinned,
                                                   !.left = top \union Pinned])
       \/ SelectBecomes(c, NotSelecting)
    /\ UNCHANGED <<registry, index>>

\* Each tool is looked up under a lock of its own (in the order of the names,
\* which matters to nobody).  A pinned name that is not registered is left out.
GatherTool(c) ==
    /\ caller[c].at = "gathers"
    /\ \E n \in caller[c].left :
         SelectBecomes(c, [caller[c] EXCEPT !.picked[n] = Get(n), !.left = @ \ {n},
                             !.at = IF caller[c].left = {n} THEN "selected" ELSE "gathers"])
    /\ UNCHANGED <<registry, index>>

\* SelectRegistry gives the caller a registry of its own.
Taken(c) == caller[c].at = "selected" /\ SelectBecomes(c, NotSelecting) /\ UNCHANGED <<registry, index>>

RegNext ==
    \/ \E n \in ToolNames : Register(n)
    \/ EnableDebug \/ Use \/ Clone
    \/ \E c \in Selecting :
         \/ RefreshBegins(c) \/ RefreshEnds(c)
         \/ SelectBegins(c) \/ RankTools(c) \/ GatherTool(c) \/ Taken(c)

RegSpec == RegInit /\ [][RegNext]_regVars

-----------------------------------------------------------------------------
(* Properties *)

(* Whoever asks gets the tool that is registered: with debug logging on or *)
(* off, whatever was re-registered, wrapped or cloned since the views were *)
(* made, Get and All give out the latest registration with every           *)
(* middleware on it, and each tool of a selection was that one when it was *)
(* looked up (the lookups are apart, so one that came earlier may be       *)
(* replaced by the time the selection is returned).  Every tool that was   *)
(* ranked is in the selection, in the registration it was ranked by or a   *)
(* later one, however stale the index (wrapToolLocked, rebuildWrappedLocked,*)
(* Use, debugWrapped, Select, Refresh).                                    *)
LookupsAreCurrent ==
    [][/\ \A n \in ToolNames : Get(n)' = registry'.tools[n]
       /\ \A c \in Selecting, n \in ToolNames :
            /\ caller'[c].picked[n] # caller[c].picked[n]
                 => caller'[c].picked[n] \in {NoTool, registry.tools[n]}
            /\ caller'[c].at = "selected" /\ n \in caller'[c].chosen
                 => caller'[c].picked[n].reg >= caller'[c].index[n]]_regVars
=============================================================================
