-------------------------- MODULE PermissionRules --------------------------
(***************************************************************************)
(* The permission rule set of pkg/agent/permissions.go: deny, allow and    *)
(* confirm lists of parsed patterns, and the two-pointer glob matcher that *)
(* decides whether a rule covers the arguments of a call.                  *)
(***************************************************************************)
EXTENDS Integers, Sequences, FiniteSets

CONSTANTS
    RuleTools,        \* tool names
    Globs,        \* globs a rule may carry: sequences over "*", "?" and characters
    Arguments,    \* argument texts of calls: sequences of characters
    MaxRules      \* bound: patterns registered over the rule set's life

ASSUME RulesAssumption ==
    (\A s \in Globs \cup Arguments : s \in Seq(STRING)) /\ MaxRules \in Nat

VARIABLES
    rules,        \* the three lists, each a set of parsed rules
    given,        \* bound counter: patterns offered to the Add methods
    decided       \* the last Check since the rules changed: call and decision

ruleVars == <<rules, given, decided>>

Lists == {"deny", "allow", "confirm"}
NoCall == [tool |-> "none", args |-> <<>>, decision |-> "none"]

RulesInit ==
    /\ rules = [l \in Lists |-> {}]
    /\ given = 0
    /\ decided = NoCall

-----------------------------------------------------------------------------
(* The matcher: pi and si walk the glob and the text (from 0, as in Go);   *)
(* star is the position of the last "*" met, -1 when none was, and mark    *)
(* the text position from which it was last tried.                         *)

CharAt(s, i) == s[i + 1]

StarsFrom(glob, pi) == \A i \in pi .. Len(glob) - 1 : CharAt(glob, i) = "*"

Literal(glob, text, pi, si) ==
    pi < Len(glob) /\ (CharAt(glob, pi) = CharAt(text, si) \/ CharAt(glob, pi) = "?")

\* A bug to plant: on a mismatch the walk goes on from the text position it
\* has reached, so characters matched since the star are never tried again.
MatchRoundNoBacktrack(glob, text, at) ==
    IF at.si = Len(text) THEN at
    ELSE IF Literal(glob, text, at.pi, at.si) THEN [at EXCEPT !.pi = @ + 1, !.si = @ + 1]
    ELSE IF at.pi < Len(glob) /\ CharAt(glob, at.pi) = "*"
         THEN [at EXCEPT !.pi = @ + 1, !.star = at.pi, !.mark = at.si]
    ELSE IF at.star >= 0 THEN [at EXCEPT !.pi = at.star + 1, !.si = @ + 1]
    ELSE at

\* One round of the loop; at the end of the text, or with no star to return to,
\* it stays where it is.
MatchRound(glob, text, at) ==
    IF at.si = Len(text) THEN at
    ELSE IF Literal(glob, text, at.pi, at.si) THEN [at EXCEPT !.pi = @ + 1, !.si = @ + 1]
    ELSE IF at.pi < Len(glob) /\ CharAt(glob, at.pi) = "*"
         THEN [at EXCEPT !.pi = @ + 1, !.star = at.pi, !.mark = at.si]
    ELSE IF at.star >= 0
         THEN [at EXCEPT !.pi = at.star + 1, !.si = at.mark + 1, !.mark = @ + 1]
    ELSE at

\* A bound on the rounds of one match.
MatchRounds(glob, text) == (Len(glob) + Len(text) + 1) * (Len(text) + 1)

globMatch(glob, text) ==
    LET walk[n \in 0 .. MatchRounds(glob, text)] ==
          IF n = 0 THEN [pi |-> 0, si |-> 0, star |-> -1, mark |-> 0]
          ELSE MatchRound(glob, text, walk[n - 1])
        last == walk[MatchRounds(glob, text)]
    IN  last.si = Len(text) /\ StarsFrom(glob, last.pi)

Covers(rule, tool, args) ==
    /\ rule.tool = tool
    /\ rule.glob = <<>> \/ globMatch(rule.glob, args)

Decision(tool, args) ==
    LET Hit(list) == \E r \in rules[list] : Covers(r, tool, args)
    IN  IF Hit("deny") THEN "deny"
        ELSE IF Hit("allow") THEN "allow"
        ELSE IF Hit("confirm") THEN "confirm"
        ELSE "prompt"

-----------------------------------------------------------------------------
(* A pattern as written: a bare tool name, "Tool(glob)", or a malformed    *)
(* one (no closing parenthesis, no name).                                  *)

Patterns ==
    [form : {"bare"}, tool : RuleTools, glob : {<<>>}]
      \cup [form : {"glob"}, tool : RuleTools, glob : Globs]
      \cup {[form |-> "malformed", tool |-> "none", glob |-> <<>>]}

parsePermissionRule(p) == [tool |-> p.tool, glob |-> p.glob]

Batches == {<<p>> : p \in Patterns}
             \cup {<<p, q>> : p \in Patterns, q \in {r \in Patterns : r.form # "glob"}}

\* One Add call parses the whole batch before it appends anything.
Add(list) ==
    \E batch \in Batches :
        /\ given + Len(batch) <= MaxRules
        /\ given' = given + Len(batch)
        /\ rules' = IF \E i \in DOMAIN batch : batch[i].form = "malformed"
                    THEN rules
                    ELSE [rules EXCEPT ![list] = @ \cup
                            {parsePermissionRule(batch[i]) : i \in DOMAIN batch}]
        /\ decided' = NoCall

Check ==
    \E t \in RuleTools, a \in Arguments :
        /\ decided' = [tool |-> t, args |-> a, decision |-> Decision(t, a)]
        /\ UNCHANGED <<rules, given>>

RulesNext == Check \/ \E l \in Lists : Add(l)

RulesSpec == RulesInit /\ [][RulesNext]_ruleVars

-----------------------------------------------------------------------------
(* What a glob means, independently of how it is walked: the text is cut   *)
(* into a piece for each of its characters, any run of characters for "*", *)
(* one for "?", and the character itself for any other.                    *)

Means(glob, text) ==
    \E cut \in [0 .. Len(glob) -> 0 .. Len(text)] :
        /\ cut[0] = 0 /\ cut[Len(glob)] = Len(text)
        /\ \A g \in 0 .. Len(glob) - 1 : CharAt(glob, g) # "*" =>
              cut[g + 1] = cut[g] + 1 /\ CharAt(glob, g) \in {"?", CharAt(text, cut[g])}
        /\ \A g, h \in 0 .. Len(glob) : g <= h => cut[g] <= cut[h]

\* The decision of a Check is the one its rules' meaning gives: deny before
\* allow before confirm, a rule covering a call when some way of expanding
\* its stars produces the arguments (Check and globMatch, whose greedy walk
\* keeps a single star to return to).
DecisionsFollowMeaning ==
    decided # NoCall =>
        LET Hit(list) == \E r \in rules[list] :
                /\ r.tool = decided.tool
                /\ r.glob = <<>> \/ Means(r.glob, decided.args)
        IN  decided.decision =
                IF Hit("deny") THEN "deny"
                ELSE IF Hit("allow") THEN "allow"
                ELSE IF Hit("confirm") THEN "confirm"
                ELSE "prompt"
=============================================================================
