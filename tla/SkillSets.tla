------------------------------ MODULE SkillSets ------------------------------
(***************************************************************************)
(* Skills (skills/load.go, set.go, builder/skills.go,                      *)
(* tools/builtin/skills.go): each source is walked and its SKILL.md files  *)
(* admitted or skipped, the sets are merged, first source first, and the   *)
(* result, immutable, is what the activation tools read from.              *)
(*                                                                         *)
(* Names are numbers in lexical order, the cost of a skill is that of its  *)
(* catalog entry.                                                          *)
(***************************************************************************)
EXTENDS Naturals, Sequences, FiniteSets

CONSTANTS
    NNames,        \* skill names
    TrustOf,       \* the trust of each configured source, a sequence
    MaxSkills,     \* config of every source
    MaxCatalog,
    SkillDocs      \* the valid SKILL.md files a source may hold

ASSUME SkillAssumption ==
    /\ {NNames, MaxSkills, MaxCatalog} \subseteq Nat /\ NNames # 0
    /\ SkillDocs \subseteq [kind : {"skill"}, cost : {1, 2}, files : BOOLEAN]
    /\ TrustOf \in Seq({"trusted", "untrusted"}) /\ TrustOf # <<>>

VARIABLES
    dirs,     \* what each source has under each name
    loading,  \* the source and the name the walk has come to
    sets,     \* the Set of each source, as far as it is made
    merged,   \* the merged Set
    served    \* what the last activation returned

skillVars == <<dirs, loading, sets, merged, served>>

SkillSources == 1..Len(TrustOf)
NoSkill(kind) == [kind |-> kind, cost |-> 0, files |-> FALSE]
Nothing == NoSkill("no directory")
(* The walk leaves a directory out when it is one of skipDirs, lies deeper  *)
(* than maxDepth or has no regular SKILL.md.                                *)
LeftOut == {Nothing, NoSkill("passed over")}
(* A directory may be unreadable.  A SKILL.md is a skill, or it is refused: *)
(* unreadable, oversize, its front matter invalid or its name not the       *)
(* directory's.                                                             *)
Found == LeftOut \union {NoSkill("unreadable"), NoSkill("refused")} \union SkillDocs

EmptySet == [skills |-> {}, skipped |-> {}]
Named(S) == {sk.name : sk \in S.skills}
\* What the catalog entries of skills come to, unit by unit.
Cost(skills) == Cardinality({u \in skills \X {1, 2} : u[2] <= u[1].cost})

SkillInit ==
    /\ dirs \in [SkillSources -> [1..NNames -> Found]]
    /\ loading = [source |-> 1, name |-> 1, phase |-> "walk"]
    /\ sets = [s \in SkillSources |-> EmptySet] /\ merged = EmptySet /\ served = {}

-----------------------------------------------------------------------------
(* loader *)

Skip(set, sk, why) == [set EXCEPT !.skipped = @ \union {[source |-> sk.source, name |-> sk.name, why |-> why]}]

\* Mutant of Fits: the entry alone against the budget.
FitsAlone(set, sk) == sk.cost <= MaxCatalog
Fits(set, sk) == Cost(set.skills) + sk.cost <= MaxCatalog

\* consider: the name, then the count, then the catalog.
consider(set, sk) ==
    IF sk.name \in Named(set) THEN Skip(set, sk, "duplicate name")
    ELSE IF Cardinality(set.skills) >= MaxSkills \/ ~Fits(set, sk) THEN Skip(set, sk, "budget exhausted")
    ELSE [set EXCEPT !.skills = @ \union {sk}]

\* admit: nothing is read for a full set; what is read may be refused.
admit(set, s, n, found) ==
    LET sk == [source |-> s, name |-> n, cost |-> found.cost, files |-> found.files, trust |-> TrustOf[s]]
    IN IF Cardinality(set.skills) >= MaxSkills THEN Skip(set, sk, "budget exhausted")
       ELSE IF found.kind # "skill" THEN Skip(set, sk, found.kind)
       ELSE consider(set, sk)

\* What the walk makes of a directory: nothing of it is recorded where it turns
\* away, and a directory it cannot read is skipped however full the set is.
visit(set, s, n, found) ==
    IF found \in LeftOut THEN set
    ELSE IF found.kind = "unreadable" THEN Skip(set, [source |-> s, name |-> n], "unreadable")
    ELSE admit(set, s, n, found)

\* walk: one directory of the source, in lexical order.
WalkDir ==
    /\ loading.phase = "walk"
    /\ LET s == loading.source  n == loading.name  found == dirs[s][n]
       IN /\ sets' = [sets EXCEPT ![s] = visit(@, s, n, found)]
          /\ loading' = IF n < NNames THEN [loading EXCEPT !.name = n + 1]
                        ELSE IF s < Len(TrustOf) THEN [loading EXCEPT !.source = s + 1, !.name = 1]
                        ELSE [source |-> 1, name |-> 1, phase |-> "merge"]
    /\ UNCHANGED <<dirs, merged, served>>

\* Merge: the sets in the order they are configured, the skills by name; what a
\* set had skipped is skipped in the merged one.
MergeNext ==
    /\ loading.phase = "merge"
    /\ LET s == loading.source  n == loading.name
           mine == {sk \in sets[s].skills : sk.name = n}
           with == IF mine = {} THEN merged ELSE consider(merged, CHOOSE sk \in mine : TRUE)
       IN /\ merged' = IF n < NNames THEN with
                       ELSE [with EXCEPT !.skipped = @ \union sets[s].skipped]
          /\ loading' = IF n < NNames THEN [loading EXCEPT !.name = n + 1]
                        ELSE IF s < Len(TrustOf) THEN [loading EXCEPT !.source = s + 1, !.name = 1]
                        ELSE [loading EXCEPT !.phase = "ready"]
    /\ UNCHANGED <<dirs, sets, served>>

-----------------------------------------------------------------------------
(* The activation tools *)

\* Which of them are registered.
SkillTools ==
    {t \in {"read_skill", "read_skill_untrusted", "read_skill_file"} :
        CASE t = "read_skill"           -> \E sk \in merged.skills : sk.trust = "trusted"
          [] t = "read_skill_untrusted" -> \E sk \in merged.skills : sk.trust = "untrusted"
          [] t = "read_skill_file"      -> \E sk \in merged.skills : sk.files}

\* A name the model made up, or of the other trust, is refused.
readSkill(t, n) ==
    {sk \in merged.skills : sk.name = n /\ (t = "read_skill") = (sk.trust = "trusted")}
readSkillFile(n) == {sk \in merged.skills : sk.name = n /\ sk.files}

Activate(t, n) ==
    /\ loading.phase = "ready" /\ t \in SkillTools
    /\ LET got == IF t = "read_skill_file" THEN readSkillFile(n) ELSE readSkill(t, n)
       IN served' = {[tool |-> t, skill |-> sk] : sk \in got}
    /\ UNCHANGED <<dirs, loading, sets, merged>>

SkillNext ==
    \/ WalkDir \/ MergeNext
    \/ \E t \in {"read_skill", "read_skill_untrusted", "read_skill_file"}, n \in 1..NNames : Activate(t, n)

SkillSpec == SkillInit /\ [][SkillNext]_skillVars

-----------------------------------------------------------------------------
(* Properties *)

Directories == SkillSources \X (1..NNames)
Candidates == {c \in Directories : dirs[c[1]][c[2]] \notin LeftOut}
Admitted(c) == {sk \in merged.skills : sk.source = c[1] /\ sk.name = c[2]}
Rejected(c) == {k \in merged.skipped : k.source = c[1] /\ k.name = c[2]}

(* Nothing disappears and nothing is over budget: when the sets are merged *)
(* every directory the walk did not turn away from, with a SKILL.md or     *)
(* unreadable, became a skill or was reported skipped, once and with one   *)
(* reason, and one it turned away from is neither; a name stands for one   *)
(* skill, of the first source whenever that had admitted it; the catalog   *)
(* and the count keep to the limits one source has, and the tool without a *)
(* confirmation serves trusted skills only (walk, admit, consider, Merge,  *)
(* readSkill).                                                             *)
SkillsAreAccounted ==
    loading.phase = "ready" =>
        /\ \A c \in Candidates : Cardinality(Admitted(c)) + Cardinality(Rejected(c)) = 1
        /\ \A c \in Directories \ Candidates : Admitted(c) = {} /\ Rejected(c) = {}
        /\ \A sk \in merged.skills, other \in merged.skills : sk.name = other.name => sk = other
        /\ \A sk \in sets[1].skills : sk \in merged.skills
        /\ \A got \in served : got.tool = "read_skill" => got.skill.trust = "trusted"
        /\ Cost(merged.skills) <= MaxCatalog /\ Cardinality(merged.skills) <= MaxSkills

=============================================================================
