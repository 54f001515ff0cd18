----------------------------- MODULE SqlStatement -----------------------------
(***************************************************************************)
(* One call of execute_sql (tools/builtin/sql_agent.go, sql_validate.go):  *)
(* the statement is classified, checked, given a LIMIT and sent to the     *)
(* database, or rejected before any I/O.                                   *)
(*                                                                         *)
(* A statement is a sequence of tokens.  A quoted run and a comment are    *)
(* one token each: the scanners step over the first and remove the second. *)
(* Parentheses, semicolons and comments are tokens with these names.       *)
(***************************************************************************)
EXTENDS Naturals, Sequences, FiniteSets, SequencesExt

CONSTANTS
    Words,           \* the tokens that occur
    MaxTokens,       \* bound on a statement's length
    AllowMutations, AllowDDL, AllowSelectStar,
    MaxRows          \* 0 for no limit

ASSUME StatementAssumption ==
    MaxTokens \in Nat /\ MaxRows \in Nat
        /\ {AllowMutations, AllowDDL, AllowSelectStar} \subseteq BOOLEAN

VARIABLES
    query,    \* sql_query
    sent      \* what the database was given, and what became of the call

stmtVars == <<query, sent>>

Unsent == [how |-> "none", sql |-> <<>>]
StmtInit == query \in BoundedSeq(Words, MaxTokens) /\ sent = Unsent

-----------------------------------------------------------------------------
(* sql_validate.go *)

readOnlyHeads == {"SELECT", "WITH", "SHOW"}
mutationHeads == {"UPDATE"}
ddlHeads == {"CREATE"}

\* What is kept of the first n tokens.
Kept(s) ==
    LET kept[n \in 0 .. Len(s)] ==
            IF n = 0 THEN <<>>
            ELSE IF s[n] = "comment" THEN kept[n - 1] ELSE Append(kept[n - 1], s[n])
    IN kept
StripSQLComments(s) == Kept(s)[Len(s)]

\* Parentheses open before a token; one that closes nothing is ignored.
DepthAt(s) ==
    LET d[i \in 1 .. Len(s) + 1] ==
            IF i = 1 THEN 0
            ELSE IF s[i - 1] = "open" THEN d[i - 1] + 1
            ELSE IF s[i - 1] = "close" /\ d[i - 1] > 0 THEN d[i - 1] - 1
            ELSE d[i - 1]
    IN d
\* The positions of t outside parentheses.
Outer(s, t) == {i \in 1 .. Len(s) : s[i] = t /\ DepthAt(s)[i] = 0}
FirstOf(S) == CHOOSE i \in S : \A j \in S : i <= j

\* SplitStatements, without the empty ones: each lies between two cuts.
Cuts(s) == {0, Len(s) + 1} \union {i \in 1 .. Len(s) : s[i] = "semicolon"}
Statements(s) ==
    {p \in Cuts(s) \X Cuts(s) :
        p[1] + 1 < p[2] /\ ~\E c \in Cuts(s) : p[1] < c /\ c < p[2]}

firstKeyword(s) ==
    LET words == {i \in 1 .. Len(s) : s[i] # "open"}
    IN IF words = {} THEN "none" ELSE s[FirstOf(words)]

ClassifySQL(s) ==
    LET bare == StripSQLComments(s)
        stmts == Statements(bare)
        head == firstKeyword(SubSeq(bare, (CHOOSE p \in stmts : TRUE)[1] + 1, Len(bare)))
    IN IF Cardinality(stmts) # 1 THEN "unknown"
       ELSE IF head \in readOnlyHeads THEN "read"
       ELSE IF head \in mutationHeads THEN "mutation"
       ELSE IF head \in ddlHeads THEN "ddl"
       ELSE "unknown"

\* The projections of the outer SELECT begin after it, after DISTINCT and after
\* each comma, and end at FROM.
HasBareStarProjection(q) ==
    LET s == StripSQLComments(q)
        from == FirstOf(Outer(s, "SELECT"))
        first == IF from < Len(s) /\ s[from + 1] = "DISTINCT" THEN from + 2 ELSE from + 1
        froms == {i \in Outer(s, "FROM") : i >= first}
        end == IF froms = {} THEN Len(s) + 1 ELSE FirstOf(froms)
    IN /\ firstKeyword(s) \in {"SELECT", "WITH"} /\ Outer(s, "SELECT") # {}
       /\ \E p \in {first} \union {i + 1 : i \in {j \in Outer(s, ",") : j >= first}} :
              p < end /\ s[p] \in {"*", "a.*"}

hasTopLevelLimit(s) == Outer(s, "LIMIT") # {}

TrimmedLen(s) ==
    CHOOSE n \in 0 .. Len(s) :
        (n > 0 => s[n] # "semicolon") /\ \A i \in n + 1 .. Len(s) : s[i] = "semicolon"
TrimSemicolons(s) == SubSeq(s, 1, TrimmedLen(s))

\* Mutant of Limited: the semicolon stays where it is.
LimitedBehind(s) == s \o <<"LIMIT">>
Limited(s) == TrimSemicolons(s) \o <<"LIMIT">>

EnsureLimit(s) ==
    IF MaxRows = 0 \/ firstKeyword(StripSQLComments(TrimSemicolons(s))) \notin {"SELECT", "WITH"}
           \/ hasTopLevelLimit(StripSQLComments(TrimSemicolons(s)))
    THEN s ELSE Limited(s)

-----------------------------------------------------------------------------
(* executeSQLTool.Execute *)

\* An error reaches the model and OnSQL, not the database.
Rejects(kind) ==
    \/ kind = "unknown" \/ (kind = "mutation" /\ ~AllowMutations) \/ (kind = "ddl" /\ ~AllowDDL)
    \/ kind = "read" /\ ~AllowSelectStar /\ HasBareStarProjection(query)

Execute ==
    /\ sent = Unsent
    /\ LET kind == ClassifySQL(query)
       IN sent' = IF Rejects(kind) THEN [how |-> "rejected", sql |-> <<>>]
                  ELSE IF kind = "read" THEN [how |-> "query", sql |-> EnsureLimit(query)]
                  ELSE [how |-> "exec", sql |-> query]
    /\ UNCHANGED query

StmtNext == Execute
StmtSpec == StmtInit /\ [][StmtNext]_stmtVars

-----------------------------------------------------------------------------
(* Properties *)

Balanced(s) == DepthAt(s)[Len(s) + 1] = 0
\* A comment after a semicolon hides that semicolon from EnsureLimit.
SemicolonHidden(s) ==
    \E i, j \in 1 .. Len(s) : i < j /\ s[i] = "semicolon" /\ s[j] = "comment"
Reads(s) == firstKeyword(StripSQLComments(s)) \in {"SELECT", "WITH"}

(* The rows a query may return are bounded: what the database is sent for  *)
(* a SELECT or WITH is still one statement, and that statement has its own *)
(* LIMIT, once the parentheses match (EnsureLimit, ClassifySQL).  Excluded *)
(* is a comment after the semicolon.                                       *)
ReadsAreLimited ==
    sent.how = "query" /\ MaxRows > 0 /\ Reads(query) /\ Balanced(query) /\ ~SemicolonHidden(query)
        => ClassifySQL(sent.sql) = "read" /\ hasTopLevelLimit(StripSQLComments(sent.sql))

=============================================================================
