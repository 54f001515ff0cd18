SPECIFICATION RulesSpec
CONSTANTS
    RuleTools = {"t"}
    Globs <- StarGlobs
    Arguments <- Texts
    MaxRules = 1
INVARIANT StarStandsForAnySequence
CHECK_DEADLOCK FALSE
