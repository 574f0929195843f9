SPECIFICATION RulesSpec
CONSTANTS
    Definitions <- MCDefinitions
    Companions <- MCCompanions
    Events <- MCEvents
    NoEvent = NoEvent
    Compiles <- CompilePattern
    Found <- FoundIn
    MaxRules = 3
INVARIANTS
    RulesTypeOK
    AcceptedPatternsAreSafe
    PlanIsAsWritten
CHECK_DEADLOCK FALSE
