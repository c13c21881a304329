SPECIFICATION FairSpec
CONSTANTS
    Name <- MCName
    Literal <- MCLiteral
    Integer <- MCInteger
    IntOf <- MCIntOf
    SizeOf <- MCSizeOf
    Dot <- MCDot
    ValueOf <- MCValueOf
    SizeRange = 16
    Wants <- MCWants
    Queries <- MCQueries
    Datasets <- MCDatasets
INVARIANTS
    StatementMeansText
    AnswerMeansText
    AnswerMeansCommand
PROPERTIES
    ParserEnds
CHECK_DEADLOCK FALSE
