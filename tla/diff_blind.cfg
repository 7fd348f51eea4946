SPECIFICATION FlowSpec
CONSTANTS
    Config <- MCConfig
    Alphabet <- MCAlphabet
    Programs <- MCPrograms
    Spans0 <- MCSpans0
    Expects <- MCExpects
    SelfTests = 2
INVARIANT ChangeIsTold
CHECK_DEADLOCK FALSE
