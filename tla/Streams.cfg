SPECIFICATION StreamSpec
CONSTANTS
    Adapters = {"claude", "openai", "responses", "gemini", "ollama"}
    Forms <- MCForms
    MaxText <- MCMaxText
    MaxParts <- MCMaxParts
    MaxCalls <- MCMaxCalls
    Counts <- MCCounts
INVARIANTS
    AnswerWhole
    ResultsReachTheirCalls
PROPERTIES
    StreamContract
CHECK_DEADLOCK FALSE
