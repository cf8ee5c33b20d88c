SPECIFICATION StreamSpec
CONSTANTS
    Adapters = {"claude", "openai", "responses", "gemini", "ollama"}
    Forms <- MCForms
    MaxText <- MCMaxText
    MaxParts <- MCMaxParts
    MaxCalls <- MCMaxCalls
    Counts <- MCCounts
INVARIANTS
    TruncationTold
CHECK_DEADLOCK FALSE
