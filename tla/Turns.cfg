SPECIFICATION Spec
CONSTANTS
    x = x
    y = y
    Members = {m}
    Handlers = {h1, h2}
    Admins = {a1, a2}
    Tools = {x, y}
    DayTicks = 1
    Monday = 1
    First = 5
    TTL = 1
    MaxClock = 2
    Buf = 1
    MaxTokens = 2
    LimitChoices <- MCLimitChoices
    PolicyChoices <- MCPolicyChoices
    SettingsChoices <- MCSettingsChoices
    Plans <- MCPlans
INVARIANTS
    CountersAgree
    CopiesTrueUnlessCrossed
    OvershootBounded
    AnsweredTurnsCounted
PROPERTIES
    QueueDrains
CHECK_DEADLOCK FALSE
