-------------------------------- MODULE Quota --------------------------------
(***************************************************************************)
(* The token quota of one server process (application/quota/service.go,    *)
(* adapter/out/db/quota_repository.go, domain/quota/model.go): the limits  *)
(* and counters in the database, the copy of the default limits that the   *)
(* process keeps for defaultLimitsTTL, the check before a turn and the     *)
(* changes administrators make, here or on another instance.               *)
(***************************************************************************)
EXTENDS Server, Naturals, FiniteSets, FiniteSetsExt, TLC

CONSTANTS
    LimitChoices,  \* the limits an administrator may set
    DayTicks,      \* ticks of the clock in a day
    Monday,        \* the day on which a new week starts,
    First,         \* and the one on which a new month does
    TTL,           \* defaultLimitsTTL, in ticks
    MaxClock       \* bound of the clock

Windows == {"day", "week", "month"}
Limits == [Windows -> Nat]                    \* 0: no limit

ASSUME QuotaAssumption ==
    /\ LimitChoices \subseteq Limits
    /\ {DayTicks, TTL} \subseteq Nat \ {0}
    /\ {Monday, First, MaxClock} \subseteq Nat

Since(day, start) == IF day < start THEN 0 ELSE 1
Day(t) == t \div DayTicks

\* The counter that window w uses at time t: its day, ISO week or month.
PeriodKey(w, t) ==
    <<w, CASE w = "day"   -> Day(t)
           [] w = "week"  -> Since(Day(t), Monday)
           [] w = "month" -> Since(Day(t), First)>>

PeriodKeys(t) == {PeriodKey(w, t) : w \in Windows}
Periods == UNION {PeriodKeys(t) : t \in 0 .. MaxClock}

Unlimited == [w \in Windows |-> 0]
NoCopy == [limits |-> Unlimited, expires |-> 0]

VARIABLES
    clock,
    defaults,    \* quota_config
    limits,      \* member_token_limits; no row reads as Unlimited
    usage,       \* token_usage; no row reads as 0
    copy,        \* defCache; NoCopy once emptied
    checks,      \* a handler's Check
    clearing,    \* administrators whose SetDefaultLimits has written but not yet emptied copy
    stale        \* history: why copy may differ from defaults

database == <<defaults, limits, usage>>
quotaVars == <<clock, database, copy, checks, clearing, stale>>

NoCheck == [step |-> "none"]

QuotaInit(l) ==
    /\ clock = 0
    /\ defaults = l
    /\ limits = [m \in Members |-> Unlimited]
    /\ usage = [m \in Members |-> [p \in Periods |-> 0]]
    /\ copy = NoCopy
    /\ checks = [h \in Handlers |-> NoCheck]
    /\ clearing = {}
    /\ stale = {}

Tick == clock < MaxClock /\ clock' = clock + 1
        /\ UNCHANGED <<database, copy, checks, clearing, stale>>

-----------------------------------------------------------------------------
(* Check *)

CopyValid == clock < copy.expires

\* A member's own limit, where it has one, otherwise the default.
Effective(own, def) == [w \in Windows |-> IF own[w] > 0 THEN own[w] ELSE def[w]]

\* With a fault: a limit that is just reached still lets a turn in.
Passed(used, lim, t) == \E w \in Windows : lim[w] > 0 /\ used[PeriodKey(w, t)] > lim[w]

Exceeded(used, lim, t) == \E w \in Windows : lim[w] > 0 /\ used[PeriodKey(w, t)] >= lim[w]

SetCheck(h, c) == checks' = [checks EXCEPT ![h] = c]

\* effectiveLimits: the member's limits come first, ...
ReadMemberLimits(h, m) ==
    /\ checks[h].step = "none"
    /\ SetCheck(h, [step |-> "default", who |-> m, own |-> limits[m]])
    /\ UNCHANGED <<clock, database, copy, clearing, stale>>

Judge(h, def) ==
    SetCheck(h, [step |-> "usage", who |-> checks[h].who, lim |-> Effective(checks[h].own, def),
                 now |-> clock])

\* ... then the defaults, from the copy while it is valid
DefaultLimitsCached(h) ==
    /\ checks[h].step = "default" /\ CopyValid
    /\ Judge(h, copy.limits)
    /\ UNCHANGED <<clock, database, copy, clearing, stale>>

\* or from the database,
FetchDefaultLimits(h) ==
    /\ checks[h].step = "default" /\ ~CopyValid
    /\ SetCheck(h, [step |-> "fetched", who |-> checks[h].who, own |-> checks[h].own,
                    got |-> defaults, late |-> FALSE])
    /\ UNCHANGED <<clock, database, copy, clearing, stale>>

\* whose answer is then kept.
StoreDefaultLimits(h) ==
    /\ checks[h].step = "fetched"
    /\ copy' = [limits |-> checks[h].got, expires |-> clock + TTL]
    /\ stale' = IF checks[h].late THEN {"crossed"} ELSE {}
    /\ Judge(h, checks[h].got)
    /\ UNCHANGED <<clock, database, clearing>>

\* The answer of Check: the counters of the limited windows, read in one query.
Passes(h) ==
    /\ checks[h].step = "usage"
    /\ ~Exceeded(usage[checks[h].who], checks[h].lim, checks[h].now)

CheckEnds(h) ==
    /\ checks[h].step # "none"
    /\ SetCheck(h, NoCheck)
    /\ UNCHANGED <<clock, database, copy, clearing, stale>>

-----------------------------------------------------------------------------
(* Add *)

\* AddUsage: one upsert of the rows of all three windows.
AddUsage(m, tokens) ==
    /\ usage' = [usage EXCEPT ![m] =
                    [p \in Periods |-> @[p] + IF p \in PeriodKeys(clock) THEN tokens ELSE 0]]
    /\ UNCHANGED <<clock, defaults, limits, copy, checks, clearing, stale>>

-----------------------------------------------------------------------------
(* Administration *)

\* Fetches that answered before this change will store what it replaced.
Outdate == [h \in Handlers |->
               IF checks[h].step = "fetched" THEN [checks[h] EXCEPT !.late = TRUE] ELSE checks[h]]

\* SetDefaultLimits: the row, then ClearCopy.
WriteDefaultLimits(a, l) ==
    /\ a \notin clearing
    /\ defaults' = l
    /\ checks' = Outdate
    /\ clearing' = clearing \cup {a}
    /\ UNCHANGED <<clock, limits, usage, copy, stale>>

ClearCopy(a) ==
    /\ a \in clearing
    /\ copy' = NoCopy
    /\ clearing' = clearing \ {a}
    /\ stale' = {}
    /\ UNCHANGED <<clock, database, checks>>

\* SetDefaultLimits on another instance, whose copy is not this one.
WriteDefaultLimitsElsewhere(l) ==
    /\ defaults' = l
    /\ checks' = Outdate
    /\ stale' = stale \cup {"elsewhere"}
    /\ UNCHANGED <<clock, limits, usage, copy, clearing>>

SetMemberLimits(m, l) ==
    /\ limits' = [limits EXCEPT ![m] = l]
    /\ UNCHANGED <<clock, defaults, usage, copy, checks, clearing, stale>>

\* With a fault: only the rows of the current periods.
ResetUsageToday(m) ==
    /\ usage' = [usage EXCEPT ![m] = [p \in Periods |-> IF p \in PeriodKeys(clock) THEN 0 ELSE @[p]]]
    /\ UNCHANGED <<clock, defaults, limits, copy, checks, clearing, stale>>

\* ResetUsage: the member's rows of every period, past ones included.
ResetUsage(m) ==
    /\ usage' = [usage EXCEPT ![m] = [p \in Periods |-> 0]]
    /\ UNCHANGED <<clock, defaults, limits, copy, checks, clearing, stale>>

-----------------------------------------------------------------------------

Sum(used, days) == MapThenSumSet(LAMBDA d : used[<<"day", d>>], days)
DaysOf(start, k) == {d \in {Day(t) : t \in 0 .. MaxClock} : Since(d, start) = k}

\* A member's weekly and monthly counters are the sums of the daily ones, whatever turns
\* end around midnight and whenever an administrator resets the member (AddUsage,
\* ResetUsage: service.go:94, quota_repository.go:30).
CountersAgree ==
    \A m \in Members :
        /\ \A p \in Periods : p[1] = "week" => usage[m][p] = Sum(usage[m], DaysOf(Monday, p[2]))
        /\ \A p \in Periods : p[1] = "month" => usage[m][p] = Sum(usage[m], DaysOf(First, p[2]))

\* The copy of the default limits is the stored ones, unless the change that made them
\* differ is about to empty it, came from another instance, or overtook a fetch
\* (service.go:51, 238).
DefaultsTrueUnlessCrossed ==
    CopyValid /\ copy.limits # defaults => clearing # {} \/ stale # {}
=============================================================================
