-------------------------------- MODULE Turns --------------------------------
(***************************************************************************)
(* A turn from request to record, as AgentHandler.Chat and ChatHandler.    *)
(* Stream run it: the quota is checked, the tools are, the provider        *)
(* answers, and the finished turn is recorded and counted; with everything *)
(* the server does meanwhile: administration, midnight, its own shutdown.  *)
(*                                                                         *)
(* Every handler interleaves with the others step by step.  What an        *)
(* administrator may do and for how long the server is watched is bounded  *)
(* by a plan drawn at the start.                                           *)
(***************************************************************************)
EXTENDS Quota, ToolPolicy, Transcripts

CONSTANTS
    Plans,       \* see PlanType
    MaxTokens    \* bound of the tokens of one turn

PlanType == [
    turns    : Nat,                    \* turns asked for,
    tools    : SUBSET SUBSET Tools,    \* the tools they carry,
    ticks    : Nat,                    \* ticks of the clock,
    recorded : BOOLEAN,                \* whether recording is on at first,
    limits   : SUBSET Limits,          \* the default limits at first,
    steady   : BOOLEAN,                \* and whether they stay;
    changes  : [{"limits", "policy", "settings", "purge", "stop", "leave"} -> Nat]   \* events of each kind
]

ASSUME TurnsAssumption ==
    /\ IsFiniteSet(Handlers) /\ Plans \subseteq PlanType /\ MaxTokens \in Nat \ {0}
    /\ \A p \in Plans : p.steady => p.changes["limits"] = 0

VARIABLES
    plan,     \* what is left of the plan
    handler,  \* AgentHandler.Chat or ChatHandler.Stream of a request
    phase,    \* of run in cmd/api/main.go
    fate      \* history: what became of the turns whose answer was complete

turnVars == <<plan, handler, phase, fate>>
vars == <<quotaVars, policyVars, transcriptVars, turnVars>>

Idling == [step |-> "idle"]

Init ==
    \E p \in Plans, l \in UNION {q.limits : q \in Plans} :
        /\ l \in p.limits
        /\ plan = p
        /\ QuotaInit(l) /\ PolicyInit /\ TranscriptsInit(p.recorded)
        /\ handler = [h \in Handlers |-> Idling]
        /\ phase = "serving"
        /\ fate = <<>>

At(h, step) == handler[h].step = step
Goto(h, step) == handler' = [handler EXCEPT ![h].step = step]
Leave(h) == handler' = [handler EXCEPT ![h] = Idling]

Spend(kind) == plan.changes[kind] > 0 /\ plan' = [plan EXCEPT !.changes[kind] = @ - 1]

-----------------------------------------------------------------------------
(* A turn *)

Begin(h, m, tools) ==
    /\ At(h, "idle") /\ phase = "serving" /\ plan.turns > 0
    /\ plan' = [plan EXCEPT !.turns = @ - 1]
    /\ ReadMemberLimits(h, m)
    /\ handler' = [handler EXCEPT ![h] = [step |-> "check", who |-> m, tools |-> tools, here |-> TRUE]]
    /\ UNCHANGED <<policyVars, transcriptVars, phase, fate>>

\* The limits of the check.
FindLimits(h) ==
    /\ DefaultLimitsCached(h) \/ FetchDefaultLimits(h) \/ StoreDefaultLimits(h)
    /\ UNCHANGED <<policyVars, transcriptVars, turnVars>>

Admit(h) ==
    /\ Passes(h) /\ CheckEnds(h)
    /\ Goto(h, "gate")
    /\ UNCHANGED <<policyVars, transcriptVars, plan, phase, fate>>

\* Over a limit, or the database does not answer.
Refuse(h) ==
    /\ CheckEnds(h)
    /\ Leave(h)
    /\ UNCHANGED <<policyVars, transcriptVars, plan, phase, fate>>

EnterGate(h) ==
    /\ At(h, "gate") /\ LoadGlobal(h)
    /\ Goto(h, "tools")
    /\ UNCHANGED <<quotaVars, transcriptVars, plan, phase, fate>>

PassGate(h) ==
    /\ At(h, "tools")
    /\ IF ToolsAllowed(h, handler[h].who, handler[h].tools) THEN Goto(h, "provider") ELSE Leave(h)
    /\ UNCHANGED <<quotaVars, policyVars, transcriptVars, plan, phase, fate>>

\* The provider answers to the end and the client has been written all of it: from here on
\* the turn is to be accounted for.
Answered(h, tokens) ==
    /\ At(h, "provider")
    /\ handler' = [handler EXCEPT ![h] = [step |-> "record", who |-> @.who, here |-> @.here,
                                          turn |-> Len(fate) + 1, tokens |-> tokens]]
    /\ fate' = Append(fate, [record |-> "due", count |-> "due"])
    /\ UNCHANGED <<quotaVars, policyVars, transcriptVars, plan, phase>>

\* No provider, an error of it, or a client that left meanwhile: the turn ends unaccounted.
Broken(h) ==
    /\ At(h, "provider")
    /\ Leave(h)
    /\ UNCHANGED <<quotaVars, policyVars, transcriptVars, plan, phase, fate>>

\* The client may also leave after it has all of the answer: the request's context is then
\* cancelled.
ClientLeaves(h) ==
    /\ handler[h].step \in {"record", "count"} /\ handler[h].here
    /\ Spend("leave")
    /\ handler' = [handler EXCEPT ![h].here = FALSE]
    /\ UNCHANGED <<quotaVars, policyVars, transcriptVars, phase, fate>>

Book(h, field, what) == fate' = [fate EXCEPT ![handler[h].turn][field] = what]

\* recordAgent and recordChat.
RecordTurn(h) ==
    /\ At(h, "record")
    /\ \/ Skips /\ Book(h, "record", "off") /\ UNCHANGED transcriptVars
       \/ Drops /\ Book(h, "record", "dropped") /\ UNCHANGED transcriptVars
       \/ Enqueue([turn |-> handler[h].turn, day |-> Day(clock)]) /\ Book(h, "record", "queued")
    /\ Goto(h, "count")
    /\ UNCHANGED <<quotaVars, policyVars, plan, phase>>

\* Record panics on the closed channel; Handle and HandleAgent recover, and the rest of
\* the handler does not run.
RecordPanics(h) ==
    /\ At(h, "record") /\ Panics
    /\ Leave(h)
    /\ Book(h, "record", "panic")
    /\ UNCHANGED <<quotaVars, policyVars, transcriptVars, plan, phase>>

\* With a fault: under the request's own context, which a client that left has cancelled.
CountTurnIfHere(h) ==
    /\ At(h, "count")
    /\ IF handler[h].here
       THEN AddUsage(handler[h].who, handler[h].tokens) /\ Book(h, "count", "counted")
       ELSE UNCHANGED <<quotaVars, fate>>
    /\ Leave(h)
    /\ UNCHANGED <<policyVars, transcriptVars, plan, phase>>

\* quota.Add, under accountingCtx: whether the client is still there is of no account.
CountTurn(h) ==
    /\ At(h, "count")
    /\ AddUsage(handler[h].who, handler[h].tokens)
    /\ Book(h, "count", "counted")
    /\ Leave(h)
    /\ UNCHANGED <<policyVars, transcriptVars, plan, phase>>

CountFails(h) ==
    /\ At(h, "count")
    /\ Book(h, "count", "failed")
    /\ Leave(h)
    /\ UNCHANGED <<quotaVars, policyVars, transcriptVars, plan, phase>>

Turn(h) ==
    \/ \E m \in Members, tools \in plan.tools : Begin(h, m, tools)
    \/ FindLimits(h) \/ Admit(h) \/ Refuse(h)
    \/ EnterGate(h) \/ PassGate(h)
    \/ \E n \in 1 .. MaxTokens : Answered(h, n)
    \/ Broken(h) \/ ClientLeaves(h)
    \/ RecordTurn(h) \/ RecordPanics(h)
    \/ CountTurn(h) \/ CountFails(h)

-----------------------------------------------------------------------------
(* Meanwhile *)

ChangeLimits ==
    /\ \/ /\ Spend("limits")
          /\ \/ \E a \in Admins, l \in LimitChoices : WriteDefaultLimits(a, l)
             \/ \E l \in LimitChoices : WriteDefaultLimitsElsewhere(l)
             \/ \E m \in Members, l \in LimitChoices : SetMemberLimits(m, l)
             \/ \E m \in Members : ResetUsage(m)
       \/ plan' = plan /\ \E a \in Admins : ClearCopy(a)
    /\ UNCHANGED <<policyVars, transcriptVars, handler, phase, fate>>

ChangePolicy ==
    /\ \/ /\ Spend("policy")
          /\ \E a \in Admins, p \in PolicyChoices :
                UpdateSettings(a, p) \/ \E m \in Members : UpdateMemberPolicy(a, m, p)
       \/ plan' = plan /\ \E a \in Admins : ReadPolicy(a) \/ KeepPolicy(a) \/ KeepMembers(a) \/ ReloadFails(a)
    /\ UNCHANGED <<quotaVars, transcriptVars, handler, phase, fate>>

ChangeSettings ==
    /\ \/ Spend("settings") /\ \E a \in Admins, s \in SettingsChoices : SaveSettings(a, s)
       \/ /\ plan' = plan
          /\ \E a \in Admins :
                \/ ReadSettings(a) \/ ReadSettingsFails(a)
                \/ SwapStore(a) \/ SwapToFallback(a) \/ SwitchRecording(a)
    /\ UNCHANGED <<quotaVars, policyVars, handler, phase, fate>>

Purge ==
    /\ \/ Spend("purge") /\ phase = "serving" /\ PurgeReads
       \/ plan' = plan /\ (PurgeDeletes(Day(clock)) \/ PurgeFails)
    /\ UNCHANGED <<quotaVars, policyVars, handler, phase, fate>>

TimePasses ==
    /\ plan.ticks > 0 /\ plan' = [plan EXCEPT !.ticks = @ - 1]
    /\ Tick
    /\ UNCHANGED <<policyVars, transcriptVars, handler, phase, fate>>

Work ==
    /\ phase # "over"
    /\ WorkerTakes \/ WorkerSaves \/ WorkerFails \/ WorkerEnds
    /\ UNCHANGED <<quotaVars, policyVars, turnVars>>

\* SIGTERM: the server takes no new requests.
Signal ==
    /\ phase = "serving" /\ Spend("stop")
    /\ phase' = "stopping"
    /\ UNCHANGED <<quotaVars, policyVars, transcriptVars, handler, fate>>

\* Shutdown returns when no request is left, or after shutdownTimeout whatever is left, and
\* run's deferred calls close the recorder.
StopRecorder ==
    /\ phase = "stopping"
    /\ CloseRecorder
    /\ phase' = "closing"
    /\ UNCHANGED <<quotaVars, policyVars, plan, handler, fate>>

\* Close returns when the worker has left; then the process ends, with whatever still runs.
Exit ==
    /\ phase = "closing" /\ worker.step = "gone"
    /\ phase' = "over"
    /\ handler' = [h \in Handlers |-> Idling]
    /\ UNCHANGED <<quotaVars, policyVars, transcriptVars, plan, fate>>

Meanwhile ==
    \/ ChangeLimits \/ ChangePolicy \/ ChangeSettings \/ Purge \/ TimePasses
    \/ Signal \/ StopRecorder \/ Exit

Next ==
    \/ Work
    \/ phase # "over" /\ Meanwhile
    \/ phase # "over" /\ \E h \in Handlers : Turn(h)

Spec == Init /\ [][Next]_vars /\ WF_vars(Work)

-----------------------------------------------------------------------------

\* The three copies a process answers from are true: see the modules that keep them.
CopiesTrueUnlessCrossed ==
    DefaultsTrueUnlessCrossed /\ PolicyTrueUnlessCrossed /\ SettingsTrueUnlessCrossed

\* Checks before and counts after leave room for turns that start together, and for no
\* more: while nobody changes the limits, a counter passes its limit by at most what the
\* requests served at once can add (service.go:83).
OvershootBounded ==
    plan.steady =>
        \A m \in Members, w \in Windows :
            defaults[w] > 0 =>
                usage[m][PeriodKey(w, clock)] < defaults[w] + Cardinality(Handlers) * MaxTokens

\* A turn that was answered to the end is counted once its request is over, whether or not
\* the client stayed, unless the database failed or the process was closing
\* (accountingCtx, chat_handler.go:136; recorder.go:67).
AnsweredTurnsCounted ==
    \A t \in DOMAIN fate :
        \/ fate[t].count # "due"
        \/ \E h \in Handlers : handler[h].step \in {"record", "count"} /\ handler[h].turn = t
        \/ phase \in {"closing", "over"} /\ fate[t].record = "panic"
        \/ phase = "over"

\* A transcript that was queued is saved or its failure logged, also when the server stops:
\* Close lets the worker finish (recorder.go:76).
Queued(t) == \E k \in DOMAIN queue : queue[k].turn = t

QueueDrains == \A t \in 1 .. Max({p.turns : p \in Plans}) : Queued(t) ~> ~Queued(t)
=============================================================================
