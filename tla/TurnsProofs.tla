----------------------------- MODULE TurnsProofs -----------------------------
(***************************************************************************)
(* What Turns guarantees for any number of members, requests and           *)
(* administrators and any sizes: answered turns are counted, the copies a  *)
(* process answers from are true, and a limit is passed by a bounded       *)
(* number of tokens.                                                       *)
(***************************************************************************)
EXTENDS Turns, FiniteSetTheorems, Induction, TLAPS

-----------------------------------------------------------------------------
(* Requests and the fate of their turns *)

Asking == [step : {"check", "gate", "tools", "provider"}, who : Members, tools : SUBSET Tools, here : BOOLEAN]
Accounting == [step : {"record", "count"}, who : Members, here : BOOLEAN, turn : Nat, tokens : 1 .. MaxTokens]
Fates == [record : {"due", "off", "dropped", "queued", "panic"}, count : {"due", "counted", "failed"}]

TurnTypes ==
    /\ plan \in PlanType
    /\ handler \in [Handlers -> {Idling} \cup Asking \cup Accounting]
    /\ fate \in Seq(Fates)
    /\ phase \in {"serving", "stopping", "closing", "over"}

\* A request that is to account for a turn does so for one that was answered, and the
\* channel of the recorder is closed only while the process closes.
FateInv ==
    /\ TurnTypes
    /\ \A h \in Handlers : handler[h].step \in {"record", "count"} => handler[h].turn \in DOMAIN fate
    /\ closed => phase \in {"closing", "over"}
    /\ AnsweredTurnsCounted

\* A quota check under way is that of a request that has only begun.
Matching ==
    \A h \in Handlers : checks[h].step # "none" =>
        \/ phase = "over"
        \/ handler[h].step = "check" /\ handler[h].who = checks[h].who

LEMMA Requesting ==
  ASSUME TurnTypes, NEW h \in Handlers
  PROVE  /\ handler[h].step \in {"check", "gate", "tools", "provider"} <=> handler[h] \in Asking
         /\ handler[h].step \in {"record", "count"} <=> handler[h] \in Accounting
         /\ handler[h].step = "idle" <=> handler[h] = Idling
<1>1. handler[h] = Idling => handler[h].step = "idle"
  BY DEF Idling
<1>2. handler[h] \in Asking => handler[h].step \in {"check", "gate", "tools", "provider"}
  BY DEF Asking
<1>3. handler[h] \in Accounting => handler[h].step \in {"record", "count"}
  BY DEF Accounting
<1> QED
  BY <1>1, <1>2, <1>3 DEF TurnTypes

LEMMA Spending ==
  ASSUME TurnTypes, NEW kind \in {"limits", "policy", "settings", "purge", "stop", "leave"}, Spend(kind)
  PROVE  /\ plan' \in PlanType /\ plan'.steady = plan.steady
         /\ plan.steady = TRUE /\ plan.changes["limits"] = 0 => plan'.changes["limits"] = 0
<1>1. plan \in PlanType
  BY DEF TurnTypes
<1> QED
  BY <1>1 DEF Spend, PlanType

\* A step that changes one request and accounts for no turn.
LEMMA RequestKeeps ==
  ASSUME FateInv, NEW h \in Handlers, NEW r,
         handler' = [handler EXCEPT ![h] = r],
         handler[h].step \notin {"record", "count"},
         r \in {Idling} \cup Asking,
         plan' \in PlanType, UNCHANGED <<phase, fate, closed>>
  PROVE  FateInv'
<1>1. \A k \in Handlers : handler'[k] = IF k = h THEN r ELSE handler[k]
  BY DEF FateInv, TurnTypes
<1>2. r.step \notin {"record", "count"}
  BY DEF Asking, Idling
<1>3. TurnTypes'
  BY DEF FateInv, TurnTypes
<1>4. AnsweredTurnsCounted'
  BY <1>1 DEF FateInv, AnsweredTurnsCounted
<1> QED
  BY <1>1, <1>2, <1>3, <1>4 DEF FateInv

\* A step that books what became of the turn of a request.
LEMMA BookingKeeps ==
  ASSUME FateInv, NEW h \in Handlers, handler[h].step \in {"record", "count"},
         NEW r, r \in {Idling} \cup Accounting,
         NEW field \in {"record", "count"}, NEW w, Book(h, field, w),
         field = "record" => w \in {"off", "dropped", "queued", "panic"},
         field = "count" => w \in {"counted", "failed"},
         handler' = [handler EXCEPT ![h] = r],
         r # Idling => r \in Accounting /\ r.turn = handler[h].turn,
         \/ r # Idling
         \/ field = "count"
         \/ w = "panic" /\ closed,
         UNCHANGED <<plan, phase, closed>>
  PROVE  FateInv'
<1> DEFINE t == handler[h].turn
<1>1. t \in DOMAIN fate
  BY DEF FateInv
<1>2. /\ fate' \in Seq(Fates) /\ DOMAIN fate' = DOMAIN fate
      /\ \A u \in DOMAIN fate : u # t => fate'[u] = fate[u]
      /\ fate'[t] = [fate[t] EXCEPT ![field] = w]
  <2>1. fate \in Seq(Fates) /\ fate[t] \in Fates
    BY <1>1 DEF FateInv, TurnTypes
  <2>2. fate' = [fate EXCEPT ![t][field] = w]
    BY DEF Book
  <2>3. [fate[t] EXCEPT ![field] = w] \in Fates
    BY <2>1 DEF Fates
  <2> QED
    BY <1>1, <2>1, <2>2, <2>3
<1>3. \A k \in Handlers : handler'[k] = IF k = h THEN r ELSE handler[k]
  BY DEF FateInv, TurnTypes
<1>4. TurnTypes'
  BY <1>2 DEF FateInv, TurnTypes
<1>5. r \in Accounting => r.step \in {"record", "count"}
  BY DEF Accounting
<1>6. fate[t] \in Fates
  BY <1>1 DEF FateInv, TurnTypes
<1>7. AnsweredTurnsCounted'
  <2> SUFFICES ASSUME NEW u \in DOMAIN fate
               PROVE  \/ fate'[u].count # "due"
                      \/ \E k \in Handlers : handler'[k].step \in {"record", "count"} /\ handler'[k].turn = u
                      \/ phase \in {"closing", "over"} /\ fate'[u].record = "panic"
                      \/ phase = "over"
    BY <1>2 DEF AnsweredTurnsCounted
  <2>1. CASE u # t
    <3>1. fate'[u] = fate[u]
      BY <1>2, <2>1
    <3>2. \A k \in Handlers : handler[k].turn = u => handler'[k] = handler[k]
      BY <1>3, <2>1
    <3> QED
      BY <3>1, <3>2 DEF FateInv, AnsweredTurnsCounted
  <2>2. CASE u = t /\ r # Idling
    BY <1>3, <1>5, <2>2
  <2>3. CASE u = t /\ field = "count"
    <3>1. fate'[u].count = w
      BY <1>2, <1>6, <2>3 DEF Fates
    <3> QED
      BY <2>3, <3>1
  <2>4. CASE u = t /\ w = "panic" /\ closed
    <3>1. field = "record"
      BY <2>4
    <3>2. fate'[u].record = "panic"
      BY <1>2, <1>6, <2>4, <3>1 DEF Fates
    <3> QED
      BY <2>4, <3>2 DEF FateInv
  <2> QED
    BY <2>1, <2>2, <2>3, <2>4
<1>8. \A k \in Handlers : handler'[k].step \in {"record", "count"} => handler'[k].turn \in DOMAIN fate'
  <2> SUFFICES ASSUME NEW k \in Handlers, handler'[k].step \in {"record", "count"}
               PROVE  handler'[k].turn \in DOMAIN fate
    BY <1>2
  <2>1. CASE k # h
    BY <1>3, <2>1 DEF FateInv
  <2>2. CASE k = h
    BY <1>1, <1>3, <2>2 DEF Idling
  <2> QED
    BY <2>1, <2>2
<1> QED
  BY <1>4, <1>7, <1>8 DEF FateInv

\* What changes no request but to end it when the process does.
LEMMA QuietKeeps ==
  ASSUME FateInv, plan' \in PlanType, UNCHANGED <<handler, fate>>,
         \/ UNCHANGED <<phase, closed>>
         \/ phase = "serving" /\ phase' = "stopping" /\ UNCHANGED closed
         \/ phase = "stopping" /\ phase' = "closing"
  PROVE  FateInv'
<1>1. TurnTypes'
  BY DEF FateInv, TurnTypes
<1>2. AnsweredTurnsCounted'
  BY DEF FateInv, AnsweredTurnsCounted
<1> QED
  BY <1>1, <1>2 DEF FateInv

LEMMA TurnStep ==
  ASSUME FateInv, Matching, phase # "over", NEW h \in Handlers, Turn(h)
  PROVE  FateInv'
<1>0. TurnTypes /\ plan \in PlanType
  BY DEF FateInv, TurnTypes
<1>1. ASSUME NEW m \in Members, NEW tools \in plan.tools, Begin(h, m, tools)
      PROVE  FateInv'
  <2> DEFINE r == [step |-> "check", who |-> m, tools |-> tools, here |-> TRUE]
  <2>1. r \in Asking
    BY <1>0 DEF Asking, PlanType
  <2>2. plan' \in PlanType
    BY <1>0, <1>1 DEF Begin, PlanType
  <2>3. /\ handler' = [handler EXCEPT ![h] = r] /\ handler[h].step = "idle"
        /\ UNCHANGED <<phase, fate, closed>>
    BY <1>1 DEF Begin, At, transcriptVars, recorder
  <2> HIDE DEF r
  <2> QED
    BY <2>1, <2>2, <2>3, RequestKeeps
<1>2. ASSUME FindLimits(h)
      PROVE  FateInv'
  BY <1>0, <1>2, QuietKeeps DEF FindLimits, transcriptVars, recorder, turnVars
<1>3. ASSUME NEW s \in {"gate", "tools", "provider"}, Goto(h, s), handler[h] \in Asking,
             UNCHANGED <<plan, phase, fate, closed>>
      PROVE  FateInv'
  <2>1. [handler[h] EXCEPT !.step = s] \in Asking
    BY <1>3 DEF Asking
  <2>2. handler[h].step \notin {"record", "count"}
    BY <1>3 DEF Asking
  <2>3. handler' = [handler EXCEPT ![h] = [handler[h] EXCEPT !.step = s]]
    BY <1>3 DEF Goto
  <2> QED
    BY <1>0, <1>3, <2>1, <2>2, <2>3, RequestKeeps
<1>4. ASSUME Leave(h), handler[h].step \notin {"record", "count"},
             UNCHANGED <<plan, phase, fate, closed>>
      PROVE  FateInv'
  BY <1>0, <1>4, RequestKeeps DEF Leave
<1>5. CASE Admit(h)
  <2>1. handler[h].step = "check"
    BY <1>5 DEF Admit, Passes, Matching
  <2> QED
    BY <1>0, <1>3, <1>5, <2>1, Requesting DEF Admit, transcriptVars, recorder
<1>6. CASE Refuse(h)
  <2>1. handler[h].step = "check"
    BY <1>6 DEF Refuse, CheckEnds, Matching
  <2> QED
    BY <1>4, <1>6, <2>1 DEF Refuse, transcriptVars, recorder
<1>7. CASE EnterGate(h)
  BY <1>0, <1>3, <1>7, Requesting DEF EnterGate, At, transcriptVars, recorder
<1>8. CASE PassGate(h)
  BY <1>0, <1>3, <1>4, <1>8, Requesting DEF PassGate, At, transcriptVars, recorder
<1>9. ASSUME NEW n \in 1 .. MaxTokens, Answered(h, n)
      PROVE  FateInv'
  <2> DEFINE r == [step |-> "record", who |-> handler[h].who, here |-> handler[h].here,
                   turn |-> Len(fate) + 1, tokens |-> n]
             f == [record |-> "due", count |-> "due"]
  <2>1. /\ handler' = [handler EXCEPT ![h] = r] /\ fate' = Append(fate, f)
        /\ handler[h].step = "provider" /\ UNCHANGED <<plan, phase, closed>>
    BY <1>9 DEF Answered, At, transcriptVars, recorder
  <2>2. handler[h] \in Asking
    BY <1>0, <2>1, Requesting
  <2>3. fate \in Seq(Fates) /\ f \in Fates
    BY <1>0 DEF TurnTypes, Fates
  <2>4. r \in Accounting /\ r.step = "record" /\ r.turn = Len(fate) + 1
    BY <2>2, <2>3 DEF Asking, Accounting
  <2>5. \A k \in Handlers : handler'[k] = IF k = h THEN r ELSE handler[k]
    BY <1>0, <2>1 DEF TurnTypes
  <2>6. /\ fate' \in Seq(Fates) /\ DOMAIN fate' = DOMAIN fate \cup {Len(fate) + 1}
        /\ \A u \in DOMAIN fate : fate'[u] = fate[u]
    BY <2>1, <2>3
  <2> HIDE DEF r, f
  <2>7. TurnTypes'
    BY <1>0, <2>1, <2>4, <2>6 DEF TurnTypes
  <2>8. AnsweredTurnsCounted'
    BY <2>1, <2>4, <2>5, <2>6 DEF FateInv, AnsweredTurnsCounted
  <2> QED
    BY <2>1, <2>4, <2>5, <2>6, <2>7, <2>8 DEF FateInv
<1>10. CASE Broken(h)
  BY <1>4, <1>10 DEF Broken, At, transcriptVars, recorder
<1>11. CASE ClientLeaves(h)
  <2> DEFINE r == [handler[h] EXCEPT !.here = FALSE]
  <2>1. handler[h] \in Accounting
    BY <1>0, <1>11, Requesting DEF ClientLeaves
  <2>2. r \in Accounting /\ r.turn = handler[h].turn /\ r.step = handler[h].step
    BY <2>1 DEF Accounting
  <2>3. plan' \in PlanType
    BY <1>0, <1>11, Spending DEF ClientLeaves
  <2>4. handler' = [handler EXCEPT ![h] = r] /\ UNCHANGED <<phase, fate, closed>>
    BY <1>11 DEF ClientLeaves, transcriptVars, recorder
  <2>5. \A k \in Handlers : handler'[k].step = handler[k].step /\
                            (handler[k].step \in {"record", "count"} => handler'[k].turn = handler[k].turn)
    BY <1>0, <2>2, <2>4 DEF TurnTypes
  <2>6. TurnTypes'
    BY <1>0, <2>2, <2>3, <2>4 DEF TurnTypes
  <2>7. AnsweredTurnsCounted'
    BY <2>4, <2>5 DEF FateInv, AnsweredTurnsCounted
  <2> QED
    BY <2>4, <2>5, <2>6, <2>7 DEF FateInv
<1>12. CASE RecordTurn(h)
  <2> DEFINE r == [handler[h] EXCEPT !.step = "count"]
  <2>1. handler[h] \in Accounting /\ handler[h].step = "record"
    BY <1>0, <1>12, Requesting DEF RecordTurn, At
  <2>2. r \in Accounting /\ r.turn = handler[h].turn /\ r # Idling
    BY <2>1 DEF Accounting, Idling
  <2>3. /\ handler' = [handler EXCEPT ![h] = r] /\ UNCHANGED <<plan, phase, closed>>
        /\ \E w \in {"off", "dropped", "queued", "panic"} : Book(h, "record", w)
    BY <1>12 DEF RecordTurn, Goto, Enqueue, transcriptVars, recorder
  <2> HIDE DEF r
  <2> QED
    BY <2>1, <2>2, <2>3, BookingKeeps
<1>13. CASE RecordPanics(h)
  <2>1. /\ handler' = [handler EXCEPT ![h] = Idling] /\ UNCHANGED <<plan, phase, closed>>
        /\ Book(h, "record", "panic") /\ closed /\ handler[h].step = "record"
    BY <1>13 DEF RecordPanics, At, Leave, Panics, transcriptVars, recorder
  <2> QED
    BY <2>1, BookingKeeps
<1>14. ASSUME NEW w \in {"counted", "failed"}, At(h, "count"), Book(h, "count", w), Leave(h),
              UNCHANGED <<plan, phase, closed>>
       PROVE  FateInv'
  BY <1>14, BookingKeeps DEF At, Leave
<1>15. CASE CountTurn(h)
  BY <1>14, <1>15 DEF CountTurn, transcriptVars, recorder
<1>16. CASE CountFails(h)
  BY <1>14, <1>16 DEF CountFails, transcriptVars, recorder
<1> QED
  BY <1>1, <1>2, <1>5, <1>6, <1>7, <1>8, <1>9, <1>10, <1>11, <1>12, <1>13, <1>15, <1>16 DEF Turn

LEMMA MeanwhileStep ==
  ASSUME FateInv, Meanwhile
  PROVE  FateInv'
<1>0. TurnTypes /\ plan \in PlanType
  BY DEF FateInv, TurnTypes
<1>1. CASE ChangeLimits
  BY <1>0, <1>1, Spending, QuietKeeps DEF ChangeLimits, transcriptVars, recorder
<1>2. CASE ChangePolicy
  BY <1>0, <1>2, Spending, QuietKeeps DEF ChangePolicy, transcriptVars, recorder
<1>3. CASE ChangeSettings
  <2>1. UNCHANGED <<handler, phase, fate, recorder>> /\ plan' \in PlanType
    BY <1>0, <1>3, Spending DEF ChangeSettings, SaveSettings, ReadSettings, ReadSettingsFails, SwapStore,
                                SwapToFallback, SwitchRecording
  <2> QED
    BY <2>1, QuietKeeps DEF recorder
<1>4. CASE Purge
  <2>1. UNCHANGED <<handler, phase, fate, recorder>> /\ plan' \in PlanType
    BY <1>0, <1>4, Spending DEF Purge, PurgeReads, PurgeDeletes, PurgeFails
  <2> QED
    BY <2>1, QuietKeeps DEF recorder
<1>5. CASE TimePasses
  <2>1. plan' \in PlanType
    BY <1>0, <1>5 DEF TimePasses, PlanType
  <2> QED
    BY <1>5, <2>1, QuietKeeps DEF TimePasses, transcriptVars, recorder
<1>6. CASE Signal
  <2>1. plan' \in PlanType
    BY <1>0, <1>6, Spending DEF Signal
  <2> QED
    BY <1>6, <2>1, QuietKeeps DEF Signal, transcriptVars, recorder
<1>7. CASE StopRecorder
  BY <1>0, <1>7, QuietKeeps DEF StopRecorder
<1>8. CASE Exit
  <2>1. /\ handler' = [h \in Handlers |-> Idling] /\ phase' = "over"
        /\ UNCHANGED <<plan, fate, closed>>
    BY <1>8 DEF Exit, transcriptVars, recorder
  <2>2. TurnTypes'
    BY <1>0, <2>1 DEF TurnTypes
  <2>3. Idling.step = "idle"
    BY DEF Idling
  <2> QED
    BY <2>1, <2>2, <2>3 DEF FateInv, AnsweredTurnsCounted
<1> QED
  BY <1>1, <1>2, <1>3, <1>4, <1>5, <1>6, <1>7, <1>8 DEF Meanwhile

LEMMA WorkStep ==
  ASSUME FateInv, Work
  PROVE  FateInv'
<1>1. UNCHANGED <<plan, handler, phase, fate, closed>>
  BY DEF Work, WorkerTakes, WorkerSaves, WorkerFails, WorkerEnds, turnVars
<1>2. plan' \in PlanType
  BY <1>1 DEF FateInv, TurnTypes
<1> QED
  BY <1>1, <1>2, QuietKeeps

-----------------------------------------------------------------------------
(* The quota *)

Checks ==
    {NoCheck} \cup [step : {"default"}, who : Members, own : Limits]
              \cup [step : {"fetched"}, who : Members, own : Limits, got : Limits, late : BOOLEAN]
              \cup [step : {"usage"}, who : Members, lim : Limits, now : 0 .. MaxClock]

QuotaTypes ==
    /\ clock \in 0 .. MaxClock
    /\ defaults \in Limits
    /\ limits \in [Members -> Limits]
    /\ usage \in [Members -> [Periods -> Nat]]
    /\ copy \in [limits : Limits, expires : Nat]
    /\ checks \in [Handlers -> Checks]

\* A fetch that is not late has got what is stored.
QuotaInv ==
    /\ QuotaTypes
    /\ \A h \in Handlers : checks[h].step = "fetched" /\ ~ checks[h].late => checks[h].got = defaults
    /\ DefaultsTrueUnlessCrossed

LEMMA Checking ==
  ASSUME NEW c \in Checks
  PROVE  /\ c.step = "none" <=> c = NoCheck
         /\ c.step = "default" <=> c \in [step : {"default"}, who : Members, own : Limits]
         /\ c.step = "fetched" <=>
               c \in [step : {"fetched"}, who : Members, own : Limits, got : Limits, late : BOOLEAN]
         /\ c.step = "usage" <=> c \in [step : {"usage"}, who : Members, lim : Limits, now : 0 .. MaxClock]
<1>1. c = NoCheck => c.step = "none"
  BY DEF NoCheck
<1>2. c \in [step : {"default"}, who : Members, own : Limits] => c.step = "default"
  OBVIOUS
<1>3. c \in [step : {"fetched"}, who : Members, own : Limits, got : Limits, late : BOOLEAN]
         => c.step = "fetched"
  OBVIOUS
<1>4. c \in [step : {"usage"}, who : Members, lim : Limits, now : 0 .. MaxClock] => c.step = "usage"
  OBVIOUS
<1> QED
  BY <1>1, <1>2, <1>3, <1>4 DEF Checks

LEMMA Effects ==
  ASSUME NEW own \in Limits, NEW def \in Limits
  PROVE  Effective(own, def) \in Limits
BY DEF Effective, Limits

\* A step of one request's check that leaves the rest of the quota alone.
LEMMA CheckKeeps ==
  ASSUME QuotaInv, NEW h \in Handlers, NEW c \in Checks, SetCheck(h, c),
         c.step = "fetched" /\ ~ c.late => c.got = defaults,
         UNCHANGED <<clock, database, copy, clearing, stale>>
  PROVE  QuotaInv'
<1>1. \A k \in Handlers : checks'[k] = IF k = h THEN c ELSE checks[k]
  BY DEF SetCheck, QuotaInv, QuotaTypes
<1>2. QuotaTypes'
  BY DEF SetCheck, QuotaInv, QuotaTypes, database
<1>3. DefaultsTrueUnlessCrossed'
  BY DEF QuotaInv, DefaultsTrueUnlessCrossed, CopyValid, database
<1> QED
  BY <1>1, <1>2, <1>3 DEF QuotaInv, database

\* A change of the stored defaults.
LEMMA ChangeKeeps ==
  ASSUME QuotaInv, NEW l \in LimitChoices, defaults' = l, checks' = Outdate,
         UNCHANGED <<clock, limits, usage, copy>>, clearing' # {} \/ stale' # {}
  PROVE  QuotaInv'
<1>1. ASSUME NEW k \in Handlers
      PROVE  checks'[k] \in Checks /\ (checks'[k].step = "fetched" => checks'[k].late)
  <2>1. checks[k] \in Checks
    BY DEF QuotaInv, QuotaTypes
  <2>2. CASE checks[k].step = "fetched"
    <3>1. checks'[k] = [checks[k] EXCEPT !.late = TRUE]
      BY <2>2 DEF Outdate
    <3>2. checks[k] \in [step : {"fetched"}, who : Members, own : Limits, got : Limits, late : BOOLEAN]
      BY <2>1, <2>2, Checking
    <3> QED
      BY <3>1, <3>2 DEF Checks
  <2>3. CASE checks[k].step # "fetched"
    <3>1. checks'[k] = checks[k]
      BY <2>3 DEF Outdate
    <3> QED
      BY <2>1, <2>3, <3>1
  <2> QED
    BY <2>2, <2>3
<1>2. QuotaTypes'
  BY <1>1, QuotaAssumption DEF QuotaInv, QuotaTypes, Outdate
<1> QED
  BY <1>1, <1>2 DEF QuotaInv, DefaultsTrueUnlessCrossed

LEMMA NoLimits == Unlimited \in Limits /\ NoCopy \in [limits : Limits, expires : Nat]
BY DEF Unlimited, NoCopy, Limits

QuotaStepOf(h) ==
    \/ \E m \in Members : ReadMemberLimits(h, m)
    \/ DefaultLimitsCached(h) \/ FetchDefaultLimits(h) \/ StoreDefaultLimits(h) \/ CheckEnds(h)

QuotaNext ==
    \/ Tick
    \/ \E h \in Handlers : QuotaStepOf(h)
    \/ \E m \in Members, n \in 1 .. MaxTokens : AddUsage(m, n)
    \/ \E a \in Admins : ClearCopy(a) \/ \E l \in LimitChoices : WriteDefaultLimits(a, l)
    \/ \E l \in LimitChoices : WriteDefaultLimitsElsewhere(l) \/ \E m \in Members : SetMemberLimits(m, l)
    \/ \E m \in Members : ResetUsage(m)

LEMMA CheckStep ==
  ASSUME QuotaInv, NEW h \in Handlers, QuotaStepOf(h)
  PROVE  QuotaInv'
<1>0. /\ clock \in Nat /\ clock \in 0 .. MaxClock /\ defaults \in Limits /\ copy.limits \in Limits
      /\ checks[h] \in Checks
  BY QuotaAssumption DEF QuotaInv, QuotaTypes
<1>1. ASSUME NEW m \in Members, ReadMemberLimits(h, m)
      PROVE  QuotaInv'
  <2> DEFINE c == [step |-> "default", who |-> m, own |-> limits[m]]
  <2>1. c \in Checks /\ c.step = "default"
    BY DEF QuotaInv, QuotaTypes, Checks
  <2>2. SetCheck(h, c) /\ UNCHANGED <<clock, database, copy, clearing, stale>>
    BY <1>1 DEF ReadMemberLimits
  <2> HIDE DEF c
  <2> QED
    BY <2>1, <2>2, CheckKeeps
<1>2. ASSUME NEW def \in Limits, checks[h].step \in {"default", "fetched"}
      PROVE  [step |-> "usage", who |-> checks[h].who, lim |-> Effective(checks[h].own, def),
              now |-> clock] \in Checks
  <2>1. checks[h].who \in Members /\ checks[h].own \in Limits
    BY <1>0, <1>2, Checking
  <2> QED
    BY <1>0, <2>1, Effects DEF Checks
<1>3. CASE DefaultLimitsCached(h)
  <2> DEFINE c == [step |-> "usage", who |-> checks[h].who, lim |-> Effective(checks[h].own, copy.limits),
                   now |-> clock]
  <2>1. c \in Checks /\ c.step = "usage"
    BY <1>0, <1>2, <1>3 DEF DefaultLimitsCached
  <2>2. SetCheck(h, c) /\ UNCHANGED <<clock, database, copy, clearing, stale>>
    BY <1>3 DEF DefaultLimitsCached, Judge
  <2> HIDE DEF c
  <2> QED
    BY <2>1, <2>2, CheckKeeps
<1>4. CASE FetchDefaultLimits(h)
  <2> DEFINE c == [step |-> "fetched", who |-> checks[h].who, own |-> checks[h].own,
                   got |-> defaults, late |-> FALSE]
  <2>1. checks[h].who \in Members /\ checks[h].own \in Limits
    BY <1>0, <1>4, Checking DEF FetchDefaultLimits
  <2>2. c \in Checks /\ c.got = defaults
    BY <1>0, <2>1 DEF Checks
  <2>3. SetCheck(h, c) /\ UNCHANGED <<clock, database, copy, clearing, stale>>
    BY <1>4 DEF FetchDefaultLimits
  <2> HIDE DEF c
  <2> QED
    BY <2>2, <2>3, CheckKeeps
<1>5. CASE StoreDefaultLimits(h)
  <2> DEFINE got == checks[h].got
             c == [step |-> "usage", who |-> checks[h].who, lim |-> Effective(checks[h].own, got),
                   now |-> clock]
  <2>1. checks[h].step = "fetched" /\ got \in Limits /\ checks[h].late \in BOOLEAN
    BY <1>0, <1>5, Checking DEF StoreDefaultLimits
  <2>2. c \in Checks /\ c.step = "usage"
    BY <1>2, <2>1
  <2>3. /\ checks' = [checks EXCEPT ![h] = c] /\ UNCHANGED <<clock, defaults, limits, usage, clearing>>
        /\ copy' = [limits |-> got, expires |-> clock + TTL]
        /\ stale' = IF checks[h].late THEN {"crossed"} ELSE {}
    BY <1>5 DEF StoreDefaultLimits, Judge, SetCheck, database
  <2> HIDE DEF c
  <2>4. copy' \in [limits : Limits, expires : Nat]
    BY <1>0, <2>1, <2>3, QuotaAssumption
  <2>5. QuotaTypes'
    BY <2>2, <2>3, <2>4 DEF QuotaInv, QuotaTypes
  <2>6. DefaultsTrueUnlessCrossed'
    BY <2>1, <2>3 DEF QuotaInv, DefaultsTrueUnlessCrossed
  <2>7. \A k \in Handlers : checks'[k] = IF k = h THEN c ELSE checks[k]
    BY <2>3 DEF QuotaInv, QuotaTypes
  <2> QED
    BY <2>2, <2>3, <2>5, <2>6, <2>7 DEF QuotaInv
<1>6. CASE CheckEnds(h)
  <2>1. NoCheck \in Checks /\ NoCheck.step = "none"
    BY DEF Checks, NoCheck
  <2> QED
    BY <1>6, <2>1, CheckKeeps DEF CheckEnds
<1> QED
  BY <1>1, <1>3, <1>4, <1>5, <1>6 DEF QuotaStepOf

LEMMA QuotaStep ==
  ASSUME QuotaInv, QuotaNext
  PROVE  QuotaInv'
<1>1. CASE Tick
  <2>1. QuotaTypes'
    BY <1>1, QuotaAssumption DEF Tick, database, QuotaInv, QuotaTypes
  <2>2. CopyValid' => CopyValid
    BY <1>1, QuotaAssumption DEF Tick, database, QuotaInv, QuotaTypes, CopyValid
  <2> QED
    BY <1>1, <2>1, <2>2 DEF Tick, database, QuotaInv, DefaultsTrueUnlessCrossed
<1>2. ASSUME QuotaTypes', UNCHANGED <<clock, defaults, copy, checks, clearing, stale>>
      PROVE  QuotaInv'
  BY <1>2 DEF QuotaInv, DefaultsTrueUnlessCrossed, CopyValid
<1>3. ASSUME NEW m \in Members, NEW n \in 1 .. MaxTokens, AddUsage(m, n)
      PROVE  QuotaInv'
  <2>1. usage[m] \in [Periods -> Nat]
    BY DEF QuotaInv, QuotaTypes
  <2>2. [p \in Periods |-> usage[m][p] + IF p \in PeriodKeys(clock) THEN n ELSE 0] \in [Periods -> Nat]
    BY <2>1
  <2>3. usage' \in [Members -> [Periods -> Nat]]
    BY <1>3, <2>2 DEF AddUsage, QuotaInv, QuotaTypes
  <2> QED
    BY <1>2, <1>3, <2>3 DEF AddUsage, QuotaInv, QuotaTypes
<1>4. ASSUME NEW a \in Admins, ClearCopy(a)
      PROVE  QuotaInv'
  <2>1. QuotaTypes'
    BY <1>4, NoLimits DEF ClearCopy, database, QuotaInv, QuotaTypes
  <2>2. ~ CopyValid'
    BY <1>4, <2>1, QuotaAssumption DEF ClearCopy, CopyValid, NoCopy, QuotaTypes
  <2> QED
    BY <1>4, <2>1, <2>2 DEF ClearCopy, database, QuotaInv, DefaultsTrueUnlessCrossed
<1>5. ASSUME NEW a \in Admins, NEW l \in LimitChoices, WriteDefaultLimits(a, l)
      PROVE  QuotaInv'
  BY <1>5, ChangeKeeps DEF WriteDefaultLimits
<1>6. ASSUME NEW l \in LimitChoices, WriteDefaultLimitsElsewhere(l)
      PROVE  QuotaInv'
  BY <1>6, ChangeKeeps DEF WriteDefaultLimitsElsewhere
<1>7. ASSUME NEW l \in LimitChoices, NEW m \in Members, SetMemberLimits(m, l)
      PROVE  QuotaInv'
  BY <1>2, <1>7, QuotaAssumption DEF SetMemberLimits, QuotaInv, QuotaTypes
<1>8. ASSUME NEW m \in Members, ResetUsage(m)
      PROVE  QuotaInv'
  BY <1>2, <1>8 DEF ResetUsage, QuotaInv, QuotaTypes
<1> QED
  BY <1>1, <1>3, <1>4, <1>5, <1>6, <1>7, <1>8, CheckStep DEF QuotaNext

\* What a step of Turns is to the quota.
LEMMA QuotaSteps ==
  ASSUME TurnTypes, Next
  PROVE  quotaVars' = quotaVars \/ QuotaNext
<1>1. Work \/ ChangePolicy \/ ChangeSettings \/ Purge \/ Signal \/ StopRecorder \/ Exit
         => quotaVars' = quotaVars
  BY DEF Work, ChangePolicy, ChangeSettings, Purge, Signal, StopRecorder, Exit
<1>2. ChangeLimits \/ TimePasses => QuotaNext
  BY DEF ChangeLimits, TimePasses, QuotaNext
<1>3. ASSUME NEW h \in Handlers, Turn(h)
      PROVE  quotaVars' = quotaVars \/ QuotaNext
  <2>1. CASE CountTurn(h)
    <3>1. handler[h] \in Accounting
      BY <1>3, <2>1, Requesting DEF CountTurn, At
    <3> QED
      BY <2>1, <3>1 DEF CountTurn, Accounting, QuotaNext
  <2>2. CASE CountFails(h) \/ RecordPanics(h) \/ RecordTurn(h) \/ ClientLeaves(h) \/ Broken(h)
             \/ (\E n \in 1 .. MaxTokens : Answered(h, n)) \/ EnterGate(h) \/ PassGate(h)
    BY <2>2 DEF CountFails, RecordPanics, RecordTurn, ClientLeaves, Broken, Answered, EnterGate, PassGate
  <2>3. CASE FindLimits(h) \/ Admit(h) \/ Refuse(h)
    BY <2>3 DEF FindLimits, Admit, Refuse, QuotaNext, QuotaStepOf
  <2>4. ASSUME NEW m \in Members, NEW tools, Begin(h, m, tools)
        PROVE  QuotaNext
    BY <2>4 DEF Begin, QuotaNext, QuotaStepOf
  <2> QED
    BY <1>3, <2>1, <2>2, <2>3, <2>4 DEF Turn
<1> QED
  BY <1>1, <1>2, <1>3 DEF Next, Meanwhile

LEMMA MatchingStep ==
  ASSUME TurnTypes, QuotaTypes, Matching, Next
  PROVE  Matching'
<1>1. CASE Work \/ Exit
  <2>1. phase' = "over" \/ UNCHANGED <<checks, handler, phase>>
    BY <1>1 DEF Work, Exit, quotaVars, turnVars
  <2> QED
    BY <2>1 DEF Matching
<1> SUFFICES ASSUME phase # "over", ~ Exit
             PROVE  Matching'
  BY <1>1 DEF Next
<1>2. CASE ChangePolicy \/ ChangeSettings \/ Purge \/ TimePasses \/ Signal \/ StopRecorder
  <2>1. UNCHANGED <<checks, handler>>
    BY <1>2 DEF ChangePolicy, ChangeSettings, Purge, TimePasses, Tick, Signal, StopRecorder, quotaVars
  <2> QED
    BY <2>1 DEF Matching
<1>3. CASE ChangeLimits
  <2>1. checks' = checks \/ checks' = Outdate
    BY <1>3 DEF ChangeLimits, WriteDefaultLimits, ClearCopy, WriteDefaultLimitsElsewhere, SetMemberLimits, ResetUsage
  <2>2. ASSUME NEW h \in Handlers
        PROVE  checks'[h].step = checks[h].step /\ (checks[h].step # "none" => checks'[h].who = checks[h].who)
    <3>1. checks[h] \in Checks
      BY DEF QuotaTypes
    <3>2. checks[h].step = "fetched" =>
             [checks[h] EXCEPT !.late = TRUE].who = checks[h].who /\ [checks[h] EXCEPT !.late = TRUE].step = "fetched"
      BY <3>1, Checking
    <3> QED
      BY <2>1, <3>2 DEF Outdate
  <2>3. handler' = handler
    BY <1>3 DEF ChangeLimits
  <2> QED
    BY <2>2, <2>3 DEF Matching
<1>4. ASSUME NEW h \in Handlers, Turn(h)
      PROVE  Matching'
  <2> DEFINE Fits(k) == checks'[k].step # "none" => handler'[k].step = "check" /\ handler'[k].who = checks'[k].who
  <2>1. ASSUME \A k \in Handlers \ {h} : handler'[k] = handler[k] /\ checks'[k] = checks[k], Fits(h)
        PROVE  Matching'
    BY <2>1 DEF Matching
  <2>2. ASSUME NEW m \in Members, NEW tools, Begin(h, m, tools)
        PROVE  Matching'
    BY <2>1, <2>2 DEF Begin, ReadMemberLimits, SetCheck, TurnTypes, QuotaTypes
  <2>3. CASE FindLimits(h)
    <3>1. checks[h].step # "none" /\ handler' = handler
      BY <2>3 DEF FindLimits, DefaultLimitsCached, FetchDefaultLimits, StoreDefaultLimits, turnVars
    <3>2. \E c : checks' = [checks EXCEPT ![h] = c] /\ c.who = checks[h].who
      BY <2>3 DEF FindLimits, DefaultLimitsCached, FetchDefaultLimits, StoreDefaultLimits, Judge, SetCheck
    <3> QED
      BY <2>1, <3>1, <3>2 DEF Matching, QuotaTypes
  <2>4. CASE Admit(h) \/ Refuse(h)
    <3>1. checks' = [checks EXCEPT ![h] = NoCheck] /\ \E r : handler' = [handler EXCEPT ![h] = r]
      BY <2>4 DEF Admit, Refuse, CheckEnds, SetCheck, Goto, Leave
    <3> QED
      BY <2>1, <3>1 DEF NoCheck, QuotaTypes, TurnTypes
  <2>5. ASSUME handler[h].step \notin {"check"}, checks' = checks, \E r : handler' = [handler EXCEPT ![h] = r]
        PROVE  Matching'
    BY <2>1, <2>5 DEF Matching, TurnTypes
  <2>6. CASE EnterGate(h) \/ PassGate(h) \/ Broken(h) \/ ClientLeaves(h) \/ RecordTurn(h) \/ RecordPanics(h)
             \/ CountTurn(h) \/ CountFails(h) \/ \E n \in 1 .. MaxTokens : Answered(h, n)
    <3>1. handler[h].step \notin {"check"} /\ checks' = checks
      BY <2>6 DEF EnterGate, PassGate, Broken, ClientLeaves, RecordTurn, RecordPanics, CountTurn, CountFails,
                  Answered, At, AddUsage, quotaVars
    <3>2. \E r : handler' = [handler EXCEPT ![h] = r]
      <4>1. (\E s : Goto(h, s)) => \E r : handler' = [handler EXCEPT ![h] = r]
        BY DEF Goto
      <4>2. Leave(h) => \E r : handler' = [handler EXCEPT ![h] = r]
        BY DEF Leave
      <4>3. ClientLeaves(h) => \E r : handler' = [handler EXCEPT ![h] = r]
        BY DEF ClientLeaves
      <4>4. (\E n \in 1 .. MaxTokens : Answered(h, n)) => \E r : handler' = [handler EXCEPT ![h] = r]
        BY DEF Answered
      <4> QED
        BY <2>6, <4>1, <4>2, <4>3, <4>4 DEF EnterGate, PassGate, Broken, RecordTurn, RecordPanics, CountTurn, CountFails
    <3> QED
      BY <2>5, <3>1, <3>2
  <2> QED
    BY <1>4, <2>2, <2>3, <2>4, <2>6 DEF Turn
<1> QED
  BY <1>1, <1>2, <1>3, <1>4 DEF Next, Meanwhile

-----------------------------------------------------------------------------
(* The invariant so far *)

ServedInv == FateInv /\ Matching /\ QuotaInv

LEMMA ServedInit == Init => ServedInv
<1> SUFFICES ASSUME Init
             PROVE  ServedInv
  OBVIOUS
<1>1. PICK p \in Plans, l \in UNION {q.limits : q \in Plans} :
          /\ plan = p /\ l \in p.limits /\ QuotaInit(l) /\ handler = [h \in Handlers |-> Idling]
          /\ phase = "serving" /\ fate = <<>> /\ closed = FALSE
  BY DEF Init, TranscriptsInit
<1>2. p \in PlanType /\ l \in Limits
  BY <1>1, TurnsAssumption DEF PlanType
<1>3. \A h \in Handlers : handler[h].step = "idle" /\ checks[h].step = "none"
  BY <1>1 DEF Idling, QuotaInit, NoCheck
<1>4. fate \in Seq(Fates) /\ DOMAIN fate = {}
  BY <1>1
<1>5. FateInv
  BY <1>1, <1>2, <1>3, <1>4 DEF FateInv, TurnTypes, AnsweredTurnsCounted
<1>6. Matching
  BY <1>3 DEF Matching
<1>7. QuotaTypes
  BY <1>1, <1>2, NoLimits, QuotaAssumption DEF QuotaInit, QuotaTypes, Checks
<1>8. ~ CopyValid
  BY <1>1 DEF QuotaInit, CopyValid, NoCopy
<1> QED
  BY <1>3, <1>5, <1>6, <1>7, <1>8 DEF ServedInv, QuotaInv, DefaultsTrueUnlessCrossed

LEMMA ServedStep ==
  ASSUME ServedInv, [Next]_vars
  PROVE  ServedInv'
<1>1. CASE Next
  <2>1. QuotaInv'
    <3>1. quotaVars' = quotaVars => QuotaInv'
      BY DEF ServedInv, QuotaInv, QuotaTypes, DefaultsTrueUnlessCrossed, CopyValid, quotaVars, database
    <3> QED
      BY <1>1, <3>1, QuotaSteps, QuotaStep DEF ServedInv, FateInv
  <2>2. Matching'
    BY <1>1, MatchingStep DEF ServedInv, FateInv, QuotaInv
  <2>3. FateInv'
    BY <1>1, WorkStep, MeanwhileStep, TurnStep DEF Next, ServedInv
  <2> QED
    BY <2>1, <2>2, <2>3 DEF ServedInv
<1>2. CASE vars' = vars
  BY <1>2 DEF vars, quotaVars, database, transcriptVars, recorder, turnVars, ServedInv, FateInv, TurnTypes,
              AnsweredTurnsCounted, Matching, QuotaInv, QuotaTypes, DefaultsTrueUnlessCrossed, CopyValid
<1> QED
  BY <1>1, <1>2

\* Whatever the interleaving, an answered turn is counted unless the database failed or the
\* process was closing.
THEOREM AnsweredAreCounted == Spec => []AnsweredTurnsCounted
<1>1. ServedInv => AnsweredTurnsCounted
  BY DEF ServedInv, FateInv
<1> QED
  BY <1>1, ServedInit, ServedStep, PTL DEF Spec

-----------------------------------------------------------------------------
(* Periods *)

No(w, t) == PeriodKey(w, t)[2]

LEMMA PeriodFacts ==
  ASSUME NEW w \in Windows, NEW t \in 0 .. MaxClock
  PROVE  /\ PeriodKey(w, t) = <<w, No(w, t)>> /\ No(w, t) \in Nat
         /\ PeriodKey(w, t) \in Periods
         /\ \A p \in PeriodKeys(t) : p[1] \in Windows /\ p[2] = No(p[1], t)
         /\ PeriodKey(w, t) \in PeriodKeys(t)
<1>1. Day(t) \in Nat
  BY QuotaAssumption DEF Day
<1>2. ASSUME NEW v \in Windows
      PROVE  /\ PeriodKey(v, t) = <<v, No(v, t)>> /\ No(v, t) \in Nat
             /\ PeriodKey(v, t)[1] = v
  BY <1>1 DEF PeriodKey, No, Windows, Since
<1>3. PeriodKey(w, t) \in PeriodKeys(t)
  BY DEF PeriodKeys
<1>4. PeriodKey(w, t) \in Periods
  BY <1>3 DEF Periods
<1>5. ASSUME NEW p \in PeriodKeys(t)
      PROVE  p[1] \in Windows /\ p[2] = No(p[1], t)
  <2>1. PICK v \in Windows : p = PeriodKey(v, t)
    BY DEF PeriodKeys
  <2> QED
    BY <1>2, <2>1 DEF No
<1> QED
  BY <1>2, <1>3, <1>4, <1>5

LEMMA DaysPass ==
  ASSUME NEW t \in Nat
  PROVE  Day(t) <= Day(t + 1)
BY QuotaAssumption, SMT DEF Day

LEMMA PeriodsPass ==
  ASSUME NEW w \in Windows, NEW t \in Nat
  PROVE  No(w, t) <= No(w, t + 1)
<1>1. Day(t) \in Nat /\ Day(t + 1) \in Nat
  BY QuotaAssumption DEF Day
<1>2. Day(t) <= Day(t + 1)
  BY DaysPass
<1> QED
  BY <1>1, <1>2, QuotaAssumption DEF No, PeriodKey, Windows, Since

-----------------------------------------------------------------------------
(* How far a limit is passed *)

\* The requests that may still add to a counter of m: those let in, and those whose check
\* will judge an older counter.
Able(m, w) ==
    {h \in Handlers :
        \/ handler[h].step \in {"gate", "tools", "provider", "record", "count"} /\ handler[h].who = m
        \/ checks[h].step = "usage" /\ checks[h].who = m /\ No(w, checks[h].now) # No(w, clock)}

Room(m, w) ==
    usage[m][PeriodKey(w, clock)] + MaxTokens * Cardinality(Able(m, w))
        < defaults[w] + MaxTokens * Cardinality(Handlers)

\* While the limits stay, the defaults are what every check judges by.
Judged(h) ==
    /\ checks[h].step \in {"default", "fetched"} => checks[h].own = Unlimited
    /\ checks[h].step = "fetched" => checks[h].got = defaults
    /\ checks[h].step = "usage" => checks[h].lim = defaults

SteadyInv ==
    /\ plan.steady => plan.changes["limits"] = 0
    /\ plan.steady =>
        /\ \A m \in Members : limits[m] = Unlimited
        /\ clearing = {}
        /\ copy = NoCopy \/ copy.limits = defaults
        /\ \A h \in Handlers : Judged(h)
        /\ \A m \in Members, p \in Periods : p[2] > No(p[1], clock) => usage[m][p] = 0
        /\ \A m \in Members, w \in Windows : defaults[w] > 0 => Room(m, w)

LEMMA Products ==
  ASSUME NEW a \in Nat, NEW b \in Nat, a <= b
  PROVE  /\ MaxTokens * a \in Nat /\ MaxTokens * b \in Nat
         /\ MaxTokens * a <= MaxTokens * b
         /\ MaxTokens * (a + 1) = MaxTokens * a + MaxTokens
<1>1. MaxTokens \in Nat
  BY TurnsAssumption
<1>2. PICK d \in Nat : b = a + d
  BY SMT
<1> DEFINE T == MaxTokens
<1>3. T * d \in Nat /\ T * a \in Nat /\ T * b \in Nat
  BY <1>1, SMT
<1>4. T * b = T * a + T * d
  BY <1>1, <1>2, SMT
<1>5. T * (a + 1) = T * a + T
  BY <1>1, SMT
<1> QED
  BY <1>3, <1>4, <1>5, SMT

LEMMA SomeAble ==
  ASSUME NEW S, S \subseteq Handlers
  PROVE  /\ IsFiniteSet(S) /\ Cardinality(S) \in Nat /\ Cardinality(Handlers) \in Nat
         /\ Cardinality(S) <= Cardinality(Handlers)
         /\ MaxTokens * Cardinality(S) \in Nat /\ MaxTokens * Cardinality(Handlers) \in Nat
         /\ MaxTokens * Cardinality(S) <= MaxTokens * Cardinality(Handlers)
<1>1. IsFiniteSet(Handlers)
  BY TurnsAssumption
<1>2. IsFiniteSet(S) /\ Cardinality(S) <= Cardinality(Handlers)
  BY <1>1, FS_Subset
<1>3. Cardinality(S) \in Nat /\ Cardinality(Handlers) \in Nat
  BY <1>1, <1>2, FS_CardinalityType
<1> QED
  BY <1>2, <1>3, Products

\* Below its limit a counter has room whoever may add to it, and it keeps its room when
\* fewer may.
LEMMA RoomBelow ==
  ASSUME ServedInv', NEW m \in Members, NEW w \in Windows,
         usage'[m][PeriodKey(w, clock')] < defaults'[w]
  PROVE  Room(m, w)'
<1>1. Able(m, w)' \subseteq Handlers
  BY DEF Able
<1>2. usage'[m][PeriodKey(w, clock')] \in Nat /\ defaults'[w] \in Nat
  BY PeriodFacts DEF ServedInv, QuotaInv, QuotaTypes, Limits
<1> QED
  BY <1>1, <1>2, SomeAble DEF Room

LEMMA RoomStays ==
  ASSUME ServedInv, ServedInv', NEW m \in Members, NEW w \in Windows, Room(m, w),
         usage'[m][PeriodKey(w, clock')] = usage[m][PeriodKey(w, clock)], defaults' = defaults,
         Able(m, w)' \subseteq Able(m, w)
  PROVE  Room(m, w)'
<1>1. Able(m, w) \subseteq Handlers
  BY DEF Able
<1>2. IsFiniteSet(Able(m, w)) /\ Cardinality(Able(m, w)) \in Nat
  BY <1>1, SomeAble
<1>3. Cardinality(Able(m, w)') <= Cardinality(Able(m, w)) /\ Cardinality(Able(m, w)') \in Nat
  BY <1>2, FS_Subset, FS_CardinalityType
<1>4. MaxTokens * Cardinality(Able(m, w)') <= MaxTokens * Cardinality(Able(m, w))
  BY <1>2, <1>3, Products
<1>5. usage[m][PeriodKey(w, clock)] \in Nat /\ defaults[w] \in Nat
  BY PeriodFacts DEF ServedInv, QuotaInv, QuotaTypes, Limits
<1>6. MaxTokens * Cardinality(Able(m, w)') \in Nat /\ MaxTokens * Cardinality(Able(m, w)) \in Nat
      /\ MaxTokens * Cardinality(Handlers) \in Nat
  BY <1>1, <1>2, <1>3, Products, SomeAble
<1> QED
  BY <1>4, <1>5, <1>6 DEF Room

LEMMA Undecided ==
  ASSUME NEW def \in Limits
  PROVE  Effective(Unlimited, def) = def
BY DEF Effective, Unlimited, Limits

\* What a step of a check does to what it judges by, and to whom it lets add.
LEMMA SteadyCheck ==
  ASSUME ServedInv, SteadyInv, plan.steady, NEW h \in Handlers,
         FindLimits(h) \/ CheckEnds(h) \/ \E m \in Members : ReadMemberLimits(h, m)
  PROVE  /\ UNCHANGED <<clock, defaults, limits, usage, clearing>>
         /\ copy' = NoCopy \/ copy'.limits = defaults
         /\ \A k \in Handlers : Judged(k)'
         /\ \A k \in Handlers : k # h => checks'[k] = checks[k]
         /\ checks'[h].step = "usage" => checks'[h].now = clock
<1>0. /\ clock \in Nat /\ defaults \in Limits /\ checks[h] \in Checks
      /\ CopyValid => copy.limits = defaults
  BY QuotaAssumption DEF ServedInv, QuotaInv, QuotaTypes, SteadyInv, CopyValid, NoCopy
<1>1. Judged(h) /\ Effective(Unlimited, defaults) = defaults
  BY <1>0, Undecided DEF SteadyInv
<1>2. \A c : SetCheck(h, c) => \A k \in Handlers : checks'[k] = IF k = h THEN c ELSE checks[k]
  BY DEF SetCheck, ServedInv, QuotaInv, QuotaTypes
<1>3. ASSUME defaults' = defaults, Judged(h)', \A k \in Handlers : k # h => checks'[k] = checks[k]
      PROVE  \A k \in Handlers : Judged(k)'
  BY <1>3 DEF Judged, SteadyInv
<1>4. ASSUME Judge(h, defaults), UNCHANGED <<clock, defaults, limits, usage, clearing>>,
             checks[h].own = Unlimited, copy' = NoCopy \/ copy'.limits = defaults
      PROVE  /\ copy' = NoCopy \/ copy'.limits = defaults
             /\ \A k \in Handlers : Judged(k)'
             /\ \A k \in Handlers : k # h => checks'[k] = checks[k]
             /\ checks'[h].now = clock
  <2>1. \A k \in Handlers : checks'[k] =
           IF k = h THEN [step |-> "usage", who |-> checks[h].who, lim |-> defaults, now |-> clock]
           ELSE checks[k]
    BY <1>1, <1>2, <1>4 DEF Judge
  <2> QED
    BY <1>3, <1>4, <2>1 DEF Judged
<1>5. CASE DefaultLimitsCached(h)
  BY <1>0, <1>1, <1>4, <1>5 DEF DefaultLimitsCached, database, Judged, SteadyInv
<1>6. CASE StoreDefaultLimits(h)
  BY <1>0, <1>1, <1>4, <1>6 DEF StoreDefaultLimits, database, Judged, SteadyInv
<1>7. CASE FetchDefaultLimits(h)
  <2>1. \A k \in Handlers : checks'[k] =
           IF k = h THEN [step |-> "fetched", who |-> checks[h].who, own |-> checks[h].own,
                          got |-> defaults, late |-> FALSE]
           ELSE checks[k]
    BY <1>2, <1>7 DEF FetchDefaultLimits
  <2>2. checks[h].own = Unlimited /\ UNCHANGED <<clock, defaults, limits, usage, clearing, copy>>
    BY <1>1, <1>7 DEF FetchDefaultLimits, Judged, database
  <2> QED
    BY <1>3, <2>1, <2>2 DEF Judged, SteadyInv
<1>8. ASSUME NEW m \in Members, ReadMemberLimits(h, m)
      PROVE  /\ \A k \in Handlers : Judged(k)' /\ (k # h => checks'[k] = checks[k])
             /\ checks'[h].step # "usage"
  <2>1. \A k \in Handlers : checks'[k] =
           IF k = h THEN [step |-> "default", who |-> m, own |-> limits[m]] ELSE checks[k]
    BY <1>2, <1>8 DEF ReadMemberLimits
  <2>2. limits[m] = Unlimited /\ defaults' = defaults
    BY <1>8 DEF SteadyInv, ReadMemberLimits, database
  <2> QED
    BY <1>3, <2>1, <2>2 DEF Judged
<1>9. CASE CheckEnds(h)
  <2>1. \A k \in Handlers : checks'[k] = IF k = h THEN NoCheck ELSE checks[k]
    BY <1>2, <1>9 DEF CheckEnds
  <2>2. defaults' = defaults
    BY <1>9 DEF CheckEnds, database
  <2> QED
    BY <1>3, <1>9, <2>1, <2>2 DEF Judged, NoCheck, SteadyInv, CheckEnds, database
<1>10. CASE \E m \in Members : ReadMemberLimits(h, m)
  BY <1>8, <1>10 DEF ReadMemberLimits, SteadyInv, database
<1> QED
  BY <1>5, <1>6, <1>7, <1>9, <1>10 DEF FindLimits

Admitted(h) == handler[h].step \in {"gate", "tools", "provider", "record", "count"}

\* A step that counts nothing and lets nobody in.
LEMMA SteadyKeeps ==
  ASSUME ServedInv, ServedInv', SteadyInv, plan'.steady => plan.steady /\ plan'.changes["limits"] = 0,
         plan.steady => /\ UNCHANGED <<clock, defaults, limits, usage, clearing>>
                        /\ copy' = NoCopy \/ copy'.limits = defaults
                        /\ \A h \in Handlers : Judged(h)',
         \A m \in Members, w \in Windows :
            plan.steady /\ defaults[w] > 0 =>
                Able(m, w)' \subseteq Able(m, w) \/ usage[m][PeriodKey(w, clock)] < defaults[w]
  PROVE  SteadyInv'
<1> SUFFICES ASSUME plan'.steady
             PROVE  SteadyInv'
  BY DEF SteadyInv
<1>1. plan.steady /\ UNCHANGED <<clock, defaults, limits, usage, clearing>>
  OBVIOUS
<1>2. ASSUME NEW m \in Members, NEW w \in Windows, defaults[w] > 0
      PROVE  Room(m, w)'
  <2>1. Room(m, w)
    BY <1>1, <1>2 DEF SteadyInv
  <2>2. CASE Able(m, w)' \subseteq Able(m, w)
    BY <1>1, <2>1, <2>2, RoomStays
  <2>3. CASE usage[m][PeriodKey(w, clock)] < defaults[w]
    BY <1>1, <2>3, RoomBelow
  <2> QED
    BY <1>1, <1>2, <2>2, <2>3
<1>3. \A m \in Members, p \in Periods : p[2] > No(p[1], clock)' => usage'[m][p] = 0
  BY <1>1 DEF SteadyInv, No, PeriodKey
<1>4. \A m \in Members : limits'[m] = Unlimited
  BY <1>1 DEF SteadyInv
<1>5. clearing' = {} /\ (copy' = NoCopy \/ copy'.limits = defaults')
  BY <1>1 DEF SteadyInv
<1> QED
  BY <1>1, <1>2, <1>3, <1>4, <1>5 DEF SteadyInv

\* One that changes no check either, and only ends requests or moves them on.
LEMMA SteadyMoves ==
  ASSUME ServedInv, ServedInv', SteadyInv, UNCHANGED quotaVars,
         plan'.steady => plan.steady /\ plan'.changes["limits"] = 0,
         \A h \in Handlers : Admitted(h)' => Admitted(h) /\ handler'[h].who = handler[h].who
  PROVE  SteadyInv'
<1>1. UNCHANGED <<clock, defaults, limits, usage, copy, checks, clearing>>
  BY DEF quotaVars, database
<1>2. ASSUME NEW m \in Members, NEW w \in Windows
      PROVE  Able(m, w)' \subseteq Able(m, w)
  BY <1>1 DEF Able, Admitted, No, PeriodKey
<1>3. \A h \in Handlers : Judged(h)' <=> Judged(h)
  BY <1>1 DEF Judged
<1>4. plan.steady => (copy' = NoCopy \/ copy'.limits = defaults) /\ \A h \in Handlers : Judged(h)'
  BY <1>1, <1>3 DEF SteadyInv
<1> QED
  BY <1>1, <1>2, <1>4, SteadyKeeps

LEMMA SteadyTurn ==
  ASSUME ServedInv, ServedInv', SteadyInv, NEW h \in Handlers, Turn(h), phase # "over"
  PROVE  SteadyInv'
<1>0. /\ TurnTypes /\ TurnTypes' /\ plan \in PlanType
      /\ \E r : handler' = [handler EXCEPT ![h] = r] => \A k \in Handlers : k # h => handler'[k] = handler[k]
      /\ plan.steady => plan.changes["limits"] = 0
  BY DEF ServedInv, FateInv, TurnTypes, SteadyInv
<1>1. ASSUME UNCHANGED <<quotaVars, plan>>, Admitted(h), \E r : handler' = [handler EXCEPT ![h] = r],
             Admitted(h)' => handler'[h].who = handler[h].who
      PROVE  SteadyInv'
  <2>1. \A k \in Handlers : k # h => handler'[k] = handler[k]
    BY <1>0, <1>1 DEF TurnTypes
  <2>2. \A k \in Handlers : Admitted(k)' => Admitted(k) /\ handler'[k].who = handler[k].who
    BY <1>1, <2>1 DEF Admitted
  <2> QED
    BY <1>0, <1>1, <2>2, SteadyMoves
<1>2. ASSUME FindLimits(h) \/ CheckEnds(h) \/ \E m \in Members : ReadMemberLimits(h, m),
             ~ Admitted(h)', \A k \in Handlers : k # h => handler'[k] = handler[k],
             plan'.steady => plan.steady /\ plan'.changes["limits"] = 0
      PROVE  SteadyInv'
  <2>1. ASSUME plan.steady, NEW m \in Members, NEW w \in Windows
        PROVE  Able(m, w)' \subseteq Able(m, w)
    <3>1. /\ clock' = clock /\ \A k \in Handlers : k # h => checks'[k] = checks[k]
          /\ checks'[h].step = "usage" => checks'[h].now = clock
      BY <1>2, <2>1, SteadyCheck
    <3> QED
      BY <1>2, <3>1 DEF Able, Admitted, No, PeriodKey
  <2> QED
    BY <1>2, <2>1, SteadyCheck, SteadyKeeps
<1>3. ASSUME NEW m \in Members, NEW tools \in plan.tools, Begin(h, m, tools)
      PROVE  SteadyInv'
  <2>1. \A k \in Handlers : handler'[k] =
           IF k = h THEN [step |-> "check", who |-> m, tools |-> tools, here |-> TRUE] ELSE handler[k]
    BY <1>0, <1>3 DEF Begin, TurnTypes
  <2>2. plan'.steady = plan.steady /\ plan'.changes = plan.changes
    BY <1>0, <1>3 DEF Begin, PlanType
  <2>3. ReadMemberLimits(h, m)
    BY <1>3 DEF Begin
  <2> QED
    BY <1>0, <1>2, <2>1, <2>2, <2>3 DEF Admitted
<1>4. CASE FindLimits(h)
  <2>1. handler' = handler /\ plan' = plan /\ checks[h].step # "none"
    BY <1>4 DEF FindLimits, turnVars, DefaultLimitsCached, FetchDefaultLimits, StoreDefaultLimits
  <2>2. handler[h].step = "check"
    BY <2>1 DEF ServedInv, Matching
  <2> QED
    BY <1>0, <1>2, <1>4, <2>1, <2>2 DEF Admitted
<1>5. CASE Refuse(h)
  <2>1. \A k \in Handlers : handler'[k] = IF k = h THEN Idling ELSE handler[k]
    BY <1>0, <1>5 DEF Refuse, Leave, TurnTypes
  <2> QED
    BY <1>0, <1>2, <1>5, <2>1 DEF Refuse, Admitted, Idling
<1>6. CASE Admit(h)
  <2>1. checks[h].step = "usage" /\ handler[h].step = "check" /\ handler[h].who = checks[h].who
    BY <1>6 DEF Admit, Passes, ServedInv, Matching
  <2>2. handler[h] \in Asking
    BY <1>0, <2>1, Requesting
  <2>3. /\ \A k \in Handlers : k # h => handler'[k] = handler[k] /\ checks'[k] = checks[k]
        /\ handler'[h].who = handler[h].who /\ checks'[h].step = "none" /\ plan' = plan
    BY <1>0, <1>6, <2>2 DEF Admit, Goto, CheckEnds, SetCheck, NoCheck, TurnTypes, Asking,
                            ServedInv, QuotaInv, QuotaTypes
  <2>4. ASSUME plan.steady, NEW m \in Members, NEW w \in Windows, defaults[w] > 0
        PROVE  Able(m, w)' \subseteq Able(m, w) \/ usage[m][PeriodKey(w, clock)] < defaults[w]
    <3>1. clock' = clock
      BY <1>6 DEF Admit, CheckEnds
    <3>2. CASE handler[h].who # m \/ h \in Able(m, w)
      BY <2>3, <3>1, <3>2 DEF Able, No, PeriodKey
    <3>3. CASE handler[h].who = m /\ h \notin Able(m, w)
      <4>1. checks[h] \in [step : {"usage"}, who : Members, lim : Limits, now : 0 .. MaxClock]
        BY <2>1, Checking DEF ServedInv, QuotaInv, QuotaTypes
      <4>2. No(w, checks[h].now) = No(w, clock)
        BY <2>1, <3>3 DEF Able
      <4>3. PeriodKey(w, checks[h].now) = PeriodKey(w, clock)
        <5>1. checks[h].now \in 0 .. MaxClock /\ clock \in 0 .. MaxClock
          BY <4>1 DEF ServedInv, QuotaInv, QuotaTypes
        <5>2. \A t \in 0 .. MaxClock : PeriodKey(w, t) = <<w, No(w, t)>>
          BY PeriodFacts
        <5> QED
          BY <4>2, <5>1, <5>2
      <4>4. checks[h].lim = defaults
        BY <2>1, <2>4 DEF SteadyInv, Judged
      <4>5. ~ usage[m][PeriodKey(w, clock)] >= defaults[w]
        BY <1>6, <2>1, <2>4, <3>3, <4>3, <4>4 DEF Admit, Passes, Exceeded
      <4>6. usage[m][PeriodKey(w, clock)] \in Nat /\ defaults[w] \in Nat
        BY PeriodFacts DEF ServedInv, QuotaInv, QuotaTypes, Limits
      <4> QED
        BY <4>5, <4>6
    <3> QED
      BY <3>2, <3>3
  <2> QED
    BY <1>0, <1>6, <2>3, <2>4, SteadyCheck, SteadyKeeps DEF Admit
<1>7. CASE EnterGate(h) \/ PassGate(h) \/ Broken(h)
  <2>1. UNCHANGED <<quotaVars, plan>> /\ handler[h] \in Asking /\ Admitted(h)
    BY <1>0, <1>7, Requesting DEF EnterGate, PassGate, Broken, At, Admitted
  <2>2. Leave(h) \/ \E s : Goto(h, s)
    BY <1>7 DEF EnterGate, PassGate, Broken
  <2>3. CASE Leave(h)
    BY <1>0, <1>1, <2>1, <2>3 DEF Leave, Admitted, Idling, TurnTypes
  <2>4. ASSUME NEW s, Goto(h, s)
        PROVE  SteadyInv'
    BY <1>0, <1>1, <2>1, <2>4 DEF Goto, TurnTypes, Asking
  <2> QED
    BY <2>2, <2>3, <2>4
<1>8. ASSUME NEW n \in 1 .. MaxTokens, Answered(h, n)
      PROVE  SteadyInv'
  <2>1. UNCHANGED <<quotaVars, plan>> /\ Admitted(h)
    BY <1>8 DEF Answered, At, Admitted
  <2>2. \E r : handler' = [handler EXCEPT ![h] = r] /\ r.who = handler[h].who
    <3> DEFINE r == [step |-> "record", who |-> handler[h].who, here |-> handler[h].here,
                     turn |-> Len(fate) + 1, tokens |-> n]
    <3>1. handler' = [handler EXCEPT ![h] = r] /\ r.who = handler[h].who
      BY <1>8 DEF Answered
    <3> QED
      BY <3>1
  <2> QED
    BY <1>0, <1>1, <2>1, <2>2 DEF TurnTypes
<1>9. CASE ClientLeaves(h)
  <2>1. handler[h] \in Accounting
    BY <1>0, <1>9, Requesting DEF ClientLeaves
  <2>2. \A k \in Handlers : handler'[k].step = handler[k].step /\ handler'[k].who = handler[k].who
    BY <1>0, <1>9, <2>1 DEF ClientLeaves, TurnTypes, Accounting
  <2>3. plan'.steady => plan.steady /\ plan'.changes["limits"] = 0
    BY <1>0, <1>9, Spending DEF ClientLeaves, PlanType
  <2> QED
    BY <1>9, <2>2, <2>3, SteadyMoves DEF ClientLeaves, Admitted
<1>10. CASE RecordTurn(h) \/ RecordPanics(h) \/ CountFails(h)
  <2>1. UNCHANGED <<quotaVars, plan>> /\ handler[h] \in Accounting /\ Admitted(h)
    BY <1>0, <1>10, Requesting DEF RecordTurn, RecordPanics, CountFails, At, Admitted
  <2>2. Leave(h) \/ Goto(h, "count")
    BY <1>10 DEF RecordTurn, RecordPanics, CountFails
  <2>3. CASE Leave(h)
    BY <1>0, <1>1, <2>1, <2>3 DEF Leave, Admitted, Idling, TurnTypes
  <2>4. CASE Goto(h, "count")
    BY <1>0, <1>1, <2>1, <2>4 DEF Goto, TurnTypes, Accounting
  <2> QED
    BY <2>2, <2>3, <2>4
<1>11. CASE CountTurn(h)
  <2> DEFINE n == handler[h].tokens
             who == handler[h].who
  <2>1. handler[h] \in Accounting /\ Admitted(h) /\ handler[h].step = "count"
    BY <1>0, <1>11, Requesting DEF CountTurn, At, Admitted
  <2>2. n \in 1 .. MaxTokens /\ who \in Members
    BY <2>1 DEF Accounting
  <2>3. checks[h].step = "none"
    BY <2>1, <1>11 DEF ServedInv, Matching
  <2>4. /\ \A k \in Handlers : handler'[k] = IF k = h THEN Idling ELSE handler[k]
        /\ UNCHANGED <<plan, clock, defaults, limits, copy, checks, clearing>>
    BY <1>0, <1>11 DEF CountTurn, Leave, AddUsage, TurnTypes
  <2>10. handler'[h].step = "idle" /\ \A k \in Handlers : k # h => handler'[k] = handler[k]
    BY <2>4 DEF Idling
  <2>5. ASSUME NEW m \in Members, NEW p \in Periods
        PROVE  usage'[m][p] = usage[m][p] + IF m = who /\ p \in PeriodKeys(clock) THEN n ELSE 0
    <3>1. usage \in [Members -> [Periods -> Nat]]
      BY DEF ServedInv, QuotaInv, QuotaTypes
    <3>2. usage[m][p] \in Nat
      BY <3>1
    <3> QED
      BY <1>11, <2>2, <3>1, <3>2 DEF CountTurn, AddUsage
  <2> HIDE DEF n, who
  <2>6. ASSUME plan.steady, NEW m \in Members, NEW w \in Windows, defaults[w] > 0
        PROVE  Room(m, w)'
    <3>1. clock \in 0 .. MaxClock
      BY DEF ServedInv, QuotaInv, QuotaTypes
    <3>2. PeriodKey(w, clock) \in Periods /\ PeriodKey(w, clock) \in PeriodKeys(clock)
      BY <3>1, PeriodFacts
    <3>3. Room(m, w)
      BY <2>6 DEF SteadyInv
    <3>4. PeriodKey(w, clock') = PeriodKey(w, clock)
      BY <2>4
    <3>5. CASE m # who
      <4>1. usage[m][PeriodKey(w, clock)] \in Nat
        BY <3>2 DEF ServedInv, QuotaInv, QuotaTypes
      <4>2. usage'[m][PeriodKey(w, clock)] = usage[m][PeriodKey(w, clock)]
        BY <2>5, <3>2, <3>5, <4>1
      <4>3. Able(m, w)' \subseteq Able(m, w)
        BY <2>4, <2>10 DEF Able, No, PeriodKey
      <4> QED
        BY <2>4, <3>3, <3>4, <4>2, <4>3, RoomStays
    <3>6. CASE m = who
      <4> DEFINE A == Able(m, w)
                 B == Able(m, w)'
                 u == usage[m][PeriodKey(w, clock)]
                 T == MaxTokens
      <4>1. h \in A /\ B = A \ {h} /\ A \subseteq Handlers
        <5>1. h \in A /\ A \subseteq Handlers
          BY <2>1, <3>6 DEF Able, Admitted, who
        <5>2. h \notin B /\ B \subseteq Handlers
          BY <2>3, <2>4, <2>10 DEF Able
        <5>3. \A k \in Handlers : k # h => (k \in A <=> k \in B)
          BY <2>4, <2>10 DEF Able, No, PeriodKey
        <5> QED
          BY <5>1, <5>2, <5>3
      <4>2. IsFiniteSet(A) /\ Cardinality(B) = Cardinality(A) - 1 /\ Cardinality(B) \in Nat
            /\ Cardinality(A) \in Nat
        <5>1. IsFiniteSet(A) /\ Cardinality(A) \in Nat
          BY <4>1, SomeAble
        <5>2. Cardinality(A \ {h}) = Cardinality(A) - 1 /\ IsFiniteSet(A \ {h})
          BY <4>1, <5>1, FS_RemoveElement
        <5> QED
          BY <4>1, <5>1, <5>2, FS_CardinalityType
      <4>3. /\ T * Cardinality(A) = T * Cardinality(B) + T
            /\ T * Cardinality(B) \in Nat /\ T * Cardinality(Handlers) \in Nat
        <5>1. Cardinality(A) = Cardinality(B) + 1
          BY <4>2
        <5> QED
          BY <4>1, <4>2, <5>1, Products, SomeAble
      <4>4. u \in Nat /\ defaults[w] \in Nat
        BY <3>2 DEF ServedInv, QuotaInv, QuotaTypes, Limits
      <4>5. usage'[m][PeriodKey(w, clock')] = u + n
        BY <2>5, <3>2, <3>4, <3>6
      <4>6. u + T * Cardinality(A) < defaults[w] + T * Cardinality(Handlers)
        BY <3>3 DEF Room
      <4>7. T \in Nat /\ n <= T /\ n \in Nat
        BY <2>2, TurnsAssumption
      <4>8. usage'[m][PeriodKey(w, clock')] + T * Cardinality(B) < defaults[w] + T * Cardinality(Handlers)
        <5> HIDE DEF A, B, u, T
        <5> QED
          BY <4>3, <4>4, <4>5, <4>6, <4>7
      <4> QED
        BY <2>4, <4>8 DEF Room
    <3> QED
      BY <3>5, <3>6
  <2>7. ASSUME plan.steady, NEW m \in Members, NEW p \in Periods, p[2] > No(p[1], clock)
        PROVE  usage'[m][p] = 0
    <3>1. clock \in 0 .. MaxClock
      BY DEF ServedInv, QuotaInv, QuotaTypes
    <3>2. ASSUME p \in PeriodKeys(clock)
          PROVE  FALSE
      <4>1. "day" \in Windows
        BY DEF Windows
      <4>2. p[1] \in Windows /\ p[2] = No(p[1], clock)
        BY <3>1, <3>2, <4>1, PeriodFacts
      <4>3. No(p[1], clock) \in Nat
        BY <3>1, <4>2, PeriodFacts
      <4> QED
        BY <2>7, <4>2, <4>3
    <3>3. usage[m][p] = 0
      BY <2>7 DEF SteadyInv
    <3> QED
      BY <2>5, <3>2, <3>3
  <2>8. \A k \in Handlers : Judged(k)' <=> Judged(k)
    BY <2>4 DEF Judged
  <2>9. \A p \in Periods : No(p[1], clock)' = No(p[1], clock)
    BY <2>4 DEF No, PeriodKey
  <2> QED
    BY <2>4, <2>6, <2>7, <2>8, <2>9 DEF SteadyInv
<1> QED
  BY <1>3, <1>4, <1>5, <1>6, <1>7, <1>8, <1>9, <1>10, <1>11 DEF Turn

LEMMA SteadyTick ==
  ASSUME ServedInv, ServedInv', SteadyInv, TimePasses
  PROVE  SteadyInv'
<1>1. /\ plan'.steady = plan.steady /\ plan'.changes = plan.changes
      /\ clock < MaxClock /\ clock' = clock + 1
      /\ UNCHANGED <<defaults, limits, usage, copy, checks, clearing, handler>>
  BY DEF TimePasses, Tick, database, ServedInv, FateInv, TurnTypes, PlanType
<1>2. clock \in 0 .. MaxClock /\ clock' \in 0 .. MaxClock /\ clock \in Nat
  BY DEF ServedInv, QuotaInv, QuotaTypes
<1>3. ASSUME NEW w \in Windows
      PROVE  No(w, clock) <= No(w, clock') /\ No(w, clock) \in Nat /\ No(w, clock') \in Nat
  <2>1. No(w, clock) \in Nat /\ No(w, clock') \in Nat
    BY <1>2, PeriodFacts
  <2>2. No(w, clock) <= No(w, clock + 1)
    BY <1>2, PeriodsPass
  <2> QED
    BY <1>1, <2>1, <2>2
<1>4. ASSUME NEW p \in Periods
      PROVE  p[1] \in Windows /\ p[2] \in Nat
  <2>1. PICK t \in 0 .. MaxClock : p \in PeriodKeys(t)
    BY DEF Periods
  <2>2. "day" \in Windows
    BY DEF Windows
  <2>3. p[1] \in Windows /\ p[2] = No(p[1], t)
    BY <2>1, <2>2, PeriodFacts
  <2> QED
    BY <2>3, PeriodFacts
<1>5. ASSUME plan.steady, NEW m \in Members, NEW p \in Periods, p[2] > No(p[1], clock')
      PROVE  usage[m][p] = 0
  <2>1. p[2] > No(p[1], clock)
    BY <1>3, <1>4, <1>5
  <2> QED
    BY <1>5, <2>1 DEF SteadyInv
<1>6. ASSUME plan.steady, NEW m \in Members, NEW w \in Windows, defaults[w] > 0
      PROVE  Room(m, w)'
  <2>1. PeriodKey(w, clock) = <<w, No(w, clock)>> /\ PeriodKey(w, clock') = <<w, No(w, clock')>>
        /\ PeriodKey(w, clock') \in Periods
    BY <1>2, PeriodFacts
  <2>2. CASE No(w, clock') = No(w, clock)
    <3>1. Able(m, w)' \subseteq Able(m, w)
      <4>1. Able(m, w)' =
               {h \in Handlers :
                  \/ handler[h].step \in {"gate", "tools", "provider", "record", "count"} /\ handler[h].who = m
                  \/ checks[h].step = "usage" /\ checks[h].who = m /\ No(w, checks[h].now) # No(w, clock')}
        BY <1>1 DEF Able, No, PeriodKey
      <4> QED
        BY <2>2, <4>1 DEF Able
    <3>2. usage'[m][PeriodKey(w, clock')] = usage[m][PeriodKey(w, clock)]
      BY <1>1, <2>1, <2>2
    <3>3. Room(m, w)
      BY <1>6 DEF SteadyInv
    <3> QED
      BY <1>1, <3>1, <3>2, <3>3, RoomStays
  <2>3. CASE No(w, clock') # No(w, clock)
    <3>1. No(w, clock') > No(w, clock)
      BY <1>3, <2>3
    <3>2. PeriodKey(w, clock')[1] = w /\ PeriodKey(w, clock')[2] = No(w, clock')
      BY <2>1
    <3>3. usage[m][PeriodKey(w, clock')] = 0
      BY <1>6, <2>1, <3>1, <3>2 DEF SteadyInv
    <3>4. usage'[m][PeriodKey(w, clock')] < defaults'[w]
      BY <1>1, <1>6, <3>3
    <3> QED
      BY <3>4, RoomBelow
  <2> QED
    BY <2>2, <2>3
<1>7. \A k \in Handlers : Judged(k)' <=> Judged(k)
  BY <1>1 DEF Judged
<1>8. \A p \in Periods : No(p[1], clock)' = No(p[1], clock')
  BY DEF No, PeriodKey
<1> QED
  BY <1>1, <1>5, <1>6, <1>7, <1>8 DEF SteadyInv

LEMMA SteadyMeanwhile ==
  ASSUME ServedInv, ServedInv', SteadyInv, Work \/ Meanwhile
  PROVE  SteadyInv'
<1>0. TurnTypes /\ plan \in PlanType /\ (plan.steady => plan.changes["limits"] = 0)
  BY DEF ServedInv, FateInv, TurnTypes, SteadyInv
<1>1. CASE ChangeLimits
  <2>1. plan'.steady => plan.steady
    BY <1>0, <1>1, Spending DEF ChangeLimits
  <2>2. ~ plan.steady
    BY <1>0, <1>1 DEF ChangeLimits, Spend, ClearCopy, SteadyInv
  <2> QED
    BY <2>1, <2>2 DEF SteadyInv
<1>2. ASSUME UNCHANGED <<quotaVars, handler>>, plan' = plan \/ \E k \in {"policy", "settings", "purge", "stop"} : Spend(k)
      PROVE  SteadyInv'
  <2>1. plan'.steady => plan.steady /\ plan'.changes["limits"] = 0
    BY <1>0, <1>2, Spending DEF PlanType
  <2> QED
    BY <1>2, <2>1, SteadyMoves DEF Admitted
<1>3. CASE Work
  BY <1>2, <1>3 DEF Work, turnVars
<1>4. CASE ChangePolicy
  BY <1>2, <1>4 DEF ChangePolicy
<1>5. CASE ChangeSettings
  BY <1>2, <1>5 DEF ChangeSettings
<1>6. CASE Purge
  BY <1>2, <1>6 DEF Purge
<1>7. CASE Signal \/ StopRecorder
  BY <1>2, <1>7 DEF Signal, StopRecorder
<1>8. CASE Exit
  BY <1>0, <1>8, SteadyMoves DEF Exit, Admitted, Idling
<1> QED
  BY <1>1, <1>3, <1>4, <1>5, <1>6, <1>7, <1>8, SteadyTick DEF Meanwhile

LEMMA SteadyInit == Init => SteadyInv
<1> SUFFICES ASSUME Init
             PROVE  SteadyInv
  OBVIOUS
<1>1. PICK p \in Plans, l \in UNION {q.limits : q \in Plans} :
          plan = p /\ QuotaInit(l) /\ handler = [h \in Handlers |-> Idling]
  BY DEF Init
<1>2. p.steady => p.changes["limits"] = 0
  BY TurnsAssumption
<1>3. ServedInv
  BY ServedInit
<1>4. \A h \in Handlers : handler[h].step = "idle" /\ checks[h].step = "none"
  BY <1>1 DEF QuotaInit, Idling, NoCheck
<1>5. \A m \in Members, w \in Windows : Able(m, w) = {}
  BY <1>4 DEF Able
<1>6. ASSUME NEW m \in Members, NEW w \in Windows, defaults[w] > 0
      PROVE  Room(m, w)
  <2>1. usage[m][PeriodKey(w, clock)] = 0
    BY <1>1, <1>3, PeriodFacts DEF QuotaInit, ServedInv, QuotaInv, QuotaTypes
  <2>2. Cardinality(Able(m, w)) = 0
    BY <1>5, FS_EmptySet
  <2>3. MaxTokens * 0 = 0 /\ defaults[w] \in Nat /\ MaxTokens * Cardinality(Handlers) \in Nat
    BY <1>3, TurnsAssumption, SomeAble DEF ServedInv, QuotaInv, QuotaTypes, Limits
  <2> QED
    BY <1>6, <2>1, <2>2, <2>3 DEF Room
<1> QED
  BY <1>1, <1>2, <1>4, <1>6 DEF QuotaInit, SteadyInv, Judged

LEMMA SteadyStep ==
  ASSUME ServedInv, SteadyInv, [Next]_vars
  PROVE  SteadyInv'
<1>1. ServedInv'
  BY ServedStep
<1>2. CASE Next
  BY <1>1, <1>2, SteadyTurn, SteadyMeanwhile DEF Next
<1>3. CASE vars' = vars
  <2>1. UNCHANGED <<quotaVars, plan, handler>>
    BY <1>3 DEF vars, turnVars
  <2> QED
    BY <1>1, <2>1, SteadyMoves DEF Admitted, SteadyInv
<1> QED
  BY <1>2, <1>3

\* With any number of requests served at once and turns of any size, a counter passes a
\* limit that stays by less than what those requests can add.
THEOREM OvershootIsBounded == Spec => []OvershootBounded
<1>1. ASSUME ServedInv, SteadyInv
      PROVE  OvershootBounded
  <2> SUFFICES ASSUME plan.steady, NEW m \in Members, NEW w \in Windows, defaults[w] > 0
               PROVE  usage[m][PeriodKey(w, clock)] < defaults[w] + Cardinality(Handlers) * MaxTokens
    BY DEF OvershootBounded
  <2>1. usage[m][PeriodKey(w, clock)] + MaxTokens * Cardinality(Able(m, w))
           < defaults[w] + MaxTokens * Cardinality(Handlers)
    BY <1>1 DEF SteadyInv, Room
  <2>2. Able(m, w) \subseteq Handlers
    BY DEF Able
  <2>3. MaxTokens * Cardinality(Able(m, w)) \in Nat /\ MaxTokens * Cardinality(Handlers) \in Nat
    BY <2>2, SomeAble
  <2>4. usage[m][PeriodKey(w, clock)] \in Nat /\ defaults[w] \in Nat
    BY <1>1, PeriodFacts DEF ServedInv, QuotaInv, QuotaTypes, Limits
  <2>5. MaxTokens * Cardinality(Handlers) = Cardinality(Handlers) * MaxTokens
    BY <2>2, SomeAble, TurnsAssumption
  <2> QED
    BY <2>1, <2>3, <2>4, <2>5
<1> QED
  BY <1>1, ServedInit, ServedStep, SteadyInit, SteadyStep, PTL DEF Spec

-----------------------------------------------------------------------------
(* The tool policy *)

ReadOf == [step : {"read"}, late : BOOLEAN, got : Policies]
ListedOf == [step : {"listed"}, late : BOOLEAN, got : [Members -> Policies]]
ReloadStates == {NoReload} \cup [step : {"saved"}, late : {FALSE}] \cup ReadOf \cup ListedOf

\* A reload has read what is stored, unless it is late; and the global policy in use is the
\* stored one once it was kept, unless another reload that is late will be in its place.
LateReloads == {a \in Admins : reloads[a].step \in {"read", "listed"} /\ reloads[a].late}
FreshReload(a, step) == reloads[a].step = step /\ ~ reloads[a].late
CurTrue == cur = policy \/ policyStale # {} \/ LateReloads # {}

PolicyInv ==
    /\ policy \in Policies /\ overrides \in [Members -> Policies]
    /\ reloads \in [Admins -> ReloadStates]
    /\ \A a \in Admins : FreshReload(a, "read") => reloads[a].got = policy
    /\ \A a \in Admins : FreshReload(a, "listed") => reloads[a].got = overrides /\ CurTrue
    /\ PolicyTrueUnlessCrossed

PolicyNext ==
    \E a \in Admins :
        \/ \E p \in PolicyChoices : UpdateSettings(a, p) \/ \E m \in Members : UpdateMemberPolicy(a, m, p)
        \/ ReadPolicy(a) \/ KeepPolicy(a) \/ KeepMembers(a) \/ ReloadFails(a)

LEMMA Reloading ==
  ASSUME NEW r \in ReloadStates
  PROVE  /\ r.step \in {"none", "saved", "read", "listed"}
         /\ r.step = "none" <=> r = NoReload
         /\ r.step = "saved" => r \in [step : {"saved"}, late : {FALSE}]
         /\ r.step = "read" => r \in ReadOf
         /\ r.step = "listed" => r \in ListedOf
<1>1. r = NoReload => r.step = "none"
  BY DEF NoReload
<1>2. r \in [step : {"saved"}, late : {FALSE}] => r.step = "saved"
  OBVIOUS
<1>3. r \in ReadOf => r.step = "read"
  BY DEF ReadOf
<1>4. r \in ListedOf => r.step = "listed"
  BY DEF ListedOf
<1> QED
  BY <1>1, <1>2, <1>3, <1>4 DEF ReloadStates

LEMMA PolicySaves ==
  ASSUME PolicyInv, NEW a \in Admins, Save(a),
         policy' \in Policies, overrides' \in [Members -> Policies]
  PROVE  PolicyInv'
<1>1. ASSUME NEW b \in Admins
      PROVE  /\ reloads'[b] \in ReloadStates
             /\ reloads'[b].step \in {"read", "listed"} => reloads'[b].late
             /\ b = a => reloads'[b] # NoReload
  <2>0. reloads[b] \in ReloadStates /\ reloads' = Overtake(a)
    BY DEF PolicyInv, Save
  <2>1. CASE b = a
    <3> DEFINE S == [step |-> "saved", late |-> FALSE]
    <3>1. reloads'[b] = S
      BY <2>0, <2>1 DEF Overtake
    <3>2. S \in [step : {"saved"}, late : {FALSE}] /\ S.step = "saved"
      OBVIOUS
    <3> QED
      BY <3>1, <3>2 DEF ReloadStates, NoReload
  <2>2. CASE b # a /\ reloads[b].step \in {"none", "saved"}
    <3>1. reloads'[b] = reloads[b]
      BY <2>0, <2>2 DEF Overtake
    <3> QED
      BY <2>0, <2>2, <3>1
  <2>3. CASE b # a /\ reloads[b].step \in {"read", "listed"}
    <3>1. reloads'[b] = [reloads[b] EXCEPT !.late = TRUE]
      BY <2>0, <2>3 DEF Overtake
    <3>2. reloads[b] \in ReadOf \/ reloads[b] \in ListedOf
      BY <2>0, <2>3, Reloading
    <3>3. (reloads'[b] \in ReadOf \/ reloads'[b] \in ListedOf) /\ reloads'[b].late
      BY <3>1, <3>2 DEF ReadOf, ListedOf
    <3> QED
      BY <2>3, <3>3 DEF ReloadStates
  <2> QED
    BY <2>0, <2>1, <2>2, <2>3, Reloading
<1>2. reloads' \in [Admins -> ReloadStates]
  BY <1>1 DEF Save, Overtake
<1>3. PolicyTrueUnlessCrossed'
  BY <1>1 DEF PolicyTrueUnlessCrossed, Idle
<1> QED
  BY <1>1, <1>2, <1>3 DEF PolicyInv, FreshReload

\* A step of a reload that does not end it.
LEMMA ReloadKeeps ==
  ASSUME PolicyInv, NEW a \in Admins, NEW r \in ReadOf \cup ListedOf,
         Step(a, r), UNCHANGED <<stored, members, policyStale>>,
         r.late <=> a \in LateReloads,
         r.step = "read" /\ ~ r.late => r.got = policy,
         r.step = "listed" /\ ~ r.late => r.got = overrides,
         cur' = cur \/ cur' = policy \/ r.late,
         r.step = "listed" => cur' = policy \/ r.late
  PROVE  PolicyInv'
<1>1. \A b \in Admins : reloads'[b] = IF b = a THEN r ELSE reloads[b]
  BY DEF Step, PolicyInv
<1>2. r.step \in {"read", "listed"}
  BY DEF ReadOf, ListedOf
<1>3. LateReloads' = LateReloads
  BY <1>1, <1>2 DEF LateReloads
<1>4. reloads' \in [Admins -> ReloadStates] /\ UNCHANGED <<policy, overrides, policyStale>>
  BY DEF Step, PolicyInv, stored, ReloadStates
<1>5. CurTrue => CurTrue'
  BY <1>3, <1>4 DEF CurTrue
<1>6. r.step = "listed" => CurTrue'
  BY <1>3, <1>4 DEF CurTrue
<1>7. PolicyTrueUnlessCrossed'
  BY <1>1, <1>2 DEF PolicyTrueUnlessCrossed, Idle, NoReload
<1>8. ASSUME NEW b \in Admins, b # a
      PROVE  /\ FreshReload(b, "read")' => reloads'[b].got = policy'
             /\ FreshReload(b, "listed")' => reloads'[b].got = overrides' /\ CurTrue'
  BY <1>1, <1>4, <1>5, <1>8 DEF PolicyInv, FreshReload
<1>9. /\ FreshReload(a, "read")' => reloads'[a].got = policy'
      /\ FreshReload(a, "listed")' => reloads'[a].got = overrides' /\ CurTrue'
  BY <1>1, <1>4, <1>6 DEF FreshReload
<1> QED
  BY <1>4, <1>7, <1>8, <1>9 DEF PolicyInv

\* One that ends it.
LEMMA ReloadEnds ==
  ASSUME PolicyInv, NEW a \in Admins, Step(a, NoReload), UNCHANGED stored,
         policyStale \subseteq policyStale',
         \/ policyStale' # {}
         \/ a \notin LateReloads /\ cur' = cur /\ CurTrue /\ members' = overrides
  PROVE  PolicyInv'
<1>1. \A b \in Admins : reloads'[b] = IF b = a THEN NoReload ELSE reloads[b]
  BY DEF Step, PolicyInv
<1>2. NoReload.step = "none" /\ NoReload \in ReloadStates
  BY DEF NoReload, ReloadStates
<1>3. reloads' \in [Admins -> ReloadStates] /\ UNCHANGED <<policy, overrides>>
  BY <1>2 DEF Step, PolicyInv, stored
<1>4. policyStale' # {} \/ (LateReloads' = LateReloads /\ CurTrue')
  BY <1>1, <1>2, <1>3 DEF LateReloads, CurTrue
<1>5. Idle' => LateReloads' = {}
  BY <1>2 DEF Idle, LateReloads
<1>6. PolicyTrueUnlessCrossed'
  BY <1>3, <1>4, <1>5 DEF PolicyTrueUnlessCrossed, CurTrue
<1>7. ASSUME NEW b \in Admins
      PROVE  /\ FreshReload(b, "read")' => reloads'[b].got = policy'
             /\ FreshReload(b, "listed")' => reloads'[b].got = overrides' /\ CurTrue'
  BY <1>1, <1>2, <1>3, <1>4 DEF PolicyInv, FreshReload, CurTrue
<1> QED
  BY <1>3, <1>6, <1>7 DEF PolicyInv

LEMMA PolicyStep ==
  ASSUME PolicyInv, PolicyNext
  PROVE  PolicyInv'
<1>1. PICK a \in Admins :
        \/ \E p \in PolicyChoices : UpdateSettings(a, p) \/ \E m \in Members : UpdateMemberPolicy(a, m, p)
        \/ ReadPolicy(a) \/ KeepPolicy(a) \/ KeepMembers(a) \/ ReloadFails(a)
  BY DEF PolicyNext
<1>0. reloads[a] \in ReloadStates /\ policy \in Policies /\ overrides \in [Members -> Policies]
  BY DEF PolicyInv
<1>2. ASSUME NEW p \in PolicyChoices, UpdateSettings(a, p) \/ \E m \in Members : UpdateMemberPolicy(a, m, p)
      PROVE  PolicyInv'
  <2>1. p \in Policies
    BY ToolPolicyAssumption
  <2>2. Save(a) /\ policy' \in Policies /\ overrides' \in [Members -> Policies]
    <3>1. CASE UpdateSettings(a, p)
      BY <1>0, <2>1, <3>1 DEF UpdateSettings
    <3>2. ASSUME NEW m \in Members, UpdateMemberPolicy(a, m, p)
          PROVE  Save(a) /\ policy' \in Policies /\ overrides' \in [Members -> Policies]
      BY <1>0, <2>1, <3>2 DEF UpdateMemberPolicy
    <3> QED
      BY <1>2, <3>1, <3>2
  <2> QED
    BY <2>2, PolicySaves
<1>3. CASE ReadPolicy(a)
  <2> DEFINE r == [step |-> "read", late |-> reloads[a].late, got |-> policy]
  <2>1. reloads[a].step = "saved" /\ reloads[a].late = FALSE
    BY <1>0, <1>3, Reloading DEF ReadPolicy
  <2>2. r \in ReadOf /\ r.step = "read" /\ ~ r.late /\ r.got = policy /\ a \notin LateReloads
    BY <1>0, <2>1 DEF ReadOf, LateReloads
  <2>3. Step(a, r) /\ UNCHANGED <<stored, members, cur, policyStale>>
    BY <1>3 DEF ReadPolicy, copies
  <2> HIDE DEF r
  <2> QED
    BY <2>2, <2>3, ReloadKeeps
<1>4. CASE KeepPolicy(a)
  <2> DEFINE r == [step |-> "listed", late |-> reloads[a].late, got |-> overrides]
  <2>1. reloads[a].step = "read" /\ reloads[a] \in ReadOf
    BY <1>0, <1>4, Reloading DEF KeepPolicy
  <2>2. /\ r \in ListedOf /\ r.step = "listed" /\ r.late = reloads[a].late /\ r.got = overrides
        /\ r.late <=> a \in LateReloads
    BY <1>0, <2>1 DEF ReadOf, ListedOf, LateReloads
  <2>3. Step(a, r) /\ UNCHANGED <<stored, members, policyStale>> /\ cur' = reloads[a].got
    BY <1>4 DEF KeepPolicy
  <2>4. cur' = policy \/ r.late
    BY <2>1, <2>2, <2>3 DEF PolicyInv, FreshReload
  <2> HIDE DEF r
  <2> QED
    BY <2>2, <2>3, <2>4, ReloadKeeps
<1>5. CASE KeepMembers(a)
  <2>1. reloads[a].step = "listed" /\ reloads[a] \in ListedOf
    BY <1>0, <1>5, Reloading DEF KeepMembers
  <2>2. /\ Step(a, NoReload) /\ UNCHANGED stored /\ members' = reloads[a].got /\ cur' = cur
        /\ policyStale' = policyStale \cup IF reloads[a].late THEN {"crossed"} ELSE {}
    BY <1>5 DEF KeepMembers
  <2>3. ~ reloads[a].late => a \notin LateReloads /\ reloads[a].got = overrides /\ CurTrue
    BY <2>1 DEF PolicyInv, FreshReload, LateReloads
  <2> QED
    BY <2>2, <2>3, ReloadEnds
<1>6. CASE ReloadFails(a)
  BY <1>6, ReloadEnds DEF ReloadFails
<1> QED
  BY <1>1, <1>2, <1>3, <1>4, <1>5, <1>6

LEMMA PolicySpec ==
  /\ Init => PolicyInv
  /\ PolicyInv /\ [Next]_vars => PolicyInv'
<1>1. ASSUME Init
      PROVE  PolicyInv
  <2>1. PolicyInit
    BY <1>1 DEF Init
  <2>2. \A a \in Admins : reloads[a].step = "none"
    BY <2>1 DEF PolicyInit, NoReload
  <2>3. NoPolicy \in Policies
    BY DEF NoPolicy, Policies
  <2> QED
    BY <2>1, <2>2, <2>3 DEF PolicyInit, PolicyInv, ReloadStates, FreshReload, PolicyTrueUnlessCrossed
<1>2. Next => PolicyNext \/ UNCHANGED <<stored, copies, reloads, policyStale>>
  BY DEF Next, Work, Meanwhile, ChangeLimits, ChangePolicy, ChangeSettings, Purge, TimePasses, Signal,
         StopRecorder, Exit, Turn, Begin, FindLimits, Admit, Refuse, EnterGate, LoadGlobal, PassGate, Answered, Broken,
         ClientLeaves, RecordTurn, RecordPanics, CountTurn, CountFails, policyVars, PolicyNext
<1>3. PolicyInv /\ UNCHANGED <<stored, copies, reloads, policyStale>> => PolicyInv'
  BY DEF stored, copies, PolicyInv, FreshReload, CurTrue, LateReloads, PolicyTrueUnlessCrossed, Idle
<1> QED
  BY <1>1, <1>2, <1>3, PolicyStep DEF vars, policyVars

-----------------------------------------------------------------------------
(* The settings of the recorder *)

UpdateOf == [step : {"read", "built"}, late : BOOLEAN, got : Settings]
UpdateStates == {NoUpdate} \cup [step : {"saved"}, late : {FALSE}] \cup UpdateOf

LateUpdates == {a \in Admins : updates[a].step \in {"read", "built"} /\ updates[a].late}
FreshUpdate(a, steps) == updates[a].step \in steps /\ ~ updates[a].late
StoreTrue == store = settings.backend \/ settingsStale # {} \/ LateUpdates # {}

SettingsInv ==
    /\ settings \in Settings
    /\ updates \in [Admins -> UpdateStates]
    /\ \A a \in Admins : FreshUpdate(a, {"read", "built"}) => updates[a].got = settings
    /\ \A a \in Admins : FreshUpdate(a, {"built"}) => StoreTrue
    /\ SettingsTrueUnlessCrossed

SettingsNext ==
    \E a \in Admins :
        \/ \E s \in SettingsChoices : SaveSettings(a, s)
        \/ ReadSettings(a) \/ ReadSettingsFails(a) \/ SwapStore(a) \/ SwapToFallback(a) \/ SwitchRecording(a)

LEMMA Updating ==
  ASSUME NEW u \in UpdateStates
  PROVE  /\ u.step \in {"none", "saved", "read", "built"}
         /\ u.step = "none" <=> u = NoUpdate
         /\ u.step = "saved" => u \in [step : {"saved"}, late : {FALSE}]
         /\ u.step \in {"read", "built"} => u \in UpdateOf
<1>1. u = NoUpdate => u.step = "none"
  BY DEF NoUpdate
<1>2. u \in [step : {"saved"}, late : {FALSE}] => u.step = "saved"
  OBVIOUS
<1>3. u \in UpdateOf => u.step \in {"read", "built"}
  BY DEF UpdateOf
<1> QED
  BY <1>1, <1>2, <1>3 DEF UpdateStates

LEMMA SettingsSaved ==
  ASSUME SettingsInv, NEW a \in Admins, NEW s \in SettingsChoices, SaveSettings(a, s)
  PROVE  SettingsInv'
<1>1. settings' \in Settings
  BY TranscriptsAssumption DEF SaveSettings
<1>2. ASSUME NEW b \in Admins
      PROVE  /\ updates'[b] \in UpdateStates
             /\ updates'[b].step \in {"read", "built"} => updates'[b].late
             /\ b = a => updates'[b] # NoUpdate
  <2>0. updates[b] \in UpdateStates
    BY DEF SettingsInv
  <2>1. CASE b = a
    <3> DEFINE S == [step |-> "saved", late |-> FALSE]
    <3>1. updates'[b] = S
      BY <2>1 DEF SaveSettings
    <3>2. S \in [step : {"saved"}, late : {FALSE}] /\ S.step = "saved"
      OBVIOUS
    <3> QED
      BY <3>1, <3>2 DEF UpdateStates, NoUpdate
  <2>2. CASE b # a /\ updates[b].step \in {"none", "saved"}
    <3>1. updates'[b] = updates[b]
      BY <2>2 DEF SaveSettings
    <3> QED
      BY <2>0, <2>2, <3>1
  <2>3. CASE b # a /\ updates[b].step \in {"read", "built"}
    <3>1. updates'[b] = [updates[b] EXCEPT !.late = TRUE]
      BY <2>3 DEF SaveSettings
    <3>2. updates[b] \in UpdateOf
      BY <2>0, <2>3, Updating
    <3>3. updates'[b] \in UpdateOf /\ updates'[b].late
      BY <3>1, <3>2 DEF UpdateOf
    <3> QED
      BY <2>3, <3>3 DEF UpdateStates
  <2> QED
    BY <2>0, <2>1, <2>2, <2>3, Updating
<1>3. updates' \in [Admins -> UpdateStates]
  BY <1>2 DEF SaveSettings
<1>4. SettingsTrueUnlessCrossed'
  BY <1>2 DEF SettingsTrueUnlessCrossed, NoUpdates
<1> QED
  BY <1>1, <1>2, <1>3, <1>4 DEF SettingsInv, FreshUpdate

\* A step of an update that does not end it.
LEMMA UpdateKeeps ==
  ASSUME SettingsInv, NEW a \in Admins, NEW u \in UpdateOf, SetUpdate(a, u), UNCHANGED settings,
         settingsStale \subseteq settingsStale',
         u.late <=> a \in LateUpdates, ~ u.late => u.got = settings,
         \/ u.step = "read" /\ store' = store
         \/ store' = settings.backend \/ settingsStale' # {} \/ u.late
  PROVE  SettingsInv'
<1>1. \A b \in Admins : updates'[b] = IF b = a THEN u ELSE updates[b]
  BY DEF SetUpdate, SettingsInv
<1>2. u.step \in {"read", "built"}
  BY DEF UpdateOf
<1>3. LateUpdates' = LateUpdates
  BY <1>1, <1>2 DEF LateUpdates
<1>4. updates' \in [Admins -> UpdateStates]
  BY DEF SetUpdate, SettingsInv, UpdateStates
<1>5. StoreTrue => StoreTrue'
  BY <1>3 DEF StoreTrue
<1>6. u.step # "read" => StoreTrue'
  BY <1>3 DEF StoreTrue
<1>7. SettingsTrueUnlessCrossed'
  BY <1>1, <1>2 DEF SettingsTrueUnlessCrossed, NoUpdates, NoUpdate
<1>8. ASSUME NEW b \in Admins
      PROVE  /\ FreshUpdate(b, {"read", "built"})' => updates'[b].got = settings'
             /\ FreshUpdate(b, {"built"})' => StoreTrue'
  <2>1. CASE b = a
    BY <1>1, <1>6, <2>1 DEF FreshUpdate
  <2>2. CASE b # a
    BY <1>1, <1>5, <2>2 DEF SettingsInv, FreshUpdate
  <2> QED
    BY <2>1, <2>2
<1> QED
  BY <1>4, <1>7, <1>8 DEF SettingsInv

\* One that ends it.
LEMMA UpdateEnds ==
  ASSUME SettingsInv, NEW a \in Admins, SetUpdate(a, NoUpdate), UNCHANGED <<settings, store>>,
         settingsStale \subseteq settingsStale',
         \/ settingsStale' # {}
         \/ a \notin LateUpdates /\ StoreTrue /\ enabled' = settings.enabled
  PROVE  SettingsInv'
<1>1. \A b \in Admins : updates'[b] = IF b = a THEN NoUpdate ELSE updates[b]
  BY DEF SetUpdate, SettingsInv
<1>2. NoUpdate.step = "none" /\ NoUpdate \in UpdateStates
  BY DEF NoUpdate, UpdateStates
<1>3. updates' \in [Admins -> UpdateStates]
  BY <1>2 DEF SetUpdate, SettingsInv
<1>4. settingsStale' # {} \/ (LateUpdates' = LateUpdates /\ StoreTrue')
  BY <1>1, <1>2 DEF LateUpdates, StoreTrue
<1>5. NoUpdates' => LateUpdates' = {}
  BY <1>2 DEF NoUpdates, LateUpdates
<1>6. SettingsTrueUnlessCrossed'
  BY <1>4, <1>5 DEF SettingsTrueUnlessCrossed, StoreTrue
<1>7. ASSUME NEW b \in Admins
      PROVE  /\ FreshUpdate(b, {"read", "built"})' => updates'[b].got = settings'
             /\ FreshUpdate(b, {"built"})' => StoreTrue'
  BY <1>1, <1>2, <1>4 DEF SettingsInv, FreshUpdate, StoreTrue
<1> QED
  BY <1>3, <1>6, <1>7 DEF SettingsInv

LEMMA SettingsStep ==
  ASSUME SettingsInv, SettingsNext
  PROVE  SettingsInv'
<1>1. PICK a \in Admins :
        \/ \E s \in SettingsChoices : SaveSettings(a, s)
        \/ ReadSettings(a) \/ ReadSettingsFails(a) \/ SwapStore(a) \/ SwapToFallback(a) \/ SwitchRecording(a)
  BY DEF SettingsNext
<1>0. updates[a] \in UpdateStates /\ settings \in Settings
  BY DEF SettingsInv
<1>2. CASE ReadSettings(a)
  <2> DEFINE u == [step |-> "read", late |-> updates[a].late, got |-> settings]
  <2>1. updates[a].step = "saved" /\ updates[a].late = FALSE
    BY <1>0, <1>2, Updating DEF ReadSettings
  <2>2. u \in UpdateOf /\ u.step = "read" /\ ~ u.late /\ u.got = settings /\ a \notin LateUpdates
    BY <1>0, <2>1 DEF UpdateOf, LateUpdates
  <2>3. SetUpdate(a, u) /\ UNCHANGED <<settings, store, settingsStale>>
    BY <1>2 DEF ReadSettings
  <2> HIDE DEF u
  <2> QED
    BY <2>2, <2>3, UpdateKeeps
<1>3. CASE ReadSettingsFails(a)
  BY <1>3, UpdateEnds DEF ReadSettingsFails
<1>4. CASE SwapStore(a) \/ SwapToFallback(a)
  <2> DEFINE u == [updates[a] EXCEPT !.step = "built"]
  <2>1. updates[a].step = "read" /\ updates[a] \in UpdateOf
    BY <1>0, <1>4, Updating DEF SwapStore, SwapToFallback
  <2>2. /\ u \in UpdateOf /\ u.late = updates[a].late /\ u.got = updates[a].got
        /\ u.late <=> a \in LateUpdates
    BY <2>1 DEF UpdateOf, LateUpdates
  <2>3. ~ u.late => u.got = settings
    BY <2>1, <2>2 DEF SettingsInv, FreshUpdate
  <2>4. /\ SetUpdate(a, u) /\ UNCHANGED settings
        /\ \/ store' = updates[a].got.backend /\ settingsStale' = settingsStale
           \/ settingsStale' = settingsStale \cup {"fallback"}
    BY <1>4 DEF SwapStore, SwapToFallback
  <2> HIDE DEF u
  <2>5. store' = settings.backend \/ settingsStale' # {} \/ u.late
    BY <2>2, <2>3, <2>4
  <2> QED
    BY <2>2, <2>3, <2>4, <2>5, UpdateKeeps
<1>5. CASE SwitchRecording(a)
  <2>1. updates[a].step = "built" /\ updates[a] \in UpdateOf
    BY <1>0, <1>5, Updating DEF SwitchRecording
  <2>2. /\ SetUpdate(a, NoUpdate) /\ UNCHANGED <<settings, store>> /\ enabled' = updates[a].got.enabled
        /\ settingsStale' = settingsStale \cup IF updates[a].late THEN {"crossed"} ELSE {}
    BY <1>5 DEF SwitchRecording
  <2>3. ~ updates[a].late => a \notin LateUpdates /\ updates[a].got = settings /\ StoreTrue
    BY <2>1 DEF SettingsInv, FreshUpdate, LateUpdates
  <2> QED
    BY <2>2, <2>3, UpdateEnds
<1> QED
  BY <1>1, <1>2, <1>3, <1>4, <1>5, SettingsSaved

LEMMA SettingsSpec ==
  /\ Init => SettingsInv
  /\ SettingsInv /\ [Next]_vars => SettingsInv'
<1>1. ASSUME Init
      PROVE  SettingsInv
  <2>1. PICK p \in Plans : TranscriptsInit(p.recorded) /\ p.recorded \in BOOLEAN
    BY <1>1, TurnsAssumption DEF Init, PlanType
  <2>2. \A a \in Admins : updates[a].step = "none"
    BY <2>1 DEF TranscriptsInit, NoUpdate
  <2>3. settings = [enabled |-> p.recorded, backend |-> "db", retention |-> 0]
    BY <2>1 DEF TranscriptsInit
  <2>4. settings \in Settings
    BY <2>1, <2>3 DEF Settings, Backends
  <2>5. updates \in [Admins -> UpdateStates]
    BY <2>1 DEF TranscriptsInit, UpdateStates
  <2>6. SettingsTrueUnlessCrossed
    BY <2>1, <2>3 DEF TranscriptsInit, SettingsTrueUnlessCrossed
  <2> QED
    BY <2>2, <2>4, <2>5, <2>6 DEF SettingsInv, FreshUpdate
<1>2. Next => SettingsNext \/ UNCHANGED chosen
  <2>1. Meanwhile => SettingsNext \/ UNCHANGED chosen
    BY DEF Meanwhile, ChangeLimits, ChangePolicy, ChangeSettings, Purge, TimePasses, Signal, StopRecorder, Exit,
           PurgeReads, PurgeDeletes, PurgeFails, CloseRecorder, transcriptVars, SettingsNext
  <2>2. Work => UNCHANGED chosen
    BY DEF Work, WorkerTakes, WorkerSaves, WorkerFails, WorkerEnds
  <2>3. ASSUME NEW h \in Handlers, Turn(h)
        PROVE  UNCHANGED chosen
    BY <2>3 DEF Turn, Begin, FindLimits, Admit, Refuse, EnterGate, PassGate, Answered, Broken, ClientLeaves,
                RecordTurn, Enqueue, RecordPanics, CountTurn, CountFails, transcriptVars
  <2> QED
    BY <2>1, <2>2, <2>3 DEF Next
<1>3. SettingsInv /\ UNCHANGED chosen => SettingsInv'
  BY DEF chosen, SettingsInv, FreshUpdate, StoreTrue, LateUpdates, SettingsTrueUnlessCrossed, NoUpdates
<1> QED
  BY <1>1, <1>2, <1>3, SettingsStep DEF vars, transcriptVars

\* The default limits, the tool policy and the recorder's settings that a process works from
\* are the stored ones, but for changes under way, from elsewhere, failed or overtaken.
THEOREM CopiesAreTrue == Spec => []CopiesTrueUnlessCrossed
<1>1. ServedInv /\ PolicyInv /\ SettingsInv => CopiesTrueUnlessCrossed
  BY DEF ServedInv, QuotaInv, PolicyInv, SettingsInv, CopiesTrueUnlessCrossed
<1> QED
  BY <1>1, ServedInit, ServedStep, PolicySpec, SettingsSpec, PTL DEF Spec

-----------------------------------------------------------------------------
(* The counters of a week and of a month *)

AnyOf(days) == [T \in SUBSET days |-> CHOOSE x \in T : TRUE]

LEMMA AnyOfIsIn ==
  ASSUME NEW days
  PROVE  \A T \in SUBSET days : T # {} => AnyOf(days)[T] \in T
<1> SUFFICES ASSUME NEW T \in SUBSET days, T # {} PROVE AnyOf(days)[T] \in T
  OBVIOUS
<1>1. AnyOf(days)[T] = CHOOSE x \in T : TRUE
  BY DEF AnyOf
<1> QED
  BY <1>1

LEMMA SumUnfolds ==
  ASSUME NEW used, NEW days, IsFiniteSet(days),
         NEW val \in [days -> Nat], \A d \in days : val[d] = used[<<"day", d>>]
  PROVE  \E g : Totals(g, days, val, AnyOf(days)) /\ Sum(used, days) = g[days]
<1> DEFINE Unfolds(g) == g = [T \in SUBSET days |->
                           IF T = {} THEN 0 ELSE used[<<"day", CHOOSE x \in T : TRUE>>]
                                                   + g[T \ {CHOOSE x \in T : TRUE}]]
           g == CHOOSE f : Unfolds(f)
           pick == AnyOf(days)
<1>0. \A T \in SUBSET days : pick[T] = CHOOSE x \in T : TRUE
  BY Zenon DEF AnyOf
<1> HIDE DEF pick
<1>1. ASSUME NEW T \in SUBSET days, T # {}
      PROVE  pick[T] \in T /\ pick[T] \in days
  BY <1>0, <1>1
<1>2. PICK f : Totals(f, days, val, pick)
  BY <1>1, TotalsExist
<1>3. ASSUME NEW T \in SUBSET days, T # {}
      PROVE  val[pick[T]] = used[<<"day", CHOOSE x \in T : TRUE>>]
  BY <1>0, <1>1, <1>3
<1>4. Unfolds(f)
  <2>1. ASSUME NEW T \in SUBSET days, T # {}
        PROVE  f[T] = used[<<"day", CHOOSE x \in T : TRUE>>] + f[T \ {CHOOSE x \in T : TRUE}]
    BY <1>0, <1>2, <1>3, <2>1 DEF Totals
  <2>2. f[{}] = 0
    BY <1>2 DEF Totals
  <2>3. \A T \in SUBSET days : f[T] = IF T = {} THEN 0 ELSE used[<<"day", CHOOSE x \in T : TRUE>>]
                                                   + f[T \ {CHOOSE x \in T : TRUE}]
    BY <2>1, <2>2
  <2>4. f = [T \in SUBSET days |-> f[T]]
    BY <1>2 DEF Totals
  <2> QED
    BY <2>3, <2>4
<1>5. Unfolds(g)
  <2> HIDE DEF Unfolds
  <2> QED
    BY <1>4
<1>6. Sum(used, days) = g[days]
  BY DEF Sum, MapThenSumSet, MapThenFoldSet
<1> HIDE DEF g
<1>7. \A T \in SUBSET days : g[T] = IF T = {} THEN 0 ELSE used[<<"day", CHOOSE x \in T : TRUE>>]
                                                   + g[T \ {CHOOSE x \in T : TRUE}]
  BY <1>5
<1>8. g = [T \in SUBSET days |-> g[T]]
  BY <1>5
<1>9. \A T \in SUBSET days : g[T] = IF T = {} THEN 0 ELSE val[pick[T]] + g[T \ {pick[T]}]
  <2>1. ASSUME NEW T \in SUBSET days, T # {} PROVE g[T] = val[pick[T]] + g[T \ {pick[T]}]
    <3>1. g[T] = used[<<"day", CHOOSE x \in T : TRUE>>] + g[T \ {CHOOSE x \in T : TRUE}]
      BY <1>7, <2>1
    <3>2. pick[T] = CHOOSE x \in T : TRUE
      BY <1>0
    <3> QED
      BY <1>3, <2>1, <3>1, <3>2
  <2>2. g[{}] = 0
    BY <1>7
  <2> QED
    BY <2>1, <2>2
<1>10. Totals(g, days, val, pick)
  BY <1>1, <1>8, <1>9, TotalsUnfold
<1> QED
  BY <1>6, <1>10 DEF pick


LEMMA SumGrows ==
  ASSUME NEW used, NEW more, NEW days, IsFiniteSet(days), NEW today, NEW n \in Nat,
         \A d \in days : /\ used[<<"day", d>>] \in Nat
                         /\ more[<<"day", d>>] = used[<<"day", d>>] + IF d = today THEN n ELSE 0
  PROVE  Sum(more, days) = Sum(used, days) + IF today \in days THEN n ELSE 0
<1> DEFINE val == [d \in days |-> used[<<"day", d>>]]
           new == [d \in days |-> more[<<"day", d>>]]
<1>1. val \in [days -> Nat] /\ \A d \in days : val[d] = used[<<"day", d>>]
  OBVIOUS
<1>2. new \in [days -> Nat] /\ \A d \in days : new[d] = more[<<"day", d>>]
  <2>1. \A d \in days : new[d] = more[<<"day", d>>]
    OBVIOUS
  <2>2. ASSUME NEW d \in days PROVE more[<<"day", d>>] \in Nat
    <3>1. (IF d = today THEN n ELSE 0) \in Nat
      OBVIOUS
    <3> QED
      BY <3>1
  <2> QED
    BY <2>1, <2>2
<1> HIDE DEF val, new
<1>4. PICK g : Totals(g, days, val, AnyOf(days)) /\ Sum(used, days) = g[days]
  BY <1>1, SumUnfolds
<1>5. PICK h : Totals(h, days, new, AnyOf(days)) /\ Sum(more, days) = h[days]
  BY <1>2, SumUnfolds
<1>6. \A T \in SUBSET days : T # {} => AnyOf(days)[T] \in T
  BY AnyOfIsIn
<1>7. Grows(new, val, days, today, n)
  BY <1>1, <1>2 DEF Grows
<1>8. \A T \in SUBSET days : h[T] = g[T] + IF today \in T THEN n ELSE 0
  <2> DEFINE pick == AnyOf(days)
  <2> HIDE DEF pick
  <2>1. /\ Totals(g, days, val, pick) /\ Totals(h, days, new, pick)
        /\ \A T \in SUBSET days : T # {} => pick[T] \in T
    BY <1>4, <1>5, <1>6 DEF pick
  <2>2. val \in [days -> Nat]
    BY <1>1
  <2>3. new \in [days -> Nat]
    BY <1>2
  <2> QED
    BY <1>7, <2>1, <2>2, <2>3, TotalsGrow
<1> QED
  BY <1>4, <1>5, <1>8

LEMMA SumOfNothing ==
  ASSUME NEW used, NEW days, IsFiniteSet(days), \A d \in days : used[<<"day", d>>] = 0
  PROVE  Sum(used, days) = 0
<1> DEFINE val == [d \in days |-> used[<<"day", d>>]]
<1>1. val \in [days -> Nat] /\ \A d \in days : val[d] = used[<<"day", d>>] /\ val[d] = 0
  <2>1. \A d \in days : val[d] = used[<<"day", d>>] /\ val[d] = 0
    OBVIOUS
  <2> QED
    BY <2>1
<1> HIDE DEF val
<1>3. PICK g : Totals(g, days, val, AnyOf(days)) /\ Sum(used, days) = g[days]
  BY <1>1, SumUnfolds
<1>4. \A T \in SUBSET days : T # {} => AnyOf(days)[T] \in T
  BY AnyOfIsIn
<1>5. \A T \in SUBSET days : g[T] = 0
  <2> DEFINE pick == AnyOf(days)
  <2> HIDE DEF pick
  <2>1. /\ Totals(g, days, val, pick)
        /\ \A T \in SUBSET days : T # {} => pick[T] \in T
    BY <1>3, <1>4 DEF pick
  <2>2. val \in [days -> Nat]
    BY <1>1
  <2>3. \A d \in days : val[d] = 0
    BY <1>1
  <2> QED
    BY <2>1, <2>2, <2>3, TotalsOfNothing
<1> QED
  BY <1>3, <1>5

LEMMA DaysOfFinite ==
  ASSUME NEW start, NEW k
  PROVE  IsFiniteSet(DaysOf(start, k))
<1>1. ASSUME NEW t \in 0 .. MaxClock
      PROVE  Day(t) \in 0 .. MaxClock
  <2>1. t \in Nat /\ DayTicks \in Nat /\ DayTicks >= 1 /\ Day(t) \in Nat
    BY QuotaAssumption DEF Day
  <2>2. Day(t) <= t
    BY <2>1, SMT DEF Day
  <2> QED
    BY <2>1, <2>2, QuotaAssumption
<1>2. DaysOf(start, k) \subseteq 0 .. MaxClock
  BY <1>1 DEF DaysOf
<1>3. IsFiniteSet(0 .. MaxClock)
  BY QuotaAssumption, FS_Interval
<1> QED
  BY <1>2, <1>3, FS_Subset

\* A window that spans days, and the day on which it starts anew.
Spans(w, start) == (w = "week" /\ start = Monday) \/ (w = "month" /\ start = First)

LEMMA DaysCounted ==
  ASSUME NEW w, NEW start, Spans(w, start), NEW p \in Periods, p[1] = w, NEW t \in 0 .. MaxClock
  PROVE  /\ \A d \in DaysOf(start, p[2]) :
               <<"day", d>> \in Periods /\ (<<"day", d>> \in PeriodKeys(t) <=> d = Day(t))
         /\ p \in PeriodKeys(t) <=> Day(t) \in DaysOf(start, p[2])
<1>1. ASSUME NEW s \in 0 .. MaxClock
      PROVE  /\ Day(s) \in Nat
             /\ PeriodKey("day", s) = <<"day", Day(s)>>
             /\ PeriodKey(w, s) = <<w, Since(Day(s), start)>>
             /\ w \in Windows /\ w # "day"
  BY QuotaAssumption DEF Day, PeriodKey, Spans, Windows
<1>2. ASSUME NEW s \in 0 .. MaxClock, NEW k
      PROVE  /\ <<"day", k>> \in PeriodKeys(s) <=> k = Day(s)
             /\ <<w, k>> \in PeriodKeys(s) <=> k = Since(Day(s), start)
  <2>1. PeriodKeys(s) = {PeriodKey("day", s), PeriodKey("week", s), PeriodKey("month", s)}
    BY DEF PeriodKeys, Windows
  <2>2. \A v \in Windows : PeriodKey(v, s)[1] = v
    BY PeriodFacts
  <2> QED
    BY <1>1, <2>1, <2>2 DEF Windows
<1>3. PICK s \in 0 .. MaxClock, v \in Windows : p = PeriodKey(v, s)
  BY DEF Periods, PeriodKeys
<1>4. p = <<w, p[2]>>
  BY <1>3, PeriodFacts
<1>5. p \in PeriodKeys(t) <=> p[2] = Since(Day(t), start)
  BY <1>2, <1>4
<1>6. p \in PeriodKeys(t) <=> Day(t) \in DaysOf(start, p[2])
  BY <1>5 DEF DaysOf
<1>7. ASSUME NEW d \in DaysOf(start, p[2])
      PROVE  <<"day", d>> \in Periods
  <2>1. PICK u \in 0 .. MaxClock : d = Day(u)
    BY DEF DaysOf
  <2> QED
    BY <1>1, <2>1, PeriodFacts DEF Windows
<1> QED
  BY <1>2, <1>6, <1>7

\* A counter of a longer window is the sum of those of its days.
Agree(w, start, m) ==
    \A p \in Periods : p[1] = w => usage[m][p] = Sum(usage[m], DaysOf(start, p[2]))

LEMMA AgreeAll ==
  CountersAgree <=> \A m \in Members : Agree("week", Monday, m) /\ Agree("month", First, m)
BY DEF CountersAgree, Agree

LEMMA UsageKeepsAgreeing ==
  ASSUME QuotaTypes, NEW m \in Members, NEW n \in Nat, AddUsage(m, n),
         NEW w, NEW start, Spans(w, start), Agree(w, start, m)
  PROVE  Agree(w, start, m)'
<1> SUFFICES ASSUME NEW p \in Periods, p[1] = w
             PROVE  usage'[m][p] = Sum(usage'[m], DaysOf(start, p[2]))
  BY DEF Agree
<1> DEFINE days == DaysOf(start, p[2])
           used == usage[m]
           more == usage'[m]
<1>1. /\ clock \in 0 .. MaxClock
      /\ used \in [Periods -> Nat]
      /\ more = [q \in Periods |-> used[q] + IF q \in PeriodKeys(clock) THEN n ELSE 0]
  BY DEF QuotaTypes, AddUsage
<1>2. used[p] = Sum(used, days)
  BY DEF Agree
<1> HIDE DEF used, more, days
<1>3. \A d \in days : <<"day", d>> \in Periods /\ (<<"day", d>> \in PeriodKeys(clock) <=> d = Day(clock))
  BY <1>1, DaysCounted DEF days
<1>4. p \in PeriodKeys(clock) <=> Day(clock) \in days
  BY <1>1, DaysCounted DEF days
<1>5. IsFiniteSet(days)
  BY DaysOfFinite DEF days
<1>6. \A d \in days : /\ used[<<"day", d>>] \in Nat
                      /\ more[<<"day", d>>] = used[<<"day", d>>] + IF d = Day(clock) THEN n ELSE 0
  BY <1>1, <1>3
<1>7. Sum(more, days) = Sum(used, days) + IF Day(clock) \in days THEN n ELSE 0
  BY <1>5, <1>6, SumGrows
<1>8. more[p] = Sum(more, days)
  BY <1>1, <1>2, <1>4, <1>7
<1> QED
  BY <1>8 DEF more, days

LEMMA NothingAgrees ==
  ASSUME NEW used, \A p \in Periods : used[p] = 0, NEW w, NEW start, Spans(w, start),
         NEW p \in Periods, p[1] = w
  PROVE  used[p] = Sum(used, DaysOf(start, p[2]))
<1>1. 0 \in 0 .. MaxClock
  BY QuotaAssumption
<1>2. \A d \in DaysOf(start, p[2]) : used[<<"day", d>>] = 0
  BY <1>1, DaysCounted
<1> QED
  BY <1>2, DaysOfFinite, SumOfNothing

LEMMA AgreeStep ==
  ASSUME QuotaTypes, CountersAgree, QuotaNext
  PROVE  CountersAgree'
<1>0. Spans("week", Monday) /\ Spans("month", First)
  BY DEF Spans
<1>1. ASSUME usage' = usage
      PROVE  CountersAgree'
  BY <1>1 DEF CountersAgree
<1>2. ASSUME NEW m \in Members, NEW n \in 1 .. MaxTokens, AddUsage(m, n)
      PROVE  CountersAgree'
  <2>1. n \in Nat
    BY TurnsAssumption
  <2>2. Agree("week", Monday, m)' /\ Agree("month", First, m)'
    BY <1>0, <1>2, <2>1, AgreeAll, UsageKeepsAgreeing
  <2>3. \A k \in Members \ {m} : usage'[k] = usage[k]
    BY <1>2 DEF AddUsage, QuotaTypes
  <2>4. \A k \in Members \ {m} : Agree("week", Monday, k)' /\ Agree("month", First, k)'
    BY <2>3, AgreeAll DEF Agree
  <2> QED
    BY <2>2, <2>4 DEF CountersAgree, Agree
<1>3. ASSUME NEW m \in Members, ResetUsage(m)
      PROVE  CountersAgree'
  <2>1. \A p \in Periods : usage'[m][p] = 0
    BY <1>3 DEF ResetUsage, QuotaTypes
  <2>2. Agree("week", Monday, m)' /\ Agree("month", First, m)'
    BY <1>0, <2>1, NothingAgrees DEF Agree
  <2>3. \A k \in Members \ {m} : usage'[k] = usage[k]
    BY <1>3 DEF ResetUsage, QuotaTypes
  <2>4. \A k \in Members \ {m} : Agree("week", Monday, k)' /\ Agree("month", First, k)'
    BY <2>3, AgreeAll DEF Agree
  <2> QED
    BY <2>2, <2>4 DEF CountersAgree, Agree
<1>4. Tick \/ (\E h \in Handlers : QuotaStepOf(h))
        \/ (\E a \in Admins : ClearCopy(a) \/ \E l \in LimitChoices : WriteDefaultLimits(a, l))
        \/ (\E l \in LimitChoices : WriteDefaultLimitsElsewhere(l) \/ \E m \in Members : SetMemberLimits(m, l))
      => usage' = usage
  BY DEF Tick, QuotaStepOf, ReadMemberLimits, DefaultLimitsCached, FetchDefaultLimits, StoreDefaultLimits,
         CheckEnds, ClearCopy, WriteDefaultLimits, WriteDefaultLimitsElsewhere, SetMemberLimits, database
<1> QED
  BY <1>1, <1>2, <1>3, <1>4 DEF QuotaNext

\* A member's weekly and monthly counters are the sums of the daily ones, for calendars of
\* any length.
THEOREM CountersAgreeAlways == Spec => []CountersAgree
<1>1. Init => CountersAgree
  <2> SUFFICES ASSUME Init PROVE CountersAgree
    OBVIOUS
  <2>1. \A m \in Members, p \in Periods : usage[m][p] = 0
    BY DEF Init, QuotaInit
  <2>2. ASSUME NEW m \in Members, NEW w, NEW start, Spans(w, start)
        PROVE  Agree(w, start, m)
    BY <2>1, <2>2, NothingAgrees DEF Agree
  <2>3. Spans("week", Monday) /\ Spans("month", First)
    BY DEF Spans
  <2> QED
    BY <2>2, <2>3, AgreeAll
<1>2. ServedInv /\ CountersAgree /\ [Next]_vars => CountersAgree'
  <2> SUFFICES ASSUME ServedInv, CountersAgree, [Next]_vars PROVE CountersAgree'
    OBVIOUS
  <2>1. quotaVars' = quotaVars => CountersAgree'
    BY DEF quotaVars, database, CountersAgree
  <2>2. vars' = vars => quotaVars' = quotaVars
    BY DEF vars
  <2> QED
    BY <2>1, <2>2, QuotaSteps, AgreeStep DEF ServedInv, FateInv, QuotaInv
<1> QED
  BY <1>1, <1>2, ServedInit, ServedStep, PTL DEF Spec

=============================================================================
