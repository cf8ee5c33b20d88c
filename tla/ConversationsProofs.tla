------------------------- MODULE ConversationsProofs -------------------------
(***************************************************************************)
(* What Conversations guarantees for any number of members, requests,      *)
(* conversations and administrators: agent sessions stay their owners',    *)
(* the copies of the settings come to be the stored ones, and the cap is   *)
(* passed by a bounded number.                                             *)
(***************************************************************************)
EXTENDS Conversations, FiniteSetTheorems, TLAPS

-----------------------------------------------------------------------------
(* Agent sessions *)

PutOf == [step : {"get", "update", "insert"}, by : Members, id : SessionIds]

\* A PUT under way knows who it is from and about what.
SessionsInv ==
    /\ put \in [Putters -> {NoPut} \cup PutOf]
    /\ sessions \in [SessionIds -> {NoSession} \cup [owner : Members, data : Members]]
    /\ SessionsAreTheirOwners

SessionsNext ==
    \/ \E m \in Members, i \in SessionIds : Delete(m, i) \/ \E p \in Putters : FindOwner(p, m, i)
    \/ \E p \in Putters : Get(p) \/ Update(p) \/ Insert(p) \/ PutFails(p)

LEMMA Putting ==
  ASSUME SessionsInv, NEW p \in Putters, put[p].step # "none"
  PROVE  put[p].by \in Members /\ put[p].id \in SessionIds
<1>1. put[p] \in PutOf
  BY DEF SessionsInv, NoPut
<1> QED
  BY <1>1 DEF PutOf

LEMMA SessionsStep ==
  ASSUME SessionsInv, SessionsNext
  PROVE  SessionsInv'
<1> USE DEF SessionsInv
<1>1. ASSUME NEW m \in Members, NEW i \in SessionIds, Delete(m, i)
      PROVE  SessionsInv'
  <2>1. put' = put /\ sessions' = [sessions EXCEPT ![i] = NoSession]
    BY <1>1 DEF Delete
  <2>2. SessionsAreTheirOwners'
    BY <2>1 DEF SessionsAreTheirOwners, Kept
  <2> QED
    BY <2>1, <2>2
<1>2. ASSUME NEW m \in Members, NEW i \in SessionIds, NEW p \in Putters, FindOwner(p, m, i)
      PROVE  SessionsInv'
  <2>1. sessions' = sessions
    BY <1>2 DEF FindOwner
  <2>2. put' \in [Putters -> {NoPut} \cup PutOf]
    BY <1>2 DEF FindOwner, PutOf
  <2> QED
    BY <2>1, <2>2 DEF SessionsAreTheirOwners, Kept
<1>3. ASSUME NEW p \in Putters, put' = [put EXCEPT ![p] = NoPut]
      PROVE  put' \in [Putters -> {NoPut} \cup PutOf]
  BY <1>3
<1>4. ASSUME NEW p \in Putters, Get(p)
      PROVE  SessionsInv'
  <2>1. sessions' = sessions
    BY <1>4 DEF Get
  <2>2. put[p] \in PutOf
    BY <1>4 DEF Get, At, NoPut
  <2>3. put' \in [Putters -> {NoPut} \cup PutOf]
    BY <1>3, <1>4, <2>2 DEF Get, PutOf, Answer
  <2> QED
    BY <2>1, <2>3 DEF SessionsAreTheirOwners, Kept
<1>5. ASSUME NEW p \in Putters, Update(p)
      PROVE  SessionsInv'
  <2>1. put' \in [Putters -> {NoPut} \cup PutOf]
    BY <1>3, <1>5 DEF Update, Answer
  <2>2. CASE Owns(put[p].by, put[p].id)
    <3>1. sessions' = [sessions EXCEPT ![put[p].id].data = put[p].by]
      BY <1>5, <2>2 DEF Update
    <3>2. put[p].id \in Kept /\ sessions[put[p].id].owner = put[p].by
      BY <2>2 DEF Owns
    <3>3. put[p].id \in SessionIds
      BY <3>2 DEF Kept
    <3>4. ASSUME NEW i \in Kept'
          PROVE  sessions'[i].data = sessions'[i].owner
      <4>1. CASE i = put[p].id
        <5>1. sessions'[i] = [sessions[i] EXCEPT !.data = put[p].by]
          BY <3>1, <3>3, <4>1
        <5>2. sessions[i] \in [owner : Members, data : Members]
          BY <3>2, <4>1 DEF Kept
        <5> QED
          BY <3>2, <4>1, <5>1, <5>2
      <4>2. CASE i # put[p].id
        BY <3>1, <3>4, <4>2 DEF SessionsAreTheirOwners, Kept
      <4> QED
        BY <4>1, <4>2
    <3>5. sessions' \in [SessionIds -> {NoSession} \cup [owner : Members, data : Members]]
      <4>1. sessions[put[p].id] \in [owner : Members, data : Members]
        BY <3>2, <3>3 DEF Kept
      <4>2. put[p].by \in Members
        BY <1>5, Putting DEF Update, At
      <4>3. [sessions[put[p].id] EXCEPT !.data = put[p].by] \in [owner : Members, data : Members]
        BY <4>1, <4>2
      <4> QED
        BY <3>1, <3>3, <4>3
    <3> QED
      BY <2>1, <3>4, <3>5 DEF SessionsAreTheirOwners
  <2>3. CASE ~ Owns(put[p].by, put[p].id)
    BY <1>5, <2>1, <2>3 DEF Update, SessionsAreTheirOwners, Kept
  <2> QED
    BY <2>2, <2>3
<1>6. ASSUME NEW p \in Putters, Insert(p)
      PROVE  SessionsInv'
  <2>1. put' \in [Putters -> {NoPut} \cup PutOf]
    BY <1>3, <1>6 DEF Insert, Answer
  <2>2. SessionsAreTheirOwners'
    BY <1>6 DEF Insert, SessionsAreTheirOwners, Kept
  <2>3. sessions' \in [SessionIds -> {NoSession} \cup [owner : Members, data : Members]]
    BY <1>6, Putting DEF Insert, At
  <2> QED
    BY <2>1, <2>2, <2>3
<1>7. ASSUME NEW p \in Putters, PutFails(p)
      PROVE  SessionsInv'
  BY <1>3, <1>7 DEF PutFails, Answer, SessionsAreTheirOwners, Kept
<1> QED
  BY <1>1, <1>2, <1>4, <1>5, <1>6, <1>7 DEF SessionsNext

LEMMA SessionsSpec ==
  /\ Init => SessionsInv
  /\ SessionsInv /\ [Next]_vars => SessionsInv'
<1>1. Init => SessionsInv
  BY DEF Init, SessionsInit, SessionsInv, SessionsAreTheirOwners, Kept
<1>2. Next => sessionVars' = sessionVars \/ SessionsNext
  BY DEF Next, Create, Remove, Push, Limit, ChangeSettings, Call, Answering, SessionsNext
<1>3. SessionsInv /\ sessionVars' = sessionVars => SessionsInv'
  BY DEF sessionVars, SessionsInv, SessionsAreTheirOwners, Kept
<1> QED
  BY <1>1, <1>2, <1>3, SessionsStep DEF vars

\* A session holds only what its owner has put, however requests of several members under
\* one id cross.
THEOREM OwnersKeepTheirSessions == Spec => []SessionsAreTheirOwners
<1>1. SessionsInv => SessionsAreTheirOwners
  BY DEF SessionsInv
<1> QED
  BY <1>1, SessionsSpec, PTL DEF Spec

-----------------------------------------------------------------------------
(* Settings *)

UpdateStates ==
    {NoUpdate} \cup [step : {"saved"}, late : {FALSE}]
               \cup [step : {"read", "kept"}, late : BOOLEAN, got : Settings]

\* A reload has read what is stored, unless it is late; and once it has kept the store, that
\* is the one in use, unless another that is late will be in its place.
Late == {d \in Admins : updates[d].step \in {"read", "kept"} /\ updates[d].late}
Fresh(d, step) == updates[d].step = step /\ ~ updates[d].late

SettingsInv ==
    /\ settings \in Settings
    /\ updates \in [Admins -> UpdateStates]
    /\ \A d \in Admins : Fresh(d, "read") \/ Fresh(d, "kept") => updates[d].got = settings
    /\ \A d \in Admins : Fresh(d, "kept") =>
           store = settings.backend \/ stale # {} \/ Late # {}
    /\ SettingsTrueUnlessCrossed

SettingsNext ==
    \E d \in Admins :
        \/ \E s \in SettingsChoices : SaveSettings(d, s)
        \/ ReadSettings(d) \/ ReadSettingsFails(d) \/ KeepStore(d) \/ KeepMax(d)

LEMMA Reading ==
  ASSUME NEW u \in UpdateStates
  PROVE  /\ u.step \in {"none", "saved", "read", "kept"}
         /\ u.step = "none" <=> u = NoUpdate
         /\ u.step = "saved" => u \in [step : {"saved"}, late : {FALSE}]
         /\ u.step \in {"read", "kept"} => u \in [step : {"read", "kept"}, late : BOOLEAN, got : Settings]
<1>1. u = NoUpdate => u.step = "none"
  BY DEF NoUpdate
<1>2. u \in [step : {"saved"}, late : {FALSE}] => u.step = "saved"
  OBVIOUS
<1>3. u \in [step : {"read", "kept"}, late : BOOLEAN, got : Settings] => u.step \in {"read", "kept"}
  OBVIOUS
<1> QED
  BY <1>1, <1>2, <1>3 DEF UpdateStates

LEMMA SavingKeeps ==
  ASSUME SettingsInv, NEW d \in Admins, NEW s \in SettingsChoices, SaveSettings(d, s)
  PROVE  SettingsInv'
<1> USE DEF SettingsInv
<1> DEFINE S == [step |-> "saved", late |-> FALSE]
<1>1. /\ settings' = s /\ s \in Settings
      /\ updates' = Overtake(d)
  BY SessionSettingsAssumption DEF SaveSettings
<1>2. ASSUME NEW e \in Admins
      PROVE  /\ updates'[e] \in UpdateStates
             /\ updates'[e].step \in {"read", "kept"} => updates'[e].late
             /\ e = d => updates'[e] # NoUpdate
  <2>1. CASE e = d
    <3>1. updates'[e] = S
      BY <1>1, <2>1 DEF Overtake
    <3>2. S \in [step : {"saved"}, late : {FALSE}]
      OBVIOUS
    <3>3. S.step = "saved"
      OBVIOUS
    <3> QED
      BY <3>1, <3>2, <3>3 DEF UpdateStates, NoUpdate
  <2>2. CASE e # d /\ updates[e].step \in {"none", "saved"}
    <3>1. updates'[e] = updates[e]
      BY <1>1, <2>2 DEF Overtake
    <3> QED
      BY <3>1, <2>2
  <2>3. CASE e # d /\ updates[e].step \notin {"none", "saved"}
    <3>1. updates[e].step \in {"read", "kept"}
      BY <2>3, Reading
    <3>2. updates'[e] = [updates[e] EXCEPT !.late = TRUE]
      BY <1>1, <2>3, <3>1 DEF Overtake
    <3>3. updates[e] \in [step : {"read", "kept"}, late : BOOLEAN, got : Settings]
      BY <3>1, Reading
    <3>4. updates'[e] \in [step : {"read", "kept"}, late : BOOLEAN, got : Settings] /\ updates'[e].late
      BY <3>2, <3>3
    <3> QED
      BY <3>4, <2>3 DEF UpdateStates
  <2> QED
    BY <2>1, <2>2, <2>3
<1>3. updates' \in [Admins -> UpdateStates]
  BY <1>1, <1>2 DEF Overtake
<1>4. SettingsTrueUnlessCrossed'
  BY <1>2 DEF SettingsTrueUnlessCrossed, NoUpdates
<1> QED
  BY <1>1, <1>2, <1>3, <1>4 DEF Fresh

\* A step of a reload that leaves the settings and the other requests alone.
LEMMA ReloadingKeeps ==
  ASSUME SettingsInv, NEW d \in Admins, NEW u \in UpdateStates,
         updates' = [updates EXCEPT ![d] = u], settings' = settings,
         u.step \in {"read", "kept"} /\ ~ u.late => u.got = settings,
         u.step \in {"read", "kept"} /\ u.late <=> d \in Late,
         stale \subseteq stale',
         \A e \in Admins : Fresh(e, "kept")' =>
             store' = settings.backend \/ stale' # {} \/ Late # {},
         SettingsTrueUnlessCrossed'
  PROVE  SettingsInv'
<1>1. updates' \in [Admins -> UpdateStates]
  BY DEF SettingsInv
<1>2. \A e \in Admins : updates'[e] = IF e = d THEN u ELSE updates[e]
  BY DEF SettingsInv
<1>3. Late' = Late
  BY <1>2 DEF Late
<1>4. \A e \in Admins : Fresh(e, "read")' \/ Fresh(e, "kept")' => updates'[e].got = settings
  BY <1>2 DEF SettingsInv, Fresh
<1> QED
  BY <1>1, <1>3, <1>4 DEF SettingsInv, Fresh

LEMMA SettingsStep ==
  ASSUME SettingsInv, SettingsNext
  PROVE  SettingsInv'
<1> DEFINE Reload == [step : {"read", "kept"}, late : BOOLEAN, got : Settings]
<1>1. ASSUME NEW d \in Admins, ReadSettings(d)
      PROVE  SettingsInv'
  <2> DEFINE u == [step |-> "read", late |-> updates[d].late, got |-> settings]
  <2>1. updates[d].step = "saved" /\ updates[d].late = FALSE
    BY <1>1, Reading DEF ReadSettings, SettingsInv
  <2>2. u \in Reload /\ u.step = "read" /\ ~ u.late /\ u.got = settings
    BY <2>1 DEF SettingsInv
  <2>3. /\ updates' = [updates EXCEPT ![d] = u]
        /\ settings' = settings /\ store' = store /\ defaultMax' = defaultMax /\ stale' = stale
    BY <1>1 DEF ReadSettings, SetUpdate, copies
  <2>4. \A e \in Admins : updates'[e] = IF e = d THEN u ELSE updates[e]
    BY <2>3 DEF SettingsInv
  <2>5. \A e \in Admins : Fresh(e, "kept")' => Fresh(e, "kept")
    BY <2>2, <2>4 DEF Fresh
  <2>6. SettingsTrueUnlessCrossed'
    BY <2>2, <2>4 DEF SettingsTrueUnlessCrossed, NoUpdates, NoUpdate
  <2>7. d \notin Late
    BY <2>1 DEF Late
  <2>8. u \in UpdateStates
    BY <2>2 DEF UpdateStates
  <2> HIDE DEF u
  <2> QED
    BY <2>2, <2>3, <2>5, <2>6, <2>7, <2>8, ReloadingKeeps DEF SettingsInv
<1>2. ASSUME NEW d \in Admins, ReadSettingsFails(d)
      PROVE  SettingsInv'
  <2>1. updates[d].step = "saved" /\ updates[d].late = FALSE
    BY <1>2, Reading DEF ReadSettingsFails, SettingsInv
  <2>2. /\ updates' = [updates EXCEPT ![d] = NoUpdate]
        /\ settings' = settings /\ stale' = stale \cup {"failed"}
    BY <1>2 DEF ReadSettingsFails, SetUpdate
  <2>3. SettingsTrueUnlessCrossed' /\ stale' # {}
    BY <2>2 DEF SettingsTrueUnlessCrossed
  <2>4. d \notin Late /\ NoUpdate \in UpdateStates /\ NoUpdate.step = "none"
    BY <2>1 DEF Late, UpdateStates, NoUpdate
  <2> QED
    BY <2>2, <2>3, <2>4, ReloadingKeeps
<1>3. ASSUME NEW d \in Admins, KeepStore(d)
      PROVE  SettingsInv'
  <2> DEFINE u == [updates[d] EXCEPT !.step = "kept"]
  <2>1. updates[d] \in Reload /\ updates[d].step = "read"
    BY <1>3, Reading DEF KeepStore, SettingsInv
  <2>2. u \in Reload /\ u.step = "kept" /\ u.late = updates[d].late /\ u.got = updates[d].got
    BY <2>1
  <2>3. /\ updates' = [updates EXCEPT ![d] = u] /\ settings' = settings
        /\ \/ store' = updates[d].got.backend /\ stale' = stale
           \/ stale' = stale \cup {"fallback"}
    BY <1>3 DEF KeepStore, SetUpdate
  <2>4. \A e \in Admins : updates'[e] = IF e = d THEN u ELSE updates[e]
    BY <2>3 DEF SettingsInv
  <2>5. ~ updates[d].late => updates[d].got = settings
    BY <2>1 DEF SettingsInv, Fresh
  <2>6. updates[d].late <=> d \in Late
    BY <2>1 DEF Late
  <2>7. store' = settings.backend \/ stale' # {} \/ Late # {}
    BY <2>3, <2>5, <2>6
  <2>8. SettingsTrueUnlessCrossed'
    BY <2>2, <2>4 DEF SettingsTrueUnlessCrossed, NoUpdates, NoUpdate
  <2>9. u \in UpdateStates
    BY <2>2 DEF UpdateStates
  <2> HIDE DEF u
  <2> QED
    BY <2>2, <2>3, <2>5, <2>6, <2>7, <2>8, <2>9, ReloadingKeeps
<1>4. ASSUME NEW d \in Admins, KeepMax(d)
      PROVE  SettingsInv'
  <2>1. updates[d] \in Reload /\ updates[d].step = "kept"
    BY <1>4, Reading DEF KeepMax, SettingsInv
  <2>2. /\ updates' = [updates EXCEPT ![d] = NoUpdate]
        /\ settings' = settings /\ store' = store /\ defaultMax' = updates[d].got.max
        /\ stale' = stale \cup IF updates[d].late THEN {"crossed"} ELSE {}
    BY <1>4 DEF KeepMax, SetUpdate
  <2>3. \A e \in Admins : updates'[e] = IF e = d THEN NoUpdate ELSE updates[e]
    BY <2>2 DEF SettingsInv
  <2>4. NoUpdate \in UpdateStates /\ NoUpdate.step = "none"
    BY DEF UpdateStates, NoUpdate
  <2>5. CASE updates[d].late
    <3>1. "crossed" \in stale'
      BY <2>2, <2>5
    <3>2. \A e \in Admins : Fresh(e, "read")' \/ Fresh(e, "kept")' => updates'[e].got = settings
      BY <2>3, <2>4 DEF SettingsInv, Fresh
    <3> QED
      BY <2>2, <2>3, <2>4, <3>1, <3>2 DEF SettingsInv, SettingsTrueUnlessCrossed, Fresh
  <2>6. CASE ~ updates[d].late
    <3>1. Fresh(d, "kept") /\ updates[d].got = settings
      BY <2>1, <2>6 DEF SettingsInv, Fresh
    <3>2. store = settings.backend \/ stale # {} \/ Late # {}
      BY <3>1 DEF SettingsInv
    <3>3. d \notin Late
      BY <2>6 DEF Late
    <3>4. ASSUME NoUpdates'
          PROVE  Late = {}
      BY <2>3, <3>3, <3>4 DEF NoUpdates, Late, NoUpdate
    <3>5. SettingsTrueUnlessCrossed'
      BY <2>2, <3>1, <3>2, <3>4 DEF SettingsTrueUnlessCrossed
    <3>6. \A e \in Admins : Fresh(e, "kept")' => store' = settings.backend \/ stale' # {} \/ Late # {}
      BY <2>2, <3>2
    <3> QED
      BY <2>2, <2>4, <3>3, <3>5, <3>6, ReloadingKeeps
  <2> QED
    BY <2>5, <2>6
<1> QED
  BY <1>1, <1>2, <1>3, <1>4, SavingKeeps DEF SettingsNext

LEMMA SettingsSpec ==
  /\ Init => SettingsInv
  /\ SettingsInv /\ [Next]_vars => SettingsInv'
<1>1. ASSUME Init
      PROVE  SettingsInv
  <2>1. PICK s \in Plans : settings = s.settings /\ SettingsInit(s.settings) /\ s \in PlanType
    BY <1>1, ConversationsAssumption DEF Init, SettingsInit
  <2>2. settings \in Settings
    BY <2>1, SessionSettingsAssumption DEF PlanType
  <2>3. \A d \in Admins : updates[d] = NoUpdate /\ updates[d].step = "none"
    BY <2>1 DEF SettingsInit, NoUpdate
  <2>4. updates \in [Admins -> UpdateStates]
    BY <2>1 DEF SettingsInit, UpdateStates
  <2> QED
    BY <2>1, <2>2, <2>3, <2>4 DEF SettingsInit, SettingsInv, Fresh, SettingsTrueUnlessCrossed
<1>2. Next => settingsVars' = settingsVars \/ SettingsNext
  BY DEF Next, Create, Remove, Push, Limit, ChangeSettings, Call, Answering, SettingsNext
<1>3. SettingsInv /\ settingsVars' = settingsVars => SettingsInv'
  BY DEF settingsVars, copies, SettingsInv, Fresh, Late, SettingsTrueUnlessCrossed, NoUpdates
<1> QED
  BY <1>1, <1>2, <1>3, SettingsStep DEF vars

\* Once every change of the settings has returned, a process works from the stored ones, but
\* for a reload that failed or crossed another and a store that could not be built.
THEOREM SettingsReachProcess == Spec => []SettingsTrueUnlessCrossed
<1>1. SettingsInv => SettingsTrueUnlessCrossed
  BY DEF SettingsInv
<1> QED
  BY <1>1, SettingsSpec, PTL DEF Spec

-----------------------------------------------------------------------------
(* Types of the projects, the conversations and the pushes *)

PushOf == [step : {"find", "cap", "count", "save", "upsert"}, project : Nat, conv : ClientIds,
           text : Texts, id : Nat, max : Nat, alone : BOOLEAN]
ConvRow == [id : Nat, project : Nat, text : Texts \cup {"none"}]

SyncTypes ==
    /\ plan \in PlanType
    /\ projects \in [ProjectNames -> Nat]
    /\ convs \in [ClientIds -> ConvRow]
    /\ nextId \in Nat \ {NoId}
    /\ memberMax \in Nat /\ defaultMax \in Nat
    /\ push \in [Handlers -> {Idle} \cup PushOf]

LEMMA Numbers == NumberOf \in [ProjectNames -> Nat]
<1> DEFINE N == Cardinality(ProjectNames)
           Distinct(n) == \A p, q \in ProjectNames : n[p] = n[q] => p = q
<1>1. IsFiniteSet(ProjectNames)
  BY ConversationsAssumption
<1>2. N \in Nat /\ ExistsBijection(1 .. N, ProjectNames)
  BY <1>1, FS_CardinalityType
<1>3. PICK f : f \in Bijection(1 .. N, ProjectNames)
  BY <1>2 DEF ExistsBijection
<1>4. f \in [1 .. N -> ProjectNames] /\ \A p \in ProjectNames : \E k \in 1 .. N : f[k] = p
  BY <1>3 DEF Bijection, Surjection, Injection
<1> DEFINE g == [p \in ProjectNames |-> CHOOSE k \in 1 .. N : f[k] = p]
<1>5. \A p \in ProjectNames : g[p] \in 1 .. N /\ f[g[p]] = p
  BY <1>4
<1>6. g \in [ProjectNames -> 1 .. N] /\ Distinct(g)
  BY <1>5
<1>7. \E n \in [ProjectNames -> 1 .. N] : Distinct(n)
  BY <1>6
<1>8. NumberOf \in [ProjectNames -> 1 .. N]
  BY <1>7 DEF NumberOf
<1> QED
  BY <1>2, <1>8

LEMMA Planning ==
  ASSUME plan \in PlanType
  PROVE  /\ \A what \in {"updates", "creates", "pushes", "deletes", "calls"} :
                Spend(what) => plan' \in PlanType /\ plan'.steady = plan.steady
         /\ Spend("updates") => plan.updates > 0
<1>1. ASSUME NEW what \in {"updates", "creates", "pushes", "deletes", "calls"}, Spend(what)
      PROVE  plan' \in PlanType /\ plan'.steady = plan.steady
  <2>1. plan[what] \in Nat
    BY DEF PlanType
  <2>2. plan[what] - 1 \in Nat /\ plan' = [plan EXCEPT ![what] = @ - 1]
    BY <1>1, <2>1 DEF Spend
  <2> QED
    BY <2>2 DEF PlanType
<1> QED
  BY <1>1 DEF Spend

LEMMA PushSteps ==
  ASSUME SyncTypes, NEW h \in Handlers
  PROVE  /\ push[h] = Idle <=> push[h].step = "idle"
         /\ push[h] # Idle => push[h] \in PushOf
<1>1. push[h] \in {Idle} \cup PushOf /\ Idle.step = "idle"
  BY DEF SyncTypes, Idle
<1>2. push[h] \in PushOf => push[h].step # "idle"
  BY DEF PushOf
<1> QED
  BY <1>1, <1>2

LEMMA Disturbing ==
  ASSUME SyncTypes, NEW hs \in SUBSET Busy
  PROVE  /\ Disturbed(hs) \in [Handlers -> {Idle} \cup PushOf]
         /\ \A h \in Handlers :
                LET d == Disturbed(hs)[h]
                IN  /\ d = Idle <=> push[h] = Idle
                    /\ h \notin hs => d = push[h]
                    /\ d.step = push[h].step
                    /\ push[h] # Idle => /\ d.project = push[h].project /\ d.conv = push[h].conv
                                         /\ d.text = push[h].text /\ d.id = push[h].id
                                         /\ d.max = push[h].max
                                         /\ d.alone => push[h].alone /\ h \notin hs
<1> SUFFICES ASSUME NEW h \in Handlers
             PROVE  LET d == Disturbed(hs)[h]
                    IN  /\ d \in {Idle} \cup PushOf
                        /\ d = Idle <=> push[h] = Idle
                        /\ h \notin hs => d = push[h]
                        /\ d.step = push[h].step
                        /\ push[h] # Idle => /\ d.project = push[h].project /\ d.conv = push[h].conv
                                             /\ d.text = push[h].text /\ d.id = push[h].id
                                             /\ d.max = push[h].max
                                             /\ d.alone => push[h].alone /\ h \notin hs
  BY DEF Disturbed
<1>1. CASE h \notin hs
  BY <1>1, PushSteps DEF Disturbed, SyncTypes
<1>2. CASE h \in hs
  <2>1. push[h] \in PushOf /\ push[h] # Idle
    BY <1>2, PushSteps DEF Busy
  <2> DEFINE d == [push[h] EXCEPT !.alone = FALSE]
  <2>2. /\ d \in PushOf /\ d.step = push[h].step /\ d.project = push[h].project
        /\ d.conv = push[h].conv /\ d.text = push[h].text /\ d.id = push[h].id
        /\ d.max = push[h].max /\ ~ d.alone
    BY <2>1 DEF PushOf
  <2>3. d # Idle
    BY <2>1, <2>2, PushSteps DEF Idle
  <2>4. Disturbed(hs)[h] = d
    BY <1>2 DEF Disturbed
  <2> HIDE DEF d
  <2> QED
    BY <1>2, <2>1, <2>2, <2>3, <2>4
<1> QED
  BY <1>1, <1>2

\* A push on its way: it keeps everything but its place and, once, its id and cap.
Moves(h, q) ==
    /\ push' = [push EXCEPT ![h] = q]
    /\ q \in PushOf
    /\ q.project = push[h].project /\ q.conv = push[h].conv /\ q.text = push[h].text
    /\ q.alone = push[h].alone

LEMMA FindMoves ==
  ASSUME SyncTypes, NEW h \in Handlers, Find(h)
  PROVE  \E q : /\ Moves(h, q)
                /\ \/ /\ push[h].conv \in Rows /\ q.step = "save" /\ q.id = convs[push[h].conv].id
                   \/ push[h].conv \notin Rows /\ q.step = "cap"
<1>1. push[h] \in PushOf
  BY PushSteps DEF Find, Idle
<1>2. CASE push[h].conv \in Rows
  <2> DEFINE q == [push[h] EXCEPT !.step = "save", !.id = convs[push[h].conv].id]
  <2>1. push' = [push EXCEPT ![h] = q]
    BY <1>2 DEF Find
  <2>2. convs[push[h].conv].id \in Nat
    BY <1>1 DEF SyncTypes, ConvRow, PushOf
  <2>3. /\ q \in PushOf /\ q.step = "save" /\ q.id = convs[push[h].conv].id
        /\ q.project = push[h].project /\ q.conv = push[h].conv /\ q.text = push[h].text
        /\ q.alone = push[h].alone
    BY <1>1, <2>2 DEF PushOf
  <2> HIDE DEF q
  <2> QED
    BY <1>2, <2>1, <2>3 DEF Moves
<1>3. CASE push[h].conv \notin Rows
  <2> DEFINE q == [push[h] EXCEPT !.step = "cap"]
  <2>1. push' = [push EXCEPT ![h] = q]
    BY <1>3 DEF Find, Goto
  <2>2. /\ q \in PushOf /\ q.step = "cap"
        /\ q.project = push[h].project /\ q.conv = push[h].conv /\ q.text = push[h].text
        /\ q.alone = push[h].alone
    BY <1>1 DEF PushOf
  <2> HIDE DEF q
  <2> QED
    BY <1>3, <2>1, <2>2 DEF Moves
<1> QED
  BY <1>2, <1>3

LEMMA CapMoves ==
  ASSUME SyncTypes, NEW h \in Handlers, Cap(h)
  PROVE  \E q : Moves(h, q) /\ q.step = "count" /\ q.max = EffectiveMaxSessions
<1>1. push[h] \in PushOf
  BY PushSteps DEF Cap, Idle
<1> DEFINE q == [push[h] EXCEPT !.step = "count", !.max = EffectiveMaxSessions]
<1>2. push' = [push EXCEPT ![h] = q]
  BY DEF Cap
<1>3. EffectiveMaxSessions \in Nat
  BY DEF EffectiveMaxSessions, SyncTypes
<1>4. /\ q \in PushOf /\ q.step = "count" /\ q.max = EffectiveMaxSessions
      /\ q.project = push[h].project /\ q.conv = push[h].conv /\ q.text = push[h].text
      /\ q.alone = push[h].alone
  BY <1>1, <1>3 DEF PushOf
<1> HIDE DEF q
<1> QED
  BY <1>2, <1>4 DEF Moves

LEMMA CountMoves ==
  ASSUME SyncTypes, NEW h \in Handlers, Count(h)
  PROVE  \/ /\ Within(push[h].max) /\ nextId' = nextId + 1
            /\ \E q : Moves(h, q) /\ q.step = "save" /\ q.id = nextId
         \/ push' = [push EXCEPT ![h] = Idle] /\ nextId' = nextId
<1>1. push[h] \in PushOf
  BY PushSteps DEF Count, Idle
<1>2. CASE Within(push[h].max)
  <2> DEFINE q == [push[h] EXCEPT !.step = "save", !.id = nextId]
  <2>1. push' = [push EXCEPT ![h] = q] /\ nextId' = nextId + 1
    BY <1>2 DEF Count
  <2>2. /\ q \in PushOf /\ q.step = "save" /\ q.id = nextId
        /\ q.project = push[h].project /\ q.conv = push[h].conv /\ q.text = push[h].text
        /\ q.alone = push[h].alone
    BY <1>1 DEF PushOf, SyncTypes
  <2> HIDE DEF q
  <2> QED
    BY <1>2, <2>1, <2>2 DEF Moves
<1>3. CASE ~ Within(push[h].max)
  BY <1>3 DEF Count
<1> QED
  BY <1>2, <1>3

LEMMA SaveMoves ==
  ASSUME SyncTypes, NEW h \in Handlers, SaveContent(h)
  PROVE  \E q : Moves(h, q) /\ q.step = "upsert" /\ q.id = push[h].id
<1>1. push[h] \in PushOf
  BY PushSteps DEF SaveContent, Idle
<1> DEFINE q == [push[h] EXCEPT !.step = "upsert"]
<1>2. push' = [push EXCEPT ![h] = q]
  BY DEF SaveContent, Goto
<1>3. /\ q \in PushOf /\ q.step = "upsert" /\ q.id = push[h].id
      /\ q.project = push[h].project /\ q.conv = push[h].conv /\ q.text = push[h].text
      /\ q.alone = push[h].alone
  BY <1>1 DEF PushOf
<1> HIDE DEF q
<1> QED
  BY <1>2, <1>3 DEF Moves

SyncNext ==
    \/ \E p \in ProjectNames :
        \/ UpsertProject(p) \/ DeleteProject(p)
        \/ \E h \in Handlers, x \in ClientIds, t \in Texts : Begin(h, p, x, t)
    \/ \E x \in ClientIds : DeleteConversation(x)
    \/ \E h \in Handlers : Find(h) \/ Cap(h) \/ Count(h) \/ SaveContent(h)
        \/ SaveTears(h) \/ UpsertConversation(h) \/ PushFails(h)
    \/ \E n \in Nat : SetMemberLimit(n)

LEMMA BeginPushes ==
  ASSUME SyncTypes, NEW h \in Handlers, NEW p \in ProjectNames, NEW x \in ClientIds, NEW t \in Texts,
         Begin(h, p, x, t)
  PROVE  LET others == {g \in Busy : push[g].conv = x}
         IN  \E q \in PushOf :
                /\ push' = [Disturbed(others) EXCEPT ![h] = q]
                /\ q.step = "find" /\ q.project = projects[p] /\ q.conv = x
                /\ q.alone => others = {}
<1> DEFINE others == {g \in Busy : push[g].conv = x}
           q == [step |-> "find", project |-> projects[p], conv |-> x, text |-> t,
                 id |-> NoId, max |-> 0, alone |-> others = {}]
<1>1. q \in PushOf
  BY DEF PushOf, SyncTypes, NoId
<1>2. push' = [Disturbed(others) EXCEPT ![h] = q]
  BY DEF Begin
<1>3. /\ q.step = "find" /\ q.project = projects[p] /\ q.conv = x
      /\ q.alone => others = {}
  OBVIOUS
<1> HIDE DEF q
<1> QED
  BY <1>1, <1>2, <1>3

LEMMA SyncTypesStep ==
  ASSUME SyncTypes, SyncNext, defaultMax' = defaultMax, plan' \in PlanType
  PROVE  SyncTypes'
<1> DEFINE Pushes == [Handlers -> {Idle} \cup PushOf]
<1>1. ASSUME NEW p \in ProjectNames, UpsertProject(p)
      PROVE  SyncTypes'
  BY <1>1 DEF SyncTypes, UpsertProject, NoId
<1>2. NoConv \in ConvRow /\ NoId \in Nat
  BY DEF NoConv, ConvRow, NoId
<1>3. ASSUME NEW p \in ProjectNames, DeleteProject(p)
      PROVE  SyncTypes'
  <2>1. push' \in Pushes
    BY <1>3, Disturbing DEF DeleteProject
  <2> QED
    BY <1>2, <1>3, <2>1 DEF SyncTypes, DeleteProject
<1>4. ASSUME NEW p \in ProjectNames, NEW h \in Handlers, NEW x \in ClientIds, NEW t \in Texts,
             Begin(h, p, x, t)
      PROVE  SyncTypes'
  <2>1. PICK q \in PushOf : push' = [Disturbed({g \in Busy : push[g].conv = x}) EXCEPT ![h] = q]
    BY <1>4, BeginPushes
  <2>2. Disturbed({g \in Busy : push[g].conv = x}) \in Pushes
    BY Disturbing
  <2>3. push' \in Pushes
    BY <2>1, <2>2
  <2> QED
    BY <1>4, <2>3 DEF SyncTypes, Begin
<1>5. ASSUME NEW x \in ClientIds, DeleteConversation(x)
      PROVE  SyncTypes'
  BY <1>2, <1>5 DEF SyncTypes, DeleteConversation
<1>6. ASSUME NEW h \in Handlers, NEW q, Moves(h, q)
      PROVE  push' \in Pushes
  BY <1>6 DEF SyncTypes, Moves
<1>7. ASSUME NEW h \in Handlers, push' = [push EXCEPT ![h] = Idle]
      PROVE  push' \in Pushes
  BY <1>7 DEF SyncTypes
<1>8. ASSUME NEW h \in Handlers, Find(h)
      PROVE  SyncTypes'
  BY <1>6, <1>8, FindMoves DEF SyncTypes, Find
<1>9. ASSUME NEW h \in Handlers, Cap(h)
      PROVE  SyncTypes'
  BY <1>6, <1>9, CapMoves DEF SyncTypes, Cap
<1>10. ASSUME NEW h \in Handlers, Count(h)
       PROVE  SyncTypes'
  <2>1. push' \in Pushes /\ nextId' \in Nat \ {NoId}
    BY <1>6, <1>7, <1>10, CountMoves DEF SyncTypes, NoId
  <2> QED
    BY <1>10, <2>1 DEF SyncTypes, Count
<1>11. ASSUME NEW h \in Handlers, SaveContent(h)
       PROVE  SyncTypes'
  BY <1>6, <1>11, SaveMoves DEF SyncTypes, SaveContent
<1>12. ASSUME NEW h \in Handlers, UpsertConversation(h)
       PROVE  SyncTypes'
  <2>1. push' \in Pushes
    BY <1>7, <1>12 DEF UpsertConversation
  <2>2. push[h] \in PushOf
    BY <1>12, PushSteps DEF UpsertConversation, Idle
  <2> DEFINE x == push[h].conv
             row == [id |-> IF x \in Rows THEN convs[x].id ELSE push[h].id,
                     project |-> push[h].project, text |-> push[h].text]
  <2>3. row \in ConvRow /\ x \in ClientIds
    BY <2>2 DEF PushOf, ConvRow, SyncTypes
  <2>4. convs' = [convs EXCEPT ![x] = row]
    BY <1>12 DEF UpsertConversation
  <2>5. convs' \in [ClientIds -> ConvRow]
    BY <2>3, <2>4 DEF SyncTypes
  <2> QED
    BY <1>12, <2>1, <2>5 DEF SyncTypes, UpsertConversation
<1>13. ASSUME NEW h \in Handlers, PushFails(h) \/ SaveTears(h)
       PROVE  SyncTypes'
  BY <1>7, <1>13 DEF SyncTypes, PushFails, SaveTears
<1>14. ASSUME NEW n \in Nat, SetMemberLimit(n)
       PROVE  SyncTypes'
  BY <1>14 DEF SyncTypes, SetMemberLimit
<1> QED
  BY <1>1, <1>3, <1>4, <1>5, <1>8, <1>9, <1>10, <1>11, <1>12, <1>13, <1>14 DEF SyncNext

-----------------------------------------------------------------------------
(* Bodies and rows *)

Holding(h) == push[h].step \in {"save", "upsert"}

\* The ids in use for a conversation.
Uses(x, i) ==
    \/ x \in Rows /\ convs[x].id = i
    \/ \E h \in Handlers : Holding(h) /\ push[h].conv = x /\ push[h].id = i

IdsInv ==
    /\ \A x \in ClientIds : \A i : Uses(x, i) => i \in Nat \ {NoId} /\ i < nextId
    /\ \A x, y \in ClientIds : \A i : Uses(x, i) /\ Uses(y, i) => x = y

Body(project, id, text) ==
    \E b \in bodies : <<b.key[2], b.key[3]>> = <<project, id>> /\ b.text = text

\* A push that is alone finds its project and its conversation as it left them.
Undisturbed(h) ==
    LET x == push[h].conv
    IN  /\ \A g \in Busy : push[g].conv = x => g = h
        /\ push[h].project \in ProjectIds
        /\ push[h].step \in {"cap", "count"} => x \notin Rows
        /\ Holding(h) /\ x \in Rows => push[h].id = convs[x].id
        /\ push[h].step = "upsert" => Body(push[h].project, push[h].id, push[h].text)

WholeInv ==
    /\ SyncTypes
    /\ IdsInv
    /\ \A h \in Busy : push[h].alone => Undisturbed(h)
    /\ RowsWholeUnlessMixed

LEMMA MovingHolds ==
  ASSUME SyncTypes, NEW h \in Handlers, NEW q, Moves(h, q), NEW g \in Handlers
  PROVE  /\ push'[g] = IF g = h THEN q ELSE push[g]
         /\ q.project = push[h].project /\ q.conv = push[h].conv /\ q.text = push[h].text
         /\ q.alone = push[h].alone /\ q \in PushOf
  BY DEF Moves, SyncTypes

LEMMA MovingUses ==
  ASSUME SyncTypes, NEW h \in Handlers, NEW q, Moves(h, q), convs' = convs,
         NEW x \in ClientIds, NEW i, Uses(x, i)'
  PROVE  Uses(x, i) \/ (q.step \in {"save", "upsert"} /\ x = push[h].conv /\ i = q.id)
<1>1. Rows' = Rows
  BY DEF Rows
<1>2. CASE x \in Rows /\ convs[x].id = i
  BY <1>2 DEF Uses
<1>3. ASSUME NEW g \in Handlers, Holding(g)', push'[g].conv = x, push'[g].id = i
      PROVE  Uses(x, i) \/ (q.step \in {"save", "upsert"} /\ x = push[h].conv /\ i = q.id)
  BY <1>3, MovingHolds DEF Uses, Holding, Moves
<1> QED
  BY <1>1, <1>2, <1>3 DEF Uses

LEMMA EndingUses ==
  ASSUME SyncTypes, NEW h \in Handlers, push' = [push EXCEPT ![h] = Idle],
         NEW x \in ClientIds, NEW i, Uses(x, i)', x \in Rows' => x \in Rows /\ convs'[x] = convs[x]
  PROVE  Uses(x, i)
<1>1. \A g \in Handlers : Holding(g)' => push'[g] = push[g]
  BY DEF SyncTypes, Holding, Idle
<1> QED
  BY <1>1 DEF Uses, Holding

\* No step gives an id in use to another conversation.
LEMMA IdsStep ==
  ASSUME SyncTypes, IdsInv, SyncNext
  PROVE  IdsInv'
<1> DEFINE UsesKept == \A x \in ClientIds : \A i : Uses(x, i)' => Uses(x, i)
<1>1. ASSUME UsesKept, nextId' = nextId \/ nextId' = nextId + 1
      PROVE  IdsInv'
  BY <1>1 DEF IdsInv, SyncTypes
<1>2. ASSUME NEW p \in ProjectNames, UpsertProject(p)
      PROVE  IdsInv'
  <2>1. UsesKept
    BY <1>2 DEF UpsertProject, Uses, Holding, Rows
  <2> QED
    BY <1>1, <1>2, <2>1 DEF UpsertProject
<1>3. ASSUME NEW p \in ProjectNames, DeleteProject(p)
      PROVE  IdsInv'
  <2>1. push' = Disturbed({h \in Busy : push[h].project = projects[p]})
    BY <1>3 DEF DeleteProject
  <2>2. \A h \in Handlers : Holding(h)' => /\ Holding(h) /\ push'[h].conv = push[h].conv
                                           /\ push'[h].id = push[h].id
    BY <2>1, Disturbing, PushSteps DEF Holding
  <2>3. \A x \in Rows' : x \in Rows /\ convs'[x] = convs[x]
    BY <1>3 DEF DeleteProject, Rows
  <2>4. UsesKept
    BY <2>2, <2>3 DEF Uses
  <2> QED
    BY <1>1, <1>3, <2>4 DEF DeleteProject
<1>4. ASSUME NEW p \in ProjectNames, NEW h \in Handlers, NEW x \in ClientIds, NEW t \in Texts,
             Begin(h, p, x, t)
      PROVE  IdsInv'
  <2> DEFINE D == Disturbed({g \in Busy : push[g].conv = x})
  <2>1. PICK q \in PushOf : push' = [D EXCEPT ![h] = q] /\ q.step = "find"
    BY <1>4, BeginPushes
  <2>2. D \in [Handlers -> {Idle} \cup PushOf]
    BY Disturbing
  <2>3. \A g \in Handlers : push'[g] = IF g = h THEN q ELSE D[g]
    BY <2>1, <2>2
  <2>4. ASSUME NEW g \in Handlers, Holding(g)'
        PROVE  Holding(g) /\ push'[g].conv = push[g].conv /\ push'[g].id = push[g].id
    <3>1. g # h /\ push'[g] = D[g]
      BY <2>1, <2>3, <2>4 DEF Holding
    <3> HIDE DEF D
    <3>2. D[g].step = push[g].step /\ (push[g] # Idle => D[g].conv = push[g].conv /\ D[g].id = push[g].id)
      BY Disturbing DEF D
    <3> QED
      BY <2>4, <3>1, <3>2, PushSteps DEF Holding
  <2>5. Rows' = Rows /\ convs' = convs /\ nextId' = nextId
    BY <1>4 DEF Begin, Rows
  <2>6. UsesKept
    BY <2>4, <2>5 DEF Uses
  <2> QED
    BY <1>1, <2>5, <2>6
<1>5. ASSUME NEW x \in ClientIds, DeleteConversation(x)
      PROVE  IdsInv'
  <2>1. push' = push /\ nextId' = nextId /\ \A y \in Rows' : y \in Rows /\ convs'[y] = convs[y]
    BY <1>5 DEF DeleteConversation, SyncTypes, Rows
  <2>2. UsesKept
    BY <2>1 DEF Uses, Holding
  <2> QED
    BY <1>1, <2>1, <2>2
<1>6. ASSUME NEW h \in Handlers, Find(h)
      PROVE  IdsInv'
  <2>1. convs' = convs /\ nextId' = nextId
    BY <1>6 DEF Find
  <2>2. PICK q : /\ Moves(h, q)
                 /\ \/ /\ push[h].conv \in Rows /\ q.step = "save" /\ q.id = convs[push[h].conv].id
                    \/ push[h].conv \notin Rows /\ q.step = "cap"
    BY <1>6, FindMoves
  <2>3. UsesKept
    BY <2>1, <2>2, MovingUses DEF Uses
  <2> QED
    BY <1>1, <2>1, <2>3
<1>7. ASSUME NEW h \in Handlers, Cap(h)
      PROVE  IdsInv'
  <2>1. convs' = convs /\ nextId' = nextId
    BY <1>7 DEF Cap
  <2>2. UsesKept
    BY <1>7, <2>1, CapMoves, MovingUses
  <2> QED
    BY <1>1, <2>1, <2>2
<1>8. ASSUME NEW h \in Handlers, Count(h)
      PROVE  IdsInv'
  <2>1. convs' = convs /\ Rows' = Rows
    BY <1>8 DEF Count, Rows
  <2>2. CASE push' = [push EXCEPT ![h] = Idle] /\ nextId' = nextId
    <3>1. UsesKept
      BY <2>1, <2>2, EndingUses
    <3> QED
      BY <1>1, <2>2, <3>1
  <2>3. ASSUME nextId' = nextId + 1, NEW q, Moves(h, q), q.id = nextId
        PROVE  IdsInv'
    <3>1. \A x \in ClientIds : \A i : Uses(x, i)' => Uses(x, i) \/ (x = push[h].conv /\ i = nextId)
      BY <2>1, <2>3, MovingUses
    <3> QED
      BY <2>3, <3>1 DEF IdsInv, SyncTypes
  <2> QED
    BY <1>8, <2>2, <2>3, CountMoves
<1>9. ASSUME NEW h \in Handlers, SaveContent(h)
      PROVE  IdsInv'
  <2>1. convs' = convs /\ nextId' = nextId /\ Holding(h)
    BY <1>9 DEF SaveContent, Holding
  <2>2. PICK q : Moves(h, q) /\ q.step = "upsert" /\ q.id = push[h].id
    BY <1>9, SaveMoves
  <2>3. UsesKept
    BY <2>1, <2>2, MovingUses DEF Uses
  <2> QED
    BY <1>1, <2>1, <2>3
<1>10. ASSUME NEW h \in Handlers, UpsertConversation(h)
       PROVE  IdsInv'
  <2> DEFINE x == push[h].conv
  <2>1. nextId' = nextId /\ push' = [push EXCEPT ![h] = Idle] /\ Holding(h)
    BY <1>10 DEF UpsertConversation, Holding
  <2>2. push[h] \in PushOf
    BY <1>10, PushSteps DEF UpsertConversation, Idle
  <2>3. x \in ClientIds
    BY <2>2 DEF PushOf
  <2>4. \A y \in ClientIds : y # x => convs'[y] = convs[y]
    BY <1>10 DEF UpsertConversation, SyncTypes
  <2>5. convs'[x].id = IF x \in Rows THEN convs[x].id ELSE push[h].id
    BY <1>10, <2>3 DEF UpsertConversation, SyncTypes
  <2>6. ASSUME NEW y \in ClientIds, NEW i, Uses(y, i)'
        PROVE  Uses(y, i)
    <3>1. CASE y # x
      BY <2>1, <2>4, <2>6, <3>1, EndingUses DEF Rows
    <3>2. CASE y = x
      <4>1. \A g \in Handlers : Holding(g)' => push'[g] = push[g] /\ Holding(g)
        BY <2>1 DEF SyncTypes, Holding, Idle
      <4>2. i = convs'[x].id => Uses(x, i)
        BY <2>1, <2>5 DEF Uses
      <4> QED
        BY <2>6, <3>2, <4>1, <4>2 DEF Uses
    <3> QED
      BY <3>1, <3>2
  <2> QED
    BY <1>1, <2>1, <2>6
<1>11. ASSUME NEW h \in Handlers, PushFails(h) \/ SaveTears(h)
       PROVE  IdsInv'
  <2>1. convs' = convs /\ nextId' = nextId /\ push' = [push EXCEPT ![h] = Idle] /\ Rows' = Rows
    BY <1>11 DEF PushFails, SaveTears, Rows
  <2>2. UsesKept
    BY <2>1, EndingUses
  <2> QED
    BY <1>1, <2>1, <2>2
<1>12. ASSUME NEW n \in Nat, SetMemberLimit(n)
       PROVE  IdsInv'
  <2>1. UsesKept
    BY <1>12 DEF SetMemberLimit, Uses, Holding, Rows
  <2> QED
    BY <1>1, <1>12, <2>1 DEF SetMemberLimit
<1> QED
  BY <1>2, <1>3, <1>4, <1>5, <1>6, <1>7, <1>8, <1>9, <1>10, <1>11, <1>12 DEF SyncNext

LEMMA UndisturbedKept ==
  ASSUME NEW h \in Handlers, Undisturbed(h),
         push'[h].step = push[h].step, push'[h].project = push[h].project,
         push'[h].conv = push[h].conv, push'[h].text = push[h].text, push'[h].id = push[h].id,
         \A g \in Busy' : push'[g].conv = push'[h].conv => g = h,
         push[h].project \in ProjectIds',
         push[h].conv \in Rows' =>
             push[h].conv \in Rows /\ convs'[push[h].conv].id = convs[push[h].conv].id,
         push[h].step = "upsert" /\ Body(push[h].project, push[h].id, push[h].text)
             => Body(push[h].project, push[h].id, push[h].text)'
  PROVE  Undisturbed(h)'
  BY DEF Undisturbed, Holding

\* A push that goes on disturbs no other.
LEMMA MovingLeavesAlone ==
  ASSUME SyncTypes, NEW h \in Busy, NEW q, Moves(h, q), projects' = projects, convs' = convs,
         NEW g \in Busy', g # h, push'[g].alone, push[g].alone => Undisturbed(g),
         push[g].step = "upsert" /\ Body(push[g].project, push[g].id, push[g].text)
             => Body(push[g].project, push[g].id, push[g].text)'
  PROVE  Undisturbed(g)'
<1>1. h \in Handlers /\ g \in Handlers
  BY DEF Busy
<1>2. push'[g] = push[g] /\ Undisturbed(g)
  BY <1>1, MovingHolds
<1>3. \A k \in Busy' : k \in Busy /\ push'[k].conv = push[k].conv
  BY <1>1, MovingHolds DEF Busy, Moves
<1>4. ProjectIds' = ProjectIds /\ Rows' = Rows
  BY DEF ProjectIds, Rows
<1>5. \A k \in Busy' : push'[k].conv = push'[g].conv => k = g
  BY <1>2, <1>3 DEF Undisturbed
<1>6. push[g].project \in ProjectIds'
  BY <1>2, <1>4 DEF Undisturbed
<1> QED
  BY <1>1, <1>2, <1>4, <1>5, <1>6, UndisturbedKept

\* Writing a body, or a part of it, replaces none of another conversation's.
Writes(h) == push[h].step = "save" /\ \E t : bodies' = Written(h, t)

LEMMA WritingKeepsBodies ==
  ASSUME SyncTypes, IdsInv, NEW h \in Handlers, Writes(h),
         NEW x \in ClientIds, NEW project, NEW i, NEW text, Uses(x, i), x # push[h].conv,
         Body(project, i, text)
  PROVE  Body(project, i, text)'
<1>1. push[h] \in PushOf
  BY PushSteps DEF Writes, Idle
<1>2. push[h].conv \in ClientIds /\ Uses(push[h].conv, push[h].id)
  BY <1>1 DEF Uses, Holding, Writes, PushOf
<1>3. push[h].id # i
  BY <1>2 DEF IdsInv
<1>4. PICK b \in bodies : <<b.key[2], b.key[3]>> = <<project, i>> /\ b.text = text
  BY DEF Body
<1>5. b.key # Key(h)
  <2>1. b.key[3] = i /\ Key(h)[3] = push[h].id
    BY <1>4 DEF Key
  <2> QED
    BY <1>3, <2>1
<1>6. b \in bodies'
  BY <1>4, <1>5 DEF Writes, Written
<1> QED
  BY <1>4, <1>6 DEF Body

\* Nor does one that ends.
LEMMA EndingLeavesAlone ==
  ASSUME SyncTypes, IdsInv, NEW h \in Busy, push' = [push EXCEPT ![h] = Idle],
         projects' = projects, bodies' = bodies \/ Writes(h),
         NEW g \in Busy', push'[g].alone, push[g].alone => Undisturbed(g),
         \A x \in ClientIds : x # push[h].conv => convs'[x] = convs[x],
         convs' = convs \/ push[h].step = "upsert"
  PROVE  Undisturbed(g)'
<1>1. h \in Handlers /\ g \in Handlers
  BY DEF Busy
<1>2. g # h /\ push'[g] = push[g] /\ Undisturbed(g) /\ g \in Busy
  BY <1>1 DEF Busy, SyncTypes
<1>3. \A k \in Busy' : k \in Busy /\ push'[k] = push[k]
  BY <1>1 DEF Busy, SyncTypes
<1>4. ProjectIds' = ProjectIds
  BY DEF ProjectIds
<1>5. push[g].conv # push[h].conv
  BY <1>2 DEF Undisturbed
<1>6. push[g].conv \in ClientIds
  BY <1>1, <1>2, PushSteps DEF Busy, PushOf
<1>7. convs'[push[g].conv] = convs[push[g].conv]
  BY <1>5, <1>6
<1>8. \A k \in Busy' : push'[k].conv = push'[g].conv => k = g
  BY <1>2, <1>3 DEF Undisturbed
<1>9. push[g].project \in ProjectIds'
  BY <1>2, <1>4 DEF Undisturbed
<1>10. ASSUME push[g].step = "upsert", Body(push[g].project, push[g].id, push[g].text)
       PROVE  Body(push[g].project, push[g].id, push[g].text)'
  <2>1. CASE bodies' = bodies
    BY <1>2, <1>10, <2>1 DEF Body
  <2>2. CASE Writes(h)
    <3>1. Uses(push[g].conv, push[g].id)
      BY <1>1, <1>10 DEF Uses, Holding
    <3> DEFINE P(p, i, t) == \E b \in bodies' : <<b.key[2], b.key[3]>> = <<p, i>> /\ b.text = t
    <3>2. P(push[g].project, push[g].id, push[g].text)
      BY <1>1, <1>5, <1>6, <1>10, <2>2, <3>1, WritingKeepsBodies DEF Body
    <3> QED
      BY <1>2, <3>2 DEF Body
  <2> QED
    BY <2>1, <2>2
<1>11. push[g].conv \in Rows' =>
         push[g].conv \in Rows /\ convs'[push[g].conv].id = convs[push[g].conv].id
  BY <1>6, <1>7 DEF Rows
<1> QED
  BY <1>1, <1>2, <1>8, <1>9, <1>10, <1>11, UndisturbedKept

LEMMA SavedBody ==
  ASSUME SyncTypes, NEW h \in Handlers, SaveContent(h)
  PROVE  Body(push[h].project, push[h].id, push[h].text)'
<1> DEFINE b == [key |-> Key(h), text |-> push[h].text]
<1>1. b \in bodies'
  BY DEF SaveContent, Written
<1>2. b.key[2] = push[h].project /\ b.key[3] = push[h].id /\ b.text = push[h].text
  BY DEF Key
<1>3. PICK q : Moves(h, q) /\ q.id = push[h].id
  BY SaveMoves
<1>4. /\ push'[h].project = push[h].project /\ push'[h].id = push[h].id
      /\ push'[h].text = push[h].text
  BY <1>3, MovingHolds
<1> HIDE DEF b
<1> QED
  BY <1>1, <1>2, <1>4 DEF Body

LEMMA AloneStep ==
  ASSUME WholeInv, SyncNext, NEW h \in Busy', push'[h].alone
  PROVE  Undisturbed(h)'
<1> USE DEF WholeInv
<1>1. h \in Handlers
  BY DEF Busy
<1>2. ASSUME NEW p \in ProjectNames, UpsertProject(p)
      PROVE  Undisturbed(h)'
  <2>1. push' = push /\ convs' = convs /\ bodies' = bodies /\ Rows' = Rows /\ Busy' = Busy
    BY <1>2 DEF UpsertProject, Rows, Busy
  <2>2. ProjectIds \subseteq ProjectIds'
    BY <1>2 DEF UpsertProject, ProjectIds, SyncTypes
  <2>3. Undisturbed(h)
    BY <2>1
  <2> QED
    BY <2>1, <2>2, <2>3 DEF Undisturbed, Holding, Body
<1>3. ASSUME NEW p \in ProjectNames, DeleteProject(p)
      PROVE  Undisturbed(h)'
  <2> DEFINE hs == {g \in Busy : push[g].project = projects[p]}
  <2>1. push' = Disturbed(hs) /\ bodies' = bodies
    BY <1>3 DEF DeleteProject
  <2>2. \A g \in Busy' : g \in Busy /\ push'[g].conv = push[g].conv
    BY <2>1, Disturbing DEF Busy
  <2>3. push[h].alone /\ h \in Busy /\ h \notin hs /\ push'[h] = push[h]
    BY <1>1, <2>1, <2>2, Disturbing DEF Busy
  <2>4. Undisturbed(h)
    BY <2>3
  <2>5. \A x \in Rows' : x \in Rows /\ convs'[x] = convs[x]
    BY <1>3 DEF DeleteProject, Rows
  <2>6. push[h].project \in ProjectIds'
    BY <1>3, <2>3, <2>4 DEF Undisturbed, DeleteProject, ProjectIds, SyncTypes
  <2>7. \A g \in Busy' : push'[g].conv = push'[h].conv => g = h
    BY <2>2, <2>3, <2>4 DEF Undisturbed
  <2>8. Body(push[h].project, push[h].id, push[h].text) => Body(push[h].project, push[h].id, push[h].text)'
    BY <2>1, <2>3 DEF Body
  <2> QED
    BY <1>1, <2>3, <2>4, <2>5, <2>6, <2>7, <2>8, UndisturbedKept
<1>4. ASSUME NEW p \in ProjectNames, NEW g \in Handlers, NEW x \in ClientIds, NEW t \in Texts,
             Begin(g, p, x, t)
      PROVE  Undisturbed(h)'
  <2> DEFINE others == {k \in Busy : push[k].conv = x}
  <2>1. PICK q \in PushOf :
           /\ push' = [Disturbed(others) EXCEPT ![g] = q]
           /\ q.step = "find" /\ q.project = projects[p] /\ q.conv = x
           /\ q.alone => others = {}
    BY <1>4, BeginPushes
  <2>2. Disturbed(others) \in [Handlers -> {Idle} \cup PushOf]
    BY Disturbing
  <2>3. \A k \in Handlers : push'[k] = IF k = g THEN q ELSE Disturbed(others)[k]
    BY <2>1, <2>2
  <2>4. ASSUME NEW k \in Busy', k # g
        PROVE  k \in Busy /\ push'[k].conv = push[k].conv
    <3>1. k \in Handlers /\ push'[k] = Disturbed(others)[k] /\ push'[k] # Idle
      BY <2>3, <2>4 DEF Busy
    <3>2. push[k] # Idle /\ Disturbed(others)[k].conv = push[k].conv
      BY <3>1, Disturbing
    <3> QED
      BY <3>1, <3>2 DEF Busy
  <2>5. ProjectIds' = ProjectIds /\ Rows' = Rows /\ convs' = convs /\ bodies' = bodies
    BY <1>4 DEF Begin, ProjectIds, Rows
  <2>6. projects[p] \in ProjectIds
    BY <1>4 DEF Begin, ProjectIds
  <2>7. CASE h = g
    <3>1. push'[h] = q /\ others = {}
      BY <1>1, <2>1, <2>3, <2>7
    <3>2. \A k \in Busy' : push'[k].conv = x => k = h
      BY <2>4, <2>7, <3>1
    <3>3. /\ push'[h].conv = x /\ push'[h].step = "find"
          /\ push'[h].project \in ProjectIds'
      BY <2>1, <2>5, <2>6, <3>1
    <3> QED
      BY <3>2, <3>3 DEF Undisturbed, Holding
  <2>8. CASE h # g
    <3>1. push'[h] = Disturbed(others)[h] /\ h \in Busy
      BY <1>1, <2>3, <2>4, <2>8
    <3>2. push[h].alone /\ h \notin others /\ push'[h] = push[h]
      BY <1>1, <3>1, Disturbing DEF Busy
    <3>3. Undisturbed(h)
      BY <3>1, <3>2
    <3>4. \A k \in Busy' : push'[k].conv = push'[h].conv => k = h
      BY <2>1, <2>3, <2>4, <3>1, <3>2, <3>3 DEF Undisturbed
    <3>5. push[h].project \in ProjectIds'
      BY <2>5, <3>3 DEF Undisturbed
    <3>6. Body(push[h].project, push[h].id, push[h].text) => Body(push[h].project, push[h].id, push[h].text)'
      BY <2>5, <3>2 DEF Body
    <3> QED
      BY <1>1, <2>5, <3>2, <3>3, <3>4, <3>5, <3>6, UndisturbedKept
  <2> QED
    BY <2>7, <2>8
<1>5. ASSUME NEW x \in ClientIds, DeleteConversation(x)
      PROVE  Undisturbed(h)'
  <2>1. push' = push /\ bodies' = bodies /\ Busy' = Busy /\ ProjectIds' = ProjectIds
    BY <1>5 DEF DeleteConversation, Busy, ProjectIds
  <2>2. \A y \in Rows' : y \in Rows /\ convs'[y] = convs[y]
    BY <1>5 DEF DeleteConversation, SyncTypes, Rows
  <2>3. Undisturbed(h)
    BY <2>1
  <2> QED
    BY <2>1, <2>2, <2>3 DEF Undisturbed, Holding, Body
<1>6. ASSUME NEW g \in Handlers, Find(g)
      PROVE  Undisturbed(h)'
  <2>1. /\ convs' = convs /\ projects' = projects /\ bodies' = bodies
        /\ Rows' = Rows /\ ProjectIds' = ProjectIds /\ g \in Busy /\ push[g].step = "find"
    BY <1>6 DEF Find, Rows, ProjectIds, Busy, Idle
  <2>2. PICK q : /\ Moves(g, q)
                 /\ \/ /\ push[g].conv \in Rows /\ q.step = "save" /\ q.id = convs[push[g].conv].id
                    \/ push[g].conv \notin Rows /\ q.step = "cap"
    BY <1>6, FindMoves
  <2>3. CASE h = g
    <3>1. push'[h] = q /\ q.conv = push[h].conv /\ q.project = push[h].project /\ Undisturbed(h)
      <4>1. push'[h] = q /\ q.conv = push[h].conv /\ q.project = push[h].project /\ q.alone = push[h].alone
        BY <2>1, <2>2, <2>3, MovingHolds
      <4>2. h \in Busy /\ push[h].alone
        BY <2>1, <2>3, <4>1
      <4> QED
        BY <4>1, <4>2
    <3>2. \A k \in Busy' : push'[k].conv = push'[h].conv => k = h
      BY <2>2, <2>3, <3>1, MovingHolds DEF Undisturbed, Busy
    <3> QED
      BY <2>1, <2>2, <2>3, <3>1, <3>2 DEF Undisturbed, Holding
  <2>4. CASE h # g
    <3>1. push'[h] = push[h] /\ h \in Busy
      BY <1>1, <2>2, <2>4, MovingHolds DEF Busy
    <3>2. Body(push[h].project, push[h].id, push[h].text) => Body(push[h].project, push[h].id, push[h].text)'
      BY <2>1, <3>1 DEF Body
    <3> QED
      BY <2>1, <2>2, <2>4, <3>1, <3>2, MovingLeavesAlone
  <2> QED
    BY <2>3, <2>4
<1>7. ASSUME NEW g \in Handlers, Cap(g)
      PROVE  Undisturbed(h)'
  <2>1. /\ convs' = convs /\ projects' = projects /\ bodies' = bodies
        /\ Rows' = Rows /\ ProjectIds' = ProjectIds /\ g \in Busy /\ push[g].step = "cap"
    BY <1>7 DEF Cap, Rows, ProjectIds, Busy, Idle
  <2>2. PICK q : Moves(g, q) /\ q.step = "count"
    BY <1>7, CapMoves
  <2>3. CASE h = g
    <3>1. push'[h] = q /\ q.conv = push[h].conv /\ q.project = push[h].project /\ Undisturbed(h)
      <4>1. push'[h] = q /\ q.conv = push[h].conv /\ q.project = push[h].project /\ q.alone = push[h].alone
        BY <2>1, <2>2, <2>3, MovingHolds
      <4>2. h \in Busy /\ push[h].alone
        BY <2>1, <2>3, <4>1
      <4> QED
        BY <4>1, <4>2
    <3>2. \A k \in Busy' : push'[k].conv = push'[h].conv => k = h
      BY <2>2, <2>3, <3>1, MovingHolds DEF Undisturbed, Busy
    <3> QED
      BY <2>1, <2>2, <2>3, <3>1, <3>2 DEF Undisturbed, Holding
  <2>4. CASE h # g
    <3>1. push'[h] = push[h] /\ h \in Busy
      BY <1>1, <2>2, <2>4, MovingHolds DEF Busy
    <3>2. Body(push[h].project, push[h].id, push[h].text) => Body(push[h].project, push[h].id, push[h].text)'
      BY <2>1, <3>1 DEF Body
    <3> QED
      BY <2>1, <2>2, <2>4, <3>1, <3>2, MovingLeavesAlone
  <2> QED
    BY <2>3, <2>4
<1>8. ASSUME NEW g \in Handlers, Count(g)
      PROVE  Undisturbed(h)'
  <2>1. /\ convs' = convs /\ projects' = projects /\ bodies' = bodies
        /\ Rows' = Rows /\ ProjectIds' = ProjectIds /\ g \in Busy /\ push[g].step = "count"
    BY <1>8 DEF Count, Rows, ProjectIds, Busy, Idle
  <2>2. ASSUME NEW q, Moves(g, q), q.step = "save"
        PROVE  Undisturbed(h)'
    <3>1. CASE h = g
      <4>1. push'[h] = q /\ q.conv = push[h].conv /\ q.project = push[h].project /\ Undisturbed(h)
        <5>1. push'[h] = q /\ q.conv = push[h].conv /\ q.project = push[h].project /\ q.alone = push[h].alone
          BY <2>1, <2>2, <3>1, MovingHolds
        <5>2. h \in Busy /\ push[h].alone
          BY <2>1, <3>1, <5>1
        <5> QED
          BY <5>1, <5>2
      <4>2. \A k \in Busy' : push'[k].conv = push'[h].conv => k = h
        BY <2>2, <3>1, <4>1, MovingHolds DEF Undisturbed, Busy
      <4> QED
        BY <2>1, <2>2, <3>1, <4>1, <4>2 DEF Undisturbed, Holding
    <3>2. CASE h # g
      <4>1. push'[h] = push[h] /\ h \in Busy
        BY <1>1, <2>2, <3>2, MovingHolds DEF Busy
      <4>2. Body(push[h].project, push[h].id, push[h].text) => Body(push[h].project, push[h].id, push[h].text)'
        BY <2>1, <4>1 DEF Body
      <4> QED
        BY <2>1, <2>2, <3>2, <4>1, <4>2, MovingLeavesAlone
    <3> QED
      BY <3>1, <3>2
  <2>3. CASE push' = [push EXCEPT ![g] = Idle]
    <3>1. h \in Busy /\ push'[h] = push[h]
      BY <1>1, <2>3 DEF Busy, SyncTypes
    <3> QED
      BY <2>1, <2>3, <3>1, EndingLeavesAlone
  <2> QED
    BY <1>8, <2>2, <2>3, CountMoves
<1>9. ASSUME NEW g \in Handlers, SaveContent(g)
      PROVE  Undisturbed(h)'
  <2>1. /\ convs' = convs /\ projects' = projects
        /\ Rows' = Rows /\ ProjectIds' = ProjectIds /\ g \in Busy /\ push[g].step = "save"
    BY <1>9 DEF SaveContent, Rows, ProjectIds, Busy, Idle
  <2>2. PICK q : Moves(g, q) /\ q.step = "upsert" /\ q.id = push[g].id
    BY <1>9, SaveMoves
  <2>3. CASE h = g
    <3>1. /\ push'[h] = q /\ q.conv = push[h].conv /\ q.project = push[h].project
          /\ q.text = push[h].text /\ Undisturbed(h)
      <4>1. /\ push'[h] = q /\ q.conv = push[h].conv /\ q.project = push[h].project
            /\ q.text = push[h].text /\ q.alone = push[h].alone
        BY <2>2, <2>3, MovingHolds
      <4>2. h \in Busy /\ push[h].alone
        BY <2>1, <2>3, <4>1
      <4> QED
        BY <4>1, <4>2
    <3>2. \A k \in Busy' : push'[k].conv = push'[h].conv => k = h
      BY <2>2, <2>3, <3>1, MovingHolds DEF Undisturbed, Busy
    <3>3. Body(push[h].project, push[h].id, push[h].text)'
      BY <1>9, <2>3, SavedBody
    <3> QED
      BY <2>1, <2>2, <2>3, <3>1, <3>2, <3>3 DEF Undisturbed, Holding
  <2>4. CASE h # g
    <3>1. push'[h] = push[h] /\ h \in Busy /\ Undisturbed(h)
      BY <1>1, <2>2, <2>4, MovingHolds DEF Busy
    <3>2. push[h].conv # push[g].conv /\ push[h].conv \in ClientIds
      BY <1>1, <2>1, <2>4, <3>1, PushSteps DEF Undisturbed, Busy, PushOf
    <3>3. ASSUME push[h].step = "upsert", Body(push[h].project, push[h].id, push[h].text)
          PROVE  Body(push[h].project, push[h].id, push[h].text)'
      <4>1. Uses(push[h].conv, push[h].id)
        BY <1>1, <3>3 DEF Uses, Holding
      <4> DEFINE P(p, i, t) == \E b \in bodies' : <<b.key[2], b.key[3]>> = <<p, i>> /\ b.text = t
      <4>2. Writes(g)
        BY <1>9 DEF Writes, SaveContent
      <4>3. P(push[h].project, push[h].id, push[h].text)
        BY <3>2, <3>3, <4>1, <4>2, WritingKeepsBodies DEF Body
      <4> QED
        BY <3>1, <4>3 DEF Body
    <3> QED
      BY <2>1, <2>2, <2>4, <3>1, <3>3, MovingLeavesAlone
  <2> QED
    BY <2>3, <2>4
<1>10. ASSUME NEW g \in Handlers, UpsertConversation(g)
       PROVE  Undisturbed(h)'
  <2>1. /\ push' = [push EXCEPT ![g] = Idle] /\ projects' = projects /\ bodies' = bodies
        /\ g \in Busy /\ push[g].step = "upsert"
    BY <1>10 DEF UpsertConversation, Busy, Idle
  <2>2. h \in Busy /\ push'[h] = push[h]
    BY <1>1, <2>1 DEF Busy, SyncTypes
  <2>3. \A x \in ClientIds : x # push[g].conv => convs'[x] = convs[x]
    BY <1>10 DEF UpsertConversation, SyncTypes
  <2> QED
    BY <2>1, <2>2, <2>3, EndingLeavesAlone
<1>11. ASSUME NEW g \in Handlers, PushFails(g) \/ SaveTears(g)
       PROVE  Undisturbed(h)'
  <2>1. /\ push' = [push EXCEPT ![g] = Idle] /\ projects' = projects /\ convs' = convs
        /\ bodies' = bodies \/ Writes(g)
    BY <1>11 DEF PushFails, SaveTears, Writes
  <2>3. g \in Busy
    BY <1>11 DEF PushFails, SaveTears, Busy, Idle
  <2>2. h \in Busy /\ push'[h] = push[h]
    BY <1>1, <2>1 DEF Busy, SyncTypes
  <2> QED
    BY <2>1, <2>2, <2>3, EndingLeavesAlone
<1>12. ASSUME NEW n \in Nat, SetMemberLimit(n)
       PROVE  Undisturbed(h)'
  <2>1. /\ push' = push /\ convs' = convs /\ bodies' = bodies /\ Rows' = Rows /\ Busy' = Busy
        /\ ProjectIds' = ProjectIds
    BY <1>12 DEF SetMemberLimit, Rows, Busy, ProjectIds
  <2>2. Undisturbed(h)
    BY <2>1
  <2> QED
    BY <2>1, <2>2 DEF Undisturbed, Holding, Body
<1> QED
  BY <1>2, <1>3, <1>4, <1>5, <1>6, <1>7, <1>8, <1>9, <1>10, <1>11, <1>12 DEF SyncNext

Upserting(x) == \E h \in Busy : push[h].conv = x /\ push[h].step = "upsert"

Whole(x) ==
    /\ convs[x].project \in ProjectIds
    /\ Upserting(x) \/ Body(convs[x].project, convs[x].id, convs[x].text)

LEMMA WholeRows == RowsWholeUnlessMixed <=> \A x \in Rows \ mixed : Whole(x)
  BY DEF RowsWholeUnlessMixed, Whole, Upserting, Body

LEMMA MovingUpserts ==
  ASSUME SyncTypes, NEW h \in Handlers, NEW q, Moves(h, q), push[h].step # "upsert",
         NEW x, Upserting(x)
  PROVE  Upserting(x)'
<1>1. PICK g \in Busy : push[g].conv = x /\ push[g].step = "upsert"
  BY DEF Upserting
<1>2. g # h /\ g \in Handlers /\ push[g] # Idle
  BY <1>1 DEF Busy
<1>3. push'[g] = push[g]
  BY <1>2, MovingHolds
<1> QED
  BY <1>1, <1>2, <1>3 DEF Upserting, Busy

LEMMA EndingUpserts ==
  ASSUME SyncTypes, NEW h \in Handlers, push' = [push EXCEPT ![h] = Idle],
         NEW x, Upserting(x)
  PROVE  Upserting(x)' \/ (push[h].step = "upsert" /\ push[h].conv = x)
  BY DEF Upserting, Busy, SyncTypes

LEMMA WholeKept ==
  ASSUME NEW x, Whole(x), convs'[x] = convs[x], bodies' = bodies,
         convs[x].project \in ProjectIds => convs[x].project \in ProjectIds',
         Upserting(x) => Upserting(x)'
  PROVE  Whole(x)'
<1>1. Body(convs[x].project, convs[x].id, convs[x].text) =>
          \E b \in bodies' : <<b.key[2], b.key[3]>> = <<convs'[x].project, convs'[x].id>>
                             /\ b.text = convs'[x].text
  BY DEF Body
<1> QED
  BY <1>1 DEF Whole, Body

LEMMA WholeStep ==
  ASSUME WholeInv, SyncNext, NEW x \in Rows', x \notin mixed'
  PROVE  Whole(x)'
<1> USE DEF WholeInv
<1>0. /\ x \in ClientIds
      /\ x \in Rows \ mixed => Whole(x)
  BY WholeRows DEF Rows
<1>1. ASSUME x \in Rows \ mixed, convs'[x] = convs[x], bodies' = bodies, projects' = projects,
             Upserting(x) => Upserting(x)'
      PROVE  Whole(x)'
  BY <1>0, <1>1, WholeKept DEF ProjectIds
<1>2. ASSUME NEW p \in ProjectNames, UpsertProject(p)
      PROVE  Whole(x)'
  <2>1. push' = push /\ convs' = convs /\ bodies' = bodies /\ x \in Rows \ mixed
    BY <1>2 DEF UpsertProject, Rows
  <2>2. ProjectIds \subseteq ProjectIds'
    BY <1>2 DEF UpsertProject, ProjectIds, SyncTypes
  <2>3. Upserting(x) => Upserting(x)'
    BY <2>1 DEF Upserting, Busy
  <2> QED
    BY <1>0, <2>1, <2>2, <2>3, WholeKept
<1>3. ASSUME NEW p \in ProjectNames, DeleteProject(p)
      PROVE  Whole(x)'
  <2> DEFINE hs == {g \in Busy : push[g].project = projects[p]}
  <2>1. push' = Disturbed(hs) /\ bodies' = bodies /\ mixed' = mixed
    BY <1>3 DEF DeleteProject
  <2>2. x \in Rows \ mixed /\ convs'[x] = convs[x] /\ convs[x].project # projects[p]
    BY <1>0, <1>3 DEF DeleteProject, Rows
  <2>3. convs[x].project \in ProjectIds => convs[x].project \in ProjectIds'
    BY <1>3, <2>2 DEF DeleteProject, ProjectIds, SyncTypes
  <2>4. ASSUME Upserting(x)
        PROVE  Upserting(x)'
    <3>1. PICK g \in Busy : push[g].conv = x /\ push[g].step = "upsert"
      BY <2>4 DEF Upserting
    <3>2. g \in Handlers /\ push[g] # Idle
      BY DEF Busy
    <3>3. push'[g] # Idle /\ push'[g].conv = x /\ push'[g].step = "upsert"
      BY <2>1, <3>1, <3>2, Disturbing
    <3> QED
      BY <3>2, <3>3 DEF Upserting, Busy
  <2> QED
    BY <1>0, <2>1, <2>2, <2>3, <2>4, WholeKept
<1>4. ASSUME NEW p \in ProjectNames, NEW g \in Handlers, NEW y \in ClientIds, NEW t \in Texts,
             Begin(g, p, y, t)
      PROVE  Whole(x)'
  <2> DEFINE others == {k \in Busy : push[k].conv = y}
  <2>1. PICK q \in PushOf : push' = [Disturbed(others) EXCEPT ![g] = q]
    BY <1>4, BeginPushes
  <2>2. Disturbed(others) \in [Handlers -> {Idle} \cup PushOf]
    BY Disturbing
  <2>3. /\ convs' = convs /\ bodies' = bodies /\ projects' = projects /\ x \in Rows \ mixed
        /\ push[g] = Idle
    BY <1>4 DEF Begin, Rows
  <2>4. ASSUME Upserting(x)
        PROVE  Upserting(x)'
    <3>1. PICK k \in Busy : push[k].conv = x /\ push[k].step = "upsert"
      BY <2>4 DEF Upserting
    <3>2. k \in Handlers /\ push[k] # Idle /\ k # g
      BY <2>3 DEF Busy
    <3>3. push'[k] = Disturbed(others)[k]
      BY <2>1, <2>2, <3>2
    <3>4. Disturbed(others)[k] # Idle /\ Disturbed(others)[k].conv = x /\ Disturbed(others)[k].step = "upsert"
      BY <3>1, <3>2, Disturbing
    <3> QED
      BY <3>2, <3>3, <3>4 DEF Upserting, Busy
  <2> QED
    BY <1>1, <2>3, <2>4
<1>5. ASSUME NEW y \in ClientIds, DeleteConversation(y)
      PROVE  Whole(x)'
  <2>1. /\ x \in Rows \ mixed /\ convs'[x] = convs[x] /\ bodies' = bodies /\ projects' = projects
        /\ push' = push
    BY <1>0, <1>5 DEF DeleteConversation, SyncTypes, Rows
  <2>2. Upserting(x) => Upserting(x)'
    BY <2>1 DEF Upserting, Busy
  <2> QED
    BY <1>1, <2>1, <2>2
<1>6. ASSUME NEW g \in Handlers, Find(g) \/ Cap(g) \/ Count(g)
      PROVE  Whole(x)'
  <2>1. /\ convs' = convs /\ bodies' = bodies /\ projects' = projects /\ x \in Rows \ mixed
        /\ push[g].step # "upsert"
    BY <1>6 DEF Find, Cap, Count, Rows
  <2>2. (\E q : Moves(g, q)) \/ push' = [push EXCEPT ![g] = Idle]
    BY <1>6, FindMoves, CapMoves, CountMoves
  <2>3. Upserting(x) => Upserting(x)'
    BY <2>1, <2>2, MovingUpserts, EndingUpserts
  <2> QED
    BY <1>1, <2>1, <2>3
<1>7. ASSUME NEW g \in Handlers, SaveContent(g)
      PROVE  Whole(x)'
  <2>1. /\ convs' = convs /\ projects' = projects /\ x \in Rows \ mixed /\ ProjectIds' = ProjectIds
        /\ push[g].step = "save"
    BY <1>7 DEF SaveContent, Rows, ProjectIds
  <2>2. PICK q : Moves(g, q) /\ q.step = "upsert"
    BY <1>7, SaveMoves
  <2>3. CASE push[g].conv = x
    <3>1. push'[g] = q /\ q.conv = x /\ q \in PushOf
      BY <2>2, <2>3, MovingHolds
    <3>2. g \in Busy'
      BY <3>1 DEF Busy, PushOf, Idle
    <3>3. Upserting(x)'
      BY <2>2, <3>1, <3>2 DEF Upserting
    <3> QED
      BY <1>0, <2>1, <3>3 DEF Whole
  <2>4. CASE push[g].conv # x
    <3>1. Upserting(x) => Upserting(x)'
      BY <2>1, <2>2, MovingUpserts
    <3>2. Uses(x, convs[x].id)
      BY <2>1 DEF Uses
    <3> DEFINE P(p, i, t) == \E b \in bodies' : <<b.key[2], b.key[3]>> = <<p, i>> /\ b.text = t
    <3>3. Writes(g)
      BY <1>7 DEF Writes, SaveContent
    <3>4. Body(convs[x].project, convs[x].id, convs[x].text) => P(convs[x].project, convs[x].id, convs[x].text)
      BY <1>0, <2>4, <3>2, <3>3, WritingKeepsBodies DEF Body
    <3> QED
      BY <1>0, <2>1, <3>1, <3>4 DEF Whole, Body
  <2> QED
    BY <2>3, <2>4
<1>8. ASSUME NEW g \in Handlers, UpsertConversation(g)
      PROVE  Whole(x)'
  <2> DEFINE y == push[g].conv
  <2>1. /\ push' = [push EXCEPT ![g] = Idle] /\ projects' = projects /\ bodies' = bodies
        /\ g \in Busy /\ push[g].step = "upsert" /\ ProjectIds' = ProjectIds
    BY <1>8 DEF UpsertConversation, Busy, Idle, ProjectIds
  <2>2. CASE x # y
    <3>1. convs'[x] = convs[x]
      BY <1>0, <1>8, <2>2 DEF UpsertConversation, SyncTypes
    <3>2. x \in Rows \ mixed
      BY <1>0, <1>8, <2>2, <3>1 DEF UpsertConversation, Rows
    <3>3. Upserting(x) => Upserting(x)'
      BY <2>1, <2>2, EndingUpserts
    <3> QED
      BY <1>1, <2>1, <3>1, <3>2, <3>3
  <2>3. CASE x = y
    <3>1. push[g].alone
      BY <1>8, <2>3 DEF UpsertConversation
    <3>2. Undisturbed(g)
      BY <2>1, <3>1
    <3>3. /\ push[g].project \in ProjectIds
          /\ x \in Rows => push[g].id = convs[x].id
          /\ Body(push[g].project, push[g].id, push[g].text)
      BY <2>1, <2>3, <3>2 DEF Undisturbed, Holding
    <3>4. convs'[x] = [id |-> IF x \in Rows THEN convs[x].id ELSE push[g].id,
                       project |-> push[g].project, text |-> push[g].text]
      BY <1>0, <1>8, <2>3 DEF UpsertConversation, SyncTypes
    <3>5. convs'[x].id = push[g].id /\ convs'[x].project = push[g].project /\ convs'[x].text = push[g].text
      BY <3>3, <3>4
    <3> QED
      BY <2>1, <3>3, <3>5 DEF Whole, Body
  <2> QED
    BY <2>2, <2>3
<1>9. ASSUME NEW g \in Handlers, PushFails(g)
      PROVE  Whole(x)'
  <2>1. /\ push' = [push EXCEPT ![g] = Idle] /\ projects' = projects /\ bodies' = bodies
        /\ convs' = convs /\ x \in Rows \ mixed
        /\ ~ (push[g].step = "upsert" /\ push[g].conv = x)
    BY <1>9 DEF PushFails, Rows
  <2>2. Upserting(x) => Upserting(x)'
    BY <2>1, EndingUpserts
  <2> QED
    BY <1>1, <2>1, <2>2
<1>10. ASSUME NEW g \in Handlers, SaveTears(g)
       PROVE  Whole(x)'
  <2>1. /\ push' = [push EXCEPT ![g] = Idle] /\ convs' = convs /\ ProjectIds' = ProjectIds
        /\ x \in Rows \ mixed /\ push[g].step = "save"
    BY <1>10 DEF SaveTears, Rows, ProjectIds
  <2>2. push[g].conv # x /\ Writes(g)
    BY <1>10 DEF SaveTears, Writes
  <2>3. Upserting(x) => Upserting(x)'
    BY <2>1, EndingUpserts
  <2>4. Uses(x, convs[x].id)
    BY <2>1 DEF Uses
  <2> DEFINE P(p, i, t) == \E b \in bodies' : <<b.key[2], b.key[3]>> = <<p, i>> /\ b.text = t
  <2>5. Body(convs[x].project, convs[x].id, convs[x].text) => P(convs[x].project, convs[x].id, convs[x].text)
    BY <1>0, <2>2, <2>4, WritingKeepsBodies DEF Body
  <2> QED
    BY <1>0, <2>1, <2>3, <2>5 DEF Whole, Body
<1>11. ASSUME NEW n \in Nat, SetMemberLimit(n)
       PROVE  Whole(x)'
  <2>1. /\ push' = push /\ projects' = projects /\ bodies' = bodies
        /\ convs' = convs /\ x \in Rows \ mixed
    BY <1>11 DEF SetMemberLimit, Rows
  <2>2. Upserting(x) => Upserting(x)'
    BY <2>1 DEF Upserting, Busy
  <2> QED
    BY <1>1, <2>1, <2>2
<1> QED
  BY <1>2, <1>3, <1>4, <1>5, <1>6, <1>7, <1>8, <1>9, <1>10, <1>11 DEF SyncNext

LEMMA NextKinds ==
  ASSUME SyncTypes, SettingsInv, [Next]_vars
  PROVE  \/ SyncNext /\ settingsVars' = settingsVars /\ plan' \in PlanType
         \/ syncVars' = syncVars /\ plan' \in PlanType /\ defaultMax' \in Nat
<1>1. plan \in PlanType
  BY DEF SyncTypes
<1>2. CASE Create
  BY <1>1, <1>2, Planning DEF Create, SyncNext
<1>3. CASE Remove
  BY <1>1, <1>3, Planning DEF Remove, SyncNext
<1>4. ASSUME NEW h \in Handlers, Push(h)
      PROVE  SyncNext /\ settingsVars' = settingsVars /\ plan' \in PlanType
  <2>1. plan.convs \subseteq ClientIds /\ plan.texts \subseteq Texts
    BY <1>1 DEF PlanType
  <2> QED
    BY <1>1, <1>4, <2>1, Planning DEF Push, SyncNext
<1>5. CASE Limit
  <2>1. \A s \in SettingsChoices : s.max \in Nat
    BY SessionSettingsAssumption DEF Settings
  <2> QED
    BY <1>1, <1>5, <2>1, Planning DEF Limit, SyncNext
<1>6. CASE ChangeSettings
  <2>1. syncVars' = syncVars /\ plan' \in PlanType
    BY <1>1, <1>6, Planning DEF ChangeSettings
  <2>2. defaultMax' = defaultMax \/ \E d \in Admins : KeepMax(d)
    BY <1>6 DEF ChangeSettings, SaveSettings, ReadSettings, ReadSettingsFails, KeepStore, copies
  <2>3. ASSUME NEW d \in Admins, KeepMax(d)
        PROVE  defaultMax' \in Nat
    <3>1. updates[d] \in [step : {"read", "kept"}, late : BOOLEAN, got : Settings]
      BY <2>3, Reading DEF SettingsInv, KeepMax
    <3> QED
      BY <2>3, <3>1 DEF KeepMax, Settings
  <2> QED
    BY <2>1, <2>2, <2>3 DEF SyncTypes
<1>7. CASE Call
  BY <1>1, <1>7, Planning DEF Call, SyncTypes, settingsVars, copies
<1>8. CASE Answering
  BY <1>1, <1>8 DEF Answering, SyncTypes, settingsVars, copies
<1>9. CASE vars' = vars
  BY <1>1, <1>9 DEF vars, SyncTypes, settingsVars, copies
<1> QED
  BY <1>2, <1>3, <1>4, <1>5, <1>6, <1>7, <1>8, <1>9 DEF Next

LEMMA InitTypes == Init => SyncTypes
<1> SUFFICES ASSUME Init PROVE SyncTypes
  OBVIOUS
<1>1. plan \in PlanType
  BY ConversationsAssumption DEF Init
<1>2. projects \in [ProjectNames -> Nat]
  BY Numbers DEF Init, NoId
<1>3. convs \in [ClientIds -> ConvRow]
  BY DEF Init, NoConv, NoId, ConvRow
<1>4. nextId \in Nat \ {NoId} /\ memberMax \in Nat
  <2>1. Cardinality(ProjectNames) \in Nat
    BY ConversationsAssumption, FS_CardinalityType
  <2> QED
    BY <2>1 DEF Init, NoId
<1>5. defaultMax \in Nat
  <2>1. plan.settings \in Settings
    BY <1>1, SessionSettingsAssumption DEF PlanType
  <2> QED
    BY <2>1 DEF Init, SettingsInit, Settings
<1>6. push \in [Handlers -> {Idle} \cup PushOf]
  BY DEF Init
<1> QED
  BY <1>1, <1>2, <1>3, <1>4, <1>5, <1>6 DEF SyncTypes

LEMMA WholeSpec ==
  /\ Init => WholeInv
  /\ WholeInv /\ SettingsInv /\ [Next]_vars => WholeInv'
<1>1. ASSUME Init
      PROVE  WholeInv
  <2>1. Rows = {} /\ Busy = {} /\ \A h \in Handlers : ~ Holding(h)
    BY <1>1 DEF Init, Rows, Busy, Idle, Holding
  <2> QED
    BY <1>1, <2>1, InitTypes DEF WholeInv, IdsInv, Uses, RowsWholeUnlessMixed
<1>2. ASSUME WholeInv, SyncNext, settingsVars' = settingsVars, plan' \in PlanType
      PROVE  WholeInv'
  <2>1. SyncTypes'
    BY <1>2, SyncTypesStep DEF WholeInv, settingsVars, copies
  <2>2. IdsInv'
    BY <1>2, IdsStep DEF WholeInv
  <2>3. \A h \in Busy' : push'[h].alone => Undisturbed(h)'
    BY <1>2, AloneStep
  <2>4. \A x \in Rows' \ mixed' : Whole(x)'
    BY <1>2, WholeStep
  <2>5. RowsWholeUnlessMixed'
    BY <2>4 DEF RowsWholeUnlessMixed, Whole, Upserting, Body
  <2> QED
    BY <2>1, <2>2, <2>3, <2>5 DEF WholeInv
<1>3. ASSUME WholeInv, syncVars' = syncVars, plan' \in PlanType, defaultMax' \in Nat
      PROVE  WholeInv'
  <2>1. SyncTypes'
    BY <1>3 DEF WholeInv, SyncTypes, syncVars
  <2>2. IdsInv'
    BY <1>3 DEF WholeInv, IdsInv, Uses, Holding, Rows, syncVars
  <2>3. \A h \in Busy' : push'[h].alone => Undisturbed(h)'
    BY <1>3 DEF WholeInv, Busy, Undisturbed, Holding, ProjectIds, Rows, Body, syncVars
  <2>4. RowsWholeUnlessMixed'
    BY <1>3 DEF WholeInv, RowsWholeUnlessMixed, ProjectIds, Rows, Busy, syncVars
  <2> QED
    BY <2>1, <2>2, <2>3, <2>4 DEF WholeInv
<1>4. ASSUME WholeInv, SettingsInv, [Next]_vars
      PROVE  WholeInv'
  BY <1>2, <1>3, <1>4, NextKinds DEF WholeInv
<1> QED
  BY <1>1, <1>4

\* A stored conversation is one a member can open: in a project that exists, with its body
\* in some store, unless its last pushes met or broke off.
THEOREM StoredConversationsWhole == Spec => []RowsWholeUnlessMixed
<1>1. WholeInv => RowsWholeUnlessMixed
  BY DEF WholeInv
<1> QED
  BY <1>1, WholeSpec, SettingsSpec, PTL DEF Spec

-----------------------------------------------------------------------------
(* The cap *)

\* Conversations that are there or were let in and may come to be.
Claimed == {push[h].conv : h \in {g \in Handlers : Holding(g)}}

CapInv ==
    plan.steady =>
        /\ plan.updates = 0 /\ NoUpdates
        /\ memberMax = 0 /\ defaultMax = settings.max /\ settings.max \in Nat
        /\ \A h \in Handlers : push[h].step = "count" => push[h].max = settings.max
        /\ settings.max > 0 =>
              Cardinality(Rows \cup Claimed) < settings.max + Cardinality(Handlers)

LEMMA FewClaims ==
  ASSUME NEW f, NEW S \in SUBSET Handlers
  PROVE  LET T == {f[h].conv : h \in S}
         IN  IsFiniteSet(T) /\ Cardinality(T) <= Cardinality(Handlers) /\ Cardinality(T) \in Nat
<1> DEFINE T == {f[h].conv : h \in S}
           g == [h \in S |-> f[h].conv]
<1>1. IsFiniteSet(Handlers)
  BY ConversationsAssumption
<1>2. IsFiniteSet(S) /\ Cardinality(S) <= Cardinality(Handlers)
  BY <1>1, FS_Subset
<1>3. g \in Surjection(S, T)
  BY DEF Surjection
<1>4. IsFiniteSet(T) /\ Cardinality(T) <= Cardinality(S)
  BY <1>2, <1>3, FS_Surjection
<1>5. Cardinality(T) \in Nat /\ Cardinality(S) \in Nat /\ Cardinality(Handlers) \in Nat
  BY <1>1, <1>2, <1>4, FS_CardinalityType
<1> QED
  BY <1>2, <1>4, <1>5

LEMMA FiniteRows == IsFiniteSet(Rows) /\ IsFiniteSet(Rows \cup Claimed)
<1>1. IsFiniteSet(Rows)
  BY ConversationsAssumption, FS_Subset DEF Rows
<1>2. IsFiniteSet(Claimed)
  BY FewClaims DEF Claimed
<1> QED
  BY <1>1, <1>2, FS_Union

\* What a step that leaves the settings and the limit alone does to the conversations and
\* to those let in: only a push within its cap adds to them.
LEMMA ClaimsStep ==
  ASSUME SyncTypes, SyncNext, memberMax = 0, memberMax' = 0, NEW max \in Nat, defaultMax = max,
         \A h \in Handlers : push[h].step = "count" => push[h].max = max
  PROVE  /\ \A h \in Handlers : push'[h].step = "count" => push'[h].max = max
         /\ \/ Rows' \cup Claimed' \subseteq Rows \cup Claimed
            \/ Rows' = Rows /\ Within(max)
<1> DEFINE Capped == \A h \in Handlers : push'[h].step = "count" => push'[h].max = max
           Fewer == Rows' \cup Claimed' \subseteq Rows \cup Claimed
<1>1. ASSUME Rows' \subseteq Rows,
             \A h \in Handlers : /\ push'[h].step \in {"save", "upsert"} =>
                                        Holding(h) /\ push'[h].conv = push[h].conv
                                 /\ push'[h].step = "count" =>
                                        push[h].step = "count" /\ push'[h].max = push[h].max
      PROVE  Capped /\ Fewer
  BY <1>1 DEF Claimed, Holding
<1>2. ASSUME NEW p \in ProjectNames, UpsertProject(p)
      PROVE  Capped /\ Fewer
  BY <1>2 DEF UpsertProject, Rows, Claimed, Holding
<1>3. ASSUME NEW p \in ProjectNames, DeleteProject(p)
      PROVE  Capped /\ Fewer
  <2>1. push' = Disturbed({h \in Busy : push[h].project = projects[p]})
    BY <1>3 DEF DeleteProject
  <2>2. ASSUME NEW h \in Handlers
        PROVE  /\ push'[h].step = push[h].step
               /\ push[h] # Idle => push'[h].conv = push[h].conv /\ push'[h].max = push[h].max
    BY <2>1, Disturbing
  <2>3. Rows' \subseteq Rows
    BY <1>3 DEF DeleteProject, Rows
  <2> QED
    BY <1>1, <2>2, <2>3, PushSteps DEF Holding
<1>4. ASSUME NEW p \in ProjectNames, NEW h \in Handlers, NEW x \in ClientIds, NEW t \in Texts,
             Begin(h, p, x, t)
      PROVE  Capped /\ Fewer
  <2> DEFINE others == {k \in Busy : push[k].conv = x}
  <2>1. PICK q \in PushOf : push' = [Disturbed(others) EXCEPT ![h] = q] /\ q.step = "find"
    BY <1>4, BeginPushes
  <2>2. Disturbed(others) \in [Handlers -> {Idle} \cup PushOf]
    BY Disturbing
  <2>3. \A k \in Handlers : push'[k] = IF k = h THEN q ELSE Disturbed(others)[k]
    BY <2>1, <2>2
  <2>4. ASSUME NEW k \in Handlers, k # h
        PROVE  /\ push'[k].step = push[k].step
               /\ push[k] # Idle => push'[k].conv = push[k].conv /\ push'[k].max = push[k].max
    <3>1. push'[k] = Disturbed(others)[k]
      BY <2>3, <2>4
    <3> QED
      BY <3>1, Disturbing
  <2>5. Rows' = Rows /\ push'[h].step = "find"
    BY <1>4, <2>1, <2>3 DEF Begin, Rows
  <2> QED
    BY <1>1, <2>4, <2>5, PushSteps DEF Holding
<1>5. ASSUME NEW x \in ClientIds, DeleteConversation(x)
      PROVE  Capped /\ Fewer
  <2>1. push' = push /\ Rows' \subseteq Rows
    BY <1>5 DEF DeleteConversation, SyncTypes, Rows
  <2> QED
    BY <1>1, <2>1 DEF Holding
<1>6. ASSUME NEW h \in Handlers, Find(h)
      PROVE  Capped /\ Fewer
  <2>1. PICK q : /\ Moves(h, q)
                 /\ \/ /\ push[h].conv \in Rows /\ q.step = "save" /\ q.id = convs[push[h].conv].id
                    \/ push[h].conv \notin Rows /\ q.step = "cap"
    BY <1>6, FindMoves
  <2>2. \A k \in Handlers : push'[k] = IF k = h THEN q ELSE push[k]
    BY <2>1, MovingHolds
  <2>3. Rows' = Rows /\ q.conv = push[h].conv
    BY <1>6, <2>1, MovingHolds DEF Find, Rows
  <2>4. Capped
    BY <2>1, <2>2
  <2>5. ASSUME NEW k \in Handlers, push'[k].step \in {"save", "upsert"}
        PROVE  push'[k].conv \in Rows \cup Claimed
    BY <2>1, <2>2, <2>3, <2>5 DEF Claimed, Holding
  <2> QED
    BY <2>3, <2>4, <2>5 DEF Claimed, Holding
<1>7. ASSUME NEW h \in Handlers, Cap(h)
      PROVE  Capped /\ Fewer
  <2>1. PICK q : Moves(h, q) /\ q.step = "count" /\ q.max = EffectiveMaxSessions
    BY <1>7, CapMoves
  <2>2. \A k \in Handlers : push'[k] = IF k = h THEN q ELSE push[k]
    BY <2>1, MovingHolds
  <2>3. q.max = max
    BY <2>1 DEF EffectiveMaxSessions
  <2>4. Rows' = Rows
    BY <1>7 DEF Cap, Rows
  <2>5. Capped
    BY <2>2, <2>3
  <2>6. Fewer
    BY <2>1, <2>2, <2>4 DEF Claimed, Holding
  <2> QED
    BY <2>5, <2>6
<1>8. ASSUME NEW h \in Handlers, Count(h)
      PROVE  Capped /\ (Fewer \/ (Rows' = Rows /\ Within(max)))
  <2>1. Rows' = Rows /\ push[h].max = max
    BY <1>8 DEF Count, Rows
  <2>2. CASE push' = [push EXCEPT ![h] = Idle]
    <3>1. \A k \in Handlers : push'[k] = IF k = h THEN Idle ELSE push[k]
      BY <2>2 DEF SyncTypes
    <3> QED
      BY <1>1, <2>1, <3>1 DEF Idle, Holding
  <2>3. ASSUME Within(push[h].max), NEW q, Moves(h, q), q.step = "save"
        PROVE  Capped /\ Rows' = Rows /\ Within(max)
    <3>1. \A k \in Handlers : push'[k] = IF k = h THEN q ELSE push[k]
      BY <2>3, MovingHolds
    <3> QED
      BY <2>1, <2>3, <3>1
  <2> QED
    BY <1>8, <2>2, <2>3, CountMoves
<1>9. ASSUME NEW h \in Handlers, SaveContent(h)
      PROVE  Capped /\ Fewer
  <2>1. PICK q : Moves(h, q) /\ q.step = "upsert"
    BY <1>9, SaveMoves
  <2>2. \A k \in Handlers : push'[k] = IF k = h THEN q ELSE push[k]
    BY <2>1, MovingHolds
  <2>3. Rows' = Rows /\ Holding(h) /\ q.conv = push[h].conv
    BY <1>9, <2>1, MovingHolds DEF SaveContent, Rows, Holding
  <2> QED
    BY <1>1, <2>1, <2>2, <2>3 DEF Holding
<1>10. ASSUME NEW h \in Handlers, UpsertConversation(h)
       PROVE  Capped /\ Fewer
  <2>1. \A k \in Handlers : push'[k] = IF k = h THEN Idle ELSE push[k]
    BY <1>10 DEF UpsertConversation, SyncTypes
  <2>2. push[h].conv \in Claimed
    BY <1>10 DEF UpsertConversation, Claimed, Holding
  <2>3. \A x \in Rows' : x \in Rows \/ x = push[h].conv
    BY <1>10 DEF UpsertConversation, Rows, SyncTypes
  <2>4. Claimed' \subseteq Claimed
    BY <2>1 DEF Claimed, Holding, Idle
  <2>5. Capped
    BY <2>1 DEF Idle
  <2> QED
    BY <2>2, <2>3, <2>4, <2>5
<1>11. ASSUME NEW h \in Handlers, PushFails(h) \/ SaveTears(h)
       PROVE  Capped /\ Fewer
  <2>1. \A k \in Handlers : push'[k] = IF k = h THEN Idle ELSE push[k]
    BY <1>11 DEF PushFails, SaveTears, SyncTypes
  <2>2. Rows' = Rows
    BY <1>11 DEF PushFails, SaveTears, Rows
  <2> QED
    BY <1>1, <2>1, <2>2 DEF Idle, Holding
<1>12. ASSUME NEW n \in Nat, SetMemberLimit(n)
       PROVE  Capped /\ Fewer
  BY <1>12 DEF SetMemberLimit, Rows, Claimed, Holding
<1> QED
  BY <1>2, <1>3, <1>4, <1>5, <1>6, <1>7, <1>8, <1>9, <1>10, <1>11, <1>12 DEF SyncNext

LEMMA CapKept ==
  ASSUME NEW max \in Nat \ {0}, Cardinality(Rows \cup Claimed) < max + Cardinality(Handlers),
         \/ Rows' \cup Claimed' \subseteq Rows \cup Claimed
         \/ Rows' = Rows /\ Within(max)
  PROVE  Cardinality(Rows' \cup Claimed') < max + Cardinality(Handlers)
<1>1. Cardinality(Handlers) \in Nat
  BY ConversationsAssumption, FS_CardinalityType
<1>2. CASE Rows' \cup Claimed' \subseteq Rows \cup Claimed
  <2>1. Cardinality(Rows' \cup Claimed') <= Cardinality(Rows \cup Claimed)
    BY <1>2, FiniteRows, FS_Subset
  <2>2. IsFiniteSet(Rows' \cup Claimed')
    BY <1>2, FiniteRows, FS_Subset
  <2> QED
    BY <1>1, <2>1, <2>2, FiniteRows, FS_CardinalityType
<1>3. CASE Rows' = Rows /\ Within(max)
  <2>1. Cardinality(Rows) \in Nat /\ Cardinality(Rows) < max
    BY <1>3, FiniteRows, FS_CardinalityType DEF Within
  <2>2. IsFiniteSet(Claimed') /\ Cardinality(Claimed') <= Cardinality(Handlers) /\ Cardinality(Claimed') \in Nat
    BY FewClaims DEF Claimed
  <2>3. /\ Cardinality(Rows \cup Claimed') = Cardinality(Rows) + Cardinality(Claimed') - Cardinality(Rows \cap Claimed')
        /\ IsFiniteSet(Rows \cap Claimed')
    BY <2>2, FiniteRows, FS_Union, FS_Intersection
  <2>4. Cardinality(Rows \cap Claimed') \in Nat
    BY <2>3, FS_CardinalityType
  <2> QED
    BY <1>1, <1>3, <2>1, <2>2, <2>3, <2>4
<1> QED
  BY <1>2, <1>3

LEMMA CapSpec ==
  /\ Init => CapInv
  /\ CapInv /\ WholeInv /\ SettingsInv /\ [Next]_vars => CapInv'
<1>1. ASSUME Init, plan.steady
      PROVE  /\ plan.updates = 0 /\ NoUpdates
             /\ memberMax = 0 /\ defaultMax = settings.max /\ settings.max \in Nat
             /\ \A h \in Handlers : push[h].step = "count" => push[h].max = settings.max
             /\ settings.max > 0 => Cardinality(Rows \cup Claimed) < settings.max + Cardinality(Handlers)
  <2>1. plan.updates = 0 /\ plan.settings \in Settings
    BY <1>1, ConversationsAssumption, SessionSettingsAssumption DEF Init, PlanType
  <2>2. NoUpdates /\ memberMax = 0 /\ defaultMax = settings.max /\ settings.max \in Nat
    BY <1>1, <2>1 DEF Init, SettingsInit, NoUpdates, Settings
  <2>3. \A h \in Handlers : push[h].step = "idle"
    BY <1>1 DEF Init, Idle
  <2>4. Rows \cup Claimed = {}
    BY <1>1, <2>3 DEF Init, Rows, Claimed, Holding
  <2>5. Cardinality({}) = 0 /\ Cardinality(Handlers) \in Nat
    BY FS_EmptySet, ConversationsAssumption, FS_CardinalityType
  <2> QED
    BY <2>1, <2>2, <2>3, <2>4, <2>5
<1>2. ASSUME CapInv, WholeInv, SettingsInv, [Next]_vars, plan'.steady
      PROVE  /\ plan'.updates = 0 /\ NoUpdates'
             /\ memberMax' = 0 /\ defaultMax' = settings'.max /\ settings'.max \in Nat
             /\ \A h \in Handlers : push'[h].step = "count" => push'[h].max = settings'.max
             /\ settings'.max > 0 => Cardinality(Rows' \cup Claimed') < settings'.max + Cardinality(Handlers)
  <2>1. plan \in PlanType /\ SyncTypes
    BY <1>2 DEF WholeInv, SyncTypes
  <2>2. plan.steady
    BY <1>2, <2>1, Planning DEF Next, Create, Remove, Push, Limit, ChangeSettings, Call, Answering, vars
  <2>3. /\ plan.updates = 0 /\ NoUpdates
        /\ memberMax = 0 /\ defaultMax = settings.max /\ settings.max \in Nat
        /\ \A h \in Handlers : push[h].step = "count" => push[h].max = settings.max
        /\ settings.max > 0 => Cardinality(Rows \cup Claimed) < settings.max + Cardinality(Handlers)
    BY <1>2, <2>2 DEF CapInv
  <2>4. \A d \in Admins : updates[d].step = "none"
    BY <2>3 DEF NoUpdates, NoUpdate
  <2>5. ~ Spend("updates")
    BY <2>1, <2>3, Planning
  <2>6. ~ Limit /\ ~ ChangeSettings
    BY <2>4, <2>5 DEF Limit, ChangeSettings, ReadSettings, ReadSettingsFails, KeepStore, KeepMax
  <2>7. plan'.updates = 0
    <3>1. \A what \in {"creates", "pushes", "deletes", "calls"} : Spend(what) => plan'.updates = plan.updates
      BY <2>1 DEF Spend, PlanType
    <3> QED
      BY <1>2, <2>3, <2>6, <3>1 DEF Next, Create, Remove, Push, Call, Answering, vars
  <2>8. settingsVars' = settingsVars /\ memberMax' = 0
    BY <1>2, <2>3, <2>6 DEF Next, Create, Remove, Push, Call, Answering, vars, syncVars,
       UpsertProject, DeleteProject, DeleteConversation, Begin, Find, Cap, Count, SaveContent,
       SaveTears, UpsertConversation, PushFails
  <2>9. NoUpdates' /\ defaultMax' = settings'.max /\ settings'.max = settings.max
    BY <2>3, <2>8 DEF settingsVars, copies, NoUpdates
  <2>10. CASE SyncNext
    <3>1. /\ \A h \in Handlers : push'[h].step = "count" => push'[h].max = settings.max
          /\ \/ Rows' \cup Claimed' \subseteq Rows \cup Claimed
             \/ Rows' = Rows /\ Within(settings.max)
      BY <2>1, <2>3, <2>8, <2>10, ClaimsStep
    <3>2. settings.max > 0 => Cardinality(Rows' \cup Claimed') < settings.max + Cardinality(Handlers)
      BY <2>3, <3>1, CapKept
    <3> QED
      BY <2>3, <2>7, <2>8, <2>9, <3>1, <3>2
  <2>11. CASE syncVars' = syncVars
    BY <2>3, <2>7, <2>8, <2>9, <2>11 DEF syncVars, Rows, Claimed, Holding
  <2> QED
    BY <1>2, <2>1, <2>10, <2>11, NextKinds
<1> QED
  BY <1>1, <1>2 DEF CapInv

\* While the cap stays, requests that meet pass it by fewer than there are requests at once.
THEOREM CapHolds == Spec => []CapOvershootBounded
<1>1. ASSUME CapInv
      PROVE  CapOvershootBounded
  <2> SUFFICES ASSUME plan.steady, settings.max > 0
               PROVE  Cardinality(Rows) < settings.max + Cardinality(Handlers)
    BY DEF CapOvershootBounded
  <2>1. Cardinality(Rows) <= Cardinality(Rows \cup Claimed)
    BY FiniteRows, FS_Subset
  <2>2. Cardinality(Rows) \in Nat /\ Cardinality(Rows \cup Claimed) \in Nat /\ Cardinality(Handlers) \in Nat
    BY FiniteRows, ConversationsAssumption, FS_CardinalityType
  <2> QED
    BY <1>1, <2>1, <2>2 DEF CapInv
<1> QED
  BY <1>1, CapSpec, WholeSpec, SettingsSpec, PTL DEF Spec
=============================================================================
