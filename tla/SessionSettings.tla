--------------------------- MODULE SessionSettings ---------------------------
(***************************************************************************)
(* Where conversations are stored and how many a member may have           *)
(* (application/session/manager.go): the settings in the database and the  *)
(* two copies a process works from, a store and a number, each of them     *)
(* atomic but not the pair.                                                *)
(* The credentials of the S3 store are left out.                           *)
(***************************************************************************)
EXTENDS Naturals, FiniteSets

CONSTANTS
    Admins,           \* the administrators' requests served at once
    SettingsChoices   \* the settings an administrator may store

Backends == {"db", "file"}
Settings == [backend : Backends, max : Nat]     \* max 0: any number

ASSUME SessionSettingsAssumption == SettingsChoices \subseteq Settings

VARIABLES
    settings,      \* session_settings
    store,         \* Manager.store
    defaultMax,    \* Manager.defaultMax
    updates,       \* an administrator's UpdateSettings
    stale          \* history: why the copies may not be the settings

copies == <<store, defaultMax>>
settingsVars == <<settings, copies, updates, stale>>

NoUpdate == [step |-> "none"]

SettingsInit(s) ==
    /\ settings = s /\ store = s.backend /\ defaultMax = s.max
    /\ updates = [d \in Admins |-> NoUpdate]
    /\ stale = {}

SetUpdate(d, u) == updates' = [updates EXCEPT ![d] = u]
NoUpdates == \A d \in Admins : updates[d] = NoUpdate

\* Reloads that have read the settings before this change will keep what they read after it.
Overtake(d) ==
    [e \in Admins |->
        IF e = d THEN [step |-> "saved", late |-> FALSE]
        ELSE IF updates[e].step \in {"read", "kept"} THEN [updates[e] EXCEPT !.late = TRUE]
        ELSE updates[e]]

\* UpdateSettings, up to its reload.
SaveSettings(d, s) ==
    /\ updates[d] = NoUpdate
    /\ settings' = s
    /\ updates' = Overtake(d)
    /\ stale' = IF NoUpdates THEN {} ELSE stale
    /\ UNCHANGED copies

\* reload
ReadSettings(d) ==
    /\ updates[d].step = "saved"
    /\ SetUpdate(d, [step |-> "read", late |-> updates[d].late, got |-> settings])
    /\ UNCHANGED <<settings, copies, stale>>

ReadSettingsFails(d) ==
    /\ updates[d].step = "saved"
    /\ SetUpdate(d, NoUpdate)
    /\ stale' = stale \cup {"failed"}
    /\ UNCHANGED <<settings, copies>>

\* The store is built and kept; one that cannot be built is replaced by the database.
KeepStore(d) ==
    /\ updates[d].step = "read"
    /\ \/ store' = updates[d].got.backend /\ UNCHANGED stale
       \/ /\ updates[d].got.backend # "db"
          /\ store' = "db" /\ stale' = stale \cup {"fallback"}
    /\ SetUpdate(d, [updates[d] EXCEPT !.step = "kept"])
    /\ UNCHANGED <<settings, defaultMax>>

\* With a fault: a store in place of the one that could not be built ends the reload.
KeepMaxIfBuilt(d) ==
    /\ updates[d].step = "kept"
    /\ defaultMax' = IF store = settings.backend THEN updates[d].got.max ELSE defaultMax
    /\ stale' = stale \cup IF updates[d].late THEN {"crossed"} ELSE {}
    /\ SetUpdate(d, NoUpdate)
    /\ UNCHANGED <<settings, store>>

KeepMax(d) ==
    /\ updates[d].step = "kept"
    /\ defaultMax' = updates[d].got.max
    /\ stale' = stale \cup IF updates[d].late THEN {"crossed"} ELSE {}
    /\ SetUpdate(d, NoUpdate)
    /\ UNCHANGED <<settings, store>>

-----------------------------------------------------------------------------

\* Once every change of the settings has returned, the process works from the stored ones:
\* only a failed reload or one that crossed another leaves another number in force, and for
\* the store also a fallback to the database (manager.go:44).
SettingsTrueUnlessCrossed ==
    NoUpdates =>
        /\ defaultMax = settings.max \/ stale \cap {"failed", "crossed"} # {}
        /\ store = settings.backend \/ stale # {}
=============================================================================
