----------------------------- MODULE Transcripts -----------------------------
(***************************************************************************)
(* The record of finished turns (application/transcript/manager.go,        *)
(* adapter/out/transcript, adapter/out/db/transcript_store.go): the        *)
(* bounded queue and its worker, the backend in use, the settings that     *)
(* choose it, and the job that deletes what is past its retention.         *)
(***************************************************************************)
EXTENDS Server, Naturals, Sequences, TLC

CONSTANTS
    Buf,              \* transcriptBufferSize
    SettingsChoices   \* the settings an administrator may store

Backends == {"db", "file"}       \* s3 differs from file only in that it is never purged
Settings == [enabled : BOOLEAN, backend : Backends, retention : Nat]    \* retention in days, 0: for ever

ASSUME TranscriptsAssumption == Buf \in Nat \ {0} /\ SettingsChoices \subseteq Settings

VARIABLES
    settings,      \* transcript_settings
    store,         \* Manager.store: the backend in use
    enabled,       \* Manager.enabled
    updates,       \* an administrator's UpdateSettings
    queue,         \* AsyncRecorder.ch
    closed,        \* the channel is closed
    worker,        \* what AsyncRecorder.run is saving
    saved,         \* what the backends hold
    purge,         \* RunPurge
    settingsStale  \* history: why the backend in use may not be the one chosen

chosen == <<settings, store, enabled, updates, settingsStale>>
recorder == <<queue, closed, worker>>
transcriptVars == <<chosen, recorder, saved, purge>>

NoUpdate == [step |-> "none"]
Resting == [step |-> "rest"]

TranscriptsInit(on) ==
    /\ settings = [enabled |-> on, backend |-> "db", retention |-> 0]
    /\ store = "db" /\ enabled = on
    /\ updates = [a \in Admins |-> NoUpdate]
    /\ queue = <<>> /\ closed = FALSE /\ worker = Resting
    /\ saved = {}
    /\ purge = Resting
    /\ settingsStale = {}

-----------------------------------------------------------------------------
(* The recorder *)

\* Record: nothing when recording is off, never a wait.
Skips == ~enabled
Panics == enabled /\ closed          \* a send on the closed channel
Drops == enabled /\ ~closed /\ Len(queue) = Buf
Takes == enabled /\ ~closed /\ Len(queue) < Buf

Enqueue(t) ==
    /\ Takes
    /\ queue' = Append(queue, t)
    /\ UNCHANGED <<chosen, closed, worker, saved, purge>>

\* The worker takes transcripts in order, also those left when the channel was closed,
WorkerTakes ==
    /\ worker = Resting /\ queue # <<>>
    /\ worker' = [step |-> "save", item |-> Head(queue)]
    /\ queue' = Tail(queue)
    /\ UNCHANGED <<chosen, closed, saved, purge>>

\* and saves each in the backend in use by then,
WorkerSaves ==
    /\ worker.step = "save"
    /\ saved' = saved \cup {[item |-> worker.item, in |-> store]}
    /\ worker' = Resting
    /\ UNCHANGED <<chosen, queue, closed, purge>>

\* or logs that it could not.
WorkerFails ==
    /\ worker.step = "save"
    /\ worker' = Resting
    /\ UNCHANGED <<chosen, queue, closed, saved, purge>>

\* With a fault: it leaves as soon as the channel is closed.
WorkerEndsAtOnce ==
    /\ worker = Resting /\ closed
    /\ worker' = [step |-> "gone"]
    /\ UNCHANGED <<chosen, queue, closed, saved, purge>>

\* It leaves once the channel is closed and empty.
WorkerEnds ==
    /\ worker = Resting /\ closed /\ queue = <<>>
    /\ worker' = [step |-> "gone"]
    /\ UNCHANGED <<chosen, queue, closed, saved, purge>>

\* Close: no send may follow.
CloseRecorder ==
    /\ ~closed /\ closed' = TRUE
    /\ UNCHANGED <<chosen, queue, worker, saved, purge>>

-----------------------------------------------------------------------------
(* Settings *)

SetUpdate(a, u) == updates' = [updates EXCEPT ![a] = u]
NoUpdates == \A a \in Admins : updates[a] = NoUpdate

\* UpdateSettings: stored after a trial Build; reads that came before are late from now on.
SaveSettings(a, s) ==
    /\ updates[a] = NoUpdate
    /\ settings' = s
    /\ updates' = [b \in Admins |->
                      IF b = a THEN [step |-> "saved", late |-> FALSE]
                      ELSE IF updates[b].step \in {"read", "built"} THEN [updates[b] EXCEPT !.late = TRUE]
                      ELSE updates[b]]
    /\ settingsStale' = IF NoUpdates THEN {} ELSE settingsStale
    /\ UNCHANGED <<store, enabled, recorder, saved, purge>>

\* reload: read, build and swap the backend, then the switch.
ReadSettings(a) ==
    /\ updates[a].step = "saved"
    /\ SetUpdate(a, [step |-> "read", late |-> updates[a].late, got |-> settings])
    /\ UNCHANGED <<settings, store, enabled, settingsStale, recorder, saved, purge>>

ReadSettingsFails(a) ==
    /\ updates[a].step = "saved"
    /\ SetUpdate(a, NoUpdate)
    /\ settingsStale' = settingsStale \cup {"failed"}
    /\ UNCHANGED <<settings, store, enabled, recorder, saved, purge>>

SwapStore(a) ==
    /\ updates[a].step = "read"
    /\ store' = updates[a].got.backend
    /\ SetUpdate(a, [updates[a] EXCEPT !.step = "built"])
    /\ UNCHANGED <<settings, enabled, settingsStale, recorder, saved, purge>>

\* A backend that cannot be built this time is replaced by the database.
SwapToFallback(a) ==
    /\ updates[a].step = "read" /\ updates[a].got.backend # "db"
    /\ store' = "db"
    /\ settingsStale' = settingsStale \cup {"fallback"}
    /\ SetUpdate(a, [updates[a] EXCEPT !.step = "built"])
    /\ UNCHANGED <<settings, enabled, recorder, saved, purge>>

SwitchRecording(a) ==
    /\ updates[a].step = "built"
    /\ enabled' = updates[a].got.enabled
    /\ settingsStale' = settingsStale \cup IF updates[a].late THEN {"crossed"} ELSE {}
    /\ SetUpdate(a, NoUpdate)
    /\ UNCHANGED <<settings, store, recorder, saved, purge>>

-----------------------------------------------------------------------------
(* Retention *)

\* purgeOnce takes the retention from the database
PurgeReads ==
    /\ purge = Resting /\ settings.retention > 0
    /\ purge' = [step |-> "read", days |-> settings.retention]
    /\ UNCHANGED <<chosen, recorder, saved>>

\* and applies it to the backend in use.
PurgeDeletes(today) ==
    /\ purge # Resting
    /\ saved' = {s \in saved : s.in # store \/ s.item.day + purge.days >= today}
    /\ purge' = Resting
    /\ UNCHANGED <<chosen, recorder>>

\* The deletion fails, and the job waits for its next turn.
PurgeFails ==
    /\ purge # Resting
    /\ purge' = Resting
    /\ UNCHANGED <<chosen, recorder, saved>>

-----------------------------------------------------------------------------

\* Once every update has returned, the backend and the switch in use are the stored ones,
\* unless a reload failed, fell back to the database or crossed another (manager.go:48, 167).
SettingsTrueUnlessCrossed ==
    NoUpdates => <<store, enabled>> = <<settings.backend, settings.enabled>> \/ settingsStale # {}
=============================================================================
