------------------------------ MODULE Settings ------------------------------
(***************************************************************************)
(* The application settings: one row of app_settings per group, edited by  *)
(* administrators with patches, and the legacy record that mirrors them    *)
(* (backend/app/modules/settings/service.py).                              *)
(*                                                                         *)
(* update_app_config reads the groups twice in one transaction: the patch  *)
(* is merged into the first reading, and what the ORM writes is what       *)
(* differs from the second, for the rows of the first reading are no       *)
(* longer referenced when the second loads them again.                     *)
(***************************************************************************)
EXTENDS Integers

CONSTANTS
    Editors,    \* concurrent edits (bound)
    Groups,     \* the groups of app_config
    Telegram,   \* the group that is edited under its row lock
    AppInfo,    \* the group of the application's identity, edited alone
    Fields,     \* the keys of a group
    Values,     \* what a key may hold
    Default,    \* what it holds where no row is stored: off, or blank
    Secrets,    \* the keys that are never shown, each named by its group
    Needs,      \* pairs of keys: to switch the first on takes the second
    MaxEdits,   \* edits that ever start (bound)
    NoEditor    \* the holder of a lock nobody holds

ASSUME SettingsAssumption ==
    /\ Telegram \in Groups /\ AppInfo \notin Groups
    /\ Default \in Values
    /\ Secrets \subseteq Groups \X Fields
    /\ Needs \subseteq {p \in (Groups \X Fields) \X (Groups \X Fields) : p[1][1] = p[2][1]}
    /\ NoEditor \notin Editors
    /\ MaxEdits \in Nat

VARIABLES
    stored,       \* rows of app_settings: what every group holds
    mirror,       \* the legacy record __app_config__
    telegramLock, \* the edit holding the row of Telegram
    editing,      \* where each edit is
    draft,        \* what it was asked and has read
    edits         \* how many edits have started

settingsVars == <<stored, mirror, telegramLock, editing, draft, edits>>

Rows == Groups \cup {AppInfo}
Group == [Fields -> Values]
DefaultGroup == [f \in Fields |-> Default]
(* patch: the keys to be set, each named by its group; to: their new       *)
(* value; basis: the reading the patch is merged into; loaded: what the    *)
(* ORM compares with.                                                      *)
Draft == [patch : SUBSET (Rows \X Fields), to : Values,
          basis : [Rows -> Group], loaded : [Rows -> Group]]
NoDraftSetting == [patch |-> {}, to |-> Default,
            basis |-> [g \in Rows |-> DefaultGroup], loaded |-> [g \in Rows |-> DefaultGroup]]
Patched(e) == {p[1] : p \in draft[e].patch}

StartEdit(e, step, patch, v) ==
    /\ editing[e] = "idle" /\ edits < MaxEdits
    /\ edits' = edits + 1
    /\ editing' = [editing EXCEPT ![e] = step]
    /\ draft' = [draft EXCEPT ![e] = [patch |-> patch, to |-> v, basis |-> stored, loaded |-> stored]]
EndEdit(e) ==
    /\ editing' = [editing EXCEPT ![e] = "idle"]
    /\ draft' = [draft EXCEPT ![e] = NoDraftSetting]
    /\ telegramLock' = IF telegramLock = e THEN NoEditor ELSE telegramLock
    /\ UNCHANGED edits
(* Where the row of Telegram is written, nobody else may hold it.          *)
TelegramFree(e) == telegramLock \in {e, NoEditor}
Merged(e) == [g \in Rows |-> [f \in Fields |->
                 IF <<g, f>> \in draft[e].patch THEN draft[e].to ELSE draft[e].basis[g][f]]]

(* A secret left blank is not in the patch (_without_blank_secrets).       *)
WithoutBlankSecrets(patch, v) == IF v = Default THEN patch \ Secrets ELSE patch
(* The first reading; a patch of Telegram takes its row FOR UPDATE before. *)
ReadSettings(e) == \E patch \in SUBSET (Groups \X Fields), v \in Values :
    /\ patch # {}
    /\ StartEdit(e, "merge", WithoutBlankSecrets(patch, v), v)
    /\ IF \E f \in Fields : <<Telegram, f>> \in patch
       THEN TelegramFree(e) /\ telegramLock' = e
       ELSE UNCHANGED telegramLock
    /\ UNCHANGED <<stored, mirror>>
Configured(doc, needs) ==
    \A n \in needs : doc[n[1][1]][n[1][2]] # Default => doc[n[2][1]][n[2][2]] # Default
(* Mutant: what the patch does not name counts as configured.              *)
AcceptablePatch(e) ==
    Configured(Merged(e), {n \in Needs : n[2] \in draft[e].patch})
(* _validate_app_config looks at the merged groups, whatever was patched,  *)
(* _validate_backup_config at that of the backups if it was; a group is    *)
(* switched on only with what it needs.  Ranges are abstracted.            *)
Acceptable(e) ==
    Configured(Merged(e), {n \in Needs : n[1][1] \in {Telegram} \cup Patched(e)})
(* The second reading, into the rows that will be assigned to.             *)
LoadSettings(e) ==
    /\ editing[e] = "merge" /\ Acceptable(e)
    /\ draft' = [draft EXCEPT ![e].loaded = stored]
    /\ editing' = [editing EXCEPT ![e] = "write"]
    /\ UNCHANGED <<stored, mirror, telegramLock, edits>>
(* Mutant: every group assigned is written.                                *)
TouchedAll(e) == Rows
(* Every group is assigned; the UPDATE takes those that differ.            *)
Touched(e) == {g \in Rows : Merged(e)[g] # draft[e].loaded[g]}
(* _mirror_legacy_settings keeps the merged document, not what is stored.  *)
MirrorLegacy(e) == [g \in Groups |-> Merged(e)[g]]
CommitSettings(e) ==
    /\ editing[e] = "write"
    /\ Telegram \in Touched(e) => TelegramFree(e)
    /\ stored' = [g \in Rows |-> IF g \in Touched(e) THEN Merged(e)[g] ELSE stored[g]]
    /\ mirror' = MirrorLegacy(e)
    /\ EndEdit(e)
(* update_app_info reads its row once and keeps it.                        *)
ReadAppInfo(e) == \E fs \in SUBSET Fields, v \in Values :
    /\ fs # {}
    /\ StartEdit(e, "info", {AppInfo} \X fs, v)
    /\ UNCHANGED <<stored, mirror, telegramLock>>
CommitAppInfo(e) ==
    /\ editing[e] = "info"
    /\ stored' = [stored EXCEPT ![AppInfo] = IF Merged(e)[AppInfo] # draft[e].loaded[AppInfo]
                                             THEN Merged(e)[AppInfo] ELSE @]
    /\ EndEdit(e)
    /\ UNCHANGED mirror
(* reset_app_info deletes the row: the defaults show again.                *)
ResetAppInfo(e) ==
    /\ editing[e] = "idle" /\ edits < MaxEdits
    /\ edits' = edits + 1
    /\ stored' = [stored EXCEPT ![AppInfo] = DefaultGroup]
    /\ UNCHANGED <<mirror, telegramLock, editing, draft>>
(* A value is refused, or the connection breaks.                           *)
AbandonEdit(e) ==
    /\ editing[e] # "idle" /\ EndEdit(e)
    /\ UNCHANGED <<stored, mirror>>

SettingsInit ==
    /\ stored = [g \in Rows |-> DefaultGroup]
    /\ mirror = [g \in Groups |-> DefaultGroup]
    /\ telegramLock = NoEditor
    /\ editing = [e \in Editors |-> "idle"]
    /\ draft = [e \in Editors |-> NoDraftSetting]
    /\ edits = 0
EditSettings(e) ==
    \/ ReadSettings(e) \/ LoadSettings(e) \/ CommitSettings(e)
    \/ ReadAppInfo(e) \/ CommitAppInfo(e) \/ ResetAppInfo(e)
    \/ AbandonEdit(e)
SettingsNext == \E e \in Editors : EditSettings(e)
SettingsSpec == SettingsInit /\ [][SettingsNext]_settingsVars
-----------------------------------------------------------------------------
(* Every variable holds what its table or its process may hold.            *)
SettingsTypeOK ==
    /\ stored \in [Rows -> Group] /\ mirror \in [Groups -> Group]
    /\ telegramLock \in Editors \cup {NoEditor}
    /\ editing \in [Editors -> {"idle", "merge", "write", "info"}]
    /\ draft \in [Editors -> Draft]
    /\ edits \in 0 .. MaxEdits

(* Another administrator's COMMIT changed a row after e read it first, and *)
(* before e loaded it again.                                               *)
ChangedBetween(e, g) == draft[e].basis[g] # draft[e].loaded[g]
ChangedSince(e, g) == draft[e].basis[g] # stored[g]
(* "Two administrators editing different sections cannot overwrite each    *)
(* other": a COMMIT changes a key it was not asked to change only in a     *)
(* group it was asked to change, without a lock, that changed since it was *)
(* read; or in another group that changed between its two readings.  What  *)
(* it was not asked to change in the group of Telegram, which it holds     *)
(* locked, it never changes.                                               *)
OtherEditsKept ==
    [][\A e \in Editors, g \in Rows, f \in Fields :
          /\ editing[e] \in {"write", "info"} /\ editing'[e] = "idle"
          /\ <<g, f>> \notin draft[e].patch /\ stored'[g][f] # stored[g][f]
          => \/ g \in Patched(e) \ {Telegram} /\ ChangedSince(e, g)
             \/ g \notin Patched(e) /\ ChangedBetween(e, g)]_settingsVars
(* What is switched on is configured: groups are written as they were      *)
(* accepted, so edits that overlap may lose an update and yet leave no     *)
(* bot without its token and no backup without a destination.              *)
EnabledIsConfigured == Configured(stored, Needs)
=============================================================================
