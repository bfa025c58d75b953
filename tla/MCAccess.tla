------------------------------ MODULE MCAccess ------------------------------
(* Sessions, Admission, Accounts, Settings, AccessPolicy, Linking and      *)
(* Alerts on small instances.  Each has its own variables, so a behaviour  *)
(* runs one of them, which "part" names; of Alerts, the audit log, an      *)
(* incident, or the backup runs and an outage of the database.             *)
EXTENDS Sessions, Accounts, Settings, AccessPolicy, Linking, Alerts, Admission, TLC

CONSTANTS r1, r2, p1, p2, f1, f2, u1, u2, u3, super, clerk, chargesView, documentsView,
          chargesRead, documentsRead, telegram, ui, backup

VARIABLE part

(* A fragment of PAGE_PERMISSION_GRANTS: two pages that share a capability.*)
PageGrants == [c \in Codes |->
    CASE c = chargesView -> {chargesRead, documentsRead}
      [] c = documentsView -> {documentsRead}
      [] OTHER -> {}]
PageOrder == [p \in Pages |-> IF p = chargesView THEN 1 ELSE 2]
Submitted == {{chargesView}, {documentsView}, {documentsRead}}

(* f1 switches Telegram or the backup on, f2 is what that takes: the token *)
(* of the bot, the key of the destination.                                 *)
SecretKeys == {telegram, backup} \X {f2}
NeededKeys == {<<<<g, f1>>, <<g, f2>>>> : g \in {telegram, backup}}

Parts == {"sessions", "accounts", "settings", "policy", "linking", "audit", "incidents", "probe",
          "admission"}

AccessInit ==
    /\ part \in Parts
    /\ SessionsInit /\ SettingsInit /\ AccessPolicyInit
    /\ AccountsInit /\ LinkingInit /\ AlertsInit /\ AdmissionInit
    /\ part # "accounts" => users = [u \in Users |-> "ACTIVE"] /\ holds = Users \X {SuperAdmin}
    /\ part # "sessions" => account.password = AnyPassword
    /\ part # "admission" => standing.mustChange = FALSE

Others(rest) == UNCHANGED <<part, rest>>
AccessNext ==
    \/ /\ part = "sessions" /\ SessionsNext
       /\ Others(<<accountVars, settingsVars, policyVars, linkVars, alertVars, admissionVars>>)
    \/ /\ part = "accounts" /\ AccountsNext
       /\ Others(<<sessionVars, settingsVars, policyVars, linkVars, alertVars, admissionVars>>)
    \/ /\ part = "settings" /\ SettingsNext
       /\ Others(<<sessionVars, accountVars, policyVars, linkVars, alertVars, admissionVars>>)
    \/ /\ part = "policy" /\ AccessPolicyNext
       /\ Others(<<sessionVars, accountVars, settingsVars, linkVars, alertVars, admissionVars>>)
    \/ /\ part = "linking" /\ LinkingNext
       /\ Others(<<sessionVars, accountVars, settingsVars, policyVars, alertVars, admissionVars>>)
    \/ /\ part \in {"audit", "incidents", "probe"} /\ AlertsNext
       /\ Others(<<sessionVars, accountVars, settingsVars, policyVars, linkVars, admissionVars>>)
       /\ part # "audit" => log' = log
       /\ part # "incidents" => incident' = incident
       /\ part # "probe" => finished' = finished /\ outage' = outage
    \/ /\ part = "admission" /\ AdmissionNext
       /\ Others(<<sessionVars, accountVars, settingsVars, policyVars, linkVars, alertVars>>)
AccessSpec ==
    AccessInit /\ [][AccessNext]_<<part, sessionVars, accountVars, settingsVars, policyVars,
                                  linkVars, alertVars, admissionVars>>

(* Every variable of the seven modules holds what its table or its process   *)
(* may hold.                                                               *)
AccessTypeOK == /\ SessionsTypeOK /\ AccountsTypeOK /\ SettingsTypeOK /\ AccessPolicyTypeOK
                /\ LinkingTypeOK /\ AlertsTypeOK /\ AdmissionTypeOK

(* What the bot may do unasked: it does not come back to an account that a  *)
(* disconnection has left, tells the group that the bot in force was        *)
(* offered, does not repeat an incident too soon and leaves no event out    *)
(* that it could have seen (Linking, Alerts).                               *)
BotKeepsItsPlace ==
    /\ part = "linking" => DisconnectsLast /\ GroupIsTheBots
    /\ part \in {"audit", "incidents", "probe"} => CooldownKept /\ SkippedOnlyIfLate

(* Administrators who work at once do not undo each other: a setting one    *)
(* did not touch keeps the other's value and nothing is on that lacks its   *)
(* configuration; grants and revocations on a role add up, an account never *)
(* holds two roles and the last super administrator stays (Settings,        *)
(* Accounts).                                                               *)
AdministratorsCoexist ==
    /\ OtherEditsKept /\ GrantsAreSerial
    /\ [](part = "accounts" => OneRoleEach /\ SuperAdminRemains)
    /\ [](part = "settings" => EnabledIsConfigured)

(* Resets, changes of the password and forced log-outs take hold: no device *)
(* stays signed in, no token issued before hides that the password has to   *)
(* be changed, and the failures counted since are those that happened       *)
(* (Sessions, Admission).                                                   *)
ResetsTakeHold ==
    CASE part = "sessions" -> SignOutsReachEveryDevice
      [] part = "admission" -> TokensCarryTheFlag /\ FailuresAreCounted
      [] OTHER -> TRUE

Alike == Permutations({r1, r2})
=============================================================================
