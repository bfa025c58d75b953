----------------------------- MODULE Admission -----------------------------
(* What an access token says of its account and how log-ins are counted     *)
(* (core/deps.py, auth/service.py).  A token carries the token_version of   *)
(* its account and whether the password has to be changed; both are read    *)
(* when it is issued, the version first.  Resets, changes of the password   *)
(* and forced log-outs raise the version they have read; the sessions they  *)
(* revoke are Sessions' matter.  A request is one READ COMMITTED            *)
(* transaction; a column is written only where the request gave it another  *)
(* value than it had loaded.                                                *)
EXTENDS Naturals, FiniteSets

CONSTANTS
    Callers,       \* concurrent requests (bound)
    Limits,        \* values maxLoginAttempts may have
    MaxAdmissions, \* requests that ever start (bound)
    MaxTurns       \* how often the password policy turns (bound)

(* The limit is clamped to a range (_clamped_int).                          *)
ASSUME AdmissionAssumption ==
    /\ Limits \subseteq Nat \ {0} /\ \E n \in Limits : \A m \in Limits : m <= n
    /\ {MaxAdmissions, MaxTurns} \subseteq Nat

VARIABLES
    standing,   \* user_credentials: mustChange, failed attempts, lock
    version,    \* users.token_version
    passes,     \* the access tokens issued: version and the "pwd" claim
    due,        \* the password has expired, or the policy wants a new one
    caller,     \* each request and what it has read
    started,    \* requests started and turns of the policy
    reached,    \* history: how often the account came to each version
    softly,     \* history: versions at which a check of the policy set the flag
    failures,   \* history: failed log-ins since the count last began anew
    miscounted  \* history: a log-in wrote over a count it had not read

admissionVars == <<standing, version, passes, due, caller, started,
                   reached, softly, failures, miscounted>>
countHistory == <<failures, miscounted>>

Ceiling == CHOOSE n \in Limits : \A m \in Limits : m <= n
Locks == {"none", "locked", "over"}
Credential == [mustChange : BOOLEAN, failed : 0..Ceiling, lock : Locks]
Passes == [version : 0..MaxAdmissions, pwd : BOOLEAN]
SignOuts == {"reset", "recover", "change", "logout"}
Purposes == SignOuts \cup {"login", "refresh", "request"}
NoCaller == [step |-> "idle", purpose |-> "request", version |-> 0,
             read |-> [mustChange |-> FALSE, failed |-> 0, lock |-> "none"]]

AdmissionTypeOK ==
    /\ standing \in Credential /\ version \in 0..MaxAdmissions
    /\ passes \subseteq Passes /\ due \in BOOLEAN
    /\ \A r \in Callers :
          /\ caller[r].step \in {"idle", "version", "due", "read", "issue"}
          /\ caller[r].purpose \in Purposes /\ caller[r].read \in Credential
    /\ started \in [requests : 0..MaxAdmissions, policy : 0..MaxTurns]
    /\ reached \in [0..MaxAdmissions -> 0..MaxAdmissions + 1] /\ softly \subseteq 0..MaxAdmissions
    /\ failures \in Nat /\ miscounted \in BOOLEAN

Ends(r) == caller' = [caller EXCEPT ![r] = NoCaller]

-----------------------------------------------------------------------------
(* The row of users is read; a request with an access token is only let on  *)
(* with the version of today, and with the claim only to change the         *)
(* password, renew or leave (_refuse_until_password_changed).               *)
Admitted(purpose) ==
    purpose \in {"change", "request"} =>
        \E t \in passes : t.version = version /\ (t.pwd => purpose = "change")
(* A redeemed recovery link reads the row for update.                       *)
UserLocked(r) == \E q \in Callers \ {r} : caller[q].purpose = "recover"
Begin(r, purpose) ==
    /\ caller[r].step = "idle" /\ started.requests < MaxAdmissions
    /\ Admitted(purpose)
    /\ purpose = "recover" => ~UserLocked(r)
    /\ caller' = [caller EXCEPT ![r] = [NoCaller EXCEPT !.step = "version", !.purpose = purpose,
                                                    !.version = version]]
    /\ started' = [started EXCEPT !.requests = @ + 1]
    /\ UNCHANGED <<standing, version, passes, due, reached, softly, countHistory>>

(* Then the credential; a log-in to a locked account ends here, and so does *)
(* a request of an account whose password is due and flagged already.       *)
ReadCredential(r) ==
    /\ caller[r].step = "version"
    /\ LET unflagged == due /\ ~standing.mustChange
           guarded == caller[r].purpose \in {"change", "request"}
           ends == \/ caller[r].purpose = "login" /\ standing.lock = "locked"
                   \/ caller[r].purpose = "request" /\ ~unflagged
       IN caller' = [caller EXCEPT ![r] =
             IF ends THEN NoCaller
             ELSE [@ EXCEPT !.step = IF guarded /\ unflagged THEN "due" ELSE "read",
                            !.read = standing]]
    /\ UNCHANGED <<standing, version, passes, due, started, reached, softly, countHistory>>

(* get_current_context of an account whose password is due sets the flag    *)
(* and refuses the request, unless it is about to change the password.      *)
FlagDue(r) ==
    /\ caller[r].step = "due"
    /\ standing' = [standing EXCEPT !.mustChange = TRUE]
    /\ softly' = softly \cup {version}
    /\ caller' = [caller EXCEPT ![r] =
          IF caller[r].purpose = "request" THEN NoCaller
          ELSE [caller[r] EXCEPT !.step = "read", !.read.mustChange = TRUE]]
    /\ UNCHANGED <<version, passes, due, started, reached, countHistory>>

-----------------------------------------------------------------------------
(* What a field becomes that was loaded as "loaded" and assigned "value".   *)
Put(now, loaded, value) == IF value = loaded THEN now ELSE value
Counting(c) == <<c.failed, c.lock>>

(* authenticate, with a wrong password: the limit is read from the settings *)
(* (lockout_policy), and the count begins anew with the lock.               *)
WrongPassword(r) == \E limit \in Limits :
    /\ caller[r].step = "read" /\ caller[r].purpose = "login"
    /\ LET read == caller[r].read
           locks == read.failed + 1 >= limit
           count == IF locks THEN 0 ELSE read.failed + 1
       IN /\ standing' = [standing EXCEPT
                !.failed = Put(@, read.failed, count),
                !.lock = IF locks THEN "locked" ELSE @]
          /\ failures' = IF locks THEN 0 ELSE failures + 1
          /\ miscounted' = (miscounted \/ Counting(standing) # Counting(read))
    /\ Ends(r)
    /\ UNCHANGED <<version, passes, due, started, reached, softly>>
(* ... and with the right one.                                              *)
RightPassword(r) ==
    /\ caller[r].step = "read" /\ caller[r].purpose = "login"
    /\ LET read == caller[r].read
       IN /\ standing' = [standing EXCEPT !.failed = Put(@, read.failed, 0),
                                              !.lock = Put(@, read.lock, "none")]
          /\ miscounted' = (miscounted \/ Counting(standing) # Counting(read))
    /\ failures' = 0
    /\ caller' = [caller EXCEPT ![r].step = "issue"]
    /\ UNCHANGED <<version, passes, due, started, reached, softly>>
(* _session_access of a log-in, on what its transaction has loaded, and of  *)
(* a renewal.                                                               *)
Issue(r) ==
    /\ \/ caller[r].step = "issue"
       \/ caller[r].step = "read" /\ caller[r].purpose = "refresh"
    /\ passes' = passes \cup {[version |-> caller[r].version, pwd |-> caller[r].read.mustChange]}
    /\ Ends(r)
    /\ UNCHANGED <<standing, version, due, started, reached, softly, countHistory>>

-----------------------------------------------------------------------------
(* Mutant: the reset leaves the version as it was. *)
NotRaised(r) == caller[r].version

Raised(r) == caller[r].version + 1

(* set_user_password, which may or may not ask for a change; change_password*)
(* and reset_password, which take the flag back; force_logout_user and      *)
(* deactivation.  Only the two resets clear the count.                      *)
SignOut(r) == \E flag \in BOOLEAN :
    /\ caller[r].step = "read" /\ caller[r].purpose \in SignOuts
    /\ ~UserLocked(r)
    /\ flag => caller[r].purpose = "reset"
    /\ LET read == caller[r].read
           keeps == caller[r].purpose = "logout"
           clears == caller[r].purpose \in {"reset", "recover"}
       IN /\ standing' = [mustChange |-> IF keeps THEN standing.mustChange
                                           ELSE Put(standing.mustChange, read.mustChange, flag),
                            failed |-> IF clears THEN Put(standing.failed, read.failed, 0)
                                       ELSE standing.failed,
                            lock |-> IF clears THEN Put(standing.lock, read.lock, "none")
                                     ELSE standing.lock]
          /\ due' = (due /\ keeps)
          /\ failures' = IF clears THEN 0 ELSE failures
          /\ miscounted' = (miscounted \/ (clears /\ Counting(standing) # Counting(read)))
    /\ version' = Raised(r)
    /\ reached' = [reached EXCEPT ![caller[r].version + 1] = @ + 1]
    /\ Ends(r)
    /\ UNCHANGED <<passes, started, softly>>

(* The password expires or an administrator turns the policy; the minutes   *)
(* of a lock pass.                                                          *)
PolicyTurns ==
    /\ started.policy < MaxTurns /\ started' = [started EXCEPT !.policy = @ + 1]
    /\ due' = ~due
    /\ UNCHANGED <<standing, version, passes, caller, reached, softly, countHistory>>
LockEnds ==
    /\ standing.lock = "locked" /\ standing' = [standing EXCEPT !.lock = "over"]
    /\ UNCHANGED <<version, passes, due, caller, started, reached, softly, countHistory>>
AbandonCall(r) ==
    /\ caller[r].step # "idle" /\ Ends(r)
    /\ UNCHANGED <<standing, version, passes, due, started, reached, softly, countHistory>>

AdmissionInit ==
    /\ standing \in [mustChange : BOOLEAN, failed : {0}, lock : {"none"}]
    /\ version = 0 /\ passes = {} /\ due = FALSE
    /\ caller = [r \in Callers |-> NoCaller]
    /\ started = [requests |-> 0, policy |-> 0]
    /\ reached = [n \in 0..MaxAdmissions |-> IF n = 0 THEN 1 ELSE 0]
    /\ softly = {} /\ failures = 0 /\ miscounted = FALSE

AdmissionNext ==
    \/ PolicyTurns \/ LockEnds
    \/ \E r \in Callers :
          \/ \E purpose \in Purposes : Begin(r, purpose)
          \/ ReadCredential(r) \/ WrongPassword(r) \/ RightPassword(r) \/ Issue(r)
          \/ SignOut(r) \/ FlagDue(r) \/ AbandonCall(r)

AdmissionSpec == AdmissionInit /\ [][AdmissionNext]_admissionVars

-----------------------------------------------------------------------------
(* "The flag rides in the access token ... a token issued before the reset  *)
(* cannot bypass it": a token with the version of today carries the claim   *)
(* while the password has to be changed.  Excused are versions given twice, *)
(* by sign-outs that overlapped (each raises what it has read, so a late    *)
(* one can even lower the version), and a flag that a check of the policy   *)
(* set, which raises none.                                                  *)
TokensCarryTheFlag ==
    \A t \in passes : t.version = version /\ standing.mustChange
                         => t.pwd \/ reached[version] > 1 \/ version \in softly

(* Failed log-ins are counted up to the limit, one by one, and then lock    *)
(* the account, unless another log-in or reset wrote between the reading of *)
(* the count and its writing.                                               *)
FailuresAreCounted ==
    miscounted \/ (failures = standing.failed /\ failures < Ceiling)
=============================================================================
