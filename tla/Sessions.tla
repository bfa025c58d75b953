------------------------------ MODULE Sessions ------------------------------
(***************************************************************************)
(* The sessions of one account: log-in, rotation of the refresh token,     *)
(* log-out, recovery links, and the commands that sign every device out    *)
(* (backend/app/modules/auth/service.py).                                  *)
(*                                                                         *)
(* A request is one READ COMMITTED transaction; its steps are the points   *)
(* where it reads without a lock, waits for a row lock, or commits.  Time  *)
(* is three facts the clock may turn at any moment: a consumed token is    *)
(* no longer recent, a link has expired, the wait for a new link is over.  *)
(* A request that finds its session past a deadline ends as one that was   *)
(* abandoned.                                                              *)
(***************************************************************************)
EXTENDS Integers, FiniteSets

CONSTANTS
    Devices,     \* concurrent requests (bound)
    Passwords,   \* passwords the account may have
    MaxSessions, \* sessions of the account (bound)
    MaxTokens,   \* refresh tokens that are ever issued (bound)
    MaxLinks,    \* recovery links that are ever issued (bound)
    MaxAsking,   \* requests that ever start (bound)
    NoDevice     \* the holder of a lock nobody holds

ASSUME SessionsAssumption ==
    /\ NoDevice \notin Devices
    /\ Passwords # {}
    /\ {MaxSessions, MaxTokens, MaxLinks, MaxAsking} \subseteq Nat

VARIABLES
    account,     \* the row of users and its credential
    sessions,    \* rows of user_sessions
    spent,       \* rows of used_refresh_tokens
    links,       \* rows of password_reset_tokens
    cooling,     \* a link was issued within cooldownMinutes
    accountLock, \* the request holding the users row
    sessionLock, \* the request holding each user_sessions row
    asking,      \* where each request is
    held,        \* what each request has read and been asked
    asked,       \* how many requests have started
    exchanges,   \* history: which refresh token was exchanged for which
    replayed,    \* history: tokens presented long after they were consumed
    redeemed,    \* history: how often each link has set a password
    overlapped   \* history: sessions opened beside a sign-out

accessRows == <<account, sessions, spent, links, cooling>>
accessLocks == <<accountLock, sessionLock>>
accessHistory == <<exchanges, replayed, redeemed, overlapped>>
sessionVars == <<accessRows, accessLocks, accessHistory, asking, held, asked>>

SessionNos == 1 .. MaxSessions
Tokens == 1 .. MaxTokens
LinkNos == 1 .. MaxLinks
AnyPassword == CHOOSE p \in Passwords : TRUE
Account == [active : BOOLEAN, password : Passwords]
(* token: the one whose hash the row holds; by: the password it was opened *)
(* with (history).                                                         *)
Session == [status : {"ABSENT", "LIVE", "REVOKED"}, token : 0 .. MaxTokens, by : Passwords]
NoSession == [status |-> "ABSENT", token |-> 0, by |-> AnyPassword]
Spent == [age : {"NONE", "RECENT", "OLD"}, session : 0 .. MaxSessions]
Unspent == [age |-> "NONE", session |-> 0]
AskingSteps == {"idle", "login", "rotate", "sign_out", "link", "read_link", "redeem"}
(* What a request loaded: the account, the live sessions, the open links;  *)
(* what it was given: a session, a link; what it will write: a password,   *)
(* the status; late: whether a sign-out committed since it began (history).*)
Held == [account : Account, live : SUBSET SessionNos, open : SUBSET LinkNos,
         session : 0 .. MaxSessions, link : 0 .. MaxLinks, writes : Account, late : BOOLEAN]
NotHeld == [account |-> [active |-> TRUE, password |-> AnyPassword], live |-> {}, open |-> {},
            session |-> 0, link |-> 0, writes |-> [active |-> TRUE, password |-> AnyPassword],
            late |-> FALSE]

LiveSessions == {s \in SessionNos : sessions[s].status = "LIVE"}
OpenLinks == {l \in LinkNos : links[l] = "OPEN"}
IssuedTokens == {t \in Tokens : spent[t].age # "NONE" \/ \E s \in SessionNos : sessions[s].token = t}
NextToken == Cardinality(IssuedTokens) + 1
Loaded == [NotHeld EXCEPT !.account = account, !.writes = account,
                          !.live = LiveSessions, !.open = OpenLinks]
MayAsk(r) == asking[r] = "idle" /\ asked < MaxAsking
AskAt(r, step, read) ==
    /\ MayAsk(r)
    /\ asked' = asked + 1
    /\ asking' = [asking EXCEPT ![r] = step]
    /\ held' = [held EXCEPT ![r] = read]
AskGoes(r, step) == asking' = [asking EXCEPT ![r] = step] /\ UNCHANGED asked
(* The locks of an ended request go free.  Where it signed everybody out,  *)
(* the requests still under way are late.                                  *)
AskEnds(r, signsOut) ==
    /\ asking' = [asking EXCEPT ![r] = "idle"]
    /\ held' = [o \in Devices |->
                  IF o = r \/ asking[o] = "idle" THEN NotHeld
                  ELSE [held[o] EXCEPT !.late = held[o].late \/ signsOut]]
    /\ accountLock' = IF accountLock = r THEN NoDevice ELSE accountLock
    /\ sessionLock' = [s \in SessionNos |-> IF sessionLock[s] = r THEN NoDevice ELSE sessionLock[s]]
    /\ UNCHANGED asked
AccountFree(r) == accountLock \in {r, NoDevice}
SessionFree(r, s) == sessionLock[s] \in {r, NoDevice}
-----------------------------------------------------------------------------
(* authenticate: the password is verified against a credential read        *)
(* without a lock, and the transaction ends before the session is opened.  *)
Authenticate(r) ==
    /\ account.active
    /\ AskAt(r, "login", Loaded)
    /\ UNCHANGED <<accessRows, accessLocks, accessHistory>>
(* create_session: the foreign key of the new row waits for a users row    *)
(* that is locked FOR UPDATE.                                              *)
CreateSession(r) == \E s \in SessionNos :
    /\ asking[r] = "login" /\ AccountFree(r)
    /\ sessions[s].status = "ABSENT" /\ \A o \in 1 .. s - 1 : sessions[o].status # "ABSENT"
    /\ NextToken \in Tokens
    /\ sessions' = [sessions EXCEPT ![s] = [status |-> "LIVE", token |-> NextToken,
                                            by |-> held[r].account.password]]
    /\ overlapped' = IF held[r].late \/ \E o \in Devices : asking[o] = "sign_out"
                     THEN overlapped \cup {s} ELSE overlapped
    /\ AskEnds(r, FALSE)
    /\ UNCHANGED <<account, spent, links, cooling, exchanges, replayed, redeemed>>
-----------------------------------------------------------------------------
(* rotate_refresh_token with the token a session holds: _refresh_record    *)
(* locks the session found by it.  A request that waited for the lock      *)
(* looks for the hash again, so it arrives when the lock is free.          *)
LockForRotation(r) == \E s \in SessionNos :
    /\ sessions[s].status # "ABSENT" /\ SessionFree(r, s)
    /\ account.active /\ sessions[s].status = "LIVE"
    /\ AskAt(r, "rotate", [Loaded EXCEPT !.session = s])
    /\ sessionLock' = [sessionLock EXCEPT ![s] = r]
    /\ UNCHANGED <<accessRows, accountLock, accessHistory>>
(* The old hash becomes history, the session takes the new one.            *)
CommitRotation(r) ==
    LET s == held[r].session  old == sessions[s].token
    IN /\ asking[r] = "rotate" /\ NextToken \in Tokens
       /\ spent' = [spent EXCEPT ![old] = [age |-> "RECENT", session |-> s]]
       /\ sessions' = [sessions EXCEPT ![s].token = NextToken]
       /\ exchanges' = exchanges \cup {<<old, NextToken>>}
       /\ AskEnds(r, FALSE)
       /\ UNCHANGED <<account, links, cooling, replayed, redeemed, overlapped>>

(* Mutant: the grace never ends.                                           *)
ReplayForgiven(t) == FALSE
(* The same with a consumed token: within five seconds an overlapping      *)
(* request is told to retry and gets nothing; later the session is         *)
(* revoked.                                                                *)
ReplayRevokes(t) == spent[t].age = "OLD"
Replay(r) == \E t \in Tokens :
    LET s == spent[t].session
    IN /\ MayAsk(r) /\ spent[t].age # "NONE" /\ SessionFree(r, s)
       /\ asked' = asked + 1
       /\ sessions' = IF ReplayRevokes(t) THEN [sessions EXCEPT ![s].status = "REVOKED"] ELSE sessions
       /\ replayed' = IF spent[t].age = "OLD" THEN replayed \cup {t} ELSE replayed
       /\ UNCHANGED <<account, spent, links, cooling, accessLocks, asking, held,
                      exchanges, redeemed, overlapped>>
(* revoke_session: log-out by the refresh token, current or consumed, or   *)
(* by the session of the access token.                                     *)
LogOut(r) == \E s \in SessionNos :
    /\ MayAsk(r) /\ sessions[s].status # "ABSENT" /\ SessionFree(r, s)
    /\ asked' = asked + 1
    /\ sessions' = [sessions EXCEPT ![s].status = "REVOKED"]
    /\ UNCHANGED <<account, spent, links, cooling, accessLocks, asking, held, accessHistory>>
-----------------------------------------------------------------------------
(* change_password, set_user_password, force_logout_user and the           *)
(* deactivation of update_user all end in _revoke_all_sessions, which      *)
(* lists the live sessions without a lock.  p: the password to be set, or  *)
(* the present one where the command sets none.                            *)
ListSessions(r) == \E p \in Passwords, active \in {account.active, FALSE} :
    /\ p = account.password \/ active = account.active
    /\ AskAt(r, "sign_out", [Loaded EXCEPT !.writes = [password |-> p, active |-> active]])
    /\ UNCHANGED <<accessRows, accessLocks, accessHistory>>
(* Mutant: changing the password spares one device.                        *)
RevokedButOne(r) == {s \in held[r].live : \E o \in held[r].live : o < s}
RevokedBy(r) == held[r].live
Revoke(gone) == [s \in SessionNos |->
    IF s \in gone THEN [sessions[s] EXCEPT !.status = "REVOKED"] ELSE sessions[s]]
Close(closed) == [l \in LinkNos |-> IF l \in closed THEN "USED" ELSE links[l]]
(* An attribute is written where it was assigned something else than was   *)
(* loaded.  The links the commands for passwords close are those open when *)
(* their UPDATE runs, somewhere between the reading and the COMMIT.        *)
Written(r) == [f \in DOMAIN account |->
    IF held[r].writes[f] # held[r].account[f] THEN held[r].writes[f] ELSE account[f]]
RevokeAllSessions(r) == \E closed \in SUBSET LinkNos :
    /\ asking[r] = "sign_out" /\ AccountFree(r) /\ \A s \in RevokedBy(r) : SessionFree(r, s)
    /\ closed \subseteq OpenLinks
    /\ closed = {} \/ held[r].open \cap OpenLinks \subseteq closed
    /\ account' = Written(r)
    /\ sessions' = Revoke(RevokedBy(r))
    /\ links' = Close(closed)
    /\ AskEnds(r, TRUE)
    /\ UNCHANGED <<spent, cooling, accessHistory>>
(* update_user with status ACTIVE.                                         *)
Reactivate(r) ==
    /\ MayAsk(r) /\ ~account.active /\ AccountFree(r)
    /\ asked' = asked + 1
    /\ account' = [account EXCEPT !.active = TRUE]
    /\ UNCHANGED <<sessions, spent, links, cooling, accessLocks, asking, held, accessHistory>>
-----------------------------------------------------------------------------
(* Mutant: the cooldown and the links are read without the lock.           *)
LinkUnlocked(r) ==
    /\ account.active /\ ~cooling
    /\ AskAt(r, "link", Loaded)
    /\ UNCHANGED <<accessRows, accessLocks, accessHistory>>
(* request_password_reset: under the lock of the users row, the cooldown   *)
(* is checked and the links still open are closed.                         *)
LockForLink(r) ==
    /\ AccountFree(r) /\ account.active /\ ~cooling
    /\ AskAt(r, "link", Loaded)
    /\ accountLock' = r
    /\ UNCHANGED <<accessRows, sessionLock, accessHistory>>
IssueLink(r) == \E l \in LinkNos :
    /\ asking[r] = "link"
    /\ links[l] = "ABSENT" /\ \A o \in 1 .. l - 1 : links[o] # "ABSENT"
    /\ links' = [Close(held[r].open) EXCEPT ![l] = "OPEN"]
    /\ cooling' = TRUE
    /\ AskEnds(r, FALSE)
    /\ UNCHANGED <<account, sessions, spent, accessHistory>>
(* reset_password: the link is read without a lock, the users row locked,  *)
(* and the link consumed by an UPDATE that demands it still open.          *)
ReadLink(r) == \E l \in LinkNos, p \in Passwords :
    /\ links[l] # "ABSENT"
    /\ AskAt(r, "read_link", [NotHeld EXCEPT !.link = l, !.open = OpenLinks,
                                             !.writes = [password |-> p, active |-> TRUE]])
    /\ UNCHANGED <<accessRows, accessLocks, accessHistory>>
LockForReset(r) ==
    /\ asking[r] = "read_link" /\ AccountFree(r) /\ account.active
    /\ accountLock' = r
    /\ held' = [held EXCEPT ![r].account = account, ![r].live = LiveSessions]
    /\ AskGoes(r, "redeem")
    /\ UNCHANGED <<accessRows, sessionLock, accessHistory>>
(* Mutant: the link as it was first read decides.                          *)
ConsumableAsRead(r) == held[r].link \in held[r].open
Consumable(r) == links[held[r].link] = "OPEN"
ResetPassword(r) ==
    /\ asking[r] = "redeem" /\ Consumable(r) /\ \A s \in RevokedBy(r) : SessionFree(r, s)
    /\ account' = [account EXCEPT !.password = held[r].writes.password]
    /\ links' = Close(OpenLinks \cup {held[r].link})
    /\ sessions' = Revoke(RevokedBy(r))
    /\ redeemed' = [redeemed EXCEPT ![held[r].link] = @ + 1]
    /\ AskEnds(r, TRUE)
    /\ UNCHANGED <<spent, cooling, exchanges, replayed, overlapped>>
-----------------------------------------------------------------------------
(* A check fails, a deadline has passed or the connection breaks: the      *)
(* transaction rolls back.                                                 *)
AbandonAsk(r) ==
    /\ asking[r] # "idle"
    /\ AskEnds(r, FALSE)
    /\ UNCHANGED <<accessRows, accessHistory>>
Clock ==
    /\ \/ \E t \in Tokens : /\ spent[t].age = "RECENT"
                            /\ spent' = [spent EXCEPT ![t].age = "OLD"]
                            /\ UNCHANGED <<links, cooling>>
       \/ \E l \in OpenLinks : /\ links' = [links EXCEPT ![l] = "EXPIRED"]
                               /\ UNCHANGED <<spent, cooling>>
       \/ cooling /\ cooling' = FALSE /\ UNCHANGED <<spent, links>>
    /\ UNCHANGED <<account, sessions, accessLocks, asking, held, asked, accessHistory>>

SessionsInit ==
    /\ account \in {[active |-> TRUE, password |-> p] : p \in Passwords}
    /\ sessions = [s \in SessionNos |-> NoSession]
    /\ spent = [t \in Tokens |-> Unspent]
    /\ links = [l \in LinkNos |-> "ABSENT"]
    /\ cooling = FALSE
    /\ accountLock = NoDevice
    /\ sessionLock = [s \in SessionNos |-> NoDevice]
    /\ asking = [r \in Devices |-> "idle"]
    /\ held = [r \in Devices |-> NotHeld]
    /\ asked = 0
    /\ exchanges = {} /\ replayed = {} /\ overlapped = {}
    /\ redeemed = [l \in LinkNos |-> 0]
Ask(r) ==
    \/ Authenticate(r) \/ CreateSession(r)
    \/ LockForRotation(r) \/ CommitRotation(r) \/ Replay(r) \/ LogOut(r)
    \/ ListSessions(r) \/ RevokeAllSessions(r) \/ Reactivate(r)
    \/ LockForLink(r) \/ IssueLink(r) \/ ReadLink(r) \/ LockForReset(r) \/ ResetPassword(r)
    \/ AbandonAsk(r)
SessionsNext == Clock \/ \E r \in Devices : Ask(r)
SessionsSpec == SessionsInit /\ [][SessionsNext]_sessionVars
-----------------------------------------------------------------------------
(* Every variable holds what its table or its process may hold.            *)
SessionsTypeOK ==
    /\ account \in Account
    /\ sessions \in [SessionNos -> Session]
    /\ spent \in [Tokens -> Spent]
    /\ links \in [LinkNos -> {"ABSENT", "OPEN", "USED", "EXPIRED"}]
    /\ cooling \in BOOLEAN
    /\ accountLock \in Devices \cup {NoDevice}
    /\ sessionLock \in [SessionNos -> Devices \cup {NoDevice}]
    /\ asking \in [Devices -> AskingSteps]
    /\ held \in [Devices -> Held]
    /\ asked \in 0 .. MaxAsking
    /\ exchanges \subseteq Tokens \X Tokens
    /\ replayed \subseteq Tokens /\ overlapped \subseteq SessionNos
    /\ redeemed \in [LinkNos -> Nat]

(* A refresh token is exchanged once, however many tabs present it; when   *)
(* it is presented again after the grace, the session it belonged to is    *)
(* revoked for good, whoever holds the newest token.                       *)
SpentTokensBuyNothing ==
    /\ \A e, f \in exchanges : e[1] = f[1] => e = f
    /\ \A t \in replayed : sessions[spent[t].session].status = "REVOKED"

(* "Changing the password signs out every device": a live session was      *)
(* opened with the password of today, unless it was being opened while a   *)
(* sign-out was under way (the log-in race of create_session).             *)
SignOutsReachEveryDevice ==
    \A s \in LiveSessions : s \in overlapped \/ sessions[s].by = account.password

(* At most one recovery link is open, and none sets a password twice.      *)
LinksRedeemOnce ==
    /\ Cardinality(OpenLinks) <= 1
    /\ \A l \in LinkNos : redeemed[l] <= 1

(* A refresh token is exchanged once and its replay ends the session; a     *)
(* recovery link sets one password.                                         *)
SecretsWorkOnce == SpentTokensBuyNothing /\ LinksRedeemOnce
=============================================================================
