---------------------------- MODULE AccessProofs ----------------------------
(***************************************************************************)
(* What holds of the access to the system for every number of accounts,    *)
(* devices, requests and processes: the copies of the policy, the sessions *)
(* of an account, the accounts of the bot, log-ins and resets, the         *)
(* monitor, the settings and the administrators.  One part per component,  *)
(* each with an inductive invariant of its own; at the end, all of them    *)
(* side by side.                                                           *)
(***************************************************************************)
EXTENDS MCAccess, FiniteSetTheorems, WellFoundedInduction, TLAPS

(***************************************************************************)
(* Part one: the policy.  No request is held against an access policy that *)
(* had been replaced for longer than a copy lives.                         *)
(***************************************************************************)
(* A policy is replaced once, at a time that has passed; the one in force   *)
(* has not been.                                                            *)
Succession ==
    /\ \A p \in Policies : supersededAt[p] = Never \/ supersededAt[p] <= clock
    /\ \A p \in Policies : p >= policy => supersededAt[p] = Never

(* A copy holds a policy that stood at its stamp or came after it.          *)
CopiesHonest ==
    \A w \in Workers : copy[w] # NoCopy =>
       /\ copy[w].stamp <= clock
       /\ supersededAt[copy[w].holds] >= copy[w].stamp

(* So does what a request has read; what it is answered with may be older   *)
(* by less than the life of a copy.                                         *)
ReadersHonest ==
    \A w \in Workers, r \in Readers :
       /\ reader[w][r].at <= clock
       /\ reader[w][r].step = "store" => supersededAt[reader[w][r].holds] >= reader[w][r].at
       /\ reader[w][r].step = "served" => supersededAt[reader[w][r].holds] + TTL > reader[w][r].at

PolicyInv == AccessPolicyTypeOK /\ Succession /\ CopiesHonest /\ ReadersHonest

USE AccessPolicyAssumption

(* What a request is after its SELECT and after it has stored its copy.     *)
LEMMA Outcomes ==
    ASSUME AccessPolicyTypeOK, NEW w \in Workers, NEW r \in Readers
    PROVE  /\ [step |-> "store", at |-> reader[w][r].at, holds |-> policy] \in Reader
           /\ [reader[w][r] EXCEPT !.step = "served"] \in Reader
<1>1. reader[w][r] \in Reader /\ policy \in Policies
  BY DEF AccessPolicyTypeOK
<1>2. [step |-> "store", at |-> reader[w][r].at, holds |-> policy] \in Reader
  BY <1>1 DEF Reader
<1> DEFINE x == reader[w][r]
<1>3. [x EXCEPT !.step = "served"] \in Reader
  <2> SUFFICES ASSUME NEW y \in Reader PROVE [y EXCEPT !.step = "served"] \in Reader
    BY <1>1
  <2> QED BY DEF Reader
<1> QED BY <1>2, <1>3

(* The variables keep to their types.                                       *)
LEMMA PolicyTypes == AccessPolicyTypeOK /\ [AccessPolicyNext]_policyVars => AccessPolicyTypeOK'
<1> SUFFICES ASSUME AccessPolicyTypeOK, [AccessPolicyNext]_policyVars PROVE AccessPolicyTypeOK'
    OBVIOUS
<1> USE DEF AccessPolicyTypeOK, Times, Policies, Never, Copy, NoCopy, Reader, IdleReader
<1>1. CASE PolicyTick
  BY <1>1 DEF PolicyTick
<1>2. ASSUME NEW by \in SUBSET Workers, ChangePolicy(by) PROVE AccessPolicyTypeOK'
  BY <1>2 DEF ChangePolicy
<1>3. ASSUME NEW w \in Workers, Invalidate(w) PROVE AccessPolicyTypeOK'
  BY <1>3 DEF Invalidate
<1>4. ASSUME NEW w \in Workers, Restart(w) PROVE AccessPolicyTypeOK'
  BY <1>4 DEF Restart
<1>5. ASSUME NEW w \in Workers, NEW r \in Readers, Serve(w, r) PROVE AccessPolicyTypeOK'
  <2>1. copy[w].holds \in Policies
    BY <1>5 DEF Serve, Fresh
  <2> QED BY <1>5, <2>1 DEF Serve, ReaderGoes
<1>6. ASSUME NEW w \in Workers, NEW r \in Readers, Look(w, r) PROVE AccessPolicyTypeOK'
  BY <1>6 DEF Look, ReaderGoes
<1>7. ASSUME NEW w \in Workers, NEW r \in Readers, Select(w, r) PROVE AccessPolicyTypeOK'
  <2>1. [step |-> "store", at |-> reader[w][r].at, holds |-> policy] \in Reader
    BY Outcomes
  <2> QED BY <1>7, <2>1 DEF Select, ReaderGoes
<1>8. ASSUME NEW w \in Workers, NEW r \in Readers, Store(w, r) PROVE AccessPolicyTypeOK'
  <2>1. [reader[w][r] EXCEPT !.step = "served"] \in Reader
    BY Outcomes
  <2> QED BY <1>8, <2>1 DEF Store, ReaderGoes, Stamp
<1>9. ASSUME NEW w \in Workers, NEW r \in Readers, Enforced(w, r) PROVE AccessPolicyTypeOK'
  BY <1>9 DEF Enforced, ReaderGoes
<1>10. CASE UNCHANGED policyVars
  BY <1>10 DEF policyVars
<1> QED BY <1>1, <1>2, <1>3, <1>4, <1>5, <1>6, <1>7, <1>8, <1>9, <1>10 DEF AccessPolicyNext

(* What the commit of a change does to the times of replacement.            *)
LEMMA Replaced ==
    ASSUME PolicyInv, NEW by \in SUBSET Workers, ChangePolicy(by), NEW p \in Policies
    PROVE  supersededAt'[p] = supersededAt[p] \/ supersededAt'[p] = clock
BY DEF PolicyInv, AccessPolicyTypeOK, ChangePolicy, Policies

(* One request goes on honestly, and the others stay.                       *)
LEMMA OneReaderGoes ==
    ASSUME PolicyInv, UNCHANGED <<clock, supersededAt>>,
           NEW w \in Workers, NEW r \in Readers, NEW to, ReaderGoes(w, r, to),
           to.at <= clock,
           to.step = "store" => supersededAt[to.holds] >= to.at,
           to.step = "served" => supersededAt[to.holds] + TTL > to.at
    PROVE  ReadersHonest'
<1>1. \A v \in Workers, q \in Readers :
          reader'[v][q] = to \/ reader'[v][q] = reader[v][q]
  BY DEF ReaderGoes, PolicyInv, AccessPolicyTypeOK
<1> QED BY <1>1 DEF PolicyInv, ReadersHonest

(* PolicyInv is inductive.                                                  *)
LEMMA PolicyInvStep == PolicyInv /\ [AccessPolicyNext]_policyVars => PolicyInv'
<1> SUFFICES ASSUME PolicyInv, [AccessPolicyNext]_policyVars PROVE PolicyInv'
    OBVIOUS
<1>t. AccessPolicyTypeOK'
  BY PolicyTypes DEF PolicyInv
<1> USE <1>t DEF PolicyInv, Succession, CopiesHonest, ReadersHonest, AccessPolicyTypeOK,
                 Times, Policies, Never, Copy, NoCopy, Reader, IdleReader
<1>1. CASE PolicyTick
  BY <1>1 DEF PolicyTick
<1>2. ASSUME NEW by \in SUBSET Workers, ChangePolicy(by) PROVE PolicyInv'
  <2>1. /\ supersededAt' = [supersededAt EXCEPT ![policy] = clock] /\ policy' = policy + 1
        /\ clock' = clock /\ copy' = copy /\ reader' = reader /\ policy \in Policies
    BY <1>2 DEF ChangePolicy
  <2>2. \A p \in Policies : supersededAt'[p] = IF p = policy THEN clock ELSE supersededAt[p]
    BY <2>1
  <2>3. supersededAt[policy] = Never
    OBVIOUS
  <2>4. Succession'
    BY <2>1, <2>2
  <2>5. CopiesHonest'
    BY <2>1, <2>2
  <2>6. ReadersHonest'
    BY <2>1, <2>2
  <2> QED BY <2>4, <2>5, <2>6
<1>3. ASSUME NEW w \in Workers, Invalidate(w) PROVE PolicyInv'
  BY <1>3 DEF Invalidate
<1>4. ASSUME NEW w \in Workers, Restart(w) PROVE PolicyInv'
  BY <1>4 DEF Restart
<1>5. ASSUME NEW w \in Workers, NEW r \in Readers, Serve(w, r) PROVE PolicyInv'
  <2>1. copy[w] # NoCopy /\ clock - copy[w].stamp < TTL
    BY <1>5 DEF Serve, Fresh
  <2>2. supersededAt[copy[w].holds] \in Nat /\ supersededAt[copy[w].holds] + TTL > clock
    <3> DEFINE ended == supersededAt[copy[w].holds]
    <3>1. ended \in Nat /\ clock \in Nat /\ copy[w].stamp \in Nat /\ ended >= copy[w].stamp
      BY <2>1
    <3> HIDE DEF ended
    <3>2. ended + TTL > clock
      BY ONLY <2>1, <3>1, AccessPolicyAssumption DEF AccessPolicyAssumption
    <3> QED BY <3>1, <3>2 DEF ended
  <2> QED BY <1>5, <2>2 DEF Serve, ReaderGoes
<1>6. ASSUME NEW w \in Workers, NEW r \in Readers, Look(w, r) PROVE PolicyInv'
  BY <1>6 DEF Look, ReaderGoes
<1>7. ASSUME NEW w \in Workers, NEW r \in Readers, Select(w, r) PROVE PolicyInv'
  <2>1. supersededAt[policy] = Never
    OBVIOUS
  <2> DEFINE to == [step |-> "store", at |-> reader[w][r].at, holds |-> policy]
  <2>2. ReaderGoes(w, r, to) /\ UNCHANGED <<clock, policy, supersededAt, copy>>
    BY <1>7 DEF Select
  <2>3. to.step = "store" /\ to.at = reader[w][r].at /\ to.holds = policy
    OBVIOUS
  <2> HIDE DEF to
  <2>4. to.at \in Times /\ to.at <= clock
    BY <2>3
  <2>5. supersededAt[to.holds] >= to.at
    BY <2>1, <2>3, <2>4
  <2>6. ReadersHonest'
    BY <2>2, <2>3, <2>4, <2>5, OneReaderGoes
  <2>7. Succession' /\ CopiesHonest'
    BY <2>2
  <2> QED BY <2>6, <2>7
<1>8. ASSUME NEW w \in Workers, NEW r \in Readers, Store(w, r) PROVE PolicyInv'
  <2> DEFINE to == [reader[w][r] EXCEPT !.step = "served"]
             new == [stamp |-> reader[w][r].at, holds |-> reader[w][r].holds]
  <2>1. /\ copy' = [copy EXCEPT ![w] = new] /\ ReaderGoes(w, r, to)
        /\ reader[w][r].step = "store" /\ UNCHANGED <<clock, policy, supersededAt>>
    BY <1>8 DEF Store, Stamp
  <2>2. reader[w][r] \in Reader /\ reader[w][r].at <= clock
    OBVIOUS
  <2>3. /\ to.step = "served" /\ to.at = reader[w][r].at /\ to.holds = reader[w][r].holds
        /\ new.stamp = reader[w][r].at /\ new.holds = reader[w][r].holds
    BY <2>2
  <2> HIDE DEF to, new
  <2>4. supersededAt[reader[w][r].holds] >= reader[w][r].at
    BY <2>1
  <2>5. /\ supersededAt[reader[w][r].holds] \in Nat /\ reader[w][r].at \in Nat
        /\ supersededAt[reader[w][r].holds] + TTL > reader[w][r].at
    <3> DEFINE ended == supersededAt[reader[w][r].holds]
               at == reader[w][r].at
    <3>1. ended \in Nat /\ at \in Nat /\ ended >= at
      BY <2>2, <2>4
    <3> HIDE DEF ended, at
    <3>2. ended + TTL > at
      BY ONLY <3>1, AccessPolicyAssumption DEF AccessPolicyAssumption
    <3> QED BY <3>1, <3>2 DEF ended, at
  <2>6. ReadersHonest'
    BY <2>1, <2>2, <2>3, <2>5, OneReaderGoes
  <2>7. \A v \in Workers : copy'[v] = new \/ copy'[v] = copy[v]
    BY <2>1
  <2>8. CopiesHonest'
    BY <2>1, <2>2, <2>3, <2>4, <2>7
  <2>9. Succession'
    BY <2>1
  <2> QED BY <2>6, <2>8, <2>9
<1>9. ASSUME NEW w \in Workers, NEW r \in Readers, Enforced(w, r) PROVE PolicyInv'
  BY <1>9 DEF Enforced, ReaderGoes
<1>10. CASE UNCHANGED policyVars
  BY <1>10 DEF policyVars
<1> QED BY <1>1, <1>2, <1>3, <1>4, <1>5, <1>6, <1>7, <1>8, <1>9, <1>10 DEF AccessPolicyNext

(* get_access_policy bounds propagation to _ACCESS_POLICY_TTL_SECONDS in    *)
(* every process, whatever changes, drops and restarts interleave.          *)
THEOREM PolicyIsFresh == AccessPolicySpec => []StalenessBounded
<1>1. AccessPolicyInit => PolicyInv
  BY DEF AccessPolicyInit, PolicyInv, Succession, CopiesHonest, ReadersHonest, AccessPolicyTypeOK,
         Times, Policies, Never, Copy, NoCopy, Reader, IdleReader
<1>2. PolicyInv => StalenessBounded
  BY DEF PolicyInv, ReadersHonest, StalenessBounded
<1> QED BY <1>1, <1>2, PolicyInvStep, PTL DEF AccessPolicySpec

HIDE AccessPolicyAssumption

-----------------------------------------------------------------------------
(***************************************************************************)
(* Part two: sessions.  Tokens are given once: those issued so far are the *)
(* first so many, and a session that was opened holds one that is neither  *)
(* consumed nor another's.  What a request holds stays true as far as its  *)
(* locks go: a reset lists the sessions and a link request the open links  *)
(* under the users row, which a new session has to wait for; a sign-out    *)
(* without that lock still has every session but those that overlap it.    *)
(***************************************************************************)
KnownSessions == {s \in SessionNos : sessions[s].status # "ABSENT"}
Stored ==
    /\ DOMAIN account = {"active", "password"}
    /\ DOMAIN sessions = SessionNos /\ DOMAIN spent = Tokens
    /\ \A s \in SessionNos : DOMAIN sessions[s] = {"status", "token", "by"}
    /\ \A t \in Tokens : DOMAIN spent[t] = {"age", "session"}
    /\ DOMAIN links = LinkNos /\ DOMAIN redeemed = LinkNos
TokensApart ==
    /\ \E n \in Nat : IssuedTokens = 1 .. n
    /\ \A s \in SessionNos : s \notin KnownSessions => sessions[s].token = 0
    /\ \A s \in KnownSessions : sessions[s].token \in Tokens /\ spent[sessions[s].token].age = "NONE"
    /\ \A s, o \in KnownSessions : sessions[s].token = sessions[o].token => s = o
    /\ \A t \in Tokens : spent[t].age # "NONE" => spent[t].session \in KnownSessions
    /\ \A e \in exchanges : e[1] \in Tokens /\ spent[e[1]].age # "NONE"
    /\ \A t \in replayed : t \in Tokens /\ spent[t].age # "NONE"
    /\ SpentTokensBuyNothing
LinksApart ==
    /\ \A l \in LinkNos : redeemed[l] \in {0, 1} /\ (redeemed[l] = 1 => links[l] = "USED")
    /\ \A k, l \in OpenLinks : k = l
Given(r, step, h) ==
    /\ DOMAIN h = DOMAIN NotHeld
    /\ h.live \subseteq KnownSessions
    /\ step = "login" => h.late \/ h.account.password = account.password
    /\ step = "rotate" => h.session \in KnownSessions
    /\ step = "sign_out" => LiveSessions \subseteq h.live \cup overlapped
    /\ step = "link" => accountLock = r /\ OpenLinks \subseteq h.open
    /\ step \in {"read_link", "redeem"} => h.link \in LinkNos
    /\ step = "redeem" => accountLock = r /\ LiveSessions \subseteq h.live
SessionsInv ==
    /\ Stored /\ TokensApart /\ LinksApart /\ SignOutsReachEveryDevice
    /\ DOMAIN asking = Devices /\ DOMAIN held = Devices
    /\ \A r \in Devices : Given(r, asking[r], held[r])

(* Two requests: what they hold is the same, but that one may be late.      *)
HoldsOn(h, g) ==
    /\ DOMAIN h = DOMAIN g /\ h.live = g.live /\ h.account = g.account
    /\ h.session = g.session /\ h.open = g.open /\ h.link = g.link
    /\ g.late => h.late

LEMMA HeldFields ==
    /\ DOMAIN NotHeld = {"account", "live", "open", "session", "link", "writes", "late"}
    /\ NotHeld.live = {} /\ NotHeld.late = FALSE
BY DEF NotHeld

(* What a request holds stays true of a world that moved no further than    *)
(* its locks and its being late allow.                                      *)
LEMMA GoesOn ==
    ASSUME SessionsInv, NEW o \in Devices, asking'[o] = asking[o],
           (held'[o] = NotHeld /\ asking[o] = "idle") \/ HoldsOn(held'[o], held[o]),
           account'.password = account.password \/ asking[o] = "idle" \/ held'[o].late,
           asking[o] = "sign_out" => LiveSessions' \subseteq LiveSessions \cup overlapped',
           accountLock = o => /\ accountLock' = o
                              /\ OpenLinks' \subseteq OpenLinks
                              /\ LiveSessions' \subseteq LiveSessions,
           KnownSessions \subseteq KnownSessions', overlapped \subseteq overlapped'
    PROVE  Given(o, asking[o], held[o])'
<1>1. PICK a, g, k : a = asking[o] /\ g = held[o] /\ k = held'[o]
  OBVIOUS
<1>2. Given(o, a, g) /\ asking'[o] = a
  BY <1>1 DEF SessionsInv
<1>3. Given(o, a, k)'
  <2>1. CASE k = NotHeld /\ a = "idle"
    BY <2>1, HeldFields DEF Given
  <2>2. CASE HoldsOn(k, g) /\ a # "idle"
    <3> HIDE DEF KnownSessions, LiveSessions, OpenLinks
    <3>1. k.live \subseteq KnownSessions'
      BY <1>2, <2>2 DEF Given, HoldsOn
    <3>2. a = "login" => k.late \/ k.account.password = account'.password
      BY <1>1, <1>2, <2>2 DEF Given, HoldsOn
    <3>3. a = "sign_out" => LiveSessions' \subseteq k.live \cup overlapped'
      BY <1>1, <1>2, <2>2 DEF Given, HoldsOn
    <3>4. a \in {"link", "redeem"} =>
              /\ accountLock' = o
              /\ OpenLinks' \subseteq OpenLinks /\ LiveSessions' \subseteq LiveSessions
      BY <1>1, <1>2 DEF Given
    <3> QED BY <1>2, <2>2, <3>1, <3>2, <3>3, <3>4 DEF Given, HoldsOn
  <2>3. CASE HoldsOn(k, g) /\ a = "idle"
    BY <1>2, <2>3 DEF Given, HoldsOn
  <2> QED BY <1>1, <2>1, <2>2, <2>3
<1> QED BY <1>1, <1>2, <1>3

(* What is stored is in order, and one request, or none, has moved.         *)
WorldMoved(o) ==
    /\ account'.password = account.password \/ asking[o] = "idle" \/ held'[o].late
    /\ asking[o] = "sign_out" => LiveSessions' \subseteq LiveSessions \cup overlapped'
    /\ accountLock = o => /\ OpenLinks' \subseteq OpenLinks
                          /\ LiveSessions' \subseteq LiveSessions
InOrder ==
    /\ Stored /\ TokensApart /\ LinksApart /\ SignOutsReachEveryDevice
    /\ DOMAIN asking = Devices /\ DOMAIN held = Devices
Moves(r) ==
    \A o \in Devices \ {r} :
        /\ asking'[o] = asking[o]
        /\ (held'[o] = NotHeld /\ asking[o] = "idle") \/ HoldsOn(held'[o], held[o])
        /\ accountLock = o => accountLock' = o
LEMMA OneMoves ==
    ASSUME SessionsInv, NEW r \in Devices, Moves(r), InOrder',
           Given(r, asking[r], held[r])', \A o \in Devices \ {r} : WorldMoved(o),
           KnownSessions \subseteq KnownSessions', overlapped \subseteq overlapped'
    PROVE  SessionsInv'
<1>1. ASSUME NEW o \in Devices \ {r} PROVE Given(o, asking[o], held[o])'
  <2> HIDE DEF KnownSessions, LiveSessions, OpenLinks, Given
  <2> QED BY GoesOn DEF Moves, WorldMoved
<1> QED BY <1>1 DEF SessionsInv, InOrder
LEMMA NobodyMoves ==
    ASSUME SessionsInv, UNCHANGED <<asking, held, accountLock, overlapped>>, InOrder',
           account'.password = account.password, KnownSessions \subseteq KnownSessions',
           OpenLinks' \subseteq OpenLinks, LiveSessions' \subseteq LiveSessions
    PROVE  SessionsInv'
<1>1. ASSUME NEW o \in Devices PROVE Given(o, asking[o], held[o])'
  <2> HIDE DEF KnownSessions, LiveSessions, OpenLinks, Given
  <2>1. HoldsOn(held'[o], held[o])
    BY DEF HoldsOn
  <2> QED BY <2>1, GoesOn
<1> QED BY <1>1 DEF SessionsInv, InOrder

(* A request that ends is idle and holds nothing; the others go on, late    *)
(* where it signed everybody out.                                           *)
LEMMA Ended ==
    ASSUME SessionsInv, NEW r \in Devices, NEW signsOut \in BOOLEAN, AskEnds(r, signsOut),
           SessionsAssumption
    PROVE  /\ DOMAIN asking' = Devices /\ DOMAIN held' = Devices
           /\ Moves(r) /\ asking'[r] = "idle" /\ held'[r] = NotHeld
           /\ signsOut => \A o \in Devices \ {r} : asking[o] = "idle" \/ held'[o].late
           /\ Given(r, asking[r], held[r])'
<1>1. ASSUME NEW o \in Devices \ {r} PROVE
         (held'[o] = NotHeld /\ asking[o] = "idle")
         \/ (HoldsOn(held'[o], held[o]) /\ (signsOut => held'[o].late))
  <2>1. DOMAIN held[o] = DOMAIN NotHeld
    BY DEF SessionsInv, Given
  <2>2. PICK g : g = held[o]
    OBVIOUS
  <2>3. held'[o] = IF asking[o] = "idle" THEN NotHeld
                   ELSE [g EXCEPT !.late = g.late \/ signsOut]
    BY <2>2 DEF AskEnds
  <2>4. HoldsOn([g EXCEPT !.late = g.late \/ signsOut], g)
    BY <2>1, <2>2, HeldFields DEF HoldsOn
  <2>5. signsOut => [g EXCEPT !.late = g.late \/ signsOut].late
    BY <2>1, <2>2, HeldFields
  <2> QED BY <2>2, <2>3, <2>4, <2>5
<1>2. held'[r] = NotHeld /\ DOMAIN held' = Devices
  BY DEF AskEnds
<1>3. DOMAIN asking' = Devices /\ asking'[r] = "idle" /\ \A o \in Devices \ {r} : asking'[o] = asking[o]
  BY DEF AskEnds, SessionsInv
<1>4. \A o \in Devices \ {r} : accountLock = o => accountLock' = o
  BY DEF AskEnds
<1>5. Given(r, asking[r], held[r])'
  BY <1>2, <1>3, HeldFields DEF Given
<1> QED BY <1>1, <1>2, <1>3, <1>4, <1>5 DEF Moves

LEMMA Started ==
    ASSUME SessionsInv, NEW r \in Devices, NEW step, NEW read, AskAt(r, step, read),
           (AccountFree(r) /\ accountLock' = r) \/ UNCHANGED accountLock, SessionsAssumption
    PROVE  /\ DOMAIN asking' = Devices /\ DOMAIN held' = Devices
           /\ Moves(r) /\ asking'[r] = step /\ held'[r] = read
BY DEF SessionsInv, AskAt, Moves, HoldsOn, AccountFree, SessionsAssumption

(* Nothing is stored.                                                       *)
LEMMA NothingStored ==
    ASSUME SessionsInv, UNCHANGED <<accessRows, accessHistory>>
    PROVE  /\ Stored' /\ TokensApart' /\ LinksApart' /\ SignOutsReachEveryDevice'
           /\ KnownSessions' = KnownSessions /\ LiveSessions' = LiveSessions /\ OpenLinks' = OpenLinks
           /\ account' = account /\ overlapped' = overlapped
<1>1. Stored' /\ LinksApart' /\ SignOutsReachEveryDevice'
  BY DEF SessionsInv, Stored, LinksApart, SignOutsReachEveryDevice, OpenLinks, LiveSessions,
         accessRows, accessHistory
<1>2. TokensApart'
  BY DEF SessionsInv, TokensApart, SpentTokensBuyNothing, KnownSessions, IssuedTokens,
         accessRows, accessHistory
<1>3. /\ KnownSessions' = KnownSessions /\ LiveSessions' = LiveSessions /\ OpenLinks' = OpenLinks
      /\ account' = account /\ overlapped' = overlapped
  BY DEF KnownSessions, LiveSessions, OpenLinks, accessRows, accessHistory
<1> QED BY <1>1, <1>2, <1>3

LEMMA Numbering ==
    ASSUME TokensApart
    PROVE  /\ NextToken \in Nat \ {0} /\ NextToken \notin IssuedTokens
           /\ IssuedTokens \cup {NextToken} = 1 .. NextToken
<1>1. PICK n \in Nat : IssuedTokens = 1 .. n
  BY DEF TokensApart
<1>2. Cardinality(1 .. n) = n
  BY <1>1, FS_Interval
<1>3. NextToken = n + 1
  BY <1>1, <1>2 DEF NextToken
<1> HIDE DEF NextToken, IssuedTokens
<1> QED BY <1>1, <1>3

(* No token is issued: sessions stay what they are or are revoked, consumed *)
(* tokens grow old, and a session whose token is replayed is revoked.       *)
LEMMA NoTokenIssued ==
    ASSUME Stored, TokensApart, DOMAIN sessions' = SessionNos, DOMAIN spent' = Tokens,
           \A s \in SessionNos :
               /\ DOMAIN sessions'[s] = DOMAIN sessions[s]
               /\ sessions'[s].token = sessions[s].token
               /\ sessions'[s].status = sessions[s].status
                  \/ (sessions'[s].status = "REVOKED" /\ s \in KnownSessions),
           \A t \in Tokens :
               /\ DOMAIN spent'[t] = DOMAIN spent[t]
               /\ spent'[t].session = spent[t].session
               /\ spent'[t].age = "NONE" <=> spent[t].age = "NONE",
           exchanges' = exchanges,
           \A t \in replayed' \ replayed :
               /\ t \in Tokens /\ spent[t].age # "NONE"
               /\ sessions'[spent[t].session].status = "REVOKED"
    PROVE  TokensApart' /\ KnownSessions' = KnownSessions /\ LiveSessions' \subseteq LiveSessions
<1>1. KnownSessions' = KnownSessions
  BY DEF KnownSessions
<1>2. LiveSessions' \subseteq LiveSessions
  BY DEF LiveSessions
<1>3. IssuedTokens' = IssuedTokens
  BY DEF IssuedTokens
<1>4. SpentTokensBuyNothing'
  <2>1. ASSUME NEW t \in replayed' PROVE sessions'[spent'[t].session].status = "REVOKED"
    <3>1. CASE t \in replayed
      <4>1. t \in Tokens /\ spent[t].session \in SessionNos
        BY <3>1 DEF TokensApart, KnownSessions
      <4>2. sessions[spent[t].session].status = "REVOKED"
        BY <3>1 DEF TokensApart, SpentTokensBuyNothing
      <4> QED BY <4>1, <4>2
    <3> QED BY <3>1, <2>1
  <2> QED BY <2>1 DEF TokensApart, SpentTokensBuyNothing
<1> HIDE DEF KnownSessions, LiveSessions, IssuedTokens
<1>5. KnownSessions \subseteq SessionNos
  BY DEF KnownSessions
<1>6. \A t \in replayed' : t \in Tokens /\ spent'[t].age # "NONE"
  BY DEF TokensApart
<1> QED BY <1>1, <1>2, <1>3, <1>4, <1>5, <1>6 DEF TokensApart

LEMMA LoadedFields ==
    /\ DOMAIN Loaded = DOMAIN NotHeld /\ Loaded.live = LiveSessions /\ Loaded.open = OpenLinks
    /\ Loaded.account = account
BY HeldFields DEF Loaded

(* The steps that only read, or lock.                                       *)
LEMMA ReadSteps ==
    ASSUME SessionsAssumption, SessionsInv, NEW r \in Devices,
           Authenticate(r) \/ LockForRotation(r) \/ ListSessions(r) \/ LockForLink(r) \/ ReadLink(r)
    PROVE  SessionsInv'
<1>1. /\ Stored' /\ TokensApart' /\ LinksApart' /\ SignOutsReachEveryDevice'
      /\ KnownSessions' = KnownSessions /\ LiveSessions' = LiveSessions /\ OpenLinks' = OpenLinks
      /\ account' = account /\ overlapped' = overlapped
  <2>1. UNCHANGED <<accessRows, accessHistory>>
    BY DEF Authenticate, LockForRotation, ListSessions, LockForLink, ReadLink
  <2> QED BY <2>1, NothingStored
<1>2. LiveSessions \subseteq KnownSessions
  BY DEF LiveSessions, KnownSessions
<1>3. /\ DOMAIN asking' = Devices /\ DOMAIN held' = Devices /\ Moves(r)
      /\ Given(r, asking[r], held[r])'
  <2> HIDE DEF KnownSessions, LiveSessions, OpenLinks
  <2>1. CASE Authenticate(r)
    <3>1. AskAt(r, "login", Loaded) /\ UNCHANGED accountLock
      BY <2>1 DEF Authenticate, accessLocks
    <3> QED BY <1>1, <1>2, <3>1, Started, LoadedFields DEF Given
  <2>2. CASE LockForRotation(r)
    <3>1. PICK s \in SessionNos : /\ s \in KnownSessions
                                  /\ AskAt(r, "rotate", [Loaded EXCEPT !.session = s])
                                  /\ UNCHANGED accountLock
      BY <2>2 DEF LockForRotation, KnownSessions
    <3>2. PICK h : h = [Loaded EXCEPT !.session = s]
      OBVIOUS
    <3>3. DOMAIN h = DOMAIN NotHeld /\ h.live = LiveSessions /\ h.session = s
      BY <3>2, LoadedFields, HeldFields
    <3>4. Moves(r) /\ asking'[r] = "rotate" /\ held'[r] = h /\ DOMAIN asking' = Devices
          /\ DOMAIN held' = Devices
      BY <3>1, <3>2, Started
    <3> QED BY <1>1, <1>2, <3>1, <3>3, <3>4 DEF Given
  <2>3. CASE ListSessions(r)
    <3>1. PICK w : /\ AskAt(r, "sign_out", [Loaded EXCEPT !.writes = w])
                   /\ UNCHANGED accountLock
      BY <2>3 DEF ListSessions, accessLocks
    <3>2. PICK h : h = [Loaded EXCEPT !.writes = w]
      OBVIOUS
    <3>3. DOMAIN h = DOMAIN NotHeld /\ h.live = LiveSessions
      BY <3>2, LoadedFields, HeldFields
    <3>4. Moves(r) /\ asking'[r] = "sign_out" /\ held'[r] = h /\ DOMAIN asking' = Devices
          /\ DOMAIN held' = Devices
      BY <3>1, <3>2, Started
    <3> QED BY <1>1, <1>2, <3>1, <3>3, <3>4 DEF Given
  <2>4. CASE LockForLink(r)
    <3>1. AskAt(r, "link", Loaded) /\ AccountFree(r) /\ accountLock' = r
      BY <2>4 DEF LockForLink
    <3> QED BY <1>1, <1>2, <3>1, Started, LoadedFields DEF Given
  <2>5. CASE ReadLink(r)
    <3>0. PICK l \in LinkNos : \E w :
               /\ AskAt(r, "read_link", [NotHeld EXCEPT !.link = l, !.open = OpenLinks, !.writes = w])
               /\ UNCHANGED accountLock
      BY <2>5 DEF ReadLink, accessLocks
    <3>1. PICK w :
               /\ AskAt(r, "read_link", [NotHeld EXCEPT !.link = l, !.open = OpenLinks, !.writes = w])
               /\ UNCHANGED accountLock
      BY <3>0
    <3>2. PICK h : h = [NotHeld EXCEPT !.link = l, !.open = OpenLinks, !.writes = w]
      OBVIOUS
    <3>3. DOMAIN h = DOMAIN NotHeld /\ h.live = {} /\ h.link = l
      BY <3>2, HeldFields
    <3>4. Moves(r) /\ asking'[r] = "read_link" /\ held'[r] = h /\ DOMAIN asking' = Devices
          /\ DOMAIN held' = Devices
      BY <3>1, <3>2, Started
    <3> QED BY <1>1, <1>2, <3>1, <3>3, <3>4 DEF Given
  <2> QED BY <2>1, <2>2, <2>3, <2>4, <2>5
<1> HIDE DEF KnownSessions, LiveSessions, OpenLinks, Given
<1> QED BY <1>1, <1>3, OneMoves DEF InOrder, WorldMoved

LEMMA AbandonStep ==
    ASSUME SessionsAssumption, SessionsInv, NEW r \in Devices, AbandonAsk(r)
    PROVE  SessionsInv'
<1>1. AskEnds(r, FALSE) /\ UNCHANGED <<accessRows, accessHistory>>
  BY DEF AbandonAsk
<1>2. /\ Stored' /\ TokensApart' /\ LinksApart' /\ SignOutsReachEveryDevice'
      /\ KnownSessions' = KnownSessions /\ LiveSessions' = LiveSessions /\ OpenLinks' = OpenLinks
      /\ account' = account /\ overlapped' = overlapped
  BY <1>1, NothingStored
<1> HIDE DEF KnownSessions, LiveSessions, OpenLinks, Given
<1> QED BY <1>1, <1>2, Ended, OneMoves DEF InOrder, WorldMoved

LEMMA LockForResetStep ==
    ASSUME SessionsAssumption, SessionsInv, NEW r \in Devices, LockForReset(r)
    PROVE  SessionsInv'
<1>1. /\ asking[r] = "read_link" /\ AccountFree(r) /\ accountLock' = r
      /\ held' = [held EXCEPT ![r].account = account, ![r].live = LiveSessions]
      /\ asking' = [asking EXCEPT ![r] = "redeem"]
      /\ UNCHANGED <<accessRows, accessHistory>>
  BY DEF LockForReset, AskGoes
<1>2. /\ Stored' /\ TokensApart' /\ LinksApart' /\ SignOutsReachEveryDevice'
      /\ KnownSessions' = KnownSessions /\ LiveSessions' = LiveSessions /\ OpenLinks' = OpenLinks
      /\ account' = account /\ overlapped' = overlapped
  BY <1>1, NothingStored
<1>3. LiveSessions \subseteq KnownSessions
  BY DEF LiveSessions, KnownSessions
<1>4. PICK h : h = held'[r]
  OBVIOUS
<1>5. DOMAIN h = DOMAIN NotHeld /\ h.live = LiveSessions /\ h.link \in LinkNos
  BY <1>1, <1>4, HeldFields DEF SessionsInv, Given
<1>6. DOMAIN asking' = Devices /\ DOMAIN held' = Devices /\ asking'[r] = "redeem" /\ Moves(r)
  BY <1>1, SessionsAssumption DEF SessionsInv, Moves, HoldsOn, AccountFree
<1> HIDE DEF KnownSessions, LiveSessions, OpenLinks
<1>7. Given(r, asking[r], held[r])'
  BY <1>1, <1>2, <1>3, <1>4, <1>5, <1>6 DEF Given
<1> HIDE DEF Given
<1> QED BY <1>2, <1>6, <1>7, OneMoves DEF InOrder, WorldMoved

(* Sessions are revoked.                                                    *)
Revoked(gone) ==
    /\ DOMAIN sessions' = SessionNos
    /\ \A s \in SessionNos :
         /\ DOMAIN sessions'[s] = {"status", "token", "by"}
         /\ sessions'[s].by = sessions[s].by /\ sessions'[s].token = sessions[s].token
         /\ sessions'[s].status = IF s \in gone THEN "REVOKED" ELSE sessions[s].status
LEMMA RevokeRevokes ==
    ASSUME SessionsInv, NEW gone \in SUBSET KnownSessions, sessions' = Revoke(gone)
    PROVE  Revoked(gone)
BY DEF Revoke, Revoked, SessionsInv, Stored
LEMMA Revoking ==
    ASSUME SessionsInv, NEW gone \in SUBSET KnownSessions, Revoked(gone),
           UNCHANGED <<spent, exchanges>>,
           \A t \in replayed' \ replayed :
               t \in Tokens /\ spent[t].age # "NONE" /\ spent[t].session \in gone
    PROVE  /\ TokensApart' /\ KnownSessions' = KnownSessions
           /\ LiveSessions' = LiveSessions \ gone
           /\ DOMAIN sessions' = SessionNos
           /\ \A s \in SessionNos : /\ DOMAIN sessions'[s] = {"status", "token", "by"}
                                    /\ sessions'[s].by = sessions[s].by
<1>1. \A s \in SessionNos :
         /\ DOMAIN sessions'[s] = {"status", "token", "by"}
         /\ sessions'[s].by = sessions[s].by /\ sessions'[s].token = sessions[s].token
         /\ s \in gone => sessions'[s].status = "REVOKED"
         /\ s \notin gone => sessions'[s].status = sessions[s].status
  BY DEF Revoked
<1>2. DOMAIN sessions' = SessionNos /\ gone \subseteq SessionNos
  BY DEF Revoked, KnownSessions
<1>3. /\ Stored /\ TokensApart /\ DOMAIN spent' = Tokens
      /\ \A t \in Tokens : DOMAIN spent'[t] = DOMAIN spent[t]
      /\ \A s \in SessionNos : DOMAIN sessions'[s] = DOMAIN sessions[s]
  BY <1>1 DEF SessionsInv, Stored
<1>4. TokensApart' /\ KnownSessions' = KnownSessions
  <2>1. \A s \in SessionNos :
           sessions'[s].status = sessions[s].status
           \/ (sessions'[s].status = "REVOKED" /\ s \in KnownSessions)
    BY <1>1
  <2>2. \A t \in replayed' \ replayed :
           /\ t \in Tokens /\ spent[t].age # "NONE"
           /\ sessions'[spent[t].session].status = "REVOKED"
    BY <1>1, <1>2
  <2>3. \A s \in SessionNos :
           /\ DOMAIN sessions'[s] = DOMAIN sessions[s]
           /\ sessions'[s].token = sessions[s].token
           /\ sessions'[s].status = sessions[s].status
              \/ (sessions'[s].status = "REVOKED" /\ s \in KnownSessions)
    BY <1>1, <1>3, <2>1
  <2>4. \A t \in Tokens :
           /\ DOMAIN spent'[t] = DOMAIN spent[t]
           /\ spent'[t].session = spent[t].session
           /\ spent'[t].age = "NONE" <=> spent[t].age = "NONE"
    OBVIOUS
  <2>5. exchanges' = exchanges
    OBVIOUS
  <2> HIDE DEF Stored, TokensApart, KnownSessions, LiveSessions
  <2> QED BY <1>2, <1>3, <2>2, <2>3, <2>4, <2>5, NoTokenIssued
<1>5. LiveSessions' = LiveSessions \ gone
  BY <1>1, <1>2 DEF LiveSessions
<1> QED BY <1>1, <1>2, <1>4, <1>5

LEMMA LinksStay ==
    ASSUME LinksApart, UNCHANGED <<links, redeemed>>
    PROVE  LinksApart' /\ OpenLinks' = OpenLinks
BY DEF LinksApart, OpenLinks

(* Revocation by a replay or a log-out.                                     *)
LEMMA LogOutSteps ==
    ASSUME SessionsAssumption, SessionsInv, NEW r \in Devices, Replay(r) \/ LogOut(r)
    PROVE  SessionsInv'
<1>1. /\ UNCHANGED <<account, spent, links, accountLock, asking, held, exchanges, redeemed, overlapped>>
      /\ \E gone \in SUBSET KnownSessions :
            /\ Revoked(gone)
            /\ \A t \in replayed' \ replayed :
                  t \in Tokens /\ spent[t].age # "NONE" /\ spent[t].session \in gone
  <2>1. CASE Replay(r)
    <3>1. PICK t \in Tokens :
             /\ spent[t].age # "NONE"
             /\ sessions' = IF ReplayRevokes(t)
                            THEN [sessions EXCEPT ![spent[t].session].status = "REVOKED"] ELSE sessions
             /\ replayed' = IF spent[t].age = "OLD" THEN replayed \cup {t} ELSE replayed
      BY <2>1 DEF Replay
    <3>2. PICK s \in KnownSessions : s = spent[t].session
      BY <3>1 DEF SessionsInv, TokensApart
    <3>3. CASE spent[t].age = "OLD"
      <4>1. Revoked({s})
        BY <3>1, <3>2, <3>3 DEF ReplayRevokes, Revoked, SessionsInv, Stored, KnownSessions
      <4> QED BY <2>1, <3>1, <3>2, <3>3, <4>1 DEF Replay, accessLocks
    <3>4. CASE spent[t].age # "OLD"
      <4>1. Revoked({})
        BY <3>1, <3>4 DEF ReplayRevokes, Revoked, SessionsInv, Stored
      <4> QED BY <2>1, <3>1, <3>4, <4>1 DEF Replay, accessLocks
    <3> QED BY <3>3, <3>4
  <2>2. CASE LogOut(r)
    <3>1. PICK s \in KnownSessions : sessions' = [sessions EXCEPT ![s].status = "REVOKED"]
      BY <2>2 DEF LogOut, KnownSessions
    <3>2. Revoked({s})
      BY <3>1 DEF Revoked, SessionsInv, Stored, KnownSessions
    <3> QED BY <2>2, <3>1, <3>2 DEF LogOut, accessLocks, accessHistory
  <2> QED BY <2>1, <2>2
<1>2. PICK gone \in SUBSET KnownSessions :
         /\ Revoked(gone)
         /\ \A t \in replayed' \ replayed :
                  t \in Tokens /\ spent[t].age # "NONE" /\ spent[t].session \in gone
  BY <1>1
<1>3. /\ TokensApart' /\ KnownSessions' = KnownSessions /\ LiveSessions' = LiveSessions \ gone
      /\ DOMAIN sessions' = SessionNos
      /\ \A s \in SessionNos : /\ DOMAIN sessions'[s] = {"status", "token", "by"}
                               /\ sessions'[s].by = sessions[s].by
  BY <1>1, <1>2, Revoking
<1>4. Stored'
  BY <1>1, <1>3 DEF SessionsInv, Stored
<1>5. SignOutsReachEveryDevice'
  <2>1. LiveSessions \subseteq SessionNos
    BY DEF LiveSessions
  <2> HIDE DEF LiveSessions
  <2> QED BY <1>1, <1>3, <2>1 DEF SessionsInv, SignOutsReachEveryDevice
<1>6. LinksApart' /\ OpenLinks' = OpenLinks
  BY <1>1, LinksStay DEF SessionsInv
<1> HIDE DEF KnownSessions, LiveSessions, OpenLinks, Given
<1> QED BY <1>1, <1>3, <1>4, <1>5, <1>6, NobodyMoves DEF InOrder, SessionsInv

LEMMA ReactivateStep ==
    ASSUME SessionsAssumption, SessionsInv, NEW r \in Devices, Reactivate(r)
    PROVE  SessionsInv'
<1>1. /\ account' = [account EXCEPT !.active = TRUE]
      /\ UNCHANGED <<sessions, spent, links, accountLock, asking, held, exchanges, replayed,
                     redeemed, overlapped>>
  BY DEF Reactivate, accessLocks, accessHistory
<1>2. account'.password = account.password /\ DOMAIN account' = {"active", "password"}
  BY <1>1 DEF SessionsInv, Stored
<1>3. KnownSessions' = KnownSessions /\ LiveSessions' = LiveSessions /\ OpenLinks' = OpenLinks
  BY <1>1 DEF KnownSessions, LiveSessions, OpenLinks
<1>4. TokensApart' /\ LinksApart'
  BY <1>1, <1>3 DEF SessionsInv, TokensApart, LinksApart, SpentTokensBuyNothing, IssuedTokens
<1>5. Stored' /\ SignOutsReachEveryDevice'
  <2> HIDE DEF LiveSessions
  <2> QED BY <1>1, <1>2, <1>3 DEF SessionsInv, Stored, SignOutsReachEveryDevice
<1> HIDE DEF KnownSessions, LiveSessions, OpenLinks, Given
<1> QED BY <1>1, <1>2, <1>3, <1>4, <1>5, NobodyMoves DEF InOrder, SessionsInv

LEMMA ClockStep ==
    ASSUME SessionsAssumption, SessionsInv, Clock
    PROVE  SessionsInv'
<1>1. UNCHANGED <<account, sessions, accountLock, asking, held, exchanges, replayed, redeemed,
                  overlapped>>
  BY DEF Clock, accessLocks, accessHistory
<1>2. KnownSessions' = KnownSessions /\ LiveSessions' = LiveSessions
  BY <1>1 DEF KnownSessions, LiveSessions
<1>3. \/ UNCHANGED spent
      \/ \E t \in Tokens : spent[t].age = "RECENT" /\ spent' = [spent EXCEPT ![t].age = "OLD"]
  BY DEF Clock
<1>4. /\ DOMAIN spent' = Tokens
      /\ \A t \in Tokens :
            /\ DOMAIN spent'[t] = DOMAIN spent[t] /\ spent'[t].session = spent[t].session
            /\ spent'[t].age = "NONE" <=> spent[t].age = "NONE"
  BY <1>3 DEF SessionsInv, Stored
<1>5. TokensApart'
  <2>1. Stored /\ TokensApart /\ DOMAIN sessions' = SessionNos
    BY <1>1 DEF SessionsInv, Stored
  <2> HIDE DEF Stored, TokensApart, KnownSessions, LiveSessions
  <2> QED BY <1>1, <1>4, <2>1, NoTokenIssued
<1>6. \/ UNCHANGED links
      \/ \E l \in OpenLinks : links' = [links EXCEPT ![l] = "EXPIRED"]
  BY DEF Clock
<1>7. LinksApart' /\ OpenLinks' \subseteq OpenLinks /\ DOMAIN links' = LinkNos
  BY <1>1, <1>6 DEF SessionsInv, Stored, LinksApart, OpenLinks
<1>8. Stored' /\ SignOutsReachEveryDevice'
  BY <1>1, <1>2, <1>4, <1>7 DEF SessionsInv, Stored, SignOutsReachEveryDevice
<1> HIDE DEF KnownSessions, LiveSessions, OpenLinks, Given
<1> QED BY <1>1, <1>2, <1>5, <1>7, <1>8, NobodyMoves DEF InOrder, SessionsInv

LEMMA IssueLinkStep ==
    ASSUME SessionsAssumption, SessionsInv, NEW r \in Devices, IssueLink(r)
    PROVE  SessionsInv'
<1>1. PICK l \in LinkNos :
         /\ asking[r] = "link" /\ links[l] = "ABSENT"
         /\ links' = [Close(held[r].open) EXCEPT ![l] = "OPEN"]
         /\ AskEnds(r, FALSE)
         /\ UNCHANGED <<account, sessions, spent, exchanges, replayed, redeemed, overlapped>>
  BY DEF IssueLink, accessHistory
<1>2. KnownSessions' = KnownSessions /\ LiveSessions' = LiveSessions /\ TokensApart' /\ SignOutsReachEveryDevice'
  BY <1>1 DEF SessionsInv, TokensApart, SpentTokensBuyNothing, KnownSessions, IssuedTokens, LiveSessions,
              SignOutsReachEveryDevice
<1>3. accountLock = r /\ OpenLinks \subseteq held[r].open
  BY <1>1 DEF SessionsInv, Given
<1>4. /\ DOMAIN links' = LinkNos /\ links'[l] = "OPEN"
      /\ \A k \in LinkNos \ {l} : links'[k] = IF k \in held[r].open THEN "USED" ELSE links[k]
  BY <1>1 DEF Close
<1>5. OpenLinks' = {l}
  BY <1>3, <1>4 DEF OpenLinks
<1>6. LinksApart'
  <2>1. \A k, m \in OpenLinks' : k = m
    BY <1>5
  <2>2. ASSUME NEW k \in LinkNos
        PROVE  redeemed'[k] \in {0, 1} /\ (redeemed'[k] = 1 => links'[k] = "USED")
    BY <1>1, <1>4 DEF SessionsInv, LinksApart
  <2> QED BY <2>1, <2>2 DEF LinksApart
<1>7. Stored'
  BY <1>1, <1>4 DEF SessionsInv, Stored
<1>8. \A o \in Devices \ {r} : WorldMoved(o)
  BY <1>1, <1>2, <1>3, SessionsAssumption DEF WorldMoved
<1> HIDE DEF KnownSessions, LiveSessions, OpenLinks, Given, WorldMoved
<1> QED BY <1>1, <1>2, <1>6, <1>7, <1>8, Ended, OneMoves DEF InOrder

(* A log-in opens its session: marked, where a sign-out is under way or was *)
(* since the password was verified.                                         *)
LEMMA CreateStep ==
    ASSUME SessionsAssumption, SessionsInv, NEW r \in Devices, CreateSession(r)
    PROVE  SessionsInv'
<1>1. PICK s \in SessionNos :
         /\ asking[r] = "login" /\ AccountFree(r) /\ sessions[s].status = "ABSENT"
         /\ NextToken \in Tokens
         /\ sessions' = [sessions EXCEPT ![s] = [status |-> "LIVE", token |-> NextToken,
                                                 by |-> held[r].account.password]]
         /\ overlapped' = IF held[r].late \/ \E o \in Devices : asking[o] = "sign_out"
                          THEN overlapped \cup {s} ELSE overlapped
         /\ AskEnds(r, FALSE)
         /\ UNCHANGED <<account, spent, links, exchanges, replayed, redeemed>>
  BY DEF CreateSession
<1>2. PICK n : n = NextToken
  OBVIOUS
<1>3. /\ DOMAIN sessions' = SessionNos
      /\ sessions'[s] = [status |-> "LIVE", token |-> n, by |-> held[r].account.password]
      /\ \A o \in SessionNos \ {s} : sessions'[o] = sessions[o]
  BY <1>1, <1>2 DEF SessionsInv, Stored
<1>4. /\ KnownSessions' = KnownSessions \cup {s} /\ LiveSessions' = LiveSessions \cup {s}
      /\ s \notin KnownSessions /\ KnownSessions \subseteq SessionNos
  BY <1>1, <1>3 DEF KnownSessions, LiveSessions
<1>5. n \in Nat \ {0} /\ n \notin IssuedTokens /\ IssuedTokens \cup {n} = 1 .. n /\ n \in Tokens
  BY <1>1, <1>2, Numbering DEF SessionsInv
<1>6. TokensApart'
  <2>1. sessions[s].token = 0
    BY <1>4 DEF SessionsInv, TokensApart
  <2>2. IssuedTokens' = IssuedTokens \cup {n}
    BY <1>1, <1>3, <1>5, <2>1 DEF IssuedTokens, Tokens
  <2>3. spent[n].age = "NONE" /\ \A o \in SessionNos : sessions[o].token # n
    BY <1>5 DEF IssuedTokens
  <2>4. \A t \in replayed' : sessions'[spent'[t].session].status = "REVOKED"
    BY <1>1, <1>3, <1>4 DEF SessionsInv, TokensApart, SpentTokensBuyNothing
  <2>5. /\ \A o \in SessionNos : o \notin KnownSessions' => sessions'[o].token = 0
        /\ \A o \in KnownSessions' : sessions'[o].token \in Tokens /\ spent'[sessions'[o].token].age = "NONE"
    BY <1>1, <1>3, <1>4, <1>5, <2>3 DEF SessionsInv, TokensApart
  <2>6. \A o, q \in KnownSessions' : sessions'[o].token = sessions'[q].token => o = q
    BY <1>3, <1>4, <2>3 DEF SessionsInv, TokensApart
  <2>7. \E m \in Nat : IssuedTokens' = 1 .. m
    BY <1>5, <2>2
  <2> HIDE DEF KnownSessions, IssuedTokens
  <2> QED BY <1>1, <1>4, <2>4, <2>5, <2>6, <2>7 DEF SessionsInv, TokensApart, SpentTokensBuyNothing
<1>7. Stored' /\ LinksApart' /\ OpenLinks' = OpenLinks
  BY <1>1, <1>3, LinksStay DEF SessionsInv, Stored
<1>8. SignOutsReachEveryDevice'
  <2>1. held[r].late \/ held[r].account.password = account.password
    BY <1>1 DEF SessionsInv, Given
  <2>2. overlapped \subseteq overlapped' /\ (held[r].late => s \in overlapped')
    BY <1>1
  <2>3. LiveSessions \subseteq SessionNos
    BY DEF LiveSessions
  <2> HIDE DEF LiveSessions
  <2> QED BY <1>1, <1>3, <1>4, <2>1, <2>2, <2>3 DEF SessionsInv, SignOutsReachEveryDevice
<1>9. \A o \in Devices \ {r} : WorldMoved(o)
  <2>1. \A o \in Devices : asking[o] = "sign_out" => s \in overlapped'
    BY <1>1
  <2>2. \A o \in Devices \ {r} : accountLock # o
    BY <1>1, SessionsAssumption DEF AccountFree
  <2> HIDE DEF LiveSessions, OpenLinks
  <2> QED BY <1>1, <1>4, <2>1, <2>2 DEF WorldMoved
<1>10. overlapped \subseteq overlapped' /\ KnownSessions \subseteq KnownSessions'
  BY <1>1, <1>4
<1> HIDE DEF KnownSessions, LiveSessions, OpenLinks, Given, WorldMoved
<1> QED BY <1>1, <1>6, <1>7, <1>8, <1>9, <1>10, Ended, OneMoves DEF InOrder

(* A rotation consumes the token the session holds now, which was never     *)
(* consumed before.                                                         *)
LEMMA RotationStep ==
    ASSUME SessionsAssumption, SessionsInv, NEW r \in Devices, CommitRotation(r)
    PROVE  SessionsInv'
<1>1. PICK s, old, n : s = held[r].session /\ old = sessions[s].token /\ n = NextToken
  OBVIOUS
<1>2. /\ asking[r] = "rotate" /\ n \in Tokens
      /\ spent' = [spent EXCEPT ![old] = [age |-> "RECENT", session |-> s]]
      /\ sessions' = [sessions EXCEPT ![s].token = n]
      /\ exchanges' = exchanges \cup {<<old, n>>}
      /\ AskEnds(r, FALSE)
      /\ UNCHANGED <<account, links, replayed, redeemed, overlapped>>
  BY <1>1 DEF CommitRotation
<1>3. s \in KnownSessions /\ KnownSessions \subseteq SessionNos
  BY <1>1, <1>2 DEF SessionsInv, Given, KnownSessions
<1>4. old \in Tokens /\ spent[old].age = "NONE"
  BY <1>1, <1>3 DEF SessionsInv, TokensApart
<1>5. n \in Nat \ {0} /\ n \notin IssuedTokens /\ IssuedTokens \cup {n} = 1 .. n
  BY <1>1, Numbering DEF SessionsInv
<1>6. /\ DOMAIN sessions' = SessionNos
      /\ \A o \in SessionNos \ {s} : sessions'[o] = sessions[o]
      /\ DOMAIN sessions'[s] = {"status", "token", "by"} /\ sessions'[s].token = n
      /\ sessions'[s].status = sessions[s].status /\ sessions'[s].by = sessions[s].by
  BY <1>2, <1>3 DEF SessionsInv, Stored
<1>7. /\ DOMAIN spent' = Tokens /\ spent'[old] = [age |-> "RECENT", session |-> s]
      /\ \A t \in Tokens \ {old} : spent'[t] = spent[t]
  BY <1>2, <1>4 DEF SessionsInv, Stored
<1>8. KnownSessions' = KnownSessions /\ LiveSessions' = LiveSessions
  BY <1>3, <1>6 DEF KnownSessions, LiveSessions
<1>9. TokensApart'
  <2>1. spent[n].age = "NONE" /\ \A o \in SessionNos : sessions[o].token # n
    BY <1>2, <1>5 DEF IssuedTokens
  <2>2. n # old
    BY <1>1, <1>3, <2>1
  <2>3. IssuedTokens' = IssuedTokens \cup {n}
    <3>1. ASSUME NEW t \in Tokens PROVE t \in IssuedTokens' <=> t \in IssuedTokens \/ t = n
      <4>1. CASE t = old
        BY <1>1, <1>3, <1>7, <4>1 DEF IssuedTokens
      <4>2. CASE t = n
        BY <1>3, <1>6, <4>2 DEF IssuedTokens
      <4>3. CASE t # old /\ t # n
        BY <1>1, <1>3, <1>6, <1>7, <4>3 DEF IssuedTokens
      <4> QED BY <4>1, <4>2, <4>3
    <3>2. IssuedTokens \subseteq Tokens /\ IssuedTokens' \subseteq Tokens
      BY DEF IssuedTokens
    <3> HIDE DEF IssuedTokens
    <3> QED BY <1>2, <3>1, <3>2
  <2>4. \E m \in Nat : IssuedTokens' = 1 .. m
    BY <1>5, <2>3
  <2>5. \A o \in SessionNos : o \notin KnownSessions' => sessions'[o].token = 0
    BY <1>3, <1>6, <1>8 DEF SessionsInv, TokensApart
  <2>6. ASSUME NEW o \in KnownSessions'
        PROVE  sessions'[o].token \in Tokens /\ spent'[sessions'[o].token].age = "NONE"
    <3>1. CASE o = s
      BY <1>2, <1>6, <1>7, <2>1, <2>2, <3>1
    <3>2. CASE o # s
      <4>1. o \in KnownSessions /\ sessions'[o] = sessions[o] /\ sessions[o].token # old
        BY <1>1, <1>3, <1>6, <1>8, <3>2 DEF SessionsInv, TokensApart
      <4> QED BY <1>7, <4>1 DEF SessionsInv, TokensApart
    <3> QED BY <3>1, <3>2
  <2>7. \A o, q \in KnownSessions' : sessions'[o].token = sessions'[q].token => o = q
    BY <1>3, <1>6, <1>8, <2>1 DEF SessionsInv, TokensApart
  <2>8. \A t \in Tokens : spent'[t].age # "NONE" => spent'[t].session \in KnownSessions'
    BY <1>3, <1>7, <1>8 DEF SessionsInv, TokensApart
  <2>9. /\ \A e \in exchanges : e[1] \in Tokens /\ e[1] # old /\ spent'[e[1]].age # "NONE"
        /\ \A t \in replayed' : t \in Tokens /\ t # old /\ spent'[t].age # "NONE"
    BY <1>2, <1>4, <1>7 DEF SessionsInv, TokensApart
  <2>10. \A e \in exchanges' : e[1] \in Tokens /\ spent'[e[1]].age # "NONE"
    BY <1>2, <1>4, <1>7, <2>9
  <2>11. \A e, f \in exchanges' : e[1] = f[1] => e = f
    BY <1>2, <2>9 DEF SessionsInv, TokensApart, SpentTokensBuyNothing
  <2>12. ASSUME NEW t \in replayed' PROVE sessions'[spent'[t].session].status = "REVOKED"
    <3>1. t \in replayed /\ t \in Tokens \ {old} /\ spent'[t] = spent[t]
      BY <1>2, <1>7, <2>9
    <3>2. spent[t].session \in SessionNos /\ sessions[spent[t].session].status = "REVOKED"
      BY <1>3, <3>1 DEF SessionsInv, TokensApart, SpentTokensBuyNothing
    <3> QED BY <1>6, <3>1, <3>2
  <2> HIDE DEF KnownSessions, IssuedTokens
  <2> QED BY <2>4, <2>5, <2>6, <2>7, <2>8, <2>9, <2>10, <2>11, <2>12
          DEF TokensApart, SpentTokensBuyNothing
<1>10. Stored' /\ LinksApart' /\ OpenLinks' = OpenLinks
  BY <1>2, <1>4, <1>6, <1>7, LinksStay DEF SessionsInv, Stored
<1>11. SignOutsReachEveryDevice'
  BY <1>2, <1>3, <1>6, <1>8 DEF SessionsInv, SignOutsReachEveryDevice, LiveSessions
<1>12. \A o \in Devices \ {r} : WorldMoved(o)
  BY <1>2, <1>8, <1>10 DEF WorldMoved
<1> HIDE DEF KnownSessions, LiveSessions, OpenLinks, Given, WorldMoved
<1> QED BY <1>2, <1>8, <1>9, <1>10, <1>11, <1>12, Ended, OneMoves DEF InOrder

(* A sign-out leaves live only what overlapped it.                          *)
LEMMA RevokeAllStep ==
    ASSUME SessionsAssumption, SessionsInv, NEW r \in Devices, RevokeAllSessions(r)
    PROVE  SessionsInv'
<1>1. PICK closed \in SUBSET OpenLinks :
         /\ asking[r] = "sign_out"
         /\ account' = Written(r) /\ links' = Close(closed)
         /\ sessions' = Revoke(held[r].live)
         /\ AskEnds(r, TRUE)
         /\ UNCHANGED <<spent, exchanges, replayed, redeemed, overlapped>>
  BY DEF RevokeAllSessions, RevokedBy, accessHistory
<1>2. held[r].live \subseteq KnownSessions /\ LiveSessions \subseteq held[r].live \cup overlapped
  BY <1>1 DEF SessionsInv, Given
<1>3. /\ TokensApart' /\ KnownSessions' = KnownSessions /\ LiveSessions' = LiveSessions \ held[r].live
      /\ DOMAIN sessions' = SessionNos
      /\ \A s \in SessionNos : /\ DOMAIN sessions'[s] = {"status", "token", "by"}
                               /\ sessions'[s].by = sessions[s].by
  <2>1. Revoked(held[r].live)
    BY <1>1, <1>2, RevokeRevokes
  <2> HIDE DEF KnownSessions, LiveSessions, TokensApart
  <2> QED BY <1>1, <1>2, <2>1, Revoking
<1>4. DOMAIN account' = {"active", "password"}
  BY <1>1 DEF Written, SessionsInv, Stored
<1>5. /\ DOMAIN links' = LinkNos
      /\ \A l \in LinkNos : links'[l] = IF l \in closed THEN "USED" ELSE links[l]
  BY <1>1 DEF Close
<1>6. LinksApart' /\ OpenLinks' \subseteq OpenLinks
  BY <1>1, <1>5 DEF SessionsInv, LinksApart, OpenLinks
<1>7. Stored'
  BY <1>1, <1>3, <1>4, <1>5 DEF SessionsInv, Stored
<1>8. SignOutsReachEveryDevice'
  <2> HIDE DEF LiveSessions
  <2> QED BY <1>1, <1>2, <1>3 DEF SignOutsReachEveryDevice
<1>9. \A o \in Devices \ {r} : WorldMoved(o)
  <2>1. \A o \in Devices \ {r} : asking[o] = "idle" \/ held'[o].late
    BY <1>1, Ended
  <2> HIDE DEF LiveSessions, OpenLinks
  <2> QED BY <1>3, <1>6, <2>1 DEF WorldMoved
<1> HIDE DEF KnownSessions, LiveSessions, OpenLinks, Given, WorldMoved
<1> QED BY <1>1, <1>3, <1>6, <1>7, <1>8, <1>9, Ended, OneMoves DEF InOrder

(* A reset holds the users row since it listed the sessions, so none has    *)
(* been opened, and no link issued.                                         *)
LEMMA ResetStep ==
    ASSUME SessionsAssumption, SessionsInv, NEW r \in Devices, ResetPassword(r)
    PROVE  SessionsInv'
<1>1. PICK k : k = held[r].link
  OBVIOUS
<1>2. /\ asking[r] = "redeem" /\ links[k] = "OPEN"
      /\ account' = [account EXCEPT !.password = held[r].writes.password]
      /\ links' = Close(OpenLinks \cup {k})
      /\ sessions' = Revoke(held[r].live)
      /\ redeemed' = [redeemed EXCEPT ![k] = @ + 1]
      /\ AskEnds(r, TRUE)
      /\ UNCHANGED <<spent, exchanges, replayed, overlapped>>
  BY <1>1 DEF ResetPassword, Consumable, RevokedBy
<1>3. held[r].live \subseteq KnownSessions /\ LiveSessions \subseteq held[r].live /\ k \in LinkNos
  BY <1>1, <1>2 DEF SessionsInv, Given
<1>4. /\ TokensApart' /\ KnownSessions' = KnownSessions /\ LiveSessions' = LiveSessions \ held[r].live
      /\ DOMAIN sessions' = SessionNos
      /\ \A s \in SessionNos : /\ DOMAIN sessions'[s] = {"status", "token", "by"}
                               /\ sessions'[s].by = sessions[s].by
  <2>1. Revoked(held[r].live)
    BY <1>2, <1>3, RevokeRevokes
  <2> HIDE DEF KnownSessions, LiveSessions, TokensApart
  <2> QED BY <1>2, <1>3, <2>1, Revoking
<1>5. DOMAIN account' = {"active", "password"}
  BY <1>2 DEF SessionsInv, Stored
<1>6. /\ DOMAIN links' = LinkNos
      /\ \A l \in LinkNos : links'[l] = IF l \in OpenLinks \/ l = k THEN "USED" ELSE links[l]
  BY <1>2 DEF Close
<1>7. OpenLinks' = {}
  BY <1>6 DEF OpenLinks
<1>8. DOMAIN redeemed' = LinkNos /\ LinksApart'
  <2>1. DOMAIN redeemed' = LinkNos
    BY <1>2 DEF SessionsInv, Stored
  <2>2. redeemed[k] = 0 /\ redeemed'[k] = 1 /\ links'[k] = "USED"
    <3>1. redeemed[k] = 0
      BY <1>2, <1>3 DEF SessionsInv, LinksApart
    <3>2. redeemed'[k] = redeemed[k] + 1
      BY <1>2, <1>3 DEF SessionsInv, Stored
    <3> QED BY <1>3, <1>6, <3>1, <3>2
  <2>3. ASSUME NEW l \in LinkNos \ {k}
        PROVE  redeemed'[l] \in {0, 1} /\ (redeemed'[l] = 1 => links'[l] = "USED")
    <3>1. redeemed'[l] = redeemed[l]
      BY <1>2, <2>3 DEF SessionsInv, Stored
    <3> QED BY <1>6, <2>3, <3>1 DEF SessionsInv, LinksApart
  <2> QED BY <1>7, <2>1, <2>2, <2>3 DEF LinksApart
<1>9. Stored'
  BY <1>2, <1>4, <1>5, <1>6, <1>8 DEF SessionsInv, Stored
<1>10. SignOutsReachEveryDevice' /\ LiveSessions' = {}
  <2> HIDE DEF LiveSessions
  <2> QED BY <1>3, <1>4 DEF SignOutsReachEveryDevice
<1>11. \A o \in Devices \ {r} : WorldMoved(o)
  <2>1. \A o \in Devices \ {r} : asking[o] = "idle" \/ held'[o].late
    BY <1>2, Ended
  <2> HIDE DEF LiveSessions, OpenLinks
  <2> QED BY <1>7, <1>10, <2>1 DEF WorldMoved
<1> HIDE DEF KnownSessions, LiveSessions, OpenLinks, Given, WorldMoved
<1> QED BY <1>2, <1>4, <1>8, <1>9, <1>10, <1>11, Ended, OneMoves DEF InOrder

LEMMA SessionsInvStep ==
    ASSUME SessionsAssumption, SessionsInv, [SessionsNext]_sessionVars
    PROVE  SessionsInv'
<1>1. CASE UNCHANGED sessionVars
  <2>1. /\ Stored' /\ TokensApart' /\ LinksApart' /\ SignOutsReachEveryDevice'
        /\ KnownSessions' = KnownSessions /\ LiveSessions' = LiveSessions /\ OpenLinks' = OpenLinks
        /\ account' = account /\ overlapped' = overlapped
    BY <1>1, NothingStored DEF sessionVars
  <2>2. UNCHANGED <<asking, held, accountLock>>
    BY <1>1 DEF sessionVars, accessLocks
  <2> HIDE DEF KnownSessions, LiveSessions, OpenLinks, Given
  <2> QED BY <2>1, <2>2, NobodyMoves DEF InOrder, SessionsInv
<1>2. CASE Clock
  BY <1>2, ClockStep
<1>3. ASSUME NEW r \in Devices, Ask(r) PROVE SessionsInv'
  BY <1>3, ReadSteps, AbandonStep, LockForResetStep, LogOutSteps, ReactivateStep, IssueLinkStep,
     CreateStep, RotationStep, RevokeAllStep, ResetStep DEF Ask
<1> QED BY <1>1, <1>2, <1>3 DEF SessionsNext

LEMMA SessionsInvInit == ASSUME SessionsAssumption, SessionsInit PROVE SessionsInv
<1>1. /\ \A s \in SessionNos : sessions[s] = NoSession
      /\ DOMAIN sessions = SessionNos /\ DOMAIN spent = Tokens
      /\ \A t \in Tokens : spent[t] = Unspent
      /\ links = [l \in LinkNos |-> "ABSENT"] /\ redeemed = [l \in LinkNos |-> 0]
      /\ asking = [r \in Devices |-> "idle"] /\ held = [r \in Devices |-> NotHeld]
      /\ exchanges = {} /\ replayed = {}
      /\ \E p \in Passwords : account = [active |-> TRUE, password |-> p]
  BY DEF SessionsInit
<1>2. KnownSessions = {} /\ LiveSessions = {} /\ OpenLinks = {}
  BY <1>1 DEF KnownSessions, LiveSessions, OpenLinks, NoSession
<1>3. \A s \in SessionNos : sessions[s].token = 0 /\ DOMAIN sessions[s] = {"status", "token", "by"}
  BY <1>1 DEF NoSession
<1>4. \A t \in Tokens : spent[t].age = "NONE" /\ DOMAIN spent[t] = {"age", "session"}
  BY <1>1 DEF Unspent
<1>5. IssuedTokens = 1 .. 0
  BY <1>3, <1>4 DEF IssuedTokens, Tokens
<1>6. TokensApart
  <2> HIDE DEF KnownSessions, IssuedTokens
  <2> QED BY <1>1, <1>2, <1>3, <1>4, <1>5 DEF TokensApart, SpentTokensBuyNothing
<1>7. Stored /\ LinksApart /\ SignOutsReachEveryDevice
  BY <1>1, <1>2, <1>3, <1>4 DEF Stored, LinksApart, SignOutsReachEveryDevice
<1>8. \A r \in Devices : Given(r, asking[r], held[r])
  BY <1>1, HeldFields DEF Given
<1> QED BY <1>1, <1>6, <1>7, <1>8 DEF SessionsInv

LEMMA AtMostOneLink == LinksApart => Cardinality(OpenLinks) <= 1
<1> SUFFICES ASSUME LinksApart PROVE Cardinality(OpenLinks) <= 1
  OBVIOUS
<1>1. CASE OpenLinks = {}
  BY <1>1, FS_EmptySet
<1>2. ASSUME NEW l \in OpenLinks PROVE Cardinality(OpenLinks) <= 1
  <2>1. OpenLinks = {l}
    BY DEF LinksApart
  <2> QED BY <2>1, FS_Singleton
<1> QED BY <1>1, <1>2

(* For any number of requests, sessions and links: a refresh token is       *)
(* exchanged once and its replay ends the session, a recovery link sets one *)
(* password, and at most one is open.                                       *)
THEOREM SecretsBuyOnce == SessionsSpec => []SecretsWorkOnce
<1>1. SessionsInv => SecretsWorkOnce
  <2> SUFFICES ASSUME SessionsInv PROVE SecretsWorkOnce
    OBVIOUS
  <2>1. \A l \in LinkNos : redeemed[l] <= 1
    BY DEF SessionsInv, LinksApart
  <2> QED BY <2>1, AtMostOneLink DEF SessionsInv, TokensApart, SecretsWorkOnce, LinksRedeemOnce
<1> QED BY <1>1, SessionsInvInit, SessionsInvStep, SessionsAssumption, PTL DEF SessionsSpec

(* For any number of devices: a live session was opened with the password   *)
(* of today, or beside a sign-out.                                          *)
THEOREM SignOutsReach == SessionsSpec => []SignOutsReachEveryDevice
<1>1. SessionsInv => SignOutsReachEveryDevice
  BY DEF SessionsInv
<1> QED BY <1>1, SessionsInvInit, SessionsInvStep, SessionsAssumption, PTL DEF SessionsSpec

(***************************************************************************)
(* Part three: the accounts of the bot.  A link is of after the last       *)
(* disconnection, and the group is one that the bot in force was offered.  *)
(***************************************************************************)
(* A challenge that stands was given by a bot, after the last disconnection.*)
ChallengesAreCurrent ==
    /\ DOMAIN pairings = Owners \X Kinds
    /\ \A u \in Owners, k \in Kinds : \A p \in pairings[<<u, k>>] :
          /\ DOMAIN p = {"challenge", "bot", "used", "expired", "candidate", "era"}
          /\ p.bot # 0 /\ p.era = disconnects[u]
(* Who asks for a challenge asks a bot that is there; who leaves unlinked is.*)
Asking ==
    /\ DOMAIN ask = Owners
    /\ \A u \in Owners :
          /\ ask[u].step = "pairing" => ask[u].bot # 0 /\ ask[u].kind \in Kinds
          /\ ask[u].step = "leaving" /\ ~ask[u].linked => linked[u] = {}
BotIsWhole ==
    DOMAIN bot = {"token", "id", "on", "group", "offered", "cipher", "webhook"}
LinkingInv ==
    /\ ChallengesAreCurrent /\ Asking /\ BotIsWhole
    /\ DOMAIN linked = Owners /\ DOMAIN disconnects = Owners
    /\ DisconnectsLast /\ GroupIsTheBots

LEMMA RestAsItWas ==
    ASSUME LinkingInv, UNCHANGED <<bot, pairings, linked, ask, disconnects>>
    PROVE  LinkingInv'
BY DEF LinkingInv, ChallengesAreCurrent, Asking, BotIsWhole, DisconnectsLast, GroupIsTheBots

(* The bot: a token that changes takes the name and the group with it.      *)
LEMMA BotSteps ==
    ASSUME LinkingInv, \/ DropGroup \/ SwitchBot \/ BeginRegister \/ FinishRegister
                       \/ \E t \in 0..MaxBots, on \in BOOLEAN : ChangeToken(t, on)
                       \/ \E answers \in BOOLEAN : FinishTest(answers)
    PROVE  LinkingInv'
<1>1. UNCHANGED <<pairings, linked, ask, disconnects>>
  BY DEF DropGroup, SwitchBot, BeginRegister, FinishRegister, ChangeToken, FinishTest
<1>2. BotIsWhole /\ GroupIsTheBots
  BY DEF LinkingInv
<1>3. BotIsWhole' /\ GroupIsTheBots'
  <2>1. CASE DropGroup
    BY <1>2, <2>1 DEF DropGroup, SaveBot, BotIsWhole, GroupIsTheBots
  <2>2. CASE SwitchBot
    BY <1>2, <2>2 DEF SwitchBot, BotIsWhole, GroupIsTheBots
  <2>3. CASE BeginRegister
    BY <1>2, <2>3 DEF BeginRegister, SaveBot, BotIsWhole, GroupIsTheBots
  <2>4. CASE FinishRegister
    BY <1>2, <2>4 DEF FinishRegister, SaveBot, BotIsWhole, GroupIsTheBots
  <2>5. ASSUME NEW t \in 0..MaxBots, NEW on \in BOOLEAN, ChangeToken(t, on)
        PROVE  BotIsWhole' /\ GroupIsTheBots'
    BY <1>2, <2>5 DEF ChangeToken, SaveBot, BotIsWhole, GroupIsTheBots
  <2>6. ASSUME NEW answers \in BOOLEAN, FinishTest(answers)
        PROVE  BotIsWhole' /\ GroupIsTheBots'
    <3>1. PICK c \in checking :
             IF bot.token = c.token /\ bot.on
             THEN SaveBot([bot EXCEPT !.id = IF answers THEN c.token ELSE 0]) ELSE bot' = bot
      BY <2>6 DEF FinishTest, SameToken
    <3>2. CASE bot.token = c.token /\ bot.on
      <4>1. SaveBot([bot EXCEPT !.id = IF answers THEN c.token ELSE 0])
        BY <3>1, <3>2
      <4> QED BY <1>2, <3>2, <4>1 DEF SaveBot, BotIsWhole, GroupIsTheBots
    <3>3. CASE ~(bot.token = c.token /\ bot.on)
      BY <1>2, <3>1, <3>3 DEF BotIsWhole, GroupIsTheBots
    <3> QED BY <3>2, <3>3
  <2> QED BY <2>1, <2>2, <2>3, <2>4, <2>5, <2>6
<1> QED BY <1>1, <1>3 DEF LinkingInv, ChallengesAreCurrent, Asking, DisconnectsLast

(* The user's own requests: what is asked for again is of today, and a      *)
(* disconnection leaves nothing of before.                                  *)
LEMMA AskSteps ==
    ASSUME LinkingInv, NEW u \in Owners,
           \/ \E k \in Kinds : BeginPair(u, k)
           \/ FinishPair(u) \/ BeginDisconnect(u) \/ FinishDisconnect(u) \/ AskFails(u)
    PROVE  LinkingInv'
<1>1. bot' = bot
  BY DEF BeginPair, FinishPair, BeginDisconnect, FinishDisconnect, AskFails
<1>2. CASE \E k \in Kinds : BeginPair(u, k)
  BY <1>1, <1>2 DEF BeginPair, LinkingInv, ChallengesAreCurrent, Asking, BotIsWhole,
                    DisconnectsLast, GroupIsTheBots
<1>3. CASE FinishPair(u)
  <2>1. PICK k : k = ask[u].kind
    OBVIOUS
  <2>2. PICK p : p = [challenge |-> challenges + 1, bot |-> ask[u].bot, used |-> FALSE,
                      expired |-> FALSE, candidate |-> NoOne, era |-> disconnects[u]]
    OBVIOUS
  <2>3. /\ ask[u].step = "pairing" /\ pairings' = [pairings EXCEPT ![<<u, k>>] = {p}]
        /\ ask' = [ask EXCEPT ![u] = AskIdle] /\ UNCHANGED <<linked, disconnects>>
    BY <1>3, <2>1, <2>2 DEF FinishPair
  <2>4. k \in Kinds /\ p.bot # 0 /\ p.era = disconnects[u]
        /\ DOMAIN p = {"challenge", "bot", "used", "expired", "candidate", "era"}
    BY <2>1, <2>2, <2>3 DEF LinkingInv, Asking
  <2>5. ChallengesAreCurrent'
    BY <2>3, <2>4 DEF LinkingInv, ChallengesAreCurrent
  <2>6. Asking'
    BY <2>3 DEF LinkingInv, Asking, AskIdle
  <2> QED BY <1>1, <2>3, <2>5, <2>6 DEF LinkingInv, BotIsWhole, DisconnectsLast, GroupIsTheBots
<1>4. CASE BeginDisconnect(u)
  <2>1. PICK has \in BOOLEAN : has <=> linked[u] # {}
    OBVIOUS
  <2>2. ask' = [ask EXCEPT ![u] = [AskIdle EXCEPT !.step = "leaving", !.linked = linked[u] # {}]]
        /\ UNCHANGED <<pairings, linked, disconnects>>
    BY <1>4 DEF BeginDisconnect, NoRow
  <2>3. (linked[u] # {}) = has
    BY <2>1
  <2>4. ask' = [ask EXCEPT ![u] = [AskIdle EXCEPT !.step = "leaving", !.linked = has]]
    BY <2>2, <2>3, Zenon
  <2>5. ask'[u].step = "leaving" /\ ask'[u].linked = has /\ DOMAIN ask' = Owners
        /\ \A o \in Owners \ {u} : ask'[o] = ask[o]
    BY <2>4 DEF LinkingInv, Asking, AskIdle
  <2>6. Asking'
    BY <2>1, <2>2, <2>5 DEF LinkingInv, Asking
  <2> QED BY <1>1, <2>2, <2>6 DEF LinkingInv, ChallengesAreCurrent, BotIsWhole, DisconnectsLast,
                                  GroupIsTheBots
<1>5. CASE FinishDisconnect(u)
  <2>1. /\ ask[u].step = "leaving"
        /\ linked' = [linked EXCEPT ![u] = IF ask[u].linked THEN {} ELSE @]
        /\ pairings' = WithoutChallenges(u)
        /\ disconnects' = [disconnects EXCEPT ![u] = @ + 1]
        /\ ask' = [ask EXCEPT ![u] = AskIdle]
    BY <1>5 DEF FinishDisconnect, NoRow
  <2>2. /\ DOMAIN linked' = Owners /\ linked'[u] = {}
        /\ \A o \in Owners \ {u} : linked'[o] = linked[o] /\ disconnects'[o] = disconnects[o]
        /\ DOMAIN disconnects' = Owners
    BY <2>1 DEF LinkingInv, Asking
  <2>3. ChallengesAreCurrent'
    <3>1. /\ DOMAIN pairings' = Owners \X Kinds
          /\ \A o \in Owners, k \in Kinds :
                pairings'[<<o, k>>] = IF o = u THEN {} ELSE pairings[<<o, k>>]
      BY <2>1 DEF WithoutChallenges, Owned, NoRow
    <3> QED BY <2>2, <3>1 DEF LinkingInv, ChallengesAreCurrent
  <2>4. Asking'
    BY <2>1, <2>2 DEF LinkingInv, Asking, AskIdle
  <2>5. DisconnectsLast'
    BY <2>2 DEF LinkingInv, DisconnectsLast
  <2> QED BY <1>1, <2>2, <2>3, <2>4, <2>5 DEF LinkingInv, BotIsWhole, GroupIsTheBots
<1>6. CASE AskFails(u)
  BY <1>1, <1>6 DEF AskFails, AskIdle, LinkingInv, ChallengesAreCurrent, Asking, BotIsWhole,
                    DisconnectsLast, GroupIsTheBots
<1> QED BY <1>2, <1>3, <1>4, <1>5, <1>6

(* A challenge is changed where it stands: it keeps its bot and its era.    *)
LEMMA ChallengesAge ==
    ASSUME LinkingInv, UNCHANGED disconnects, DOMAIN pairings' = Owners \X Kinds,
           NEW u \in Owners, NEW k \in Kinds,
           \A o \in Owners, l \in Kinds : o # u \/ l # k => pairings'[<<o, l>>] = pairings[<<o, l>>],
           \A q \in pairings'[<<u, k>>] : \E p \in pairings[<<u, k>>] :
               DOMAIN q = DOMAIN p /\ q.bot = p.bot /\ q.era = p.era
    PROVE  ChallengesAreCurrent'
<1>1. ASSUME NEW o \in Owners, NEW l \in Kinds, NEW q \in pairings'[<<o, l>>]
      PROVE  /\ DOMAIN q = {"challenge", "bot", "used", "expired", "candidate", "era"}
             /\ q.bot # 0 /\ q.era = disconnects[o]
  <2>1. PICK p \in pairings[<<o, l>>] : DOMAIN q = DOMAIN p /\ q.bot = p.bot /\ q.era = p.era
    BY <1>1
  <2> QED BY <2>1 DEF LinkingInv, ChallengesAreCurrent
<1> QED BY <1>1 DEF ChallengesAreCurrent

(* The updates of the webhook, and the confirmation of the group.           *)
LEMMA HookSteps ==
    ASSUME LinkingInv, NEW u \in Owners,
           \/ \E k \in Kinds : ExpirePairing(<<u, k>>)
           \/ \E h \in Hooks : LinkAccount(h, u) \/ \E suits \in BOOLEAN : OfferGroup(h, u, suits)
           \/ \E suits \in BOOLEAN : FinishConfirm(u, suits)
    PROVE  LinkingInv'
<1>1. CASE \E k \in Kinds : ExpirePairing(<<u, k>>)
  <2>0. PICK k \in Kinds : ExpirePairing(<<u, k>>)
    BY <1>1
  <2>1. PICK p \in pairings[<<u, k>>] :
           /\ pairings' = [pairings EXCEPT ![<<u, k>>] = {[p EXCEPT !.expired = TRUE]}]
           /\ UNCHANGED <<bot, linked, ask, disconnects>>
    BY <2>0 DEF ExpirePairing
  <2>2. \A q \in pairings'[<<u, k>>] : \E o \in pairings[<<u, k>>] :
           DOMAIN q = DOMAIN o /\ q.bot = o.bot /\ q.era = o.era
    BY <2>1 DEF LinkingInv, ChallengesAreCurrent
  <2>3. ChallengesAreCurrent'
    <3>1. /\ DOMAIN pairings' = Owners \X Kinds
          /\ \A o \in Owners, l \in Kinds :
                o # u \/ l # k => pairings'[<<o, l>>] = pairings[<<o, l>>]
      BY <2>1 DEF LinkingInv, ChallengesAreCurrent
    <3> QED BY <2>1, <2>2, <3>1, ChallengesAge, SMTT(30)
  <2> QED BY <2>1, <2>3 DEF LinkingInv, Asking, BotIsWhole, DisconnectsLast, GroupIsTheBots
<1>2. ASSUME NEW h \in Hooks, LinkAccount(h, u) PROVE LinkingInv'
  <2>1. CASE UNCHANGED <<linked, pairings>>
    BY <1>2, <2>1, RestAsItWas DEF LinkAccount
  <2>2. CASE ~UNCHANGED <<linked, pairings>>
    <3>1. PICK p \in pairings[<<u, "PRIVATE">>] :
             /\ linked' = [linked EXCEPT ![u] = {[account |-> updates[hook[h].update].from,
                                                  bot |-> hook[h].bot, era |-> p.era]}]
             /\ pairings' = [pairings EXCEPT ![<<u, "PRIVATE">>] = {[p EXCEPT !.used = TRUE]}]
             /\ ask[u].step = "none" /\ UNCHANGED <<bot, ask, disconnects>>
      BY <1>2, <2>2 DEF LinkAccount, UserRowFree
    <3>2. p.era = disconnects[u]
          /\ \A q \in pairings'[<<u, "PRIVATE">>] : \E o \in pairings[<<u, "PRIVATE">>] :
                DOMAIN q = DOMAIN o /\ q.bot = o.bot /\ q.era = o.era
      BY <3>1 DEF LinkingInv, ChallengesAreCurrent, Kinds
    <3>3. ChallengesAreCurrent'
      <4>1. /\ DOMAIN pairings' = Owners \X Kinds /\ "PRIVATE" \in Kinds
            /\ \A o \in Owners, l \in Kinds :
                  o # u \/ l # "PRIVATE" => pairings'[<<o, l>>] = pairings[<<o, l>>]
        BY <3>1 DEF LinkingInv, ChallengesAreCurrent, Kinds
      <4>2. UNCHANGED disconnects
        BY <3>1
      <4>3. \A q \in pairings'[<<u, "PRIVATE">>] : \E o \in pairings[<<u, "PRIVATE">>] :
               DOMAIN q = DOMAIN o /\ q.bot = o.bot /\ q.era = o.era
        BY <3>2
      <4> QED BY <4>1, <4>2, <4>3, ChallengesAge
    <3>4. DisconnectsLast' /\ DOMAIN linked' = Owners /\ Asking'
      BY <3>1, <3>2 DEF LinkingInv, DisconnectsLast, Asking
    <3> QED BY <3>1, <3>3, <3>4 DEF LinkingInv, BotIsWhole, GroupIsTheBots
  <2> QED BY <2>1, <2>2
<1>3. ASSUME NEW h \in Hooks, NEW suits \in BOOLEAN, OfferGroup(h, u, suits) PROVE LinkingInv'
  <2>1. PICK rest :
           rest = {[p EXCEPT !.used = p.used \/ suits,
                             !.candidate = IF suits THEN updates[hook[h].update].from ELSE @]
                     : p \in pairings[<<u, "GROUP">>]}
    OBVIOUS
  <2>2. /\ pairings' = [pairings EXCEPT ![<<u, "GROUP">>] = rest]
        /\ UNCHANGED <<bot, linked, ask, disconnects>>
    BY <1>3, <2>1 DEF OfferGroup
  <2>3. ASSUME NEW q \in rest 
        PROVE  \E p \in pairings[<<u, "GROUP">>] :
                  DOMAIN q = DOMAIN p /\ q.bot = p.bot /\ q.era = p.era
    <3>1. PICK p \in pairings[<<u, "GROUP">>] :
             q = [p EXCEPT !.used = p.used \/ suits,
                           !.candidate = IF suits THEN updates[hook[h].update].from ELSE @]
      BY <2>1, <2>3
    <3>2. DOMAIN p = {"challenge", "bot", "used", "expired", "candidate", "era"}
      BY <3>1 DEF LinkingInv, ChallengesAreCurrent, Kinds
    <3> QED BY <3>1, <3>2
  <2>4. ChallengesAreCurrent'
    <3>1. /\ DOMAIN pairings' = Owners \X Kinds /\ "GROUP" \in Kinds
          /\ pairings'[<<u, "GROUP">>] = rest
          /\ \A o \in Owners, l \in Kinds :
                o # u \/ l # "GROUP" => pairings'[<<o, l>>] = pairings[<<o, l>>]
      BY <2>2 DEF LinkingInv, ChallengesAreCurrent, Kinds
    <3> QED BY <2>2, <2>3, <3>1, ChallengesAge
  <2> QED BY <2>2, <2>4 DEF LinkingInv, Asking, BotIsWhole, DisconnectsLast, GroupIsTheBots
<1>4. ASSUME NEW suits \in BOOLEAN, FinishConfirm(u, suits) PROVE LinkingInv'
  <2>1. UNCHANGED <<linked, ask, disconnects>>
    BY <1>4 DEF FinishConfirm
  <2>2. PICK p \in pairings[<<u, "GROUP">>], cipher \in confirming[u] :
           IF suits /\ StillTheBot(p, cipher)
           THEN /\ SaveBot([bot EXCEPT !.group = p.candidate, !.offered = p.bot])
                /\ pairings' = [pairings EXCEPT ![<<u, "GROUP">>] = {}]
           ELSE UNCHANGED <<bot, pairings>>
    BY <1>4 DEF FinishConfirm, NoRow
  <2>3. CASE suits /\ StillTheBot(p, cipher)
    <3>1. /\ SaveBot([bot EXCEPT !.group = p.candidate, !.offered = p.bot])
          /\ pairings' = [pairings EXCEPT ![<<u, "GROUP">>] = {}]
      BY <2>2, <2>3
    <3>2. bot.id = p.bot /\ p.bot # 0
      BY <2>2, <2>3 DEF StillTheBot, LinkingInv, ChallengesAreCurrent, Kinds
    <3>3. BotIsWhole' /\ GroupIsTheBots'
      BY <3>1, <3>2 DEF SaveBot, LinkingInv, BotIsWhole, GroupIsTheBots
    <3>4. ChallengesAreCurrent'
      <4>1. /\ DOMAIN pairings' = Owners \X Kinds /\ "GROUP" \in Kinds
            /\ pairings'[<<u, "GROUP">>] = {}
            /\ \A o \in Owners, l \in Kinds :
                  o # u \/ l # "GROUP" => pairings'[<<o, l>>] = pairings[<<o, l>>]
        BY <3>1 DEF LinkingInv, ChallengesAreCurrent, Kinds
      <4> QED BY <2>1, <4>1, ChallengesAge
    <3> QED BY <2>1, <3>3, <3>4 DEF LinkingInv, Asking, DisconnectsLast
  <2>4. CASE ~(suits /\ StillTheBot(p, cipher))
    BY <2>1, <2>2, <2>4, RestAsItWas
  <2> QED BY <2>3, <2>4
<1> QED BY <1>1, <1>2, <1>3, <1>4

LEMMA LinkingInvStep == ASSUME LinkingInv, [LinkingNext]_linkVars PROVE LinkingInv'
<1>1. CASE UNCHANGED linkVars
  BY <1>1, RestAsItWas DEF linkVars
<1>2. CASE \E u \in Owners : BeginConfirm(u)
  BY <1>2, RestAsItWas DEF BeginConfirm
<1>3. CASE \E c \in 1..challenges, from \in Accounts \cup Chats : SayChallenge(c, from)
  BY <1>3, RestAsItWas DEF SayChallenge
<1>4. CASE \E h \in Hooks : \/ \E n \in DOMAIN updates : TakeUpdate(h, n)
                            \/ ReadChallenge(h) \/ HookFails(h)
  BY <1>4, RestAsItWas DEF TakeUpdate, ReadChallenge, HookFails
<1>5. CASE BeginTest
  BY <1>5, RestAsItWas DEF BeginTest
<1> QED BY <1>1, <1>2, <1>3, <1>4, <1>5, BotSteps, AskSteps, HookSteps DEF LinkingNext

(* For any number of users, webhook requests and bots: an account that is   *)
(* linked was linked under a challenge of after the last disconnection, and *)
(* the group is one that the bot in force was offered.                      *)
THEOREM LinksKeepTheirPlace == LinkingSpec => [](DisconnectsLast /\ GroupIsTheBots)
<1>1. LinkingInit => LinkingInv
  BY DEF LinkingInit, LinkingInv, ChallengesAreCurrent, Asking, BotIsWhole, DisconnectsLast,
         GroupIsTheBots, AskIdle, NoRow
<1>2. LinkingInv => DisconnectsLast /\ GroupIsTheBots
  BY DEF LinkingInv
<1> QED BY <1>1, <1>2, LinkingInvStep, PTL DEF LinkingSpec

(***************************************************************************)
(* Part four: the log-ins and the resets.  A token of today's version has  *)
(* the flag, and the failures are counted that happened.                   *)
(***************************************************************************)
(* What a request and the row of a user are made of.                        *)
CallerFields ==
    /\ DOMAIN standing = {"mustChange", "failed", "lock"}
    /\ DOMAIN caller = Callers
    /\ \A r \in Callers : /\ DOMAIN caller[r] = {"step", "purpose", "version", "read"}
                          /\ DOMAIN caller[r].read = {"mustChange", "failed", "lock"}
(* The versions that requests have read are behind the requests begun, so   *)
(* each version a sign-out gives is one that is counted.                    *)
VersionsInRange ==
    /\ version \in Nat /\ started.requests \in 0..MaxAdmissions /\ version <= started.requests
    /\ DOMAIN started = {"requests", "policy"}
    /\ \A r \in Callers : /\ caller[r].version \in 0..MaxAdmissions
                          /\ caller[r].step # "idle" => caller[r].version < started.requests
    /\ DOMAIN reached = 0..MaxAdmissions /\ \A n \in 0..MaxAdmissions : reached[n] \in Nat
(* What is read or carried of the flag is so yet, or excused.               *)
Carries(v, flag) ==
    v = version /\ standing.mustChange => flag \/ reached[version] > 1 \/ version \in softly
FlagsCarried ==
    /\ \A t \in passes : reached[t.version] >= 1 /\ t.version \in 0..MaxAdmissions
    /\ \A r \in Callers : reached[caller[r].version] >= 1
    /\ reached[version] >= 1 /\ reached[0] >= 1
    /\ \A t \in passes : Carries(t.version, t.pwd)
    /\ \A r \in Callers : caller[r].step \in {"read", "issue"} =>
                             Carries(caller[r].version, caller[r].read.mustChange)
Counted ==
    /\ standing.failed \in Nat /\ failures \in Nat /\ miscounted \in BOOLEAN
    /\ \A r \in Callers : caller[r].read.failed \in Nat
    /\ FailuresAreCounted
AdmissionInv == CallerFields /\ VersionsInRange /\ FlagsCarried /\ Counted

LEMMA CeilingIsAbove ==
    AdmissionAssumption => Ceiling \in Nat \ {0} /\ \A n \in Limits : n <= Ceiling
<1> SUFFICES ASSUME AdmissionAssumption PROVE Ceiling \in Limits /\ \A n \in Limits : n <= Ceiling
  BY DEF AdmissionAssumption
<1>1. \E n \in Limits : \A m \in Limits : m <= n
  BY DEF AdmissionAssumption
<1> QED BY <1>1 DEF Ceiling

(* A request's step: the others go on as they were, with what they have     *)
(* read of the flag.                                                        *)
Onwards(r, c) ==
    /\ DOMAIN caller' = Callers /\ caller'[r] = c
    /\ \A q \in Callers \ {r} : caller'[q] = caller[q]
LEMMA Proceeds ==
    ASSUME CallerFields, NEW r \in Callers, NEW c, caller' = [caller EXCEPT ![r] = c]
    PROVE  Onwards(r, c)
BY DEF CallerFields, Onwards

LEMMA Resting ==
    /\ DOMAIN NoCaller = {"step", "purpose", "version", "read"}
    /\ DOMAIN NoCaller.read = {"mustChange", "failed", "lock"}
    /\ NoCaller.step = "idle" /\ NoCaller.version = 0 /\ NoCaller.read.failed = 0
BY DEF NoCaller

(* Nothing but a request has moved, and it read no more than there is.      *)
LEMMA Reading ==
    ASSUME AdmissionAssumption, AdmissionInv, NEW r \in Callers, NEW c, Onwards(r, c),
           UNCHANGED <<standing, version, passes, reached, softly, countHistory>>,
           started'.requests \in 0..MaxAdmissions, started'.requests >= started.requests,
           DOMAIN started' = {"requests", "policy"},
           DOMAIN c = {"step", "purpose", "version", "read"},
           DOMAIN c.read = {"mustChange", "failed", "lock"}, c.read.failed \in Nat,
           c.version \in {0, version, caller[r].version},
           c.version \in Nat,
           reached[c.version] >= 1,
           c.step # "idle" => c.version < started'.requests,
           c.step \in {"read", "issue"} => Carries(c.version, c.read.mustChange)
    PROVE  AdmissionInv'
<1>1. CallerFields'
  BY DEF AdmissionInv, CallerFields, Onwards
<1>2. VersionsInRange'
  <2>1. \A q \in Callers : /\ caller'[q].version \in 0..MaxAdmissions
                           /\ caller'[q].step # "idle" => caller'[q].version < started'.requests
    <3>1. version \in 0..MaxAdmissions /\ 0 \in 0..MaxAdmissions
      BY DEF AdmissionInv, VersionsInRange, AdmissionAssumption
    <3>2. caller[r].version \in 0..MaxAdmissions
      BY DEF AdmissionInv, VersionsInRange
    <3>3. c.version \in 0..MaxAdmissions
      BY <3>1, <3>2
    <3>4. started.requests \in 0..MaxAdmissions /\ MaxAdmissions \in Nat
      BY DEF AdmissionInv, VersionsInRange, AdmissionAssumption
    <3> SUFFICES ASSUME NEW q \in Callers
                 PROVE  /\ caller'[q].version \in 0..MaxAdmissions
                        /\ caller'[q].step # "idle" => caller'[q].version < started'.requests
      OBVIOUS
    <3>5. CASE q = r
      BY <3>3, <3>5 DEF Onwards
    <3>6. CASE q # r
      <4>1. /\ caller'[q] = caller[q] /\ caller[q].version \in 0..MaxAdmissions
            /\ caller[q].step # "idle" => caller[q].version < started.requests
        BY <3>6 DEF Onwards, AdmissionInv, VersionsInRange
      <4>2. started.requests \in Nat /\ started'.requests \in Nat
        BY <3>4
      <4> QED BY <4>1, <4>2
    <3> QED BY <3>5, <3>6
  <2> QED BY <2>1 DEF AdmissionInv, VersionsInRange
<1>3. FlagsCarried'
  <2>1. \A q \in Callers : /\ reached[caller'[q].version] >= 1
                           /\ caller'[q].step \in {"read", "issue"} =>
                                 Carries(caller'[q].version, caller'[q].read.mustChange)
    BY DEF AdmissionInv, FlagsCarried, Onwards
  <2> QED BY <2>1 DEF AdmissionInv, FlagsCarried, Carries
<1>4. Counted'
  BY DEF AdmissionInv, Counted, Onwards, countHistory, FailuresAreCounted
<1> QED BY <1>1, <1>2, <1>3, <1>4 DEF AdmissionInv

LEMMA ReadingSteps ==
    ASSUME AdmissionAssumption, AdmissionInv, NEW r \in Callers,
           \/ \E purpose \in Purposes : Begin(r, purpose)
           \/ ReadCredential(r) \/ AbandonCall(r)
    PROVE  AdmissionInv'
<1>1. CASE AbandonCall(r)
  <2>1. Onwards(r, NoCaller) /\ started' = started
        /\ UNCHANGED <<standing, version, passes, reached, softly, countHistory>>
    BY <1>1, Proceeds DEF AbandonCall, Ends, AdmissionInv
  <2>2. 0 \in Nat /\ reached[0] >= 1
    BY DEF AdmissionInv, FlagsCarried
  <2>3. started'.requests \in 0..MaxAdmissions /\ started'.requests >= started.requests
        /\ DOMAIN started' = {"requests", "policy"}
    BY <2>1, AdmissionAssumption DEF AdmissionInv, VersionsInRange
  <2> HIDE DEF NoCaller, AdmissionInv, Onwards
  <2> QED BY <2>1, <2>2, <2>3, Resting, Reading
<1>2. ASSUME NEW purpose \in Purposes, Begin(r, purpose) PROVE AdmissionInv'
  <2>1. PICK c : c = [NoCaller EXCEPT !.step = "version", !.purpose = purpose, !.version = version]
    OBVIOUS
  <2>2. Onwards(r, c) /\ UNCHANGED <<standing, version, passes, reached, softly, countHistory>>
    BY <1>2, <2>1, Proceeds DEF Begin, AdmissionInv
  <2>3. started.requests < MaxAdmissions /\ started' = [started EXCEPT !.requests = @ + 1]
    BY <1>2 DEF Begin
  <2>4. started'.requests = started.requests + 1 /\ started'.requests \in 0..MaxAdmissions
        /\ DOMAIN started' = {"requests", "policy"} /\ started.requests \in Nat
    BY <2>3, AdmissionAssumption DEF AdmissionInv, VersionsInRange
  <2>5. /\ DOMAIN c = {"step", "purpose", "version", "read"}
        /\ c.step = "version" /\ c.version = version
        /\ DOMAIN c.read = {"mustChange", "failed", "lock"} /\ c.read.failed = 0
    BY <2>1, Resting
  <2>6. version \in Nat /\ version <= started.requests /\ reached[version] >= 1
    BY DEF AdmissionInv, VersionsInRange, FlagsCarried
  <2>7. started'.requests >= started.requests /\ version < started'.requests
    BY <2>4, <2>6
  <2> HIDE DEF NoCaller, AdmissionInv, Onwards
  <2> QED BY <2>2, <2>4, <2>5, <2>6, <2>7, Reading
<1>3. CASE ReadCredential(r)
  <2>1. PICK b : b = caller[r]
    OBVIOUS
  <2>2. PICK c : /\ caller' = [caller EXCEPT ![r] = c]
                 /\ \/ c = NoCaller
                    \/ \E step : c = [b EXCEPT !.step = step, !.read = standing]
    BY <1>3, <2>1 DEF ReadCredential
  <2>3. Onwards(r, c) /\ started' = started
        /\ UNCHANGED <<standing, version, passes, reached, softly, countHistory>>
    BY <1>3, <2>2, Proceeds DEF ReadCredential, AdmissionInv
  <2>4. started'.requests \in 0..MaxAdmissions /\ started'.requests >= started.requests
        /\ DOMAIN started' = {"requests", "policy"}
    BY <2>3, AdmissionAssumption DEF AdmissionInv, VersionsInRange
  <2>5. b.step = "version" /\ b.version \in Nat /\ b.version < started'.requests
        /\ reached[b.version] >= 1 /\ reached[0] >= 1
    BY <1>3, <2>1, <2>3 DEF ReadCredential, AdmissionInv, VersionsInRange, FlagsCarried
  <2>6. CASE c = NoCaller
    <3> HIDE DEF NoCaller, AdmissionInv, Onwards
    <3> QED BY <2>3, <2>4, <2>5, <2>6, Resting, Reading
  <2>7. CASE \E step : c = [b EXCEPT !.step = step, !.read = standing]
    <3>1. /\ DOMAIN c = {"step", "purpose", "version", "read"}
          /\ c.version = b.version /\ c.read = standing
      BY <2>1, <2>7 DEF AdmissionInv, CallerFields
    <3>2. DOMAIN standing = {"mustChange", "failed", "lock"} /\ standing.failed \in Nat
      BY DEF AdmissionInv, CallerFields, Counted
    <3>3. Carries(c.version, c.read.mustChange)
      BY <3>1 DEF Carries
    <3> HIDE DEF NoCaller, AdmissionInv, Onwards, Carries
    <3> QED BY <2>1, <2>3, <2>4, <2>5, <3>1, <3>2, <3>3, Reading
  <2> QED BY <2>2, <2>6, <2>7
<1> QED BY <1>1, <1>2, <1>3

(* What a request has read does not change while it goes on or ends.        *)
LEMMA Onward ==
    ASSUME AdmissionInv, NEW r \in Callers, NEW c, Onwards(r, c),
           \/ c = NoCaller
           \/ /\ DOMAIN c = {"step", "purpose", "version", "read"}
              /\ DOMAIN c.read = {"mustChange", "failed", "lock"}
              /\ c.version = caller[r].version /\ c.read.failed = caller[r].read.failed
              /\ caller[r].step # "idle"
    PROVE  /\ CallerFields' <=> DOMAIN standing' = {"mustChange", "failed", "lock"}
           /\ \A q \in Callers :
                 /\ caller'[q].version \in {0, caller[q].version}
                 /\ caller'[q].step # "idle" =>
                        caller[q].step # "idle" /\ caller'[q].version = caller[q].version
                 /\ caller'[q].read.failed \in Nat
BY Resting DEF AdmissionInv, CallerFields, Counted, Onwards

LEMMA IssueStep ==
    ASSUME AdmissionAssumption, AdmissionInv, NEW r \in Callers, Issue(r)
    PROVE  AdmissionInv'
<1>1. PICK t : /\ t = [version |-> caller[r].version, pwd |-> caller[r].read.mustChange]
               /\ passes' = passes \cup {t}
  BY DEF Issue
<1>2. /\ Onwards(r, NoCaller) /\ caller[r].step \in {"read", "issue"}
      /\ UNCHANGED <<standing, version, started, reached, softly, countHistory>>
  BY Proceeds DEF Issue, Ends, AdmissionInv
<1>3. /\ CallerFields' <=> DOMAIN standing' = {"mustChange", "failed", "lock"}
      /\ \A q \in Callers :
                 /\ caller'[q].version \in {0, caller[q].version}
                 /\ caller'[q].step # "idle" =>
                        caller[q].step # "idle" /\ caller'[q].version = caller[q].version
                 /\ caller'[q].read.failed \in Nat
  BY <1>2, Onward
<1>4. VersionsInRange'
  BY <1>2, <1>3 DEF AdmissionInv, VersionsInRange
<1>5. reached[t.version] >= 1 /\ t.version \in 0..MaxAdmissions /\ Carries(t.version, t.pwd)
  BY <1>1, <1>2, AdmissionAssumption DEF AdmissionInv, FlagsCarried, VersionsInRange
<1>6. FlagsCarried'
  <2>1. \A q \in Callers : caller'[q].step \in {"read", "issue"} => caller'[q] = caller[q]
    BY <1>2, Resting DEF Onwards
  <2> QED BY <1>1, <1>2, <1>3, <1>5, <2>1 DEF AdmissionInv, FlagsCarried, Carries
<1>7. Counted'
  BY <1>2, <1>3 DEF AdmissionInv, Counted, FailuresAreCounted, countHistory
<1>8. CallerFields'
  BY <1>2, <1>3 DEF AdmissionInv, CallerFields
<1> QED BY <1>4, <1>6, <1>7, <1>8 DEF AdmissionInv

(* A check of the policy sets the flag and marks the version of today.      *)
LEMMA FlagDueStep ==
    ASSUME AdmissionAssumption, AdmissionInv, NEW r \in Callers, FlagDue(r)
    PROVE  AdmissionInv'
<1>1. PICK b : b = caller[r]
  OBVIOUS
<1>2. PICK read : read = [b.read EXCEPT !.mustChange = TRUE]
  OBVIOUS
<1>3. PICK c : /\ caller' = [caller EXCEPT ![r] = c]
               /\ c = NoCaller \/ c = [b EXCEPT !.step = "read", !.read = read]
  <2>1. CASE caller[r].purpose = "request"
    <3>1. caller' = [caller EXCEPT ![r] = NoCaller]
      BY <2>1 DEF FlagDue
    <3> QED BY <3>1
  <2>2. CASE caller[r].purpose # "request"
    <3>1. caller' = [caller EXCEPT ![r] = [caller[r] EXCEPT !.step = "read", !.read.mustChange = TRUE]]
      BY <2>2 DEF FlagDue
    <3>2. [caller[r] EXCEPT !.step = "read", !.read.mustChange = TRUE]
          = [b EXCEPT !.step = "read", !.read = read]
      BY <1>1, <1>2 DEF AdmissionInv, CallerFields
    <3> QED BY <3>1, <3>2
  <2> QED BY <2>1, <2>2
<1>4. /\ standing' = [standing EXCEPT !.mustChange = TRUE] /\ softly' = softly \cup {version}
      /\ b.step = "due" /\ UNCHANGED <<version, passes, started, reached, countHistory>>
  BY <1>1 DEF FlagDue
<1>5. Onwards(r, c)
  BY <1>3, Proceeds DEF AdmissionInv
<1>6. c = NoCaller \/ (/\ DOMAIN c = {"step", "purpose", "version", "read"}
                       /\ DOMAIN c.read = {"mustChange", "failed", "lock"}
                       /\ c.version = caller[r].version /\ c.read.failed = caller[r].read.failed
                       /\ caller[r].step # "idle")
  <2>1. /\ DOMAIN b = {"step", "purpose", "version", "read"}
        /\ DOMAIN b.read = {"mustChange", "failed", "lock"}
    BY <1>1 DEF AdmissionInv, CallerFields
  <2>2. DOMAIN read = DOMAIN b.read /\ read.failed = b.read.failed
    BY <1>2, <2>1
  <2>3. CASE c = [b EXCEPT !.step = "read", !.read = read]
    <3>1. DOMAIN c = DOMAIN b /\ c.version = b.version /\ c.read = read
      BY <2>1, <2>3
    <3> QED BY <1>1, <1>4, <2>1, <2>2, <3>1
  <2> QED BY <1>3, <2>3
<1>7. /\ CallerFields' <=> DOMAIN standing' = {"mustChange", "failed", "lock"}
      /\ \A q \in Callers :
                 /\ caller'[q].version \in {0, caller[q].version}
                 /\ caller'[q].step # "idle" =>
                        caller[q].step # "idle" /\ caller'[q].version = caller[q].version
                 /\ caller'[q].read.failed \in Nat
  BY <1>5, <1>6, Onward
<1>8. VersionsInRange'
  BY <1>4, <1>7 DEF AdmissionInv, VersionsInRange
<1>9. FlagsCarried'
  BY <1>4, <1>7 DEF AdmissionInv, FlagsCarried, Carries
<1>10. DOMAIN standing' = DOMAIN standing /\ standing'.failed = standing.failed
  BY <1>4 DEF AdmissionInv, CallerFields
<1>11. Counted' /\ CallerFields'
  BY <1>4, <1>7, <1>10 DEF AdmissionInv, CallerFields, Counted, FailuresAreCounted, countHistory
<1> QED BY <1>8, <1>9, <1>11 DEF AdmissionInv

(* A log-in that read the count as it is writes it right; the others say so.*)
LEMMA LogInSteps ==
    ASSUME AdmissionAssumption, AdmissionInv, NEW r \in Callers, WrongPassword(r) \/ RightPassword(r)
    PROVE  AdmissionInv'
<1>1. PICK read : read = caller[r].read
  OBVIOUS
<1>2. read.failed \in Nat /\ standing.failed \in Nat /\ failures \in Nat
      /\ DOMAIN standing = {"mustChange", "failed", "lock"}
  BY <1>1 DEF AdmissionInv, Counted, CallerFields
<1>3. /\ Counted'
      /\ DOMAIN standing' = DOMAIN standing /\ standing'.mustChange = standing.mustChange
  <2>1. CASE WrongPassword(r)
    <3>0. PICK limit \in Limits :
             /\ standing' = [standing EXCEPT
                  !.failed = Put(@, read.failed,
                                 IF read.failed + 1 >= limit THEN 0 ELSE read.failed + 1),
                  !.lock = IF read.failed + 1 >= limit THEN "locked" ELSE @]
             /\ failures' = IF read.failed + 1 >= limit THEN 0 ELSE failures + 1
             /\ miscounted' = (miscounted \/ Counting(standing) # Counting(read))
      BY <2>1, <1>1 DEF WrongPassword
    <3>1. PICK count :
             /\ count = IF read.failed + 1 >= limit THEN 0 ELSE read.failed + 1
             /\ standing' = [standing EXCEPT
                  !.failed = Put(@, read.failed, count),
                  !.lock = IF read.failed + 1 >= limit THEN "locked" ELSE @]
             /\ failures' = IF read.failed + 1 >= limit THEN 0 ELSE failures + 1
             /\ miscounted' = (miscounted \/ Counting(standing) # Counting(read))
      BY <3>0
    <3>2. standing'.failed = (IF count = read.failed THEN standing.failed ELSE count)
          /\ DOMAIN standing' = DOMAIN standing /\ standing'.mustChange = standing.mustChange
      BY <1>2, <3>1 DEF Put
    <3>3. limit \in Nat \ {0} /\ limit <= Ceiling /\ Ceiling \in Nat \ {0}
      BY <3>0, CeilingIsAbove, AdmissionAssumption DEF AdmissionAssumption
    <3>4. standing'.failed \in Nat /\ failures' \in Nat /\ miscounted' \in BOOLEAN
      BY <1>2, <3>1, <3>2, <3>3
    <3>5. miscounted' \/ (failures' = standing'.failed /\ failures' < Ceiling)
      <4> SUFFICES ASSUME ~miscounted' PROVE failures' = standing'.failed /\ failures' < Ceiling
        OBVIOUS
      <4>1. ~miscounted /\ standing.failed = read.failed
        BY <3>1 DEF Counting
      <4>2. failures = standing.failed
        BY <4>1 DEF AdmissionInv, Counted, FailuresAreCounted
      <4> QED BY <1>2, <3>1, <3>2, <3>3, <4>1, <4>2
    <3>6. \A q \in Callers : caller'[q].read.failed \in Nat
      <4>1. caller' = [caller EXCEPT ![r] = NoCaller]
        BY <2>1 DEF WrongPassword, Ends
      <4>2. Onwards(r, NoCaller)
        BY <4>1, Proceeds DEF AdmissionInv
      <4> QED BY <4>2, Resting DEF Onwards, AdmissionInv, Counted
    <3> QED BY <3>2, <3>4, <3>5, <3>6 DEF Counted, FailuresAreCounted
  <2>2. CASE RightPassword(r)
    <3>1. /\ standing' = [standing EXCEPT !.failed = Put(@, read.failed, 0),
                                          !.lock = Put(@, read.lock, "none")]
          /\ miscounted' = (miscounted \/ Counting(standing) # Counting(read))
          /\ failures' = 0 /\ caller' = [caller EXCEPT ![r].step = "issue"]
      BY <2>2, <1>1 DEF RightPassword
    <3>2. standing'.failed = (IF read.failed = 0 THEN standing.failed ELSE 0)
          /\ DOMAIN standing' = DOMAIN standing /\ standing'.mustChange = standing.mustChange
      BY <1>2, <3>1 DEF Put
    <3>3. miscounted' \/ (failures' = standing'.failed /\ failures' < Ceiling)
      <4> SUFFICES ASSUME ~miscounted' PROVE failures' = standing'.failed /\ failures' < Ceiling
        OBVIOUS
      <4>1. standing.failed = read.failed
        BY <3>1 DEF Counting
      <4> QED BY <3>1, <3>2, <4>1, CeilingIsAbove
    <3>4. \A q \in Callers : caller'[q].read.failed \in Nat
      BY <3>1 DEF AdmissionInv, Counted, CallerFields
    <3> QED BY <1>2, <3>1, <3>2, <3>3, <3>4 DEF Counted, FailuresAreCounted, AdmissionInv
  <2> QED BY <2>1, <2>2
<1>4. PICK c : /\ caller' = [caller EXCEPT ![r] = c]
               /\ c = NoCaller \/ c = [caller[r] EXCEPT !.step = "issue"]
  BY DEF WrongPassword, RightPassword, Ends, AdmissionInv, CallerFields
<1>5. /\ caller[r].step = "read"
      /\ UNCHANGED <<version, passes, due, started, reached, softly>>
  BY DEF WrongPassword, RightPassword
<1>6. Onwards(r, c) /\ (c # NoCaller => c.read = caller[r].read)
      /\ (c = NoCaller \/ (/\ DOMAIN c = {"step", "purpose", "version", "read"}
                          /\ DOMAIN c.read = {"mustChange", "failed", "lock"}
                          /\ c.version = caller[r].version /\ c.read.failed = caller[r].read.failed
                          /\ caller[r].step # "idle"))
  BY <1>4, <1>5, Proceeds DEF AdmissionInv, CallerFields
<1>7. /\ CallerFields' <=> DOMAIN standing' = {"mustChange", "failed", "lock"}
      /\ \A q \in Callers :
                 /\ caller'[q].version \in {0, caller[q].version}
                 /\ caller'[q].step # "idle" =>
                        caller[q].step # "idle" /\ caller'[q].version = caller[q].version
                 /\ caller'[q].read.failed \in Nat
  BY <1>6, Onward
<1>8. VersionsInRange'
  BY <1>5, <1>7 DEF AdmissionInv, VersionsInRange
<1>9. \A q \in Callers : caller'[q].step \in {"read", "issue"} =>
         caller[q].step \in {"read", "issue"} /\ caller'[q].read = caller[q].read
         /\ caller'[q].version = caller[q].version
  BY <1>5, <1>6, <1>7, Resting DEF Onwards
<1>10. FlagsCarried'
  BY <1>3, <1>5, <1>7, <1>9 DEF AdmissionInv, FlagsCarried, Carries
<1> QED BY <1>2, <1>3, <1>7, <1>8, <1>10 DEF AdmissionInv

(* A sign-out comes to the version after the one it read: nobody carries    *)
(* that version yet, or it is given twice.                                  *)
LEMMA SignOutStep ==
    ASSUME AdmissionAssumption, AdmissionInv, NEW r \in Callers, SignOut(r)
    PROVE  AdmissionInv'
<1>1. PICK read, v : read = caller[r].read /\ v = caller[r].version
  OBVIOUS
<1>2. /\ caller[r].step = "read"
      /\ version' = v + 1 /\ reached' = [reached EXCEPT ![v + 1] = @ + 1]
      /\ caller' = [caller EXCEPT ![r] = NoCaller]
      /\ UNCHANGED <<passes, started, softly>>
  BY <1>1 DEF SignOut, Raised, Ends
<1>3. Onwards(r, NoCaller)
  BY <1>2, Proceeds DEF AdmissionInv
<1>4. /\ CallerFields' <=> DOMAIN standing' = {"mustChange", "failed", "lock"}
      /\ \A q \in Callers :
                 /\ caller'[q].version \in {0, caller[q].version}
                 /\ caller'[q].step # "idle" =>
                        caller[q].step # "idle" /\ caller'[q].version = caller[q].version
                 /\ caller'[q].read.failed \in Nat
  BY <1>3, Onward
<1>5. v \in Nat /\ v < started.requests /\ started.requests \in 0..MaxAdmissions /\ MaxAdmissions \in Nat
  BY <1>1, <1>2 DEF AdmissionInv, VersionsInRange, AdmissionAssumption
<1>6. /\ v + 1 \in 0..MaxAdmissions /\ reached'[v + 1] = reached[v + 1] + 1
      /\ DOMAIN reached' = 0..MaxAdmissions
      /\ \A n \in 0..MaxAdmissions : n # v + 1 => reached'[n] = reached[n]
  BY <1>2, <1>5 DEF AdmissionInv, VersionsInRange
<1>7. VersionsInRange'
  <2>1. \A q \in Callers : caller'[q].version \in 0..MaxAdmissions
    BY <1>4, <1>5 DEF AdmissionInv, VersionsInRange
  <2>2. \A q \in Callers : caller'[q].step # "idle" => caller'[q].version < started'.requests
    BY <1>2, <1>4 DEF AdmissionInv, VersionsInRange
  <2>3. reached[v + 1] \in Nat
    BY <1>6 DEF AdmissionInv, VersionsInRange
  <2> QED BY <1>2, <1>5, <1>6, <2>1, <2>2, <2>3 DEF AdmissionInv, VersionsInRange
<1>8. FlagsCarried'
  <2>1. \A n \in 0..MaxAdmissions : reached[n] \in Nat
    BY DEF AdmissionInv, VersionsInRange
  <2>2. \A n \in 0..MaxAdmissions : reached[n] >= 1 =>
           reached'[n] >= 1 /\ (n = version' => reached'[version'] > 1)
    BY <1>2, <1>6, <2>1
  <2>3. \A q \in Callers : caller[q].version \in 0..MaxAdmissions
    BY DEF AdmissionInv, VersionsInRange
  <2>4. 0 \in 0..MaxAdmissions /\ version' \in 0..MaxAdmissions
    BY <1>2, <1>5, <1>6
  <2>5. reached'[version'] >= 1
    BY <1>2, <1>6, <2>1
  <2>6. \A q \in Callers : reached[caller[q].version] >= 1 /\ reached[caller'[q].version] >= 1
                           /\ caller'[q].version \in 0..MaxAdmissions
    BY <1>4, <2>3, <2>4 DEF AdmissionInv, FlagsCarried
  <2> QED BY <1>2, <2>2, <2>4, <2>5, <2>6 DEF AdmissionInv, FlagsCarried, Carries
<1>9. Counted' /\ CallerFields'
  <2>1. PICK flag, clears \in BOOLEAN :
           /\ DOMAIN standing' = {"mustChange", "failed", "lock"}
           /\ standing'.failed = IF clears THEN Put(standing.failed, read.failed, 0)
                                 ELSE standing.failed
           /\ failures' = IF clears THEN 0 ELSE failures
           /\ miscounted' = (miscounted \/ (clears /\ Counting(standing) # Counting(read)))
    <3>1. PICK flag \in BOOLEAN : standing' =
              [mustChange |-> IF caller[r].purpose = "logout" THEN standing.mustChange
                              ELSE Put(standing.mustChange, read.mustChange, flag),
               failed |-> IF caller[r].purpose \in {"reset", "recover"}
                          THEN Put(standing.failed, read.failed, 0) ELSE standing.failed,
               lock |-> IF caller[r].purpose \in {"reset", "recover"}
                        THEN Put(standing.lock, read.lock, "none") ELSE standing.lock]
      BY <1>1 DEF SignOut
    <3>2. /\ DOMAIN standing' = {"mustChange", "failed", "lock"}
          /\ standing'.failed = IF caller[r].purpose \in {"reset", "recover"}
                                THEN Put(standing.failed, read.failed, 0) ELSE standing.failed
      BY <3>1
    <3>3. /\ failures' = IF caller[r].purpose \in {"reset", "recover"} THEN 0 ELSE failures
          /\ miscounted' = (miscounted \/ (caller[r].purpose \in {"reset", "recover"}
                                           /\ Counting(standing) # Counting(read)))
      BY <1>1 DEF SignOut
    <3>4. PICK clears \in BOOLEAN : clears <=> caller[r].purpose \in {"reset", "recover"}
      OBVIOUS
    <3> QED BY <3>2, <3>3, <3>4
  <2>2. standing.failed \in Nat /\ failures \in Nat
    BY DEF AdmissionInv, Counted
  <2>3. miscounted' \/ (failures' = standing'.failed /\ failures' < Ceiling)
    <3> SUFFICES ASSUME ~miscounted' PROVE failures' = standing'.failed /\ failures' < Ceiling
      OBVIOUS
    <3>1. CASE clears
      <4>1. standing.failed = read.failed
        BY <2>1, <3>1 DEF Counting
      <4> QED BY <2>1, <3>1, <4>1, CeilingIsAbove DEF Put
    <3>2. CASE ~clears
      BY <2>1, <3>2 DEF AdmissionInv, Counted, FailuresAreCounted
    <3> QED BY <3>1, <3>2
  <2>4. standing'.failed \in Nat /\ failures' \in Nat /\ miscounted' \in BOOLEAN
    BY <2>1, <2>2 DEF Put
  <2> QED BY <1>4, <2>1, <2>3, <2>4 DEF Counted, FailuresAreCounted
<1> QED BY <1>7, <1>8, <1>9 DEF AdmissionInv

LEMMA TimeSteps ==
    ASSUME AdmissionInv, PolicyTurns \/ LockEnds \/ UNCHANGED admissionVars
    PROVE  AdmissionInv'
<1>1. /\ UNCHANGED <<version, passes, caller, reached, softly, failures, miscounted>>
      /\ standing'.failed = standing.failed /\ standing'.mustChange = standing.mustChange
      /\ DOMAIN standing' = DOMAIN standing
      /\ started'.requests = started.requests /\ DOMAIN started' = DOMAIN started
  BY DEF PolicyTurns, LockEnds, admissionVars, countHistory, AdmissionInv, CallerFields, VersionsInRange
<1>2. CallerFields' /\ VersionsInRange'
  BY <1>1 DEF AdmissionInv, CallerFields, VersionsInRange
<1>3. FlagsCarried' /\ Counted'
  BY <1>1 DEF AdmissionInv, FlagsCarried, Carries, Counted, FailuresAreCounted
<1> QED BY <1>2, <1>3 DEF AdmissionInv

LEMMA AdmissionInvStep ==
    ASSUME AdmissionAssumption, AdmissionInv, [AdmissionNext]_admissionVars PROVE AdmissionInv'
<1>1. ASSUME NEW r \in Callers,
             \/ \E purpose \in Purposes : Begin(r, purpose)
             \/ ReadCredential(r) \/ WrongPassword(r) \/ RightPassword(r) \/ Issue(r)
             \/ SignOut(r) \/ FlagDue(r) \/ AbandonCall(r)
      PROVE  AdmissionInv'
  BY <1>1, ReadingSteps, LogInSteps, IssueStep, SignOutStep, FlagDueStep
<1> QED BY <1>1, TimeSteps DEF AdmissionNext

LEMMA AdmissionInvInit == ASSUME AdmissionAssumption, AdmissionInit PROVE AdmissionInv
<1>1. standing.failed = 0 /\ DOMAIN standing = {"mustChange", "failed", "lock"}
  BY DEF AdmissionInit
<1>2. /\ version = 0 /\ passes = {} /\ failures = 0 /\ miscounted = FALSE
      /\ caller = [r \in Callers |-> NoCaller] /\ started = [requests |-> 0, policy |-> 0]
      /\ reached = [n \in 0..MaxAdmissions |-> IF n = 0 THEN 1 ELSE 0]
      /\ 0 \in 0..MaxAdmissions
  BY DEF AdmissionInit, AdmissionAssumption
<1>3. CallerFields /\ VersionsInRange
  BY <1>1, <1>2, Resting DEF CallerFields, VersionsInRange
<1>4. FlagsCarried
  BY <1>2, Resting DEF FlagsCarried
<1>5. Counted
  <2>1. \A r \in Callers : caller[r].read.failed = 0
    BY <1>2, Resting
  <2>2. FailuresAreCounted
    BY <1>1, <1>2, CeilingIsAbove DEF FailuresAreCounted
  <2>3. miscounted \in BOOLEAN
    BY <1>2, Zenon
  <2> QED BY <1>1, <1>2, <2>1, <2>2, <2>3 DEF Counted
<1> QED BY <1>3, <1>4, <1>5 DEF AdmissionInv

(* For any number of requests, of any kinds, and any limit: a token of      *)
(* today's version carries the flag, but for a version given twice or a     *)
(* flag that a check set; and failed log-ins are counted, or overlapped.    *)
THEOREM ResetsReachTokens == AdmissionSpec => [](TokensCarryTheFlag /\ FailuresAreCounted)
<1>1. AdmissionInv => TokensCarryTheFlag /\ FailuresAreCounted
  BY DEF AdmissionInv, FlagsCarried, Carries, TokensCarryTheFlag, Counted
<1> QED BY <1>1, AdmissionInvInit, AdmissionInvStep, AdmissionAssumption, PTL DEF AdmissionSpec

(***************************************************************************)
(* Part five: the monitor.  What the cursor has passed was read, was late  *)
(* or is too old; and nothing is told twice within the cooldown.           *)
(***************************************************************************)
(* Numbers and rows, and what the clock has passed.                         *)
Rowed ==
    /\ now \in Minutes /\ cursor \in Nat
    /\ Len(log) \in Nat /\ DOMAIN log = 1..Len(log)
    /\ \A n \in DOMAIN log :
          /\ DOMAIN log[n] = {"kind", "at", "state", "seen", "overtaken"}
          /\ log[n].at \in Nat
Measured ==
    /\ DOMAIN incident = {"state", "since", "told"} /\ incident.state \in IncidentStates
    /\ incident.since \in Nat /\ incident.told \in Minutes \cup {NoTime}
    /\ incident.state = "ACTIVE" => incident.since + Duration <= now
    /\ incident.state # "NONE" => incident.since <= now /\ (incident.since = now => ticked)
    /\ outage.failed \in Nat \cup {NoTime}
    /\ outage.failed # NoTime => outage.failed <= now
    /\ outage.told # NoTime => outage.failed # NoTime /\ outage.failed < now
(* A notice is of the past, and one of an incident is a tick's.  Of an      *)
(* incident that lasts the last is the one its row remembers, and its end   *)
(* has not been told; an outage that was told to be over began before the   *)
(* one that lasts.                                                          *)
Lasts == incident.state \in {"PENDING", "ACTIVE"}
Remembered(a) ==
    /\ a.at \in Nat /\ a.at <= now
    /\ a.subject \in {"INCIDENT", "RECOVERED"} => a.at < now \/ ticked
    /\ a.subject = "INCIDENT" =>
          /\ a.reference \in Nat /\ a.reference + Duration <= a.at
          /\ Lasts /\ a.reference = incident.since =>
                incident.told # NoTime /\ a.at <= incident.told
    /\ a.subject = "RECOVERED" =>
          /\ a.reference \in Nat /\ a.reference + Duration <= a.at
          /\ Lasts => a.reference # incident.since
    /\ a.subject = "DATABASE_RECOVERED" =>
          /\ a.reference \in Nat /\ a.reference < a.at
          /\ outage.failed # NoTime => a.reference < outage.failed
AlertsInv == Rowed /\ Measured /\ (\A a \in alerts : Remembered(a)) /\ CooldownKept /\ SkippedOnlyIfLate

(* A set of naturals that has an upper bound has a greatest element.        *)
LEMMA GreatestExists ==
    ASSUME NEW S, NEW N \in Nat, S \subseteq 1..N, S # {}
    PROVE  \E x \in S : \A y \in S : y <= x
<1>1. PICK T : T = {N - x : x \in S}
  OBVIOUS
<1>2. T \in SUBSET Nat /\ T # {}
  <2>1. \A x \in S : N - x \in Nat
    <3> SUFFICES ASSUME NEW x \in S PROVE N - x \in Nat
      OBVIOUS
    <3>1. x \in 1..N
      OBVIOUS
    <3> QED BY <3>1
  <2> QED BY <1>1, <2>1
<1>3. PICK t \in T : \A u \in T : ~(<<u, t>> \in OpToRel(<, Nat))
  BY <1>2, NatLessThanWellFounded, WFMin
<1>4. PICK x \in S : t = N - x
  BY <1>1
<1>5. ASSUME NEW y \in S PROVE y <= x
  <2>1. PICK u \in T : u = N - y
    BY <1>1
  <2>2. <<u, t>> \in OpToRel(<, Nat) <=> u < t
    BY <1>2, <1>3, <2>1, Zenon DEF OpToRel
  <2>3. ~(u < t)
    BY <1>3, <2>2, Zenon
  <2> QED BY <1>4, <2>1, <2>3
<1> QED BY <1>5

(* What the cursor comes to: the last of a batch, before which nothing is   *)
(* left out that could be read.                                             *)
LEMMA BatchIsNext ==
    ASSUME AlertsAssumption, Rowed, Batch # {}, NEW c,
           c = CHOOSE n \in Batch : \A m \in Batch : m <= n
    PROVE  /\ c \in Batch /\ c \in DOMAIN log
           /\ \A n \in DOMAIN log : n <= c /\ Unread(n) => n \in Batch
<1>1. PICK unread : unread = {n \in DOMAIN log : Unread(n)}
  OBVIOUS
<1>2. Batch = {n \in unread : Cardinality({m \in unread : m < n}) < Limit}
  BY <1>1 DEF Batch
<1>3. Batch \subseteq 1..Len(log) /\ Len(log) \in Nat
  BY <1>1, <1>2 DEF Rowed
<1>4. \E n \in Batch : \A m \in Batch : m <= n
  BY <1>3, GreatestExists
<1>5. c \in Batch
  BY <1>4
<1>6. ASSUME NEW n \in DOMAIN log, n <= c, Unread(n) PROVE n \in Batch
  <2>1. PICK before, earlier : before = {m \in unread : m < c} /\ earlier = {m \in unread : m < n}
    OBVIOUS
  <2>2. IsFiniteSet(before)
    <3>1. before \subseteq 1..Len(log)
      BY <1>1, <2>1 DEF Rowed
    <3>2. IsFiniteSet(1..Len(log))
      BY <1>3, FS_Interval
    <3> QED BY <3>1, <3>2, FS_Subset
  <2>3. earlier \subseteq before
    <3>1. \A m \in unread : m \in Nat
      BY <1>1 DEF Rowed
    <3>2. n \in Nat /\ c \in Nat
      <4>1. n \in 1..Len(log) /\ c \in 1..Len(log)
        BY <1>3, <1>5 DEF Rowed
      <4> QED BY <1>3, <4>1
    <3>3. \A m \in unread : m < n => m < c
      BY <1>6, <3>1, <3>2
    <3> QED BY <2>1, <3>3
  <2>4. /\ Cardinality(before) \in Nat /\ Cardinality(earlier) \in Nat
        /\ Cardinality(earlier) <= Cardinality(before)
    BY <2>2, <2>3, FS_Subset, FS_CardinalityType
  <2>5. Cardinality(before) < Limit
    <3>1. \A m \in Batch : Cardinality({l \in unread : l < m}) < Limit
      BY <1>2, Zenon
    <3>2. Cardinality({l \in unread : l < c}) < Limit
      BY <1>5, <3>1, Zenon
    <3> QED BY <2>1, <3>2
  <2>6. Cardinality(earlier) < Limit /\ n \in unread
    BY <1>1, <1>6, <2>4, <2>5 DEF AlertsAssumption
  <2> QED BY <1>2, <2>1, <2>6
<1> QED BY <1>3, <1>5, <1>6 DEF Rowed

(* The log: what is committed behind the cursor says so.                    *)
LEMMA EndEventStep ==
    ASSUME AlertsInv, NEW n \in DOMAIN log, NEW state, EndEvent(n, state)
    PROVE  Rowed' /\ SkippedOnlyIfLate'
<1>1. PICK late \in BOOLEAN : late <=> state = "committed" /\ n <= cursor
  OBVIOUS
<1>2. log' = [log EXCEPT ![n].state = state, ![n].overtaken = late]
      /\ UNCHANGED <<now, cursor>>
  <2>1. (state = "committed" /\ n <= cursor) = late
    BY <1>1
  <2> QED BY <2>1 DEF EndEvent
<1>3. /\ DOMAIN log' = DOMAIN log /\ Len(log') = Len(log)
      /\ \A m \in DOMAIN log \ {n} : log'[m] = log[m]
      /\ DOMAIN log'[n] = DOMAIN log[n] /\ log'[n].at = log[n].at
      /\ log'[n].state = state /\ log'[n].overtaken = late
  BY <1>2 DEF AlertsInv, Rowed
<1>4. Rowed'
  BY <1>2, <1>3 DEF AlertsInv, Rowed
<1>5. SkippedOnlyIfLate'
  BY <1>1, <1>2, <1>3 DEF AlertsInv, SkippedOnlyIfLate
<1> QED BY <1>4, <1>5

(* A notice that is new is told at this time, and each of the old ones of   *)
(* its kind long enough ago.                                                *)
TellsAnew(b) ==
    /\ b.at = now
    /\ \A a \in alerts : a.subject = b.subject /\ a.reference = b.reference /\ a.at < now =>
                             a.subject # "BACKUP" /\ now >= a.at + Cooldown
LEMMA SecurityIsFresh ==
    ASSUME AlertsAssumption, AlertsInv, NEW b \in SecurityNotices
    PROVE  TellsAnew(b) /\ b.subject \in AuditKinds
<1>1. PICK k \in AuditKinds : ~Recent(k) /\ b = [subject |-> k, reference |-> 0, at |-> now]
  BY DEF SecurityNotices, Notice
<1>2. \A a \in alerts : a.subject = k => ~(a.at + Cooldown > now)
  BY <1>1 DEF Recent
<1>3. \A a \in alerts : a.at \in Nat
  BY DEF AlertsInv, Remembered
<1>4. now \in Nat /\ Cooldown \in Nat
  BY DEF AlertsInv, Rowed, Minutes, AlertsAssumption
<1> QED BY <1>1, <1>2, <1>3, <1>4 DEF TellsAnew, AuditKinds
LEMMA BackupIsFresh ==
    ASSUME AlertsInv, NEW b \in BackupNotices
    PROVE  TellsAnew(b) /\ b.subject = "BACKUP"
<1>1. PICK r \in BackupRuns : /\ b = [subject |-> "BACKUP", reference |-> r, at |-> now]
                              /\ ~\E a \in alerts : a.subject = "BACKUP" /\ a.reference = r
  BY DEF BackupNotices, Notice
<1> QED BY <1>1 DEF TellsAnew
LEMMA RecoveryIsFresh ==
    ASSUME AlertsInv, NEW b, b = Notice("DATABASE_RECOVERED", outage.failed), outage.told # NoTime
    PROVE  /\ TellsAnew(b) /\ b.subject = "DATABASE_RECOVERED"
           /\ b.reference \in Nat /\ b.reference < b.at
BY DEF AlertsInv, Measured, Remembered, TellsAnew, Notice
(* Of an incident.  A tick tells of it, and this is the first tick of the   *)
(* instant, so an incident that begins now has the name of no other.        *)
LEMMA IncidentIsFresh ==
    ASSUME AlertsAssumption, AlertsInv, NEW b, NEW failing, NEW recovered,
           ~ticked, b \in IncidentNotices(failing, recovered)
    PROVE  /\ TellsAnew(b) /\ b.reference \in Nat /\ b.reference + Duration <= b.at
           /\ \/ failing /\ Tells /\ b.subject = "INCIDENT" /\ b.reference = Opened.since
              \/ ~failing /\ incident.state = "ACTIVE" /\ recovered /\ b.subject = "RECOVERED"
<1>1. now \in Nat /\ Cooldown \in Nat /\ Duration \in Nat /\ now # NoTime
  BY DEF AlertsInv, Rowed, Minutes, AlertsAssumption
<1>2. CASE failing
  <2>1. Tells /\ b = [subject |-> "INCIDENT", reference |-> Opened.since, at |-> now]
    BY <1>2 DEF IncidentNotices, Notice
  <2>2. Opened.since \in Nat /\ Opened.since + Duration <= now
    BY <1>1, <2>1 DEF Opened, Tells, AlertsInv, Measured
  <2>3. ASSUME NEW a \in alerts, a.subject = "INCIDENT", a.reference = Opened.since
        PROVE  now >= a.at + Cooldown
    <3>1. Lasts
      <4> SUFFICES ASSUME ~Lasts PROVE FALSE
        OBVIOUS
      <4>1. Opened.since = now
        BY DEF Lasts, Opened, AlertsInv, Measured, IncidentStates
      <4>2. a.at \in Nat /\ a.at < now /\ a.reference + Duration <= a.at
        BY <2>3 DEF AlertsInv, Remembered
      <4> QED BY <1>1, <2>3, <4>1, <4>2
    <3>2. Opened = incident
      BY <3>1 DEF Lasts, Opened
    <3>3. /\ incident.told # NoTime /\ a.at <= incident.told /\ a.at \in Nat
          /\ incident.told \in Nat /\ now >= incident.told + Cooldown
      BY <2>1, <2>3, <3>1, <3>2 DEF AlertsInv, Remembered, Tells, Cooled, Measured, Minutes
    <3> QED BY <1>1, <3>3
  <2> QED BY <1>2, <2>1, <2>2, <2>3 DEF TellsAnew
<1>3. CASE ~failing
  <2>1. /\ enabled /\ recovered /\ incident.state = "ACTIVE"
        /\ b = [subject |-> "RECOVERED", reference |-> incident.since, at |-> now]
    BY <1>3 DEF IncidentNotices, RecoveryTold, Notice
  <2>2. incident.since \in Nat /\ incident.since + Duration <= now
    BY <2>1 DEF AlertsInv, Measured
  <2>3. \A a \in alerts : a.subject = "RECOVERED" => a.reference # incident.since
    BY <2>1 DEF AlertsInv, Remembered, Lasts
  <2> QED BY <1>3, <2>1, <2>2, <2>3 DEF TellsAnew
<1> QED BY <1>2, <1>3

(* What a tick makes of the incident: an incident goes on under the name it *)
(* has, with what was told of it last, or begins now.                       *)
LEMMA TickMeasures ==
    ASSUME AlertsAssumption, AlertsInv, NEW failing \in BOOLEAN, NEW recovered \in BOOLEAN,
           MonitorTick(failing, recovered)
    PROVE  /\ Measured' /\ outage'.failed = NoTime
           /\ Lasts' => /\ incident'.since = Opened.since
                        /\ incident'.told \in {now, Opened.told}
                        /\ failing /\ Tells => incident'.told = now
                        /\ ~(~failing /\ recovered /\ incident.state = "ACTIVE")
<1>1. /\ incident' = (IF failing THEN Failing ELSE Passing(recovered))
      /\ outage' = [failed |-> NoTime, told |-> NoTime] /\ now' = now
  BY DEF MonitorTick
<1>2. now \in Nat /\ now \in Minutes /\ Duration \in Nat /\ ticked'
  BY DEF MonitorTick, AlertsInv, Rowed, Minutes, AlertsAssumption
<1>3. /\ DOMAIN incident = {"state", "since", "told"} /\ incident.state \in IncidentStates
      /\ incident.since \in Nat /\ incident.told \in Minutes \cup {NoTime}
      /\ incident.state = "ACTIVE" => incident.since + Duration <= now
      /\ incident.state # "NONE" => incident.since <= now
  BY DEF AlertsInv, Measured
<1>4. /\ DOMAIN Opened = {"state", "since", "told"} /\ Opened.state \in {"PENDING", "ACTIVE"}
      /\ Opened.since \in Nat /\ Opened.told \in Minutes \cup {NoTime}
      /\ Opened.state = "ACTIVE" => Opened.since + Duration <= now
      /\ Opened.since <= now
      /\ Lasts => Opened = incident
  BY <1>2, <1>3 DEF Opened, IncidentStates, Lasts
<1>5. CASE failing /\ Tells
  <2>1. incident' = [state |-> "ACTIVE", since |-> Opened.since, told |-> now]
    BY <1>1, <1>5 DEF Failing
  <2>2. Opened.since + Duration <= now
    BY <1>5 DEF Tells
  <2> QED BY <1>1, <1>2, <1>4, <1>5, <2>1, <2>2 DEF Measured, IncidentStates
<1>6. CASE failing /\ ~Tells
  <2>1. incident' = Opened
    BY <1>1, <1>6 DEF Failing
  <2> QED BY <1>1, <1>2, <1>4, <1>6, <2>1 DEF Measured, IncidentStates
<1>7. CASE ~failing
  <2>1. CASE incident.state = "PENDING" \/ (recovered /\ incident.state = "ACTIVE")
    <3>1. incident' = [incident EXCEPT !.state = "RESOLVED", !.told = NoTime]
      BY <1>1, <1>7, <2>1 DEF Passing, Resolved
    <3>2. /\ DOMAIN incident' = {"state", "since", "told"} /\ incident'.state = "RESOLVED"
          /\ incident'.since \in Nat /\ incident'.since <= now /\ incident'.told = NoTime
      BY <1>3, <2>1, <3>1
    <3> QED BY <1>1, <1>2, <3>2 DEF Measured, Lasts, IncidentStates
  <2>2. CASE ~(incident.state = "PENDING" \/ (recovered /\ incident.state = "ACTIVE"))
    <3>1. incident' = incident
      BY <1>1, <1>7, <2>2 DEF Passing
    <3> QED BY <1>1, <1>2, <1>3, <1>4, <1>7, <2>2, <3>1 DEF Measured, Lasts
  <2> QED BY <2>1, <2>2
<1> QED BY <1>5, <1>6, <1>7

LEMMA TickRemembers ==
    ASSUME AlertsAssumption, AlertsInv, NEW failing \in BOOLEAN,
           NEW recovered \in BOOLEAN, MonitorTick(failing, recovered)
    PROVE  Measured' /\ (\A a \in alerts' : Remembered(a)') /\ CooldownKept'
<1>1. /\ Measured' /\ outage'.failed = NoTime
      /\ Lasts' => /\ incident'.since = Opened.since
                   /\ incident'.told \in {now, Opened.told}
                   /\ failing /\ Tells => incident'.told = now
                   /\ ~(~failing /\ recovered /\ incident.state = "ACTIVE")
  BY TickMeasures
<1>2. now' = now /\ now \in Nat /\ now # NoTime /\ Duration \in Nat /\ ~ticked /\ ticked'
  BY DEF MonitorTick, AlertsInv, Rowed, Minutes, AlertsAssumption
<1>3. PICK new :
         /\ alerts' = alerts \cup new
         /\ \A b \in new : \/ b \in IncidentNotices(failing, recovered)
                           \/ b \in SecurityNotices \/ b \in BackupNotices
                           \/ b = Notice("DATABASE_RECOVERED", outage.failed) /\ outage.told # NoTime
  <2>1. PICK new : new = IncidentNotices(failing, recovered) \cup
                   IF ~enabled THEN {}
                   ELSE SecurityNotices \cup BackupNotices \cup
                        IF outage.told # NoTime THEN {Notice("DATABASE_RECOVERED", outage.failed)}
                        ELSE {}
    OBVIOUS
  <2>2. alerts' = alerts \cup new
    BY <2>1 DEF MonitorTick
  <2> QED BY <2>1, <2>2
<1>4. ASSUME NEW a \in alerts PROVE Remembered(a)'
  <2>1. Remembered(a)
    BY DEF AlertsInv
  <2>2. Lasts' => \/ ~Lasts /\ incident'.since = now
                  \/ /\ Lasts /\ incident'.since = incident.since
                     /\ incident'.told \in {now, incident.told}
    BY <1>1 DEF Lasts, Opened, AlertsInv, Measured, IncidentStates
  <2>3. a.subject = "INCIDENT" /\ Lasts' /\ a.reference = incident'.since =>
           incident'.told # NoTime /\ a.at <= incident'.told
    BY <1>2, <2>1, <2>2 DEF Remembered
  <2>4. a.subject = "RECOVERED" /\ Lasts' => a.reference # incident'.since
    BY <1>2, <2>1, <2>2 DEF Remembered
  <2> QED BY <1>1, <1>2, <2>1, <2>3, <2>4 DEF Remembered
<1>5. ASSUME NEW b \in new PROVE TellsAnew(b) /\ Remembered(b)'
  <2>1. CASE b \in IncidentNotices(failing, recovered)
    <3>1. /\ TellsAnew(b) /\ b.reference \in Nat /\ b.reference + Duration <= b.at
          /\ \/ failing /\ Tells /\ b.subject = "INCIDENT" /\ b.reference = Opened.since
             \/ ~failing /\ incident.state = "ACTIVE" /\ recovered /\ b.subject = "RECOVERED"
      BY <1>2, <2>1, IncidentIsFresh
    <3>2. b.at = now
      BY <3>1 DEF TellsAnew
    <3> QED BY <1>1, <1>2, <3>1, <3>2 DEF Remembered
  <2>2. CASE b \in SecurityNotices \/ b \in BackupNotices
    <3>1. TellsAnew(b) /\ (b.subject \in AuditKinds \/ b.subject = "BACKUP")
      BY <2>2, SecurityIsFresh, BackupIsFresh
    <3> QED BY <1>2, <3>1 DEF Remembered, TellsAnew, AuditKinds
  <2>3. CASE b = Notice("DATABASE_RECOVERED", outage.failed) /\ outage.told # NoTime
    <3>1. /\ TellsAnew(b) /\ b.subject = "DATABASE_RECOVERED"
          /\ b.reference \in Nat /\ b.reference < b.at
      BY <2>3, RecoveryIsFresh
    <3> QED BY <1>1, <1>2, <3>1 DEF Remembered, TellsAnew
  <2> QED BY <1>3, <2>1, <2>2, <2>3
<1>6. CooldownKept'
  <2> SUFFICES ASSUME NEW a \in alerts', NEW b \in alerts', a.subject = b.subject,
                      a.reference = b.reference, a.at < b.at
               PROVE  a.subject # "BACKUP" /\ b.at >= a.at + Cooldown
    BY DEF CooldownKept
  <2>1. CASE a \in alerts /\ b \in alerts
    BY <2>1 DEF AlertsInv, CooldownKept
  <2>2. CASE a \in alerts /\ b \in new
    BY <1>5, <2>2 DEF TellsAnew
  <2>3. CASE a \in new
    <3>1. a.at = now /\ b.at \in Nat /\ b.at <= now
      BY <1>2, <1>3, <1>4, <1>5, <2>3 DEF TellsAnew, Remembered
    <3> QED BY <1>2, <3>1
  <2> QED BY <1>3, <2>1, <2>2, <2>3
<1> QED BY <1>1, <1>3, <1>4, <1>5, <1>6

LEMMA TickReads ==
    ASSUME AlertsAssumption, AlertsInv, NEW failing \in BOOLEAN, NEW recovered \in BOOLEAN,
           MonitorTick(failing, recovered)
    PROVE  Rowed' /\ SkippedOnlyIfLate'
<1>1. /\ cursor' = IF Batch = {} THEN cursor ELSE CHOOSE n \in Batch : \A m \in Batch : m <= n
      /\ log' = [n \in DOMAIN log |-> [log[n] EXCEPT !.seen = @ \/ n \in Batch]] /\ now' = now
  BY DEF MonitorTick
<1>2. Rowed
  BY DEF AlertsInv
<1>3. /\ DOMAIN log' = DOMAIN log
      /\ \A n \in DOMAIN log :
            /\ DOMAIN log'[n] = DOMAIN log[n] /\ log'[n].at = log[n].at
            /\ log'[n].state = log[n].state /\ log'[n].overtaken = log[n].overtaken
  BY <1>1, <1>2 DEF Rowed
<1>4. \A n \in DOMAIN log : log[n].seen \/ n \in Batch => log'[n].seen
  <2> SUFFICES ASSUME NEW n \in DOMAIN log PROVE log[n].seen \/ n \in Batch => log'[n].seen
    OBVIOUS
  <2>1. PICK e, read : e = log[n] /\ read = (e.seen \/ n \in Batch)
    OBVIOUS
  <2>2. log'[n] = [e EXCEPT !.seen = read]
    BY <1>1, <2>1, Zenon
  <2>3. log'[n].seen = read
    BY <1>2, <2>1, <2>2 DEF Rowed
  <2> QED BY <2>1, <2>3, Zenon
<1>5. Len(log') = Len(log)
  BY <1>2, <1>3 DEF Rowed
<1>6. CASE Batch = {}
  <2>1. Rowed'
    BY <1>1, <1>2, <1>3, <1>5, <1>6 DEF Rowed
  <2>2. SkippedOnlyIfLate'
    BY <1>1, <1>2, <1>3, <1>4, <1>6 DEF AlertsInv, SkippedOnlyIfLate
  <2> QED BY <2>1, <2>2
<1>7. CASE Batch # {}
  <2>1. PICK c : c = CHOOSE n \in Batch : \A m \in Batch : m <= n
    OBVIOUS
  <2>2. cursor' = c
    BY <1>1, <1>7, <2>1
  <2>3. /\ c \in Batch /\ c \in DOMAIN log
        /\ \A n \in DOMAIN log : n <= c /\ Unread(n) => n \in Batch
    BY <1>2, <1>7, <2>1, BatchIsNext
  <2>4. Rowed'
    <3>1. c \in Nat
      BY <1>2, <2>3 DEF Rowed
    <3> QED BY <1>1, <1>2, <1>3, <1>5, <2>2, <3>1 DEF Rowed
  <2>5. SkippedOnlyIfLate'
    <3> SUFFICES ASSUME NEW n \in DOMAIN log, log'[n].state = "committed", n <= c
                 PROVE  log'[n].seen \/ log'[n].overtaken \/ log'[n].at + Keep < now'
      BY <1>3, <2>2 DEF SkippedOnlyIfLate
    <3>1. CASE n <= cursor
      BY <1>1, <1>3, <1>4, <3>1 DEF AlertsInv, SkippedOnlyIfLate
    <3>2. CASE ~(n <= cursor) /\ ~(log[n].at + Keep < now)
      <4>1. n \in Nat /\ cursor \in Nat /\ log[n].at \in Nat /\ now \in Nat /\ Keep \in Nat
        BY <1>2 DEF Rowed, Minutes, AlertsAssumption
      <4>2. log[n].state = "committed" /\ n > cursor /\ log[n].at + Keep >= now
        BY <1>3, <3>2, <4>1
      <4>3. n \in Batch
        BY <2>3, <4>2 DEF Unread
      <4> QED BY <1>4, <4>3
    <3> QED BY <1>1, <1>3, <3>1, <3>2
  <2> QED BY <2>4, <2>5
<1> QED BY <1>6, <1>7

(* Events, backup runs and outages that the monitor does not see yet.       *)
LEMMA OtherAlertSteps ==
    ASSUME AlertsAssumption, AlertsInv,
           \/ \E k \in AuditKinds : WriteEvent(k)
           \/ \E n \in DOMAIN log, state \in {"committed", "lost"} : EndEvent(n, state)
           \/ \E r \in BackupRuns : FinishBackup(r)
           \/ SwitchRule \/ Pass \/ MonitorFails
           \/ \E tells \in BOOLEAN : DatabaseFailure(tells)
           \/ UNCHANGED alertVars
    PROVE  AlertsInv'
<1>1. alerts' = alerts /\ incident' = incident
  BY DEF WriteEvent, EndEvent, FinishBackup, SwitchRule, Pass, MonitorFails, DatabaseFailure, alertVars
<1>2. CooldownKept'
  BY <1>1 DEF AlertsInv, CooldownKept
<1>3. now \in Nat /\ now \in Minutes /\ now # NoTime /\ Duration \in Nat
  BY DEF AlertsInv, Rowed, Minutes, AlertsAssumption
<1>4. CASE UNCHANGED <<now, ticked, outage>>
  <2>1. Measured' /\ \A a \in alerts' : Remembered(a)'
    BY <1>1, <1>4 DEF AlertsInv, Measured, Remembered, Lasts
  <2>2. CASE \E k \in AuditKinds : WriteEvent(k)
    <3>1. PICK e : /\ log' = Append(log, e)
                   /\ DOMAIN e = {"kind", "at", "state", "seen", "overtaken"}
                   /\ e.at = now /\ e.state = "open"
                   /\ UNCHANGED <<now, cursor>>
      <4>1. PICK k : WriteEvent(k)
        BY <2>2
      <4>2. PICK e : e = [kind |-> k, at |-> now, state |-> "open", seen |-> FALSE,
                          overtaken |-> FALSE]
        OBVIOUS
      <4> QED BY <4>1, <4>2 DEF WriteEvent
    <3>2. /\ Len(log') = Len(log) + 1 /\ DOMAIN log' = 1..Len(log) + 1 /\ log'[Len(log) + 1] = e
          /\ \A n \in DOMAIN log : log'[n] = log[n]
      BY <3>1 DEF AlertsInv, Rowed
    <3>3. Rowed'
      BY <1>3, <3>1, <3>2 DEF AlertsInv, Rowed
    <3>4. SkippedOnlyIfLate'
      BY <3>1, <3>2 DEF AlertsInv, Rowed, SkippedOnlyIfLate
    <3> QED BY <1>2, <2>1, <3>3, <3>4 DEF AlertsInv
  <2>3. CASE \E n \in DOMAIN log, state \in {"committed", "lost"} : EndEvent(n, state)
    BY <1>2, <2>1, <2>3, EndEventStep DEF AlertsInv
  <2>4. CASE UNCHANGED <<log, cursor>>
    BY <1>2, <1>4, <2>1, <2>4 DEF AlertsInv, Rowed, SkippedOnlyIfLate
  <2> QED BY <1>4, <2>2, <2>3, <2>4
        DEF FinishBackup, SwitchRule, Pass, MonitorFails, DatabaseFailure, alertVars
<1>5. CASE Pass
  <2>1. now' = now + 1 /\ ticked' = FALSE /\ now' \in Minutes /\ UNCHANGED <<log, cursor, outage>>
    BY <1>3, <1>5 DEF Pass, Minutes, AlertsAssumption
  <2>2. Measured' /\ \A a \in alerts' : Remembered(a)'
    BY <1>1, <1>3, <2>1 DEF AlertsInv, Measured, Remembered, Lasts
  <2>3. SkippedOnlyIfLate'
    BY <1>3, <2>1, AlertsAssumption DEF AlertsInv, Rowed, SkippedOnlyIfLate, AlertsAssumption
  <2>4. Rowed'
    BY <2>1 DEF AlertsInv, Rowed
  <2> QED BY <1>2, <2>2, <2>3, <2>4 DEF AlertsInv
<1>6. CASE MonitorFails \/ \E tells \in BOOLEAN : DatabaseFailure(tells)
  <2>1. UNCHANGED <<now, ticked, log, cursor>>
    BY <1>6 DEF MonitorFails, DatabaseFailure
  <2>2. /\ outage'.failed \in {NoTime, now, outage.failed}
        /\ outage'.failed = now => outage.failed = NoTime \/ outage.failed = now
        /\ outage'.told # NoTime => outage'.failed # NoTime /\ outage'.failed < now
    <3>1. CASE MonitorFails
      BY <1>3, <3>1 DEF MonitorFails
    <3>2. ASSUME NEW tells \in {FALSE, MayTell}, DatabaseFailure(tells)
          PROVE  /\ outage'.failed = IF outage.failed = NoTime THEN now ELSE outage.failed
                 /\ outage'.told # NoTime => outage'.failed # NoTime /\ outage'.failed < now
      <4>1. CASE tells
        <5>1. MayTell /\ outage' = [failed |-> IF outage.failed = NoTime THEN now ELSE outage.failed,
                                    told |-> now]
          BY <3>2, <4>1, Zenon DEF DatabaseFailure
        <5>2. outage.failed # NoTime /\ now > outage.failed /\ outage.failed \in Nat
          BY <5>1 DEF MayTell, AlertsInv, Measured
        <5> QED BY <1>3, <5>1, <5>2
      <4>2. CASE ~tells
        <5>1. outage' = [failed |-> IF outage.failed = NoTime THEN now ELSE outage.failed,
                         told |-> outage.told]
          BY <3>2, <4>2, Zenon DEF DatabaseFailure
        <5> QED BY <5>1 DEF AlertsInv, Measured
      <4> QED BY <4>1, <4>2
    <3>3. CASE \E tells \in BOOLEAN : DatabaseFailure(tells)
      <4>1. PICK tells \in {FALSE, MayTell} : DatabaseFailure(tells)
        BY <3>3, Zenon DEF DatabaseFailure
      <4> QED BY <3>2, <4>1
    <3> QED BY <1>6, <3>1, <3>3
  <2>3. Measured'
    BY <1>1, <1>3, <2>1, <2>2 DEF AlertsInv, Measured
  <2>4. ASSUME NEW a \in alerts PROVE Remembered(a)'
    BY <1>1, <1>3, <2>1, <2>2, <2>4 DEF AlertsInv, Measured, Remembered, Lasts
  <2>5. Rowed' /\ SkippedOnlyIfLate'
    BY <2>1 DEF AlertsInv, Rowed, SkippedOnlyIfLate
  <2> QED BY <1>1, <1>2, <2>3, <2>4, <2>5 DEF AlertsInv
<1> QED BY <1>4, <1>5, <1>6
      DEF WriteEvent, EndEvent, FinishBackup, SwitchRule, Pass, MonitorFails, DatabaseFailure, alertVars

LEMMA AlertsInvStep ==
    ASSUME AlertsAssumption, AlertsInv, [AlertsNext]_alertVars PROVE AlertsInv'
<1>1. ASSUME NEW failing \in BOOLEAN, NEW recovered \in BOOLEAN, MonitorTick(failing, recovered)
      PROVE  AlertsInv'
  BY <1>1, TickRemembers, TickReads DEF AlertsInv
<1> QED BY <1>1, OtherAlertSteps DEF AlertsNext

LEMMA AlertsInvInit == ASSUME AlertsAssumption, AlertsInit PROVE AlertsInv
<1>1. Rowed
  BY DEF AlertsInit, Rowed, Minutes, AlertsAssumption
<1>2. Measured
  BY DEF AlertsInit, Measured, Minutes, IncidentStates, AlertsAssumption
<1>3. alerts = {} /\ DOMAIN log = {}
  BY <1>1 DEF AlertsInit, Rowed
<1> QED BY <1>1, <1>2, <1>3 DEF AlertsInv, CooldownKept, SkippedOnlyIfLate

(* For any log, any cooldown and any number of backup runs, of measurements *)
(* that have to fail for some time or for none: an event is left out only   *)
(* when it was committed late or is too old, and the same is not told twice *)
(* within the cooldown.                                                     *)
THEOREM MonitorKeepsCount == AlertsSpec => [](CooldownKept /\ SkippedOnlyIfLate)
<1>1. AlertsInv => CooldownKept /\ SkippedOnlyIfLate
  BY DEF AlertsInv
<1>2. AlertsInit => AlertsInv
  BY AlertsInvInit, AlertsAssumption
<1>3. AlertsInv /\ [AlertsNext]_alertVars => AlertsInv'
  BY AlertsInvStep, AlertsAssumption
<1> QED BY <1>1, <1>2, <1>3, PTL DEF AlertsSpec

(***************************************************************************)
(* Part six: the settings.  An edit writes groups as it accepted them, and *)
(* the groups it did not look at as they were read, so what is on stays    *)
(* configured; who patches the group of Telegram holds its row, which is   *)
(* therefore as it was read.                                               *)
(***************************************************************************)
Drafted(e) ==
    /\ editing[e] = "merge" \/ editing[e] = "write" =>
          /\ Configured(draft[e].basis, Needs)
          /\ Telegram \in Patched(e) =>
                telegramLock = e /\ draft[e].basis[Telegram] = stored[Telegram]
    /\ editing[e] = "write" => Acceptable(e)
    /\ editing[e] = "info" => Patched(e) = {AppInfo}
SettingsInv == SettingsTypeOK /\ EnabledIsConfigured /\ \A e \in Editors : Drafted(e)

(* A key that a document is asked for is one of it.                         *)
LEMMA NeedsAreKeys ==
    ASSUME SettingsAssumption, NEW n \in Needs
    PROVE  /\ n[1][1] \in Groups /\ n[1][2] \in Fields
           /\ n[2][1] = n[1][1] /\ n[2][2] \in Fields
BY DEF SettingsAssumption

LEMMA GroupNames ==
    SettingsAssumption => Telegram \in Rows /\ AppInfo \in Rows /\ AppInfo # Telegram
BY DEF SettingsAssumption, Rows

(* Merging changes what the patch names, and nothing else.                  *)
LEMMA MergedIs ==
    ASSUME SettingsTypeOK, NEW e \in Editors
    PROVE  /\ Merged(e) \in [Rows -> Group]
           /\ \A g \in Rows, f \in Fields :
                 <<g, f>> \notin draft[e].patch => Merged(e)[g][f] = draft[e].basis[g][f]
           /\ \A g \in Rows : g \notin Patched(e) => Merged(e)[g] = draft[e].basis[g]
<1>1. /\ draft[e].patch \in SUBSET (Rows \X Fields) /\ draft[e].to \in Values
      /\ draft[e].basis \in [Rows -> [Fields -> Values]]
  BY DEF SettingsTypeOK, Draft, Group
<1>2. \A g \in Rows : /\ Merged(e)[g] \in [Fields -> Values]
                      /\ \A f \in Fields : <<g, f>> \notin draft[e].patch =>
                            Merged(e)[g][f] = draft[e].basis[g][f]
  BY <1>1 DEF Merged
<1>3. Merged(e) \in [Rows -> Group]
  BY <1>2 DEF Merged, Group
<1>4. ASSUME NEW g \in Rows, g \notin Patched(e) PROVE Merged(e)[g] = draft[e].basis[g]
  <2>1. \A f \in Fields : <<g, f>> \notin draft[e].patch
    BY <1>4 DEF Patched
  <2>2. \A f \in Fields : Merged(e)[g][f] = draft[e].basis[g][f]
    BY <1>2, <2>1
  <2> QED BY <1>1, <1>2, <2>2
<1> QED BY <1>2, <1>3, <1>4

(* What a draft says stays true while nothing of it changes, and of the     *)
(* store at most what its lock leaves free.                                 *)
LEMMA DraftStands ==
    ASSUME NEW e, Drafted(e), editing'[e] = editing[e], draft'[e] = draft[e],
           telegramLock = e => telegramLock' = e /\ stored'[Telegram] = stored[Telegram]
    PROVE  Drafted(e)'
<1>1. Patched(e)' = Patched(e) /\ Merged(e)' = Merged(e)
  BY DEF Patched, Merged
<1>2. Acceptable(e)' = Acceptable(e)
  BY <1>1 DEF Acceptable, Configured
<1>3. Configured(draft[e].basis, Needs)' = Configured(draft[e].basis, Needs)
  BY DEF Configured
<1> QED BY <1>1, <1>2, <1>3 DEF Drafted

LEMMA IdleDraft == ASSUME NEW e, editing'[e] = "idle" PROVE Drafted(e)'
BY DEF Drafted

(* A step of one edit: the others stand if it left them the row of Telegram.*)
LEMMA OthersStand ==
    ASSUME SettingsInv, NEW e \in Editors,
           \A o \in Editors \ {e} : editing'[o] = editing[o] /\ draft'[o] = draft[o],
           \A o \in Editors \ {e} : telegramLock = o =>
                telegramLock' = o /\ stored'[Telegram] = stored[Telegram]
    PROVE  \A o \in Editors \ {e} : Drafted(o)'
BY DraftStands DEF SettingsInv

(* Rows that were written merged, and rows that were left, are configured.  *)
LEMMA WritesAreConfigured ==
    ASSUME SettingsAssumption, SettingsInv, NEW e \in Editors, editing[e] = "write",
           NEW doc, \A g \in Rows : doc[g] = Merged(e)[g] \/ doc[g] = stored[g]
    PROVE  Configured(doc, Needs)
<1> SUFFICES ASSUME NEW n \in Needs, doc[n[1][1]][n[1][2]] # Default
             PROVE  doc[n[2][1]][n[2][2]] # Default
  BY DEF Configured
<1>1. PICK g \in Rows : g = n[1][1] /\ n[2][1] = g
  BY NeedsAreKeys DEF Rows
<1>2. CASE doc[g] = stored[g]
  BY <1>1, <1>2 DEF SettingsInv, EnabledIsConfigured, Configured
<1>3. CASE doc[g] = Merged(e)[g] /\ g \in {Telegram} \cup Patched(e)
  <2>1. Configured(Merged(e), {m \in Needs : m[1][1] \in {Telegram} \cup Patched(e)})
    BY DEF SettingsInv, Drafted, Acceptable
  <2> QED BY <1>1, <1>3, <2>1 DEF Configured
<1>4. CASE doc[g] = Merged(e)[g] /\ g \notin {Telegram} \cup Patched(e)
  <2>1. doc[g] = draft[e].basis[g]
    BY <1>4, MergedIs DEF SettingsInv
  <2>2. Configured(draft[e].basis, Needs)
    BY DEF SettingsInv, Drafted
  <2>3. draft[e].basis[n[1][1]][n[1][2]] # Default
    BY <1>1, <2>1
  <2>4. draft[e].basis[n[2][1]][n[2][2]] # Default
    BY <2>2, <2>3 DEF Configured
  <2> QED BY <1>1, <2>1, <2>4
<1> QED BY <1>2, <1>3, <1>4

(* The variables keep to their types.                                       *)
LEMMA SettingsTypes ==
    ASSUME SettingsAssumption, SettingsTypeOK, [SettingsNext]_settingsVars
    PROVE  SettingsTypeOK'
<1>1. DefaultGroup \in Group /\ NoDraftSetting \in Draft
  BY DEF SettingsAssumption, DefaultGroup, Group, NoDraftSetting, Draft
<1>2. ASSUME NEW e \in Editors, NEW patch \in SUBSET (Rows \X Fields), NEW v \in Values,
             NEW step \in {"merge", "info"}, StartEdit(e, step, patch, v)
      PROVE  /\ editing' \in [Editors -> {"idle", "merge", "write", "info"}]
             /\ draft' \in [Editors -> Draft] /\ edits' \in 0..MaxEdits
  <2>1. [patch |-> patch, to |-> v, basis |-> stored, loaded |-> stored] \in Draft
    BY DEF SettingsTypeOK, Draft
  <2> QED BY <1>2, <2>1 DEF StartEdit, SettingsTypeOK, SettingsAssumption
<1>3. ASSUME NEW e \in Editors, EndEdit(e)
      PROVE  /\ editing' \in [Editors -> {"idle", "merge", "write", "info"}]
             /\ draft' \in [Editors -> Draft] /\ edits' \in 0..MaxEdits
             /\ telegramLock' \in Editors \cup {NoEditor}
  BY <1>1, <1>3 DEF EndEdit, SettingsTypeOK
<1>4. ASSUME NEW e \in Editors, EditSettings(e) PROVE SettingsTypeOK'
  <2>1. CASE ReadSettings(e)
    <3>1. PICK patch \in SUBSET (Groups \X Fields), v \in Values :
             /\ StartEdit(e, "merge", WithoutBlankSecrets(patch, v), v)
             /\ telegramLock' \in {telegramLock, e} /\ UNCHANGED <<stored, mirror>>
      BY <2>1 DEF ReadSettings
    <3>2. WithoutBlankSecrets(patch, v) \in SUBSET (Rows \X Fields)
      BY DEF WithoutBlankSecrets, Rows
    <3> QED BY <1>2, <3>1, <3>2 DEF SettingsTypeOK
  <2>2. CASE LoadSettings(e)
    <3>1. [draft[e] EXCEPT !.loaded = stored] \in Draft
      <4>1. draft[e] \in Draft /\ stored \in [Rows -> Group]
        BY DEF SettingsTypeOK
      <4> SUFFICES ASSUME NEW d \in Draft, NEW w \in [Rows -> Group]
                   PROVE  [d EXCEPT !.loaded = w] \in Draft
        BY <4>1
      <4> QED BY DEF Draft
    <3> QED BY <2>2, <3>1 DEF LoadSettings, SettingsTypeOK
  <2>3. CASE CommitSettings(e)
    <3>1. stored' \in [Rows -> Group] /\ mirror' \in [Groups -> Group]
      BY <2>3, MergedIs DEF CommitSettings, MirrorLegacy, SettingsTypeOK, Rows
    <3> QED BY <2>3, <1>3, <3>1 DEF CommitSettings, SettingsTypeOK
  <2>4. CASE ReadAppInfo(e)
    <3>1. PICK fs \in SUBSET Fields, v \in Values :
             StartEdit(e, "info", {AppInfo} \X fs, v) /\ UNCHANGED <<stored, mirror, telegramLock>>
      BY <2>4 DEF ReadAppInfo
    <3>2. {AppInfo} \X fs \in SUBSET (Rows \X Fields)
      BY DEF Rows
    <3> QED BY <1>2, <3>1, <3>2 DEF SettingsTypeOK
  <2>5. CASE CommitAppInfo(e)
    <3>1. stored' \in [Rows -> Group]
      <4>1. Merged(e)[AppInfo] \in Group
        BY MergedIs, GroupNames
      <4> QED BY <2>5, <4>1 DEF CommitAppInfo, SettingsTypeOK
    <3> QED BY <2>5, <1>3, <3>1 DEF CommitAppInfo, SettingsTypeOK
  <2>6. CASE ResetAppInfo(e)
    <3>1. edits' \in 0..MaxEdits /\ UNCHANGED <<mirror, telegramLock, editing, draft>>
      BY <2>6 DEF ResetAppInfo, SettingsTypeOK, SettingsAssumption
    <3>2. stored' \in [Rows -> Group]
      BY <2>6, <1>1 DEF ResetAppInfo, SettingsTypeOK
    <3> QED BY <3>1, <3>2 DEF SettingsTypeOK
  <2>7. CASE AbandonEdit(e)
    BY <2>7, <1>3 DEF AbandonEdit, SettingsTypeOK
  <2> QED BY <1>4, <2>1, <2>2, <2>3, <2>4, <2>5, <2>6, <2>7 DEF EditSettings
<1>5. CASE UNCHANGED settingsVars
  BY <1>5 DEF settingsVars, SettingsTypeOK
<1> QED BY <1>4, <1>5 DEF SettingsNext

LEMMA EditsStep ==
    ASSUME SettingsAssumption, SettingsInv, NEW e \in Editors, EditSettings(e)
    PROVE  EnabledIsConfigured' /\ \A o \in Editors : Drafted(o)'
<1>0. /\ DOMAIN editing = Editors /\ DOMAIN draft = Editors /\ e # NoEditor
      /\ stored \in [Rows -> Group]
  BY DEF SettingsInv, SettingsTypeOK, SettingsAssumption
<1>1. CASE ReadSettings(e)
  <2>1. PICK patch \in SUBSET (Groups \X Fields), v \in Values :
           /\ StartEdit(e, "merge", WithoutBlankSecrets(patch, v), v)
           /\ IF \E f \in Fields : <<Telegram, f>> \in patch
              THEN TelegramFree(e) /\ telegramLock' = e
              ELSE UNCHANGED telegramLock
           /\ UNCHANGED <<stored, mirror>>
    BY <1>1 DEF ReadSettings
  <2>2. /\ editing'[e] = "merge" /\ draft'[e].basis = stored
        /\ draft'[e].patch = WithoutBlankSecrets(patch, v)
        /\ \A o \in Editors \ {e} : editing'[o] = editing[o] /\ draft'[o] = draft[o]
    BY <1>0, <2>1 DEF StartEdit
  <2>3. Telegram \in Patched(e)' => telegramLock' = e
    <3>1. draft'[e].patch \subseteq patch
      BY <2>2 DEF WithoutBlankSecrets
    <3>2. ASSUME Telegram \in Patched(e)' PROVE \E f \in Fields : <<Telegram, f>> \in patch
      BY <3>1, <3>2 DEF Patched
    <3> QED BY <2>1, <3>2
  <2>4. Drafted(e)'
    BY <2>1, <2>2, <2>3 DEF Drafted, SettingsInv, EnabledIsConfigured
  <2>5. \A o \in Editors \ {e} : Drafted(o)'
    <3>1. \A o \in Editors \ {e} : telegramLock = o => telegramLock' = o
      BY <1>0, <2>1 DEF TelegramFree, SettingsAssumption
    <3> QED BY <2>1, <2>2, <3>1, OthersStand
  <2> QED BY <2>1, <2>4, <2>5 DEF SettingsInv, EnabledIsConfigured
<1>2. CASE LoadSettings(e)
  <2>1. /\ editing'[e] = "write" /\ draft'[e].basis = draft[e].basis
        /\ draft'[e].patch = draft[e].patch /\ draft'[e].to = draft[e].to
        /\ \A o \in Editors \ {e} : editing'[o] = editing[o] /\ draft'[o] = draft[o]
        /\ editing[e] = "merge" /\ Acceptable(e) /\ UNCHANGED <<stored, telegramLock>>
    BY <1>0, <1>2 DEF LoadSettings, SettingsInv, SettingsTypeOK, Draft
  <2>2. Drafted(e)'
    <3>1. Merged(e)' = Merged(e) /\ Patched(e)' = Patched(e)
      BY <2>1 DEF Merged, Patched
    <3>2. Acceptable(e)'
      BY <2>1, <3>1 DEF Acceptable, Configured
    <3> QED BY <2>1, <3>1, <3>2 DEF SettingsInv, Drafted
  <2>3. \A o \in Editors \ {e} : Drafted(o)'
    BY <2>1, OthersStand
  <2> QED BY <2>1, <2>2, <2>3 DEF SettingsInv, EnabledIsConfigured
<1>3. ASSUME EndEdit(e)
      PROVE  /\ editing'[e] = "idle"
             /\ \A o \in Editors \ {e} : /\ editing'[o] = editing[o] /\ draft'[o] = draft[o]
                                         /\ telegramLock = o => telegramLock' = o
  BY <1>0, <1>3 DEF EndEdit
<1>4. CASE CommitSettings(e)
  <2>1. /\ EndEdit(e) /\ editing[e] = "write"
        /\ Telegram \in Touched(e) => TelegramFree(e)
        /\ stored' = [g \in Rows |-> IF g \in Touched(e) THEN Merged(e)[g] ELSE stored[g]]
    BY <1>4 DEF CommitSettings
  <2>2. Configured(stored', Needs)
    <3>1. \A g \in Rows : stored'[g] = Merged(e)[g] \/ stored'[g] = stored[g]
      BY <2>1
    <3> QED BY <2>1, <3>1, WritesAreConfigured
  <2>3. \A o \in Editors \ {e} : telegramLock = o => stored'[Telegram] = stored[Telegram]
    BY <2>1, GroupNames DEF TelegramFree, SettingsAssumption
  <2>4. \A o \in Editors \ {e} : Drafted(o)'
    BY <1>3, <2>1, <2>3, OthersStand
  <2> QED BY <1>3, <2>1, <2>2, <2>4, IdleDraft DEF EnabledIsConfigured
<1>5. CASE CommitAppInfo(e) \/ ResetAppInfo(e) \/ AbandonEdit(e)
  <2>1. \A g \in Groups : stored'[g] = stored[g]
    BY <1>0, <1>5 DEF CommitAppInfo, ResetAppInfo, AbandonEdit, Rows, SettingsAssumption
  <2>2. EnabledIsConfigured'
    BY <2>1, NeedsAreKeys DEF SettingsInv, EnabledIsConfigured, Configured
  <2>3. Drafted(e)' /\ \A o \in Editors \ {e} : /\ editing'[o] = editing[o] /\ draft'[o] = draft[o]
                                                /\ telegramLock = o => telegramLock' = o
    <3>1. CASE CommitAppInfo(e) \/ AbandonEdit(e)
      BY <1>3, <3>1, IdleDraft DEF CommitAppInfo, AbandonEdit
    <3>2. CASE ResetAppInfo(e)
      BY <3>2, IdleDraft DEF ResetAppInfo
    <3> QED BY <1>5, <3>1, <3>2
  <2>4. \A o \in Editors \ {e} : Drafted(o)'
    BY <2>1, <2>3, OthersStand DEF SettingsAssumption
  <2> QED BY <2>2, <2>3, <2>4
<1>6. CASE ReadAppInfo(e)
  <2>1. PICK fs \in SUBSET Fields, v \in Values :
           /\ fs # {} /\ StartEdit(e, "info", {AppInfo} \X fs, v)
           /\ UNCHANGED <<stored, mirror, telegramLock>>
    BY <1>6 DEF ReadAppInfo
  <2>2. /\ editing'[e] = "info" /\ draft'[e].patch = {AppInfo} \X fs
        /\ \A o \in Editors \ {e} : editing'[o] = editing[o] /\ draft'[o] = draft[o]
    BY <1>0, <2>1 DEF StartEdit
  <2>3. Patched(e)' = {AppInfo}
    <3>1. PICK f \in fs : TRUE
      BY <2>1
    <3>2. <<AppInfo, f>> \in {AppInfo} \X fs /\ <<AppInfo, f>>[1] = AppInfo
      OBVIOUS
    <3>3. \A p \in {AppInfo} \X fs : p[1] = AppInfo
      OBVIOUS
    <3> QED BY <2>2, <3>2, <3>3 DEF Patched
  <2>4. \A o \in Editors \ {e} : Drafted(o)'
    BY <2>1, <2>2, OthersStand
  <2> QED BY <2>1, <2>2, <2>3, <2>4 DEF Drafted, SettingsInv, EnabledIsConfigured
<1> QED BY <1>1, <1>2, <1>4, <1>5, <1>6 DEF EditSettings

LEMMA SettingsInvStep ==
    ASSUME SettingsAssumption, SettingsInv, [SettingsNext]_settingsVars PROVE SettingsInv'
<1>1. SettingsTypeOK'
  BY SettingsTypes DEF SettingsInv
<1>2. CASE UNCHANGED settingsVars
  <2>1. \A e \in Editors : Drafted(e)'
    BY <1>2, DraftStands DEF settingsVars, SettingsInv
  <2> QED BY <1>1, <1>2, <2>1 DEF settingsVars, SettingsInv, EnabledIsConfigured
<1> QED BY <1>1, <1>2, EditsStep DEF SettingsInv, SettingsNext

LEMMA SettingsInvInit == ASSUME SettingsAssumption, SettingsInit PROVE SettingsInv
<1>1. SettingsTypeOK
  BY DEF SettingsAssumption, SettingsInit, SettingsTypeOK, DefaultGroup, NoDraftSetting, Draft, Group
<1>2. EnabledIsConfigured
  BY NeedsAreKeys DEF SettingsInit, EnabledIsConfigured, Configured, DefaultGroup, Rows
<1>3. \A e \in Editors : Drafted(e)
  BY DEF SettingsInit, Drafted
<1> QED BY <1>1, <1>2, <1>3 DEF SettingsInv

(* A COMMIT changes what it was not asked to only where it overwrites what  *)
(* changed since it was read.                                               *)
LEMMA CommitsKeepOthers ==
    ASSUME SettingsAssumption, SettingsInv, [SettingsNext]_settingsVars,
           NEW e \in Editors, NEW g \in Rows, NEW f \in Fields,
           editing[e] \in {"write", "info"}, editing'[e] = "idle",
           <<g, f>> \notin draft[e].patch, stored'[g][f] # stored[g][f]
    PROVE  \/ g \in Patched(e) \ {Telegram} /\ ChangedSince(e, g)
           \/ g \notin Patched(e) /\ ChangedBetween(e, g)
<1>1. SettingsTypeOK /\ DOMAIN editing = Editors /\ stored \in [Rows -> Group]
  BY DEF SettingsInv, SettingsTypeOK
<1>2. EditSettings(e)
  <2>1. PICK o \in Editors : EditSettings(o)
    BY DEF SettingsNext, settingsVars
  <2>2. CASE o # e
    <3>1. editing'[e] = editing[e]
      BY <1>1, <2>1, <2>2 DEF EditSettings, ReadSettings, LoadSettings, CommitSettings, ReadAppInfo,
                              CommitAppInfo, ResetAppInfo, AbandonEdit, StartEdit, EndEdit
    <3> QED BY <3>1
  <2> QED BY <2>1, <2>2
<1>3. CommitSettings(e) \/ CommitAppInfo(e)
  BY <1>1, <1>2 DEF EditSettings, ReadSettings, LoadSettings, ReadAppInfo, ResetAppInfo, AbandonEdit,
                    StartEdit
<1>4. CASE CommitSettings(e)
  <2>1. stored'[g] = Merged(e)[g] /\ Merged(e)[g] # draft[e].loaded[g] /\ editing[e] = "write"
    BY <1>4 DEF CommitSettings, Touched
  <2>2. draft[e].basis[g] # stored[g]
    BY <1>1, <2>1, MergedIs
  <2>3. g \in Patched(e) => g # Telegram
    BY <2>1, <2>2 DEF SettingsInv, Drafted
  <2>4. g \notin Patched(e) => draft[e].basis[g] # draft[e].loaded[g]
    BY <1>1, <2>1, MergedIs
  <2> QED BY <2>2, <2>3, <2>4 DEF ChangedSince, ChangedBetween
<1>5. CASE CommitAppInfo(e)
  <2>1. /\ editing[e] = "info"
        /\ stored' = [stored EXCEPT ![AppInfo] = IF Merged(e)[AppInfo] # draft[e].loaded[AppInfo]
                                                 THEN Merged(e)[AppInfo] ELSE @]
    BY <1>5 DEF CommitAppInfo
  <2>2. g = AppInfo /\ stored'[g] = Merged(e)[g]
    BY <1>1, <2>1
  <2>3. draft[e].basis[g] # stored[g]
    BY <1>1, <2>2, MergedIs
  <2>4. g \in Patched(e)
    BY <2>1, <2>2 DEF SettingsInv, Drafted
  <2> QED BY <2>2, <2>3, <2>4, GroupNames DEF ChangedSince
<1> QED BY <1>3, <1>4, <1>5

(* For any number of edits, groups and keys: what is on is configured.      *)
THEOREM SettingsStayConfigured == SettingsSpec => []EnabledIsConfigured
<1>1. SettingsInv => EnabledIsConfigured
  BY DEF SettingsInv
<1> QED BY <1>1, SettingsInvInit, SettingsInvStep, SettingsAssumption, PTL DEF SettingsSpec

(* For any number of edits: a COMMIT changes a key it was not asked to      *)
(* change only where it overwrites what changed since it was read, and of   *)
(* the group of Telegram none.                                              *)
THEOREM EditsKeepOthers == SettingsSpec => OtherEditsKept
<1>1. ASSUME SettingsAssumption, SettingsInv, [SettingsNext]_settingsVars
      PROVE  [\A e \in Editors, g \in Rows, f \in Fields :
                /\ editing[e] \in {"write", "info"} /\ editing'[e] = "idle"
                /\ <<g, f>> \notin draft[e].patch /\ stored'[g][f] # stored[g][f]
                => \/ g \in Patched(e) \ {Telegram} /\ ChangedSince(e, g)
                   \/ g \notin Patched(e) /\ ChangedBetween(e, g)]_settingsVars
  BY <1>1, CommitsKeepOthers
<1> QED BY <1>1, SettingsInvInit, SettingsInvStep, SettingsAssumption, PTL
        DEF SettingsSpec, OtherEditsKept

(***************************************************************************)
(* Part seven: the administrators.  Whoever is about to replace a user's   *)
(* roles holds the row of the user, and has every role of it among the     *)
(* rows it will delete; whoever edits what a role grants holds the row of  *)
(* the role, and read what it grants now; nobody was asked to touch the    *)
(* built-in account.                                                       *)
(***************************************************************************)
Assigns(step) == step \in {"assign", "assigned", "locked"}
Commanded(step, d) ==
    /\ step = "create" \/ Assigns(step) => \A r, s \in d.new : r = s
    /\ Assigns(step) => users[d.user] # "ABSENT"
    /\ Assigns(step) \/ step = "deactivate" \/ step = "delete" => d.user # BuiltIn
    /\ step \in {"locked", "delete"} => \A p \in d.rows : p[1] # BuiltIn
    /\ step = "erase" \/ step = "drop" => d.role # SuperAdmin
    /\ step = "drop" => \A p \in d.rows : p[2] # SuperAdmin
Holding(a, step, d) ==
    /\ step = "locked" => /\ userLock[d.user] = a
                          /\ \A p \in holds : p[1] = d.user => p \in d.rows
    /\ step = "edit" => roleLock[d.role] = a /\ d.current = grants[d.role]
Asked(d) ==
    DOMAIN d = DOMAIN NotSeen /\ d.user \in Users /\ d.role \in Roles /\ d.new \subseteq Roles
RowsOfTables ==
    /\ DOMAIN users = Users /\ DOMAIN roles = Roles /\ DOMAIN grants = Roles
    /\ DOMAIN userLock = Users /\ DOMAIN roleLock = Roles
    /\ \A p \in holds : p = <<p[1], p[2]>> /\ p[1] \in Users /\ p[2] \in Roles
(* The built-in account stays as it is, a user holds one role at most, and  *)
(* who was never created holds none.                                        *)
BuiltInStays == users[BuiltIn] = "ACTIVE" /\ <<BuiltIn, SuperAdmin>> \in holds
HeldOnce ==
    /\ \A p, q \in holds : p[1] = q[1] => p = q
    /\ \A p \in holds : users[p[1]] # "ABSENT"
AccountsInv ==
    /\ RowsOfTables /\ BuiltInStays /\ HeldOnce
    /\ DOMAIN admin = Admins /\ DOMAIN seen = Admins
    /\ \A a \in Admins : /\ Asked(seen[a]) /\ Commanded(admin[a], seen[a])
                         /\ Holding(a, admin[a], seen[a])

(* A step of one request: what it may do to what the others hold or read.   *)
Spares(a) ==
    /\ \A u \in Users : users'[u] = "ABSENT" => users[u] = "ABSENT"
    /\ \A p \in holds' : p \in holds \/ users[p[1]] = "ABSENT" \/ userLock[p[1]] = a
    /\ \A o \in Admins \ {a} :
          /\ \A u \in Users : userLock[u] = o => userLock'[u] = o
          /\ \A r \in Roles : roleLock[r] = o => roleLock'[r] = o /\ grants'[r] = grants[r]
Becomes(a, step, d) ==
    /\ DOMAIN admin' = Admins /\ DOMAIN seen' = Admins /\ admin'[a] = step /\ seen'[a] = d
    /\ \A o \in Admins \ {a} : admin'[o] = admin[o] /\ seen'[o] = seen[o]

LEMMA OneActs ==
    ASSUME AccountsInv, NEW a \in Admins, NEW step, NEW d, Becomes(a, step, d), Spares(a), Asked(d),
           RowsOfTables', BuiltInStays', HeldOnce', Commanded(step, d)', Holding(a, step, d)'
    PROVE  AccountsInv'
<1>1. ASSUME NEW o \in Admins \ {a}
      PROVE  /\ Asked(seen[o])' /\ Commanded(admin[o], seen[o])'
             /\ Holding(o, admin[o], seen[o])'
  <2>1. PICK e, s : e = seen[o] /\ s = admin[o]
    OBVIOUS
  <2>2. seen'[o] = e /\ admin'[o] = s /\ Asked(e) /\ Commanded(s, e) /\ Holding(o, s, e)
    BY <2>1 DEF Becomes, AccountsInv
  <2>3. Asked(seen[o])'
    BY <2>2 DEF Asked
  <2>4. Commanded(admin[o], seen[o])'
    BY <2>2 DEF Commanded, Asked, Spares, Assigns
  <2>5. Holding(o, admin[o], seen[o])'
    <3>1. CASE s = "locked"
      <4>1. e.user \in Users /\ userLock[e.user] = o /\ users[e.user] # "ABSENT"
        BY <2>2, <3>1 DEF Asked, Holding, Commanded, Assigns
      <4>2. \A p \in holds' : p[1] = e.user => p \in holds
        BY <4>1 DEF Spares
      <4> QED BY <2>2, <3>1, <4>1, <4>2 DEF Holding, Spares
    <3>2. CASE s # "locked"
      BY <2>2, <3>2 DEF Holding, Spares, Asked
    <3> QED BY <3>1, <3>2
  <2> QED BY <2>3, <2>4, <2>5
<1>2. /\ Asked(seen[a])' /\ Commanded(admin[a], seen[a])' /\ Holding(a, admin[a], seen[a])'
  <2>1. admin'[a] = step /\ seen'[a] = d
    BY DEF Becomes
  <2> QED BY <2>1 DEF Asked, Commanded, Holding
<1> QED BY <1>1, <1>2 DEF AccountsInv, Becomes

(* A request that reads and takes locks that are free.                      *)
LEMMA OneReads ==
    ASSUME AccountsInv, AccountsAssumption, NEW a \in Admins, NEW step, NEW d, Becomes(a, step, d),
           UNCHANGED directory, Asked(d), Commanded(step, d), Holding(a, step, d)',
           DOMAIN userLock' = Users, DOMAIN roleLock' = Roles,
           \A u \in Users : userLock'[u] = userLock[u] \/ (UserFree(a, u) /\ userLock'[u] = a),
           \A r \in Roles : roleLock'[r] = roleLock[r] \/ (RoleFree(a, r) /\ roleLock'[r] = a)
    PROVE  AccountsInv'
<1>1. RowsOfTables' /\ BuiltInStays' /\ HeldOnce' /\ Commanded(step, d)'
  BY DEF AccountsInv, RowsOfTables, BuiltInStays, HeldOnce, Commanded, directory
<1>2. Spares(a)
  BY DEF Spares, directory, UserFree, RoleFree, AccountsAssumption
<1> QED BY <1>1, <1>2, OneActs

LEMMA Commands ==
    ASSUME AccountsInv, NEW a \in Admins, NEW step, NEW d,
           Command(a, step, d) \/ AdminGoes(a, step, d)
    PROVE  Becomes(a, step, d)
BY DEF Command, AdminGoes, Becomes, AccountsInv

LEMMA Nothing == AccountsAssumption => Asked(NotSeen)
BY DEF Asked, NotSeen, AccountsAssumption

(* The reading steps.                                                       *)
LEMMA ReadingCommands ==
    ASSUME AccountsInv, AccountsAssumption, NEW a \in Admins,
           \/ LockRole(a) \/ LockRoleStatus(a) \/ ReadRoleDeletion(a) \/ ReadNewUser(a)
           \/ ReadAssignment(a) \/ ReadDeactivation(a) \/ ReadUserDeletion(a)
    PROVE  AccountsInv'
<1>0. DOMAIN userLock = Users /\ DOMAIN roleLock = Roles /\ SuperAdmin \in Roles /\ BuiltIn \in Users
  BY DEF AccountsInv, RowsOfTables, AccountsAssumption
<1>1. CASE LockRole(a)
  <2>1. PICK by \in Users, r \in Roles \ {SuperAdmin}, codes \in Offers,
             op \in {"replace", "grant", "revoke"} :
           /\ Command(a, "edit", [NotSeen EXCEPT !.by = by, !.role = r, !.op = op, !.codes = codes,
                                                 !.current = grants[r]])
           /\ RoleFree(a, r) /\ roleLock' = [roleLock EXCEPT ![r] = a]
           /\ UNCHANGED <<directory, userLock>>
    BY <1>1 DEF LockRole
  <2>2. PICK d : d = [NotSeen EXCEPT !.by = by, !.role = r, !.op = op, !.codes = codes,
                                     !.current = grants[r]]
    OBVIOUS
  <2>3. Becomes(a, "edit", d)
    BY <2>1, <2>2, Commands
  <2>4. Asked(d) /\ Commanded("edit", d) /\ d.role = r /\ d.current = grants[r]
    BY <1>0, <2>2 DEF NotSeen, Asked, Commanded, Assigns
  <2>5. Holding(a, "edit", d)'
    BY <1>0, <2>1, <2>4 DEF Holding, directory
  <2> QED BY <1>0, <2>1, <2>3, <2>4, <2>5, OneReads
<1>2. CASE LockRoleStatus(a)
  <2>1. PICK by \in Users, r \in Roles \ {SuperAdmin} :
           /\ Command(a, "status", [NotSeen EXCEPT !.by = by, !.role = r])
           /\ RoleFree(a, r) /\ roleLock' = [roleLock EXCEPT ![r] = a]
           /\ UNCHANGED <<directory, userLock>>
    BY <1>2 DEF LockRoleStatus
  <2>2. PICK d : d = [NotSeen EXCEPT !.by = by, !.role = r]
    OBVIOUS
  <2>3. Becomes(a, "status", d)
    BY <2>1, <2>2, Commands
  <2>4. Asked(d) /\ Commanded("status", d) /\ Holding(a, "status", d)'
    BY <1>0, <2>2 DEF NotSeen, Asked, Commanded, Assigns, Holding
  <2> QED BY <1>0, <2>1, <2>3, <2>4, OneReads
<1>3. CASE ReadRoleDeletion(a)
  <2>1. PICK by \in Users, r \in Roles \ {SuperAdmin} :
           /\ Command(a, "erase", [NotSeen EXCEPT !.by = by, !.role = r])
           /\ UNCHANGED <<directory, directoryLocks>>
    BY <1>3 DEF ReadRoleDeletion
  <2>2. PICK d : d = [NotSeen EXCEPT !.by = by, !.role = r]
    OBVIOUS
  <2>3. Becomes(a, "erase", d)
    BY <2>1, <2>2, Commands
  <2>4. Asked(d) /\ Commanded("erase", d) /\ Holding(a, "erase", d)'
    BY <1>0, <2>2 DEF NotSeen, Asked, Commanded, Assigns, Holding
  <2> QED BY <1>0, <2>1, <2>3, <2>4, OneReads DEF directoryLocks
<1>4. CASE ReadNewUser(a)
  <2>1. PICK by \in Users, u \in Users, r \in Roles :
           /\ Command(a, "create", [NotSeen EXCEPT !.by = by, !.user = u, !.new = {r}])
           /\ UNCHANGED <<directory, directoryLocks>>
    BY <1>4 DEF ReadNewUser
  <2>2. PICK d : d = [NotSeen EXCEPT !.by = by, !.user = u, !.new = {r}]
    OBVIOUS
  <2>3. Becomes(a, "create", d)
    BY <2>1, <2>2, Commands
  <2>4. Asked(d) /\ Commanded("create", d) /\ Holding(a, "create", d)'
    BY <1>0, <2>2 DEF NotSeen, Asked, Commanded, Assigns, Holding
  <2> QED BY <1>0, <2>1, <2>3, <2>4, OneReads DEF directoryLocks
<1>5. CASE ReadAssignment(a)
  <2>1. PICK by \in Users, u \in Users, new \in {{}} \cup {{r} : r \in Roles} :
           /\ users[u] \notin Gone /\ ~Protected(u)
           /\ Command(a, "assign", [NotSeen EXCEPT !.by = by, !.user = u, !.new = new])
           /\ UNCHANGED <<directory, directoryLocks>>
    BY <1>5 DEF ReadAssignment
  <2>2. PICK d : d = [NotSeen EXCEPT !.by = by, !.user = u, !.new = new]
    OBVIOUS
  <2>3. Becomes(a, "assign", d)
    BY <2>1, <2>2, Commands
  <2>4. d.user = u /\ d.new = new /\ d.role = SuperAdmin /\ DOMAIN d = DOMAIN NotSeen
    BY <2>2 DEF NotSeen
  <2>5. new \subseteq Roles /\ \A r, s \in new : r = s
    OBVIOUS
  <2>6. Asked(d) /\ Commanded("assign", d) /\ Holding(a, "assign", d)'
    BY <1>0, <2>1, <2>4, <2>5 DEF Asked, Commanded, Assigns, Holding, Protected, Gone
  <2> QED BY <1>0, <2>1, <2>3, <2>6, OneReads DEF directoryLocks
<1>6. CASE ReadDeactivation(a)
  <2>1. PICK by \in Users, u \in Users :
           /\ ~Protected(u) /\ RoleFree(a, SuperAdmin)
           /\ Command(a, "deactivate", [NotSeen EXCEPT !.by = by, !.user = u])
           /\ roleLock' = [roleLock EXCEPT ![SuperAdmin] = a] /\ UNCHANGED <<directory, userLock>>
    BY <1>6 DEF ReadDeactivation
  <2>2. PICK d : d = [NotSeen EXCEPT !.by = by, !.user = u]
    OBVIOUS
  <2>3. Becomes(a, "deactivate", d)
    BY <2>1, <2>2, Commands
  <2>4. Asked(d) /\ Commanded("deactivate", d) /\ Holding(a, "deactivate", d)'
    BY <1>0, <2>1, <2>2 DEF NotSeen, Asked, Commanded, Assigns, Holding, Protected
  <2> QED BY <1>0, <2>1, <2>3, <2>4, OneReads
<1>7. CASE ReadUserDeletion(a)
  <2>1. PICK by \in Users, u \in Users :
           /\ ~Protected(u)
           /\ Command(a, "delete", [NotSeen EXCEPT !.by = by, !.user = u, !.rows = {u} \X RolesOf(u)])
           /\ UNCHANGED <<directory, directoryLocks>>
    BY <1>7 DEF ReadUserDeletion
  <2>2. PICK d, rows : /\ rows = {u} \X RolesOf(u)
                       /\ d = [NotSeen EXCEPT !.by = by, !.user = u, !.rows = rows]
    OBVIOUS
  <2>3. Becomes(a, "delete", d)
    BY <2>1, <2>2, Commands
  <2>4. Asked(d) /\ d.user = u /\ d.rows = rows /\ \A p \in rows : p[1] = u
    BY <1>0, <2>2 DEF NotSeen, Asked
  <2>5. Commanded("delete", d) /\ Holding(a, "delete", d)'
    BY <2>1, <2>4 DEF Commanded, Assigns, Holding, Protected
  <2> QED BY <1>0, <2>1, <2>3, <2>4, <2>5, OneReads DEF directoryLocks
<1> QED BY <1>1, <1>2, <1>3, <1>4, <1>5, <1>6, <1>7

(* A request that goes on: the rows it finds are those of its role or user. *)
LEMMA GoingOn ==
    ASSUME AccountsInv, AccountsAssumption, NEW a \in Admins,
           EraseRole(a) \/ CheckAssignment(a) \/ LockUser(a)
    PROVE  AccountsInv'
<1>0. /\ DOMAIN userLock = Users /\ DOMAIN roleLock = Roles /\ SuperAdmin \in Roles
      /\ Asked(seen[a]) /\ Commanded(admin[a], seen[a]) /\ DOMAIN grants = Roles
  BY DEF AccountsInv, RowsOfTables, AccountsAssumption
<1>1. CASE EraseRole(a)
  <2>1. PICK r, rows, codes, e :
           r = seen[a].role /\ rows = HoldersOf(r) \X {r} /\ codes = grants[r] /\ e = seen[a]
    OBVIOUS
  <2>2. PICK d : d = [e EXCEPT !.current = codes, !.rows = rows]
    OBVIOUS
  <2>3. admin[a] = "erase" /\ AdminGoes(a, "drop", d) /\ UNCHANGED <<directory, directoryLocks>>
    BY <1>1, <2>1, <2>2 DEF EraseRole
  <2>4. Becomes(a, "drop", d)
    BY <2>3, Commands
  <2>5. r # SuperAdmin /\ \A p \in rows : p[2] = r
    BY <1>0, <2>1, <2>3 DEF Commanded
  <2>6. Asked(d) /\ d.role = r /\ d.rows = rows
    BY <1>0, <2>1, <2>2 DEF Asked, NotSeen
  <2>7. Commanded("drop", d) /\ Holding(a, "drop", d)'
    BY <2>5, <2>6 DEF Commanded, Assigns, Holding
  <2> QED BY <1>0, <2>3, <2>4, <2>6, <2>7, OneReads DEF directoryLocks
<1>2. CASE CheckAssignment(a)
  <2>1. PICK d : d = seen[a]
    OBVIOUS
  <2>2. /\ admin[a] = "assign" /\ AdminGoes(a, "assigned", d) /\ UNCHANGED <<directory, userLock>>
        /\ \/ UNCHANGED roleLock
           \/ RoleFree(a, SuperAdmin) /\ roleLock' = [roleLock EXCEPT ![SuperAdmin] = a]
    BY <1>2, <2>1 DEF CheckAssignment
  <2>3. Becomes(a, "assigned", d)
    BY <2>2, Commands
  <2>4. Asked(d) /\ Commanded("assigned", d) /\ Holding(a, "assigned", d)'
    BY <1>0, <2>1, <2>2 DEF Commanded, Assigns, Holding
  <2> QED BY <1>0, <2>2, <2>3, <2>4, OneReads
<1>3. CASE LockUser(a)
  <2>1. PICK u, rows, e : u = seen[a].user /\ rows = {u} \X RolesOf(u) /\ e = seen[a]
    OBVIOUS
  <2>2. PICK d : d = [e EXCEPT !.rows = rows]
    OBVIOUS
  <2>3. /\ admin[a] = "assigned" /\ UserFree(a, u) /\ userLock' = [userLock EXCEPT ![u] = a]
        /\ AdminGoes(a, "locked", d) /\ UNCHANGED <<directory, roleLock>>
    BY <1>3, <2>1, <2>2 DEF LockUser
  <2>4. Becomes(a, "locked", d)
    BY <2>3, Commands
  <2>5. Asked(d) /\ d.user = u /\ d.rows = rows /\ d.new = e.new /\ u \in Users
    BY <1>0, <2>1, <2>2 DEF Asked, NotSeen
  <2>6. Commanded("locked", d)
    <3>1. \A p \in rows : p[1] = u
      BY <2>1
    <3> QED BY <1>0, <2>1, <2>3, <2>5, <3>1 DEF Commanded, Assigns
  <2>7. Holding(a, "locked", d)'
    <3>1. \A p \in holds : p[1] = u => p \in rows
      BY <2>1 DEF AccountsInv, RowsOfTables, RolesOf
    <3> QED BY <1>0, <2>3, <2>5, <3>1 DEF Holding, directory
  <2> QED BY <1>0, <2>3, <2>4, <2>5, <2>6, <2>7, OneReads
<1> QED BY <1>1, <1>2, <1>3

(* A request that is over lets go of its own locks only.                    *)
LEMMA Over ==
    ASSUME AccountsInv, AccountsAssumption, NEW a \in Admins, AdminEnds(a)
    PROVE  /\ Becomes(a, "idle", NotSeen)
           /\ DOMAIN userLock' = Users /\ DOMAIN roleLock' = Roles
           /\ \A o \in Admins \ {a} : /\ \A u \in Users : userLock[u] = o => userLock'[u] = o
                                      /\ \A r \in Roles : roleLock[r] = o => roleLock'[r] = o
<1>1. Becomes(a, "idle", NotSeen)
  BY Commands DEF AdminEnds
<1> QED BY <1>1 DEF AdminEnds

LEMMA OneEnds ==
    ASSUME AccountsInv, AccountsAssumption, NEW a \in Admins, AdminEnds(a), BuiltInStays', HeldOnce',
           DOMAIN users' = Users, DOMAIN roles' = Roles, DOMAIN grants' = Roles,
           \A p \in holds' : p = <<p[1], p[2]>> /\ p[1] \in Users /\ p[2] \in Roles,
           \A u \in Users : users'[u] = "ABSENT" => users[u] = "ABSENT",
           \A p \in holds' : p \in holds \/ users[p[1]] = "ABSENT" \/ userLock[p[1]] = a,
           \A r \in Roles : RoleFree(a, r) \/ grants'[r] = grants[r]
    PROVE  AccountsInv'
<1>1. /\ Becomes(a, "idle", NotSeen)
      /\ DOMAIN userLock' = Users /\ DOMAIN roleLock' = Roles
      /\ \A o \in Admins \ {a} : /\ \A u \in Users : userLock[u] = o => userLock'[u] = o
                                 /\ \A r \in Roles : roleLock[r] = o => roleLock'[r] = o
  BY Over
<1>2. Spares(a)
  BY <1>1 DEF Spares, RoleFree, AccountsAssumption
<1>3. PICK d : d = NotSeen
  OBVIOUS
<1>4. Asked(d) /\ Commanded("idle", d)' /\ Holding(a, "idle", d)'
  BY <1>3, Nothing DEF Commanded, Assigns, Holding
<1>5. RowsOfTables'
  BY <1>1 DEF RowsOfTables
<1> QED BY <1>1, <1>2, <1>3, <1>4, <1>5, OneActs

LEMMA EndingCommands ==
    ASSUME AccountsInv, AccountsAssumption, NEW a \in Admins,
           \/ CommitGrants(a) \/ CommitRoleStatus(a) \/ DropRole(a) \/ InsertUser(a)
           \/ CommitAssignment(a) \/ CommitDeactivation(a) \/ DeleteUser(a) \/ AbandonCommand(a)
    PROVE  AccountsInv'
<1>0. /\ RowsOfTables /\ BuiltInStays /\ HeldOnce /\ Asked(seen[a]) /\ Commanded(admin[a], seen[a])
      /\ Holding(a, admin[a], seen[a]) /\ BuiltIn \in Users
  BY DEF AccountsInv, AccountsAssumption
<1>1. CASE CommitGrants(a)
  <2>1. /\ AdminEnds(a) /\ UNCHANGED <<users, roles, holds>> /\ admin[a] = "edit"
        /\ DOMAIN grants' = Roles
        /\ \A r \in Roles \ {seen[a].role} : grants'[r] = grants[r]
    BY <1>0, <1>1 DEF CommitGrants, RowsOfTables
  <2>2. \A r \in Roles : RoleFree(a, r) \/ grants'[r] = grants[r]
    BY <1>0, <2>1 DEF Holding, RoleFree
  <2> QED BY <1>0, <2>1, <2>2, OneEnds DEF RowsOfTables, BuiltInStays, HeldOnce
<1>2. CASE CommitRoleStatus(a) \/ AbandonCommand(a)
  <2>1. AdminEnds(a) /\ UNCHANGED <<users, holds, grants>> /\ DOMAIN roles' = Roles
    BY <1>0, <1>2 DEF CommitRoleStatus, AbandonCommand, RowsOfTables, directory
  <2> QED BY <1>0, <2>1, OneEnds DEF RowsOfTables, BuiltInStays, HeldOnce
<1>3. CASE DropRole(a)
  <2>1. PICK r : r = seen[a].role
    OBVIOUS
  <2>2. /\ AdminEnds(a) /\ users' = users /\ admin[a] = "drop" /\ RoleFree(a, r)
        /\ DOMAIN roles' = Roles /\ DOMAIN grants' = Roles
        /\ \A q \in Roles \ {r} : grants'[q] = grants[q]
        /\ holds' = holds \ seen[a].rows
    BY <1>0, <1>3, <2>1 DEF DropRole, RowsOfTables
  <2>3. \A p \in seen[a].rows : p[2] # SuperAdmin
    BY <1>0, <2>2 DEF Commanded
  <2>4. BuiltInStays' /\ HeldOnce'
    BY <1>0, <2>2, <2>3 DEF BuiltInStays, HeldOnce
  <2> QED BY <1>0, <2>2, <2>4, OneEnds DEF RowsOfTables
<1>4. CASE InsertUser(a)
  <2>1. PICK u, new : u = seen[a].user /\ new = seen[a].new
    OBVIOUS
  <2>2. /\ AdminEnds(a) /\ UNCHANGED <<roles, grants>> /\ admin[a] = "create"
        /\ users[u] = "ABSENT" /\ users' = [users EXCEPT ![u] = "ACTIVE"]
        /\ holds' = holds \cup ({u} \X new)
    BY <1>4, <2>1 DEF InsertUser
  <2>3. u \in Users /\ new \subseteq Roles /\ \A r, s \in new : r = s
    BY <1>0, <2>1, <2>2 DEF Asked, Commanded
  <2>4. \A p \in {u} \X new : p = <<p[1], p[2]>> /\ p[1] = u /\ p[2] \in new
    OBVIOUS
  <2>5. /\ DOMAIN users' = Users /\ users'[u] = "ACTIVE"
        /\ \A o \in Users \ {u} : users'[o] = users[o]
    BY <1>0, <2>2, <2>3 DEF RowsOfTables
  <2>6. \A p \in holds : p[1] # u
    BY <1>0, <2>2 DEF HeldOnce
  <2>7. BuiltInStays'
    BY <1>0, <2>2, <2>5 DEF BuiltInStays
  <2>8. HeldOnce'
    <3>1. ASSUME NEW p \in holds', NEW q \in holds', p[1] = q[1] PROVE p = q
      BY <1>0, <2>2, <2>3, <2>4, <2>6, <3>1 DEF HeldOnce
    <3>2. ASSUME NEW p \in holds' PROVE users'[p[1]] # "ABSENT"
      BY <1>0, <2>2, <2>4, <2>5, <2>6 DEF HeldOnce, RowsOfTables
    <3> QED BY <3>1, <3>2 DEF HeldOnce
  <2>9. \A p \in holds' : p = <<p[1], p[2]>> /\ p[1] \in Users /\ p[2] \in Roles
    BY <1>0, <2>2, <2>3, <2>4 DEF RowsOfTables
  <2>10. \A p \in holds' : p \in holds \/ users[p[1]] = "ABSENT"
    BY <2>2, <2>4
  <2> QED BY <1>0, <2>2, <2>5, <2>7, <2>8, <2>9, <2>10, OneEnds DEF RowsOfTables
<1>5. CASE CommitAssignment(a)
  <2>1. PICK u, new, rows : u = seen[a].user /\ new = seen[a].new /\ rows = seen[a].rows
    OBVIOUS
  <2>2. /\ AdminEnds(a) /\ UNCHANGED <<users, roles, grants>> /\ admin[a] = "locked"
        /\ holds' = (holds \ rows) \cup ({u} \X new)
    BY <1>5, <2>1 DEF CommitAssignment
  <2>3. /\ u \in Users /\ new \subseteq Roles /\ \A r, s \in new : r = s
        /\ users[u] # "ABSENT" /\ \A p \in rows : p[1] # BuiltIn
    BY <1>0, <2>1, <2>2 DEF Asked, Commanded, Assigns
  <2>4. userLock[u] = a /\ \A p \in holds : p[1] = u => p \in rows
    BY <1>0, <2>1, <2>2 DEF Holding
  <2>5. \A p \in {u} \X new : p = <<p[1], p[2]>> /\ p[1] = u /\ p[2] \in new
    OBVIOUS
  <2>6. BuiltInStays'
    <3>1. <<BuiltIn, SuperAdmin>> \in holds \ rows
      BY <1>0, <2>3 DEF BuiltInStays
    <3> QED BY <1>0, <2>2, <3>1 DEF BuiltInStays
  <2>7. HeldOnce'
    <3>1. ASSUME NEW p \in holds', NEW q \in holds', p[1] = q[1] PROVE p = q
      BY <1>0, <2>2, <2>3, <2>4, <2>5, <3>1 DEF HeldOnce
    <3>2. ASSUME NEW p \in holds' PROVE users'[p[1]] # "ABSENT"
      BY <1>0, <2>2, <2>3, <2>5 DEF HeldOnce
    <3> QED BY <3>1, <3>2 DEF HeldOnce
  <2>8. \A p \in holds' : p = <<p[1], p[2]>> /\ p[1] \in Users /\ p[2] \in Roles
    BY <1>0, <2>2, <2>3, <2>5 DEF RowsOfTables
  <2>9. \A p \in holds' : p \in holds \/ userLock[p[1]] = a
    BY <2>2, <2>4, <2>5
  <2> QED BY <1>0, <2>2, <2>6, <2>7, <2>8, <2>9, OneEnds DEF RowsOfTables
<1>6. CASE CommitDeactivation(a) \/ DeleteUser(a)
  <2>0. PICK u : u = seen[a].user
    OBVIOUS
  <2>1. PICK status, gone :
           /\ users' = [users EXCEPT ![u] = status]
           /\ status = "ABSENT" => users[u] = "ABSENT"
           /\ AdminEnds(a) /\ UNCHANGED <<roles, grants>> /\ holds' = holds \ gone
           /\ \A p \in gone : p[1] # BuiltIn
    <3>1. CASE CommitDeactivation(a)
      <4>1. PICK status, gone :
               status = (IF users[u] \in Gone THEN users[u] ELSE "INACTIVE") /\ gone = {}
        OBVIOUS
      <4>2. /\ users' = [users EXCEPT ![u] = status] /\ AdminEnds(a)
            /\ UNCHANGED <<roles, holds, grants>>
        BY <2>0, <3>1, <4>1 DEF CommitDeactivation
      <4>3. holds' = holds \ gone /\ (status = "ABSENT" => users[u] = "ABSENT")
            /\ \A p \in gone : p[1] # BuiltIn
        BY <4>1, <4>2
      <4> HIDE DEF AdminEnds
      <4> QED BY <4>2, <4>3
    <3>2. CASE DeleteUser(a)
      <4>1. PICK status, gone : status = "DELETED" /\ gone = seen[a].rows
        OBVIOUS
      <4>2. /\ users' = [users EXCEPT ![u] = status] /\ AdminEnds(a) /\ admin[a] = "delete"
            /\ UNCHANGED <<roles, grants>> /\ holds' = holds \ gone
        BY <2>0, <3>2, <4>1 DEF DeleteUser
      <4>3. \A p \in gone : p[1] # BuiltIn
        BY <1>0, <4>1, <4>2 DEF Commanded
      <4> HIDE DEF AdminEnds
      <4> QED BY <4>1, <4>2, <4>3
    <3> QED BY <1>6, <3>1, <3>2
  <2>2. u # BuiltIn /\ u \in Users
    BY <1>0, <1>6, <2>0 DEF CommitDeactivation, DeleteUser, Commanded, Asked
  <2>3. /\ DOMAIN users' = Users /\ users'[u] = status
        /\ \A o \in Users \ {u} : users'[o] = users[o]
    BY <1>0, <2>1, <2>2 DEF RowsOfTables
  <2>4. BuiltInStays'
    BY <1>0, <2>1, <2>2, <2>3 DEF BuiltInStays
  <2>5. HeldOnce'
    BY <1>0, <2>1, <2>3 DEF HeldOnce, RowsOfTables
  <2> QED BY <1>0, <2>1, <2>3, <2>4, <2>5, OneEnds DEF RowsOfTables
<1> QED BY <1>1, <1>2, <1>3, <1>4, <1>5, <1>6

(* What is done in one step, of a request that never was there to others.   *)
LEMMA AtOnce ==
    ASSUME AccountsInv, AccountsAssumption, NEW a \in Admins, CreateRole(a) \/ ReactivateUser(a)
    PROVE  AccountsInv'
<1>0. /\ RowsOfTables /\ BuiltInStays /\ HeldOnce /\ Asked(seen[a]) /\ admin[a] = "idle"
      /\ DOMAIN admin = Admins /\ DOMAIN seen = Admins
  BY DEF AccountsInv, CreateRole, ReactivateUser
<1>1. PICK d : d = seen[a]
  OBVIOUS
<1>2. UNCHANGED <<admin, seen, directoryLocks, holds>>
  BY DEF CreateRole, ReactivateUser
<1>3. Becomes(a, "idle", d) /\ Asked(d)
  BY <1>0, <1>1, <1>2 DEF Becomes
<1>4. Commanded("idle", d)' /\ Holding(a, "idle", d)'
  BY DEF Commanded, Assigns, Holding
<1>5. CASE CreateRole(a)
  <2>1. PICK r \in Roles, codes \in Offers \cup Duplicates :
           /\ RoleFree(a, r)
           /\ roles' = [roles EXCEPT ![r] = "ACTIVE"]
           /\ grants' = [grants EXCEPT ![r] = Resolve(codes)]
           /\ users' = users
    BY <1>5 DEF CreateRole
  <2>2. /\ DOMAIN roles' = Roles /\ DOMAIN grants' = Roles
        /\ \A q \in Roles \ {r} : grants'[q] = grants[q]
    BY <1>0, <2>1 DEF RowsOfTables
  <2>3. RowsOfTables' /\ BuiltInStays' /\ HeldOnce'
    BY <1>0, <1>2, <2>1, <2>2 DEF RowsOfTables, BuiltInStays, HeldOnce, directoryLocks
  <2>4. Spares(a)
    BY <1>2, <2>1, <2>2 DEF Spares, RoleFree, AccountsAssumption, directoryLocks
  <2> QED BY <1>3, <1>4, <2>3, <2>4, OneActs
<1>6. CASE ReactivateUser(a)
  <2>1. PICK u \in Users : users' = [users EXCEPT ![u] = "ACTIVE"] /\ UNCHANGED <<roles, grants>>
    BY <1>6 DEF ReactivateUser
  <2>2. /\ DOMAIN users' = Users /\ users'[u] = "ACTIVE"
        /\ \A o \in Users \ {u} : users'[o] = users[o]
    BY <1>0, <2>1 DEF RowsOfTables
  <2>3. RowsOfTables' /\ BuiltInStays' /\ HeldOnce'
    BY <1>0, <1>2, <2>1, <2>2, AccountsAssumption
       DEF RowsOfTables, BuiltInStays, HeldOnce, directoryLocks, AccountsAssumption
  <2>4. Spares(a)
    BY <1>2, <2>1, <2>2 DEF Spares, directoryLocks
  <2> QED BY <1>3, <1>4, <2>3, <2>4, OneActs
<1> QED BY <1>5, <1>6

LEMMA AccountsInvStep ==
    ASSUME AccountsAssumption, AccountsInv, [AccountsNext]_accountVars PROVE AccountsInv'
<1>1. CASE UNCHANGED accountVars
  BY <1>1 DEF accountVars, directory, directoryLocks, AccountsInv, RowsOfTables, BuiltInStays, HeldOnce,
              Asked, Commanded, Assigns, Holding
<1> QED BY <1>1, ReadingCommands, GoingOn, EndingCommands, AtOnce DEF AccountsNext, Administer

LEMMA AccountsInvInit == ASSUME AccountsAssumption, AccountsInit PROVE AccountsInv
<1>1. PICK rest \in SUBSET {u \in Users \ {BuiltIn} : users[u] # "ABSENT"} :
         holds = ({BuiltIn} \cup rest) \X {SuperAdmin}
  BY DEF AccountsInit
<1>2. DOMAIN users = Users /\ users[BuiltIn] = "ACTIVE" /\ BuiltIn \in Users /\ SuperAdmin \in Roles
  BY DEF AccountsInit, AccountsAssumption
<1>3. \A p \in holds : /\ p = <<p[1], p[2]>> /\ p[2] = SuperAdmin
                       /\ p[1] \in Users /\ users[p[1]] # "ABSENT"
  BY <1>1, <1>2
<1>4. <<BuiltIn, SuperAdmin>> \in holds
  BY <1>1
<1>5. RowsOfTables /\ BuiltInStays /\ HeldOnce
  BY <1>2, <1>3, <1>4 DEF AccountsInit, RowsOfTables, BuiltInStays, HeldOnce
<1>6. \A a \in Admins : admin[a] = "idle" /\ seen[a] = NotSeen
  BY DEF AccountsInit
<1>7. \A a \in Admins : Commanded(admin[a], seen[a]) /\ Holding(a, admin[a], seen[a])
  BY <1>6 DEF Commanded, Assigns, Holding
<1>8. DOMAIN admin = Admins /\ DOMAIN seen = Admins
  BY DEF AccountsInit
<1> QED BY <1>5, <1>6, <1>7, <1>8, Nothing DEF AccountsInv

LEMMA InvGivesOneRole == ASSUME AccountsInv PROVE OneRoleEach /\ SuperAdminRemains
<1>1. ASSUME NEW u \in Users PROVE Cardinality(RolesOf(u)) <= 1
  <2>1. \A r, s \in RolesOf(u) : r = s
    <3> SUFFICES ASSUME NEW r \in RolesOf(u), NEW s \in RolesOf(u) PROVE r = s
      OBVIOUS
    <3>1. <<u, r>> \in holds /\ <<u, s>> \in holds /\ <<u, r>>[1] = <<u, s>>[1]
      BY DEF RolesOf
    <3>2. <<u, r>> = <<u, s>>
      BY <3>1 DEF AccountsInv, HeldOnce
    <3> QED BY <3>2
  <2>2. RolesOf(u) = {} \/ \E r : RolesOf(u) = {r}
    BY <2>1
  <2>3. CASE RolesOf(u) = {}
    <3>1. Cardinality(RolesOf(u)) = 0
      BY <2>3, FS_EmptySet, Zenon
    <3> QED BY <3>1
  <2>4. CASE \E r : RolesOf(u) = {r}
    <3>1. PICK r : RolesOf(u) = {r}
      BY <2>4
    <3>2. Cardinality(RolesOf(u)) = 1
      BY <3>1, FS_Singleton, Zenon
    <3> QED BY <3>2
  <2> QED BY <2>2, <2>3, <2>4
<1>2. SuperAdminRemains
  <2>1. BuiltIn \in Users
    BY AccountsAssumption DEF AccountsAssumption
  <2> QED BY <2>1 DEF AccountsInv, BuiltInStays, SuperAdminRemains, HoldersOf
<1> QED BY <1>1, <1>2 DEF OneRoleEach

(* A grant or a revocation is applied to what the role grants at its COMMIT.*)
LEMMA GrantsOneByOne ==
    ASSUME AccountsInv, [AccountsNext]_accountVars, NEW r \in Roles, grants'[r] # grants[r]
    PROVE  \/ "ABSENT" \in {roles[r], roles'[r]}
           \/ \E a \in Admins : /\ seen[a].role = r
                                /\ grants'[r] = Outcome(seen[a].op, grants[r], seen[a].codes)
<1>1. PICK a \in Admins : Administer(a)
  BY DEF AccountsNext, accountVars, directory
<1>2. CommitGrants(a) \/ CreateRole(a) \/ DropRole(a)
  BY <1>1 DEF Administer, LockRole, LockRoleStatus, CommitRoleStatus, ReadRoleDeletion, EraseRole,
              ReadNewUser, InsertUser, ReadAssignment, CheckAssignment, LockUser, CommitAssignment,
              ReadDeactivation, CommitDeactivation, ReactivateUser, ReadUserDeletion, DeleteUser,
              AbandonCommand, directory
<1>3. DOMAIN grants = Roles /\ DOMAIN roles = Roles /\ Holding(a, admin[a], seen[a])
  BY DEF AccountsInv, RowsOfTables
<1>4. CASE CommitGrants(a)
  <2>1. PICK x : x = Outcome(seen[a].op, seen[a].current, seen[a].codes)
    OBVIOUS
  <2>2. admin[a] = "edit" /\ grants' = [grants EXCEPT ![seen[a].role] = x]
    BY <1>4, <2>1 DEF CommitGrants
  <2>3. seen[a].role = r /\ grants'[r] = x
    BY <1>3, <2>2
  <2>4. seen[a].current = grants[r]
    BY <1>3, <2>2, <2>3 DEF Holding
  <2> QED BY <2>1, <2>3, <2>4
<1>5. CASE CreateRole(a)
  BY <1>3, <1>5 DEF CreateRole
<1>6. CASE DropRole(a)
  BY <1>3, <1>6 DEF DropRole
<1> QED BY <1>2, <1>4, <1>5, <1>6

(* For any number of requests, users and roles: nobody holds two roles, and *)
(* an active account is super administrator.                                *)
THEOREM RolesStayApart == AccountsSpec => [](OneRoleEach /\ SuperAdminRemains)
<1> QED BY InvGivesOneRole, AccountsInvInit, AccountsInvStep, AccountsAssumption, PTL DEF AccountsSpec

(* For any number of requests: what a role grants changes by one command at *)
(* a time, applied to what it grants.                                       *)
THEOREM GrantsAddUp == AccountsSpec => GrantsAreSerial
<1>1. ASSUME AccountsInv, [AccountsNext]_accountVars
      PROVE  [\A r \in Roles : grants'[r] # grants[r] =>
                \/ "ABSENT" \in {roles[r], roles'[r]}
                \/ \E a \in Admins : /\ seen[a].role = r
                                     /\ grants'[r] = Outcome(seen[a].op, grants[r], seen[a].codes)]_accountVars
  BY <1>1, GrantsOneByOne
<1> QED BY <1>1, AccountsInvInit, AccountsInvStep, AccountsAssumption, PTL
        DEF AccountsSpec, GrantsAreSerial

(***************************************************************************)
(* The parts side by side, as the runs check them: what holds of each by   *)
(* itself holds of each where the others stand still.                      *)
(***************************************************************************)
LEMMA EachPartRuns ==
    AccessSpec => /\ SessionsSpec /\ AdmissionSpec /\ AccountsSpec /\ SettingsSpec
                  /\ LinkingSpec /\ AlertsSpec
<1>1. AccessInit => /\ SessionsInit /\ AdmissionInit /\ AccountsInit /\ SettingsInit
                    /\ LinkingInit /\ AlertsInit
  BY DEF AccessInit
<1>2. ASSUME [AccessNext]_<<part, sessionVars, accountVars, settingsVars, policyVars,
                            linkVars, alertVars, admissionVars>>
      PROVE  /\ [SessionsNext]_sessionVars /\ [AdmissionNext]_admissionVars
             /\ [AccountsNext]_accountVars /\ [SettingsNext]_settingsVars
             /\ [LinkingNext]_linkVars /\ [AlertsNext]_alertVars
  BY <1>2 DEF AccessNext, Others
<1> QED BY <1>1, <1>2, PTL DEF AccessSpec, SessionsSpec, AdmissionSpec, AccountsSpec, SettingsSpec,
                               LinkingSpec, AlertsSpec

(* Resets, changes of the password and forced log-outs take hold: of every  *)
(* device, of every token and of the count of failures.                     *)
THEOREM ResetsHold == AccessSpec => []ResetsTakeHold
<1>1. SignOutsReachEveryDevice /\ TokensCarryTheFlag /\ FailuresAreCounted => ResetsTakeHold
  BY DEF ResetsTakeHold
<1> QED BY <1>1, EachPartRuns, SignOutsReach, ResetsReachTokens, PTL

(* The bot does not come back where it was disconnected, tells the group it *)
(* was offered, does not repeat itself too soon, however short or long a    *)
(* measurement has to fail, and leaves out nothing it could have seen.      *)
THEOREM BotIsInItsPlace == AccessSpec => []BotKeepsItsPlace
<1>1. DisconnectsLast /\ GroupIsTheBots /\ CooldownKept /\ SkippedOnlyIfLate => BotKeepsItsPlace
  BY DEF BotKeepsItsPlace
<1>2. AlertsSpec => [](CooldownKept /\ SkippedOnlyIfLate)
  BY MonitorKeepsCount
<1> QED BY <1>1, <1>2, EachPartRuns, LinksKeepTheirPlace, PTL

(* Administrators who work at once do not undo each other.                  *)
THEOREM AdministratorsAgree == AccessSpec => AdministratorsCoexist
<1>1. OneRoleEach /\ SuperAdminRemains => (part = "accounts" => OneRoleEach /\ SuperAdminRemains)
  OBVIOUS
<1>2. EnabledIsConfigured => (part = "settings" => EnabledIsConfigured)
  OBVIOUS
<1> QED BY <1>1, <1>2, EachPartRuns, EditsKeepOthers, GrantsAddUp, RolesStayApart,
           SettingsStayConfigured, PTL DEF AdministratorsCoexist
=============================================================================
