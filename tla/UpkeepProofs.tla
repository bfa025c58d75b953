---------------------------- MODULE UpkeepProofs ----------------------------
(* What the upkeep of the data keeps, for any number of processes, changes   *)
(* and outages: a token confirms at most one import, whatever fails; a       *)
(* worker that takes its copy of the access rules for current decides with   *)
(* rules that are complete, as long as Redis keeps its count; two schedulers *)
(* are inside the backup block only after a connection was lost; a list      *)
(* from the cache has all that was announced; the sheet gives back what the  *)
(* backups last stored; the publication lock leaves nothing for the unique   *)
(* indexes to refuse; a redesign of the pages spares the saved data; and the *)
(* archive tells what the rows are.                                          *)
EXTENDS Imports, Enforcer, AdvisoryLocks, SharedCache, Backups, ConfigVersions,
        Components, Catalog, FiniteSetTheorems, TLAPS

-----------------------------------------------------------------------------
(***************************************************************************)
(* Part one: the imports.                                                  *)
(***************************************************************************)
USE ImportsAssumption

(* What the proof needs to know of the shape of the variables.              *)
Fields == {"step", "token", "sheet", "mode", "acts", "next", "made", "staged"}
Shapes ==
    /\ DOMAIN import = Importers /\ \A i \in Importers : DOMAIN import[i] = Fields
    /\ jobs \in [Tickets -> SUBSET {"COMPLETED", "FAILED"}]
    /\ uploads \in 0..MaxUploads
    /\ DOMAIN sessions \subseteq 1..uploads

(* A request that is at work has a token that was handed out, which no      *)
(* session and no other request has, and no job has been recorded for.      *)
WorkersOwnTokens ==
    \A i \in Importers :
       /\ import[i].step = "idle" <=> import[i].token = 0
       /\ import[i].token # 0 =>
             /\ import[i].token \in 1..uploads /\ import[i].token \notin DOMAIN sessions
             /\ jobs[import[i].token] = {}
             /\ \A o \in Importers \ {i} : import[o].token # import[i].token

(* No job is recorded for a token that waits or was never handed out.       *)
JobsAreClaimed ==
    \A t \in Tickets : t \in DOMAIN sessions \/ t > uploads => jobs[t] = {}

OneJob == \A t \in Tickets : \A a, b \in jobs[t] : a = b

ImportsInv == Shapes /\ WorkersOwnTokens /\ JobsAreClaimed /\ OneJob

(* A set in which any two elements are equal has at most one.               *)
LEMMA AtMostOne == ASSUME NEW S, \A a, b \in S : a = b PROVE Cardinality(S) <= 1
<1>1. CASE S = {}
  BY <1>1, FS_EmptySet
<1>2. CASE S # {}
  <2>1. PICK a \in S : S = {a}
    BY <1>2
  <2>2. Cardinality({a}) = 1
    BY FS_Singleton, Zenon
  <2> QED BY <2>1, <2>2
<1> QED BY <1>1, <1>2

(* Which tokens wait after a session is stored or removed.                  *)
LEMMA Waiting ==
    /\ \A f, k, v : DOMAIN With(f, k, v) = DOMAIN f \cup {k}
    /\ \A f, S : DOMAIN Without(f, S) = DOMAIN f \ S
BY DEF With, Without

(* A request goes on with the token it has, and nothing is recorded.        *)
LEMMA ImportGoesOn ==
    ASSUME ImportsInv, NEW i \in Importers, DOMAIN import' = Importers,
           DOMAIN import'[i] = Fields, \A o \in Importers \ {i} : import'[o] = import[o],
           import'[i].token = import[i].token, import[i].step # "idle", import'[i].step # "idle",
           UNCHANGED <<sessions, uploads, jobs>>
    PROVE  ImportsInv'
BY SMTT(30) DEF ImportsInv, Shapes, WorkersOwnTokens, JobsAreClaimed, OneJob

(* A request ends, with at most one job recorded for its token.             *)
LEMMA Ends ==
    ASSUME ImportsInv, NEW i \in Importers, import[i].step # "idle",
           import' = [import EXCEPT ![i] = Asleep], UNCHANGED <<sessions, uploads>>,
           NEW J \in SUBSET {"COMPLETED", "FAILED"}, \A a, b \in J : a = b,
           jobs' = [jobs EXCEPT ![import[i].token] = @ \cup J]
    PROVE  ImportsInv'
<1>1. /\ DOMAIN Asleep = Fields /\ Asleep.step = "idle" /\ Asleep.token = 0
  BY DEF Asleep, Fields
<1>2. /\ import[i].token \in 1..uploads /\ import[i].token \notin DOMAIN sessions
      /\ jobs[import[i].token] = {} /\ import[i].token \in Tickets
      /\ \A o \in Importers \ {i} : import[o].token # import[i].token
  BY DEF ImportsInv, Shapes, WorkersOwnTokens, Tickets
<1>3. /\ jobs'[import[i].token] = J
      /\ \A t \in Tickets \ {import[i].token} : jobs'[t] = jobs[t]
  BY <1>2 DEF ImportsInv, Shapes
<1>4. /\ import'[i] = Asleep /\ \A o \in Importers \ {i} : import'[o] = import[o]
      /\ DOMAIN import' = Importers
  BY DEF ImportsInv, Shapes
<1>5. Shapes'
  BY <1>1, <1>4 DEF ImportsInv, Shapes
<1>6. WorkersOwnTokens'
  BY <1>1, <1>2, <1>3, <1>4 DEF ImportsInv, Shapes, WorkersOwnTokens, Tickets
<1>7. JobsAreClaimed'
  BY <1>2, <1>3 DEF ImportsInv, Shapes, JobsAreClaimed
<1>8. OneJob'
  BY <1>3 DEF ImportsInv, OneJob
<1> QED BY <1>5, <1>6, <1>7, <1>8 DEF ImportsInv

(* ImportsInv is inductive.                                                 *)
LEMMA ImportsInvStep == ImportsInv /\ [ImportsNext]_importVars => ImportsInv'
<1> SUFFICES ASSUME ImportsInv, [ImportsNext]_importVars PROVE ImportsInv'
    OBVIOUS
<1>s. Shapes /\ WorkersOwnTokens /\ JobsAreClaimed /\ OneJob
  BY DEF ImportsInv
<1>1. ASSUME NEW u \in Operators, NEW s \in Sheets, NEW m \in Modes, Upload(u, s, m)
      PROVE  ImportsInv'
  <2> DEFINE others == Without(sessions, {t \in DOMAIN sessions : sessions[t].user = u})
  <2>1. /\ uploads < MaxUploads /\ uploads' = uploads + 1
        /\ sessions' = With(others, uploads + 1, [user |-> u, sheet |-> s, mode |-> m])
        /\ import' = import /\ jobs' = jobs
    BY <1>1 DEF Upload
  <2>2. DOMAIN others \subseteq DOMAIN sessions
    BY DEF Without
  <2> HIDE DEF others
  <2>3. DOMAIN sessions' = DOMAIN others \cup {uploads + 1}
    BY <2>1, Waiting
  <2> QED BY <1>s, <2>1, <2>2, <2>3
          DEF ImportsInv, Shapes, WorkersOwnTokens, JobsAreClaimed, OneJob, Tickets
<1>2. ASSUME NEW t \in Tickets, Cancel(t) PROVE ImportsInv'
  <2>1. DOMAIN sessions' \subseteq DOMAIN sessions /\ UNCHANGED <<uploads, import, jobs>>
    BY <1>2 DEF Cancel, Without
  <2> QED BY <1>s, <2>1
          DEF ImportsInv, Shapes, WorkersOwnTokens, JobsAreClaimed, OneJob
<1>3. ASSUME NEW k \in Keys, ClerkWrites(k) PROVE ImportsInv'
  BY <1>s, <1>3 DEF ClerkWrites, ImportsInv, Shapes, WorkersOwnTokens, JobsAreClaimed, OneJob
<1>4. ASSUME NEW i \in Importers, NEW t \in Tickets, Claim(i, t) PROVE ImportsInv'
  <2>1. /\ t \in DOMAIN sessions /\ import[i].step = "idle"
        /\ DOMAIN sessions' = DOMAIN sessions \ {t} /\ UNCHANGED <<uploads, jobs>>
    BY <1>4, Waiting DEF Claim, Claimed
  <2>2. CASE import' = import
    BY <1>s, <2>1, <2>2 DEF ImportsInv, Shapes, WorkersOwnTokens, JobsAreClaimed, OneJob
  <2>3. CASE import' # import
    <3> DEFINE x == [Asleep EXCEPT !.step = "validate", !.token = t,
                                   !.sheet = sessions[t].sheet, !.mode = sessions[t].mode]
    <3>1. import' = [import EXCEPT ![i] = x]
      BY <1>4, <2>3 DEF Claim
    <3>2. DOMAIN x = Fields /\ x.step = "validate" /\ x.token = t
      BY DEF Asleep, Fields
    <3> HIDE DEF x
    <3>3. /\ import'[i] = x /\ \A o \in Importers \ {i} : import'[o] = import[o]
          /\ DOMAIN import' = Importers
      BY <1>s, <3>1 DEF Shapes
    <3>4. t \in 1..uploads /\ t # 0 /\ jobs[t] = {} /\ \A o \in Importers : import[o].token # t
      BY <1>s, <2>1 DEF Shapes, WorkersOwnTokens, JobsAreClaimed, Tickets
    <3>5. Shapes'
      BY <1>s, <2>1, <3>2, <3>3 DEF Shapes
    <3>6. WorkersOwnTokens'
      BY <1>s, <2>1, <3>2, <3>3, <3>4 DEF WorkersOwnTokens
    <3>7. JobsAreClaimed' /\ OneJob'
      BY <1>s, <2>1 DEF JobsAreClaimed, OneJob
    <3> QED BY <3>5, <3>6, <3>7 DEF ImportsInv
  <2> QED BY <2>2, <2>3
<1>5. ASSUME NEW i \in Importers, Revalidate(i) \/ WriteCreate(i) \/ WriteUpdate(i) \/ Skip(i),
             import'[i] # Asleep
      PROVE  ImportsInv'
  <2>1. import[i].step \in {"validate", "write"}
    BY <1>5 DEF Revalidate, WriteCreate, WriteUpdate, Skip, HasRow
  <2>2. UNCHANGED <<sessions, uploads, jobs>>
    BY <1>5 DEF Revalidate, WriteCreate, WriteUpdate, Skip
  <2>3. /\ DOMAIN import' = Importers /\ DOMAIN import'[i] = Fields
        /\ \A o \in Importers \ {i} : import'[o] = import[o]
        /\ import'[i].token = import[i].token /\ import'[i].step # "idle"
    <3>1. CASE Revalidate(i)
      BY <1>s, <3>1 DEF Revalidate, Shapes, Fields
    <3>2. CASE WriteCreate(i)
      BY <1>s, <1>5, <2>1, <3>2 DEF WriteCreate, Shapes, Fields
    <3>3. CASE WriteUpdate(i)
      BY <1>s, <1>5, <2>1, <3>3 DEF WriteUpdate, Shapes, Fields
    <3>4. CASE Skip(i)
      BY <1>s, <2>1, <3>4 DEF Skip, Shapes, Fields
    <3> QED BY <1>5, <3>1, <3>2, <3>3, <3>4
  <2> QED BY <2>1, <2>2, <2>3, ImportGoesOn
<1>6. ASSUME NEW i \in Importers, WriteCreate(i) \/ WriteUpdate(i) \/ ImportCrash(i),
             import' = [import EXCEPT ![i] = Asleep]
      PROVE  ImportsInv'
  <2>1. import[i].step # "idle"
    BY <1>6 DEF WriteCreate, WriteUpdate, ImportCrash, HasRow
  <2>2. UNCHANGED <<sessions, uploads, jobs>>
    BY <1>6 DEF WriteCreate, WriteUpdate, ImportCrash
  <2>3. jobs' = [jobs EXCEPT ![import[i].token] = @ \cup {}]
    BY <1>s, <2>2 DEF Shapes
  <2>4. {} \in SUBSET {"COMPLETED", "FAILED"} /\ \A a, b \in {} : a = b
    OBVIOUS
  <2> QED BY <1>6, <2>1, <2>2, <2>3, <2>4, Ends
<1>7. ASSUME NEW i \in Importers, CommitImport(i) PROVE ImportsInv'
  <2>1. /\ import[i].step # "idle" /\ import' = [import EXCEPT ![i] = Asleep]
        /\ UNCHANGED <<sessions, uploads>>
        /\ jobs' = [jobs EXCEPT ![import[i].token] = @ \cup {"COMPLETED"}]
    BY <1>7 DEF CommitImport
  <2> QED BY <2>1, Ends
<1>8. ASSUME NEW i \in Importers, RecordFailure(i) PROVE ImportsInv'
  <2>1. /\ import[i].step # "idle" /\ import' = [import EXCEPT ![i] = Asleep]
        /\ UNCHANGED <<sessions, uploads>>
        /\ jobs' = [jobs EXCEPT ![import[i].token] = @ \cup {"FAILED"}]
    BY <1>8 DEF RecordFailure
  <2> QED BY <2>1, Ends
<1>9. ASSUME NEW i \in Importers, ImportDeadlock(i) PROVE ImportsInv'
  <2>1. import[i].step # "idle"
    BY <1>9 DEF ImportDeadlock, WaitsForImport, HasRow
  <2>2. UNCHANGED <<sessions, uploads, jobs>>
        /\ import' = [import EXCEPT ![i].step = "fail", ![i].made = {}]
    BY <1>9 DEF ImportDeadlock
  <2>3. /\ DOMAIN import' = Importers /\ DOMAIN import'[i] = Fields
        /\ \A o \in Importers \ {i} : import'[o] = import[o]
        /\ import'[i].token = import[i].token /\ import'[i].step # "idle"
    BY <1>s, <2>2 DEF Shapes, Fields
  <2> QED BY <2>1, <2>2, <2>3, ImportGoesOn
<1>10. CASE UNCHANGED importVars
  BY <1>s, <1>10 DEF importVars, ImportsInv, Shapes, WorkersOwnTokens, JobsAreClaimed, OneJob
<1>11. ASSUME NEW i \in Importers, WriteCreate(i) \/ WriteUpdate(i) PROVE ImportsInv'
  <2>1. import'[i] = Asleep => import' = [import EXCEPT ![i] = Asleep]
    BY <1>s, <1>11 DEF WriteCreate, WriteUpdate, Shapes, Asleep, HasRow
  <2> QED BY <1>5, <1>6, <1>11, <2>1
<1>12. ASSUME NEW i \in Importers, Revalidate(i) \/ Skip(i) PROVE ImportsInv'
  <2>1. import'[i].step # "idle"
    BY <1>s, <1>12 DEF Revalidate, Skip, HasRow, Shapes, Fields
  <2>2. import'[i] # Asleep
    BY <2>1 DEF Asleep
  <2> QED BY <1>5, <1>12, <2>2
<1>13. ASSUME NEW i \in Importers, ImportCrash(i) PROVE ImportsInv'
  BY <1>6, <1>13 DEF ImportCrash
<1> QED BY <1>1, <1>2, <1>3, <1>4, <1>7, <1>8, <1>9, <1>10, <1>11, <1>12, <1>13
        DEF ImportsNext

(* A token confirms at most once, including when the import itself fails:   *)
(* no two requests work on one token, and no token has two jobs.            *)
THEOREM ConfirmedOnce == ImportsSpec => []TokensConfirmOnce
<1>1. ImportsInit => ImportsInv
  BY DEF ImportsInit, ImportsInv, Shapes, WorkersOwnTokens, JobsAreClaimed, OneJob, Asleep, Fields,
         Tickets
<1>2. ImportsInv => TokensConfirmOnce
  <2> SUFFICES ASSUME ImportsInv PROVE TokensConfirmOnce
    OBVIOUS
  <2>1. \A t \in Tickets : Cardinality(jobs[t]) <= 1
    BY AtMostOne DEF ImportsInv, OneJob
  <2> QED BY <2>1 DEF ImportsInv, WorkersOwnTokens, TokensConfirmOnce
<1> QED BY <1>1, <1>2, ImportsInvStep, PTL DEF ImportsSpec

HIDE ImportsAssumption

-----------------------------------------------------------------------------
(***************************************************************************)
(* Part two: the workers' copies of the access rules.                      *)
(***************************************************************************)
(* A change is published after it is committed, and by counting.            *)
CountHonest ==
    /\ published <= rules
    /\ ~recounted /\ counter = 0 => published = 0

(* A version read is one that has been counted, and rules read under the    *)
(* latest version are not older than the change that version published.     *)
CopiesHonest ==
    \A w \in Workers :
       /\ copy[w].loaded => copy[w].version <= counter
       /\ copy[w].loaded /\ copy[w].version = counter =>
             copy[w].roles >= published /\ copy[w].rules >= published

(* So it is for the reload under way, as far as it has got.                 *)
LoadsHonest ==
    \A w \in Workers :
       LET l == loading[w]
       IN /\ l.step \in {"roles", "rules", "swap"} => l.version <= counter
          /\ l.version = counter /\ l.step \in {"rules", "swap"} => l.roles >= published
          /\ l.version = counter /\ l.step = "swap" => l.rules >= published

EnforcerInv ==
    EnforcerTypeOK /\ CountHonest /\ (~recounted => CopiesHonest /\ LoadsHonest)

USE EnforcerAssumption

(* The variables keep to their types.                                       *)
LEMMA EnforcerTypes == EnforcerTypeOK /\ [EnforcerNext]_enforcerVars => EnforcerTypeOK'
<1> SUFFICES ASSUME EnforcerTypeOK, [EnforcerNext]_enforcerVars PROVE EnforcerTypeOK'
    OBVIOUS
<1> USE DEF EnforcerTypeOK, Changes, RedisKept
<1>1. ASSUME NEW w \in Workers, ChangeRules(w) PROVE EnforcerTypeOK'
  BY <1>1 DEF ChangeRules
<1>2. ASSUME NEW w \in Workers, Publish(w) PROVE EnforcerTypeOK'
  BY <1>2 DEF Publish, StartLoading, Loading
<1>3. ASSUME NEW w \in Workers, WorkerRestarts(w) PROVE EnforcerTypeOK'
  BY <1>3 DEF WorkerRestarts, NoRules, NotLoading
<1>4. ASSUME NEW w \in Workers, EnsureCurrent(w) PROVE EnforcerTypeOK'
  BY <1>4 DEF EnsureCurrent, StartLoading, Loading
<1>5. ASSUME NEW w \in Workers, ReadVersion(w) PROVE EnforcerTypeOK'
  BY <1>5 DEF ReadVersion, Loading, Version
<1>6. ASSUME NEW w \in Workers, ReadRoles(w) PROVE EnforcerTypeOK'
  BY <1>6 DEF ReadRoles, Loading
<1>7. ASSUME NEW w \in Workers, ReadRules(w) PROVE EnforcerTypeOK'
  BY <1>7 DEF ReadRules, Loading
<1>8. ASSUME NEW w \in Workers, Swap(w) PROVE EnforcerTypeOK'
  BY <1>8 DEF Swap, RecordedVersion, NotLoading
<1>9. ASSUME NEW w \in Workers, LoadFails(w) PROVE EnforcerTypeOK'
  BY <1>9 DEF LoadFails, NoRules, NotLoading
<1>10. ASSUME NEW w \in Workers, Age(w) PROVE EnforcerTypeOK'
  BY <1>10 DEF Age
<1>11. CASE RedisGoes
  BY <1>11 DEF RedisGoes
<1>12. ASSUME NEW kept \in BOOLEAN, RedisReturns(kept) PROVE EnforcerTypeOK'
  BY <1>12 DEF RedisReturns
<1>13. CASE UNCHANGED enforcerVars
  BY <1>13 DEF enforcerVars
<1> QED BY <1>1, <1>2, <1>3, <1>4, <1>5, <1>6, <1>7, <1>8, <1>9, <1>10, <1>11, <1>12, <1>13
        DEF EnforcerNext, Reloads

(* EnforcerInv is inductive.                                                *)
LEMMA EnforcerInvStep == EnforcerInv /\ [EnforcerNext]_enforcerVars => EnforcerInv'
<1> SUFFICES ASSUME EnforcerInv, [EnforcerNext]_enforcerVars PROVE EnforcerInv'
    OBVIOUS
<1>t. EnforcerTypeOK'
  BY EnforcerTypes DEF EnforcerInv
<1> USE <1>t DEF EnforcerInv, CountHonest, CopiesHonest, LoadsHonest, EnforcerTypeOK,
                 Changes, RedisKept
<1>1. ASSUME NEW w \in Workers, ChangeRules(w) PROVE EnforcerInv'
  BY <1>1 DEF ChangeRules
<1>2. ASSUME NEW w \in Workers, Publish(w) PROVE EnforcerInv'
  BY <1>2 DEF Publish, StartLoading, Loading
<1>3. ASSUME NEW w \in Workers, WorkerRestarts(w) PROVE EnforcerInv'
  BY <1>3 DEF WorkerRestarts, NoRules, NotLoading
<1>4. ASSUME NEW w \in Workers, EnsureCurrent(w) PROVE EnforcerInv'
  BY <1>4 DEF EnsureCurrent, StartLoading, Loading
<1>5. ASSUME NEW w \in Workers, ReadVersion(w) PROVE EnforcerInv'
  BY <1>5 DEF ReadVersion, Loading, Version
<1>6. ASSUME NEW w \in Workers, ReadRoles(w) PROVE EnforcerInv'
  BY <1>6 DEF ReadRoles, Loading
<1>7. ASSUME NEW w \in Workers, ReadRules(w) PROVE EnforcerInv'
  BY <1>7 DEF ReadRules, Loading
<1>8. ASSUME NEW w \in Workers, Swap(w) PROVE EnforcerInv'
  BY <1>8 DEF Swap, RecordedVersion, NotLoading
<1>9. ASSUME NEW w \in Workers, LoadFails(w) PROVE EnforcerInv'
  BY <1>9 DEF LoadFails, NoRules, NotLoading
<1>10. ASSUME NEW w \in Workers, Age(w) PROVE EnforcerInv'
  BY <1>10 DEF Age
<1>11. CASE RedisGoes
  BY <1>11 DEF RedisGoes
<1>12. ASSUME NEW kept \in BOOLEAN, RedisReturns(kept) PROVE EnforcerInv'
  BY <1>12 DEF RedisReturns
<1>13. CASE UNCHANGED enforcerVars
  BY <1>13 DEF enforcerVars
<1> QED BY <1>1, <1>2, <1>3, <1>4, <1>5, <1>6, <1>7, <1>8, <1>9, <1>10, <1>11, <1>12, <1>13
        DEF EnforcerNext, Reloads

(* A copy that passes for current has its roles and its rules from after    *)
(* the last change that was published: a change committed while the copy is *)
(* read leaves a newer version in Redis than the one recorded with it.      *)
THEOREM CurrentIsComplete == EnforcerSpec => []CurrentCopiesAreComplete
<1>1. EnforcerInit => EnforcerInv
  <2> SUFFICES ASSUME EnforcerInit PROVE EnforcerInv
    OBVIOUS
  <2>1. copy \in [Workers -> [roles : Changes, rules : Changes, version : Nat, loaded : BOOLEAN]]
    BY DEF EnforcerInit, Changes
  <2>2. loading \in [Workers -> [step : {"none", "version", "roles", "rules", "swap"},
                                 roles : Changes, rules : Changes, version : Nat]]
    BY DEF EnforcerInit, NotLoading, Changes
  <2>3. /\ rules \in Changes /\ published \in Changes /\ outages \in 0..MaxOutages
        /\ counter \in Nat /\ redis \in {"up", "down"}
        /\ unpublished \subseteq Workers /\ aged \subseteq Workers
    BY SMT DEF EnforcerInit, Changes
  <2>4. recounted \in BOOLEAN
    BY Zenon DEF EnforcerInit
  <2>5. EnforcerTypeOK
    BY <2>1, <2>2, <2>3, <2>4 DEF EnforcerTypeOK
  <2>6. CountHonest /\ CopiesHonest
    BY DEF EnforcerInit, CountHonest, CopiesHonest
  <2>7. LoadsHonest
    BY DEF EnforcerInit, LoadsHonest, NotLoading
  <2> QED BY <2>5, <2>6, <2>7 DEF EnforcerInv
<1>2. EnforcerInv => CurrentCopiesAreComplete
  BY DEF EnforcerInv, CopiesHonest, CurrentCopiesAreComplete
<1> QED BY <1>1, <1>2, EnforcerInvStep, PTL DEF EnforcerSpec

-----------------------------------------------------------------------------
(***************************************************************************)
(* Part three: the scheduler's advisory lock.  At most one connection has  *)
(* it, and a scheduler that is inside the block has it on some connection, *)
(* unless the pool closed one.                                             *)
(***************************************************************************)
LockWithHolder ==
    /\ DOMAIN locked = Schedulers \X Conns /\ DOMAIN block = Schedulers
    /\ \A l \in Schedulers \X Conns : locked[l] \in Nat
    /\ \A p \in Schedulers : DOMAIN block[p] = {"step", "conn"}
    /\ \A p \in Schedulers : block[p].step = "due" => block[p].conn \in Conns
    /\ \A l, m \in Schedulers \X Conns : locked[l] > 0 /\ locked[m] > 0 => l = m
    /\ ~lost => \A p \in Schedulers : Inside(p) => \E c \in Conns : locked[<<p, c>>] > 0

LEMMA LockWithHolderStep ==
    ASSUME LockWithHolder, [LocksNext]_lockVars
    PROVE  LockWithHolder'
(* A scheduler goes on without entering the block.                          *)
<1>1. ASSUME NEW p \in Schedulers, NEW step, NEW c,
             block' = [block EXCEPT ![p] = [step |-> step, conn |-> c]],
             UNCHANGED <<locked, lost>>,
             step \in {"won", "running"} => Inside(p), step = "due" => c \in Conns
      PROVE  LockWithHolder'
  BY <1>1 DEF LockWithHolder, Inside
<1>2. CASE FallDue \/ UNCHANGED lockVars
  BY <1>2 DEF FallDue, lockVars, LockWithHolder, Inside
<1>3. ASSUME NEW p \in Schedulers,
             \/ PassOver(p) \/ LockQueryFails(p) \/ StartDueRun(p) \/ CallOff(p)
             \/ \E c \in Conns : SeeDue(p, c) \/ EndDueRun(p, c)
      PROVE  LockWithHolder'
  <2>1. CASE PassOver(p) \/ LockQueryFails(p) \/ StartDueRun(p) \/ CallOff(p)
    BY <1>1, <2>1 DEF PassOver, LockQueryFails, StartDueRun, CallOff, GoesOn, OutOfBlock, Inside
  <2>2. CASE \E c \in Conns : SeeDue(p, c) \/ EndDueRun(p, c)
    BY <1>1, <2>2 DEF SeeDue, EndDueRun, GoesOn, OutOfBlock, Inside
  <2> QED BY <1>3, <2>1, <2>2
<1>4. ASSUME NEW p \in Schedulers, Win(p) PROVE LockWithHolder'
  <2> DEFINE c == block[p].conn
             l == <<p, c>>
  <2>1. /\ block[p].step = "due" /\ LockFree(p, c)
        /\ locked' = [locked EXCEPT ![l] = @ + 1]
        /\ block' = [block EXCEPT ![p] = [step |-> "won", conn |-> c]] /\ UNCHANGED lost
    BY <1>4 DEF Win, GoesOn
  <2>2. l \in Schedulers \X Conns /\ c \in Conns
    BY <2>1 DEF LockWithHolder
  <2>3. \A m \in Schedulers \X Conns : m # l => locked[m] = 0
    <3> SUFFICES ASSUME NEW m \in Schedulers \X Conns, m # l PROVE locked[m] = 0
      OBVIOUS
    <3>1. PICK q \in Schedulers, d \in Conns : m = <<q, d>>
      OBVIOUS
    <3> QED BY <2>1, <3>1 DEF LockFree
  <2>4. /\ DOMAIN locked' = Schedulers \X Conns
        /\ locked'[l] \in Nat /\ locked'[l] > 0
        /\ \A m \in (Schedulers \X Conns) \ {l} : locked'[m] = 0
    BY <2>1, <2>2, <2>3 DEF LockWithHolder
  <2>5. ~lost => \A q \in Schedulers : Inside(q)' => \E d \in Conns : locked'[<<q, d>>] > 0
    <3> SUFFICES ASSUME ~lost, NEW q \in Schedulers, Inside(q)'
                 PROVE  \E d \in Conns : locked'[<<q, d>>] > 0
      OBVIOUS
    <3>1. CASE q = p
      BY <2>2, <2>4, <3>1
    <3>2. CASE q # p
      <4>1. Inside(q)
        BY <2>1, <3>2 DEF LockWithHolder, Inside
      <4>2. PICK d \in Conns : locked[<<q, d>>] > 0
        BY <4>1 DEF LockWithHolder
      <4>3. <<q, d>> \in Schedulers \X Conns /\ <<q, d>> # l
        BY <3>2
      <4> QED BY <2>3, <4>2, <4>3
    <3> QED BY <3>1, <3>2
  <2> HIDE DEF l
  <2> QED BY <2>1, <2>2, <2>4, <2>5 DEF LockWithHolder
<1>5. ASSUME NEW p \in Schedulers, UnlockBlock(p) PROVE LockWithHolder'
  <2> DEFINE l == <<p, block[p].conn>>
  <2>1. /\ block[p].step = "ran"
        /\ locked' = [locked EXCEPT ![l] = IF @ > 0 THEN @ - 1 ELSE 0]
        /\ block' = [block EXCEPT ![p] = OutOfBlock] /\ UNCHANGED lost
    BY <1>5 DEF UnlockBlock
  <2>2. /\ DOMAIN locked' = Schedulers \X Conns
        /\ \A m \in Schedulers \X Conns : locked'[m] \in Nat
        /\ \A m \in Schedulers \X Conns : locked'[m] > 0 => locked[m] > 0
        /\ \A m \in Schedulers \X Conns : m # l => locked'[m] = locked[m]
    <3> HIDE DEF l
    <3> QED BY <2>1 DEF LockWithHolder
  <2>3. ~lost => \A q \in Schedulers : Inside(q)' => \E d \in Conns : locked'[<<q, d>>] > 0
    <3> SUFFICES ASSUME ~lost, NEW q \in Schedulers, Inside(q)'
                 PROVE  \E d \in Conns : locked'[<<q, d>>] > 0
      OBVIOUS
    <3>1. q # p /\ Inside(q)
      BY <2>1 DEF LockWithHolder, Inside, OutOfBlock
    <3>2. PICK d \in Conns : locked[<<q, d>>] > 0
      BY <3>1 DEF LockWithHolder
    <3>3. <<q, d>> \in Schedulers \X Conns /\ <<q, d>> # l
      BY <3>1
    <3> QED BY <2>2, <3>2, <3>3
  <2> HIDE DEF l
  <2> QED BY <2>1, <2>2, <2>3 DEF LockWithHolder, OutOfBlock
<1>6. ASSUME NEW p \in Schedulers, NEW c \in Conns, CloseConnection(p, c) PROVE LockWithHolder'
  <2> DEFINE l == <<p, c>>
  <2>1. /\ locked' = [locked EXCEPT ![l] = 0] /\ lost' = (lost \/ Inside(p))
        /\ UNCHANGED block
    BY <1>6 DEF CloseConnection
  <2>2. /\ DOMAIN locked' = Schedulers \X Conns
        /\ \A m \in Schedulers \X Conns : locked'[m] \in Nat
        /\ \A m \in Schedulers \X Conns : locked'[m] > 0 => locked[m] > 0
        /\ \A m \in Schedulers \X Conns : m # l => locked'[m] = locked[m]
    <3> HIDE DEF l
    <3> QED BY <2>1 DEF LockWithHolder
  <2>3. ~lost' => \A q \in Schedulers : Inside(q)' => \E d \in Conns : locked'[<<q, d>>] > 0
    <3> SUFFICES ASSUME ~lost', NEW q \in Schedulers, Inside(q)'
                 PROVE  \E d \in Conns : locked'[<<q, d>>] > 0
      OBVIOUS
    <3>1. q # p /\ Inside(q) /\ ~lost
      BY <2>1 DEF Inside
    <3>2. PICK d \in Conns : locked[<<q, d>>] > 0
      BY <3>1 DEF LockWithHolder
    <3>3. <<q, d>> \in Schedulers \X Conns /\ <<q, d>> # l
      BY <3>1
    <3> QED BY <2>2, <3>2, <3>3
  <2> HIDE DEF l
  <2> QED BY <2>1, <2>2, <2>3 DEF LockWithHolder
<1>7. ASSUME NEW p \in Schedulers, ProcessDies(p) PROVE LockWithHolder'
  <2>1. /\ locked' = [l \in Schedulers \X Conns |-> IF l[1] = p THEN 0 ELSE locked[l]]
        /\ block' = [block EXCEPT ![p] = OutOfBlock] /\ UNCHANGED lost
    BY <1>7 DEF ProcessDies
  <2>2. /\ DOMAIN locked' = Schedulers \X Conns
        /\ \A m \in Schedulers \X Conns : locked'[m] \in Nat
        /\ \A m \in Schedulers \X Conns : locked'[m] > 0 => locked[m] > 0
        /\ \A m \in Schedulers \X Conns : m[1] # p => locked'[m] = locked[m]
    BY <2>1 DEF LockWithHolder
  <2>3. ~lost => \A q \in Schedulers : Inside(q)' => \E d \in Conns : locked'[<<q, d>>] > 0
    <3> SUFFICES ASSUME ~lost, NEW q \in Schedulers, Inside(q)'
                 PROVE  \E d \in Conns : locked'[<<q, d>>] > 0
      OBVIOUS
    <3>1. q # p /\ Inside(q)
      BY <2>1 DEF LockWithHolder, Inside, OutOfBlock
    <3>2. PICK d \in Conns : locked[<<q, d>>] > 0
      BY <3>1 DEF LockWithHolder
    <3>3. <<q, d>> \in Schedulers \X Conns /\ <<q, d>>[1] # p
      BY <3>1
    <3> QED BY <2>2, <3>2, <3>3
  <2>4. /\ DOMAIN block' = Schedulers
        /\ \A q \in Schedulers : DOMAIN block'[q] = {"step", "conn"}
        /\ \A q \in Schedulers : block'[q].step = "due" => block'[q].conn \in Conns
    BY <2>1 DEF LockWithHolder, OutOfBlock
  <2>5. \A l, m \in Schedulers \X Conns : locked'[l] > 0 /\ locked'[m] > 0 => l = m
    BY <2>2 DEF LockWithHolder
  <2> QED BY <2>1, <2>2, <2>3, <2>4, <2>5 DEF LockWithHolder
<1> HIDE DEF LockWithHolder
<1>8. CASE LocksNext
  BY <1>2, <1>3, <1>4, <1>5, <1>6, <1>7, <1>8, Zenon DEF LocksNext
<1> QED BY <1>2, <1>8

(* Two schedulers run a due backup at once only if the pool closed the      *)
(* connection that had the lock (core/locks.py, backup/scheduler.py).       *)
THEOREM LoneUnlessLost == LocksSpec => []OverlapNeedsALostConnection
<1>1. LocksInit => LockWithHolder
  BY DEF LocksInit, LockWithHolder, OutOfBlock, Inside
<1>2. LockWithHolder => OverlapNeedsALostConnection
  <2> SUFFICES ASSUME LockWithHolder, NEW p \in Schedulers, NEW q \in Schedulers, p # q,
                      Inside(p), Inside(q), ~lost
               PROVE  FALSE
    BY DEF OverlapNeedsALostConnection
  <2>1. PICK c \in Conns, d \in Conns : locked[<<p, c>>] > 0 /\ locked[<<q, d>>] > 0
    BY DEF LockWithHolder
  <2>2. <<p, c>> \in Schedulers \X Conns /\ <<q, d>> \in Schedulers \X Conns
        /\ <<p, c>> # <<q, d>>
    OBVIOUS
  <2> QED BY <2>1, <2>2 DEF LockWithHolder
<1> QED BY <1>1, <1>2, LockWithHolderStep, PTL DEF LocksSpec

-----------------------------------------------------------------------------
(***************************************************************************)
(* Part four: the namespaced cache.  A version is never above the number of*)
(* changes begun; what was read before a counted bump and is not late was  *)
(* named under an earlier version; and so a value kept under the present   *)
(* one is of all that was announced.                                       *)
(***************************************************************************)
Bumping == {w \in Writers : writing[w] = "bump"}
Committing == {w \in Writers : writing[w] = "commit"}
Counted ==
    /\ list \in Nat /\ version \in Nat /\ announced \in Nat /\ announced <= list
    /\ DOMAIN writing = Writers
    /\ list + Cardinality(Committing) <= MaxListChanges
    /\ version + Cardinality(Bumping) <= list + Cardinality(Committing)
(* A value that is not late, under the number it was or will be stored by.  *)
Current(n, value) == n \in Nat /\ value \in Nat /\ n <= version /\ (n = version => value >= announced)
CacheInv ==
    /\ Counted
    /\ DOMAIN cached = Numbers /\ DOMAIN visits = Visitors
    /\ \A v \in Visitors : DOMAIN visits[v] = DOMAIN Away
    /\ \A v \in Visitors : visits[v].step = "name" /\ ~visits[v].late =>
           visits[v].list \in Nat /\ visits[v].list >= announced
    /\ \A v \in Visitors : visits[v].step = "put" /\ ~visits[v].late =>
           Current(visits[v].version, visits[v].list)
    /\ \A n \in Numbers : cached[n].kept /\ ~cached[n].late => Current(n, cached[n].list)

LEMMA WritersCounted ==
    /\ IsFiniteSet(Bumping) /\ Cardinality(Bumping) \in Nat
    /\ IsFiniteSet(Committing) /\ Cardinality(Committing) \in Nat
<1>1. Bumping \subseteq Writers /\ Committing \subseteq Writers /\ IsFiniteSet(Writers)
  BY SharedCacheAssumption DEF Bumping, Committing
<1> QED BY <1>1, FS_Subset, FS_CardinalityType

(* A writer that has not begun joins those that are on their way.           *)
LEMMA WriterStarts ==
    ASSUME DOMAIN writing = Writers, NEW w \in Writers, NEW step \in {"bump", "commit"},
           writing[w] = "none", writing' = [writing EXCEPT ![w] = step]
    PROVE  /\ Cardinality(Bumping)' =
                  IF step = "bump" THEN Cardinality(Bumping) + 1 ELSE Cardinality(Bumping)
           /\ Cardinality(Committing)' =
                  IF step = "commit" THEN Cardinality(Committing) + 1 ELSE Cardinality(Committing)
           /\ DOMAIN writing' = Writers
<1>1. w \notin Bumping /\ w \notin Committing
  BY DEF Bumping, Committing
<1>2. CASE step = "bump"
  <2>1. Bumping' = Bumping \cup {w} /\ Committing' = Committing
    BY <1>2 DEF Bumping, Committing
  <2> QED BY <1>1, <1>2, <2>1, WritersCounted, FS_AddElement
<1>3. CASE step = "commit"
  <2>1. Committing' = Committing \cup {w} /\ Bumping' = Bumping
    BY <1>3 DEF Bumping, Committing
  <2> QED BY <1>1, <1>3, <2>1, WritersCounted, FS_AddElement
<1> QED BY <1>2, <1>3
(* ... and leaves them.                                                     *)
LEMMA WriterEnds ==
    ASSUME DOMAIN writing = Writers, NEW w \in Writers, writing[w] \in {"bump", "commit"},
           writing' = [writing EXCEPT ![w] = "none"]
    PROVE  /\ Cardinality(Bumping)' =
                  IF writing[w] = "bump" THEN Cardinality(Bumping) - 1 ELSE Cardinality(Bumping)
           /\ Cardinality(Committing)' =
                  IF writing[w] = "commit" THEN Cardinality(Committing) - 1
                  ELSE Cardinality(Committing)
           /\ DOMAIN writing' = Writers
<1>2. CASE writing[w] = "bump"
  <2>1. Bumping' = Bumping \ {w} /\ Committing' = Committing /\ w \in Bumping
    BY <1>2 DEF Bumping, Committing
  <2> QED BY <1>2, <2>1, WritersCounted, FS_RemoveElement
<1>3. CASE writing[w] = "commit"
  <2>1. Committing' = Committing \ {w} /\ Bumping' = Bumping /\ w \in Committing
    BY <1>3 DEF Bumping, Committing
  <2> QED BY <1>3, <2>1, WritersCounted, FS_RemoveElement
<1> QED BY <1>2, <1>3

(* Nothing but the cache's own contents depends on the visitors.            *)
LEMMA CountUpKeeps ==
    ASSUME CacheInv, CountUp, Counted', UNCHANGED <<cached, list>>
    PROVE  CacheInv'
<1>1. /\ version' = (IF answers THEN version + 1 ELSE version)
      /\ announced' = (IF answers THEN list ELSE announced)
      /\ DOMAIN visits' = Visitors
      /\ \A v \in Visitors : /\ DOMAIN visits'[v] = DOMAIN Away
                             /\ visits'[v].step = visits[v].step
                             /\ visits'[v].list = visits[v].list
                             /\ visits'[v].version = visits[v].version
                             /\ visits'[v].late <=> (visits[v].late \/
                                                     (answers /\ visits[v].step = "name"))
  BY DEF CountUp, CacheInv, Away
<1>2. \A n, value : Current(n, value) => Current(n, value)'
  BY <1>1 DEF Current, CacheInv, Counted
<1>3. ASSUME NEW v \in Visitors, visits'[v].step = "name", ~visits'[v].late
      PROVE  visits'[v].list \in Nat /\ visits'[v].list >= announced'
  BY <1>1, <1>3 DEF CacheInv
<1>4. ASSUME NEW v \in Visitors, visits'[v].step = "put", ~visits'[v].late
      PROVE  Current(visits[v].version, visits[v].list)'
  <2>1. Current(visits[v].version, visits[v].list)
    BY <1>1, <1>4 DEF CacheInv
  <2> QED BY <1>1, <2>1 DEF Current, CacheInv, Counted
<1>5. ASSUME NEW n \in Numbers, cached[n].kept, ~cached[n].late
      PROVE  Current(n, cached[n].list)'
  <2>1. Current(n, cached[n].list)
    BY <1>5 DEF CacheInv
  <2> QED BY <1>1, <2>1 DEF Current, CacheInv, Counted
<1> QED BY <1>1, <1>3, <1>4, <1>5 DEF CacheInv

LEMMA CacheInvStep ==
    ASSUME CacheInv, [CacheNext]_cacheVars
    PROVE  CacheInv'
<1> USE WritersCounted
<1>0. /\ list \in Nat /\ version \in Nat /\ announced \in Nat /\ announced <= list
      /\ DOMAIN writing = Writers
  BY DEF CacheInv, Counted
<1>1. ASSUME UNCHANGED <<list, version, announced, writing>> PROVE Counted'
  BY <1>1 DEF CacheInv, Counted, Bumping, Committing
<1>2. ASSUME NEW v \in Visitors, ReadList(v) PROVE CacheInv'
  <2>1. /\ visits' = [visits EXCEPT ![v] = [Away EXCEPT !.step = "name", !.list = list]]
        /\ UNCHANGED <<list, version, announced, writing, cached>>
    BY <1>2 DEF ReadList
  <2>2. /\ DOMAIN visits' = Visitors /\ DOMAIN visits'[v] = DOMAIN Away
        /\ visits'[v].step = "name" /\ visits'[v].list = list
        /\ \A u \in Visitors \ {v} : visits'[u] = visits[u]
    BY <2>1 DEF CacheInv, Away
  <2> QED BY <1>0, <1>1, <2>1, <2>2 DEF CacheInv, Current
<1>3. ASSUME NEW v \in Visitors, NameKey(v) PROVE CacheInv'
  <2>1. /\ visits[v].step = "name"
        /\ visits' = [visits EXCEPT ![v].step = "put", ![v].version = SafeVersion]
        /\ UNCHANGED <<list, version, announced, writing, cached>>
    BY <1>3 DEF NameKey
  <2>2. /\ DOMAIN visits' = Visitors /\ DOMAIN visits'[v] = DOMAIN Away
        /\ visits'[v].step = "put" /\ visits'[v].version = SafeVersion
        /\ visits'[v].list = visits[v].list /\ visits'[v].late = visits[v].late
        /\ \A u \in Visitors \ {v} : visits'[u] = visits[u]
    BY <2>1 DEF CacheInv, Away
  <2>3. SafeVersion \in Nat /\ SafeVersion <= version
    BY <1>0 DEF SafeVersion
  <2> QED BY <1>0, <1>1, <2>1, <2>2, <2>3 DEF CacheInv, Current
<1>4. ASSUME NEW v \in Visitors, Put(v) PROVE CacheInv'
  <2>1. /\ visits[v].step = "put" /\ visits' = [visits EXCEPT ![v] = Away]
        /\ UNCHANGED <<list, version, announced, writing>>
        /\ cached' = IF answers
                   THEN [cached EXCEPT ![visits[v].version] =
                           [kept |-> TRUE, list |-> visits[v].list, late |-> visits[v].late]]
                   ELSE cached
    BY <1>4 DEF Put
  <2>2. /\ DOMAIN visits' = Visitors /\ visits'[v] = Away /\ Away.step = "away"
        /\ \A u \in Visitors \ {v} : visits'[u] = visits[u]
    BY <2>1 DEF CacheInv, Away
  <2>3. DOMAIN cached' = Numbers
    BY <2>1 DEF CacheInv
  <2>4. ASSUME NEW n \in Numbers, cached'[n].kept, ~cached'[n].late
        PROVE  Current(n, cached'[n].list)
    BY <2>1, <2>4 DEF CacheInv
  <2> QED BY <1>1, <2>1, <2>2, <2>3, <2>4 DEF CacheInv, Current
<1>5. ASSUME NEW w \in Writers, ClerkCommits(w) PROVE CacheInv'
  <2>1. /\ writing[w] = "none" /\ writing' = [writing EXCEPT ![w] = "bump"]
        /\ list + Cardinality(Committing) < MaxListChanges /\ list' = list + 1
        /\ UNCHANGED <<version, announced, cached, visits>>
    BY <1>5 DEF ClerkCommits, Starts, CommitList, Committing
  <2>2. /\ Cardinality(Bumping)' = Cardinality(Bumping) + 1
        /\ Cardinality(Committing)' = Cardinality(Committing) /\ DOMAIN writing' = Writers
    BY <1>0, <2>1, WriterStarts
  <2>3. Counted'
    BY <1>0, <2>1, <2>2, SharedCacheAssumption DEF CacheInv, Counted
  <2> QED BY <2>1, <2>3 DEF CacheInv, Current
<1>6. ASSUME NEW w \in Writers, ClerkBumps(w) PROVE CacheInv'
  <2>1. /\ writing[w] = "bump" /\ writing' = [writing EXCEPT ![w] = "none"] /\ CountUp
        /\ UNCHANGED <<list, cached>>
        /\ version' = (IF answers THEN version + 1 ELSE version)
        /\ announced' = IF answers THEN list ELSE announced
    BY <1>6 DEF ClerkBumps, CountUp
  <2>2. /\ Cardinality(Bumping)' = Cardinality(Bumping) - 1
        /\ Cardinality(Committing)' = Cardinality(Committing) /\ DOMAIN writing' = Writers
    BY <1>0, <2>1, WriterEnds
  <2>3. Counted'
    BY <1>0, <2>1, <2>2, SharedCacheAssumption DEF CacheInv, Counted
  <2> QED BY <2>1, <2>3, CountUpKeeps
<1>7. ASSUME NEW w \in Writers, ImportBumps(w) PROVE CacheInv'
  <2>1. /\ writing[w] = "none" /\ writing' = [writing EXCEPT ![w] = "commit"] /\ CountUp
        /\ list + Cardinality(Committing) < MaxListChanges
        /\ UNCHANGED <<list, cached>>
        /\ version' = (IF answers THEN version + 1 ELSE version)
        /\ announced' = IF answers THEN list ELSE announced
    BY <1>7 DEF ImportBumps, CountUp, Starts, Committing
  <2>2. /\ Cardinality(Committing)' = Cardinality(Committing) + 1
        /\ Cardinality(Bumping)' = Cardinality(Bumping) /\ DOMAIN writing' = Writers
    BY <1>0, <2>1, WriterStarts
  <2>3. Counted'
    BY <1>0, <2>1, <2>2, SharedCacheAssumption DEF CacheInv, Counted
  <2> QED BY <2>1, <2>3, CountUpKeeps
<1>8. ASSUME NEW w \in Writers, ImportCommits(w) PROVE CacheInv'
  <2>1. /\ writing[w] = "commit" /\ writing' = [writing EXCEPT ![w] = "none"]
        /\ list' = list + 1
        /\ UNCHANGED <<version, announced, cached, visits>>
    BY <1>8 DEF ImportCommits, CommitList
  <2>2. /\ Cardinality(Committing)' = Cardinality(Committing) - 1
        /\ Cardinality(Bumping)' = Cardinality(Bumping) /\ DOMAIN writing' = Writers
    BY <1>0, <2>1, WriterEnds
  <2>3. Counted'
    BY <1>0, <2>1, <2>2, SharedCacheAssumption DEF CacheInv, Counted
  <2> QED BY <2>1, <2>3 DEF CacheInv, Current
<1>9. ASSUME NEW n \in Numbers, Expire(n) PROVE CacheInv'
  <2>1. /\ cached' = [cached EXCEPT ![n] = Nothing]
        /\ UNCHANGED <<list, version, announced, writing, visits>>
    BY <1>9 DEF Expire
  <2>2. DOMAIN cached' = Numbers /\ \A m \in Numbers : cached'[m].kept => cached'[m] = cached[m]
    BY <2>1 DEF CacheInv, Nothing
  <2> QED BY <1>1, <2>1, <2>2 DEF CacheInv, Current
<1>10. ASSUME UNCHANGED <<list, version, announced, writing, visits, cached>> PROVE CacheInv'
  BY <1>1, <1>10 DEF CacheInv, Current
<1>11. CASE CacheGoes \/ UNCHANGED cacheVars
  BY <1>10, <1>11 DEF CacheGoes, cacheVars
<1>12. CASE CacheReturns
  <2>1. CASE UNCHANGED <<version, cached, visits, announced>>
    BY <1>10, <1>12, <2>1 DEF CacheReturns
  <2>2. CASE /\ version' = 0 /\ announced' = 0
             /\ cached' = [n \in Numbers |-> Nothing]
             /\ visits' = [v \in Visitors |-> [visits[v] EXCEPT !.late = visits[v].step # "away"]]
    <3>1. UNCHANGED <<list, writing>>
      BY <1>12 DEF CacheReturns
    <3>2. Cardinality(Bumping)' = Cardinality(Bumping)
          /\ Cardinality(Committing)' = Cardinality(Committing)
      BY <3>1 DEF Bumping, Committing
    <3>3. Counted'
      BY <1>0, <2>2, <3>1, <3>2 DEF CacheInv, Counted
    <3>4. \A v \in Visitors : /\ DOMAIN visits'[v] = DOMAIN Away
                              /\ visits'[v].step = visits[v].step
                              /\ visits'[v].late <=> visits[v].step # "away"
      BY <2>2 DEF CacheInv, Away
    <3>5. DOMAIN cached' = Numbers /\ DOMAIN visits' = Visitors
          /\ \A n \in Numbers : ~cached'[n].kept
      BY <2>2 DEF Nothing
    <3> QED BY <3>3, <3>4, <3>5 DEF CacheInv
  <2> QED BY <1>12, <2>1, <2>2 DEF CacheReturns
<1> HIDE DEF CacheInv
<1>13. CASE CacheNext
  <2>1. CASE \E v \in Visitors : Visits(v)
    BY <1>2, <1>3, <1>4, <2>1 DEF Visits
  <2>2. CASE \E w \in Writers : Writes(w)
    BY <1>5, <1>6, <1>7, <1>8, <2>2 DEF Writes
  <2> QED BY <1>9, <1>11, <1>12, <1>13, <2>1, <2>2 DEF CacheNext
<1> QED BY <1>11, <1>13

(* What a lookup finds has every announced change, but for values that were *)
(* stored late (core/cache.py bump, set_json; list_reference).              *)
THEOREM FoundListsAreCurrent == CacheSpec => []CachedListsAreCurrent
<1>1. CacheInit => CacheInv
  <2> SUFFICES ASSUME CacheInit PROVE CacheInv
    OBVIOUS
  <2>1. Bumping = {} /\ Committing = {}
    BY DEF CacheInit, Bumping, Committing
  <2>2. Cardinality({}) = 0
    BY FS_EmptySet
  <2>3. Counted
    BY <2>1, <2>2, SharedCacheAssumption DEF CacheInit, Counted
  <2> QED BY <2>3 DEF CacheInit, CacheInv, Away, Nothing
<1>2. CacheInv => CachedListsAreCurrent
  <2> SUFFICES ASSUME CacheInv, cached[version].kept, ~cached[version].late
               PROVE  cached[version].list >= announced
    BY DEF CachedListsAreCurrent
  <2>1. version \in Numbers
    BY WritersCounted, SharedCacheAssumption DEF CacheInv, Counted, Numbers
  <2> QED BY <2>1 DEF CacheInv, Current
<1> QED BY <1>1, <1>2, CacheInvStep, PTL DEF CacheSpec

-----------------------------------------------------------------------------
(***************************************************************************)
(* Part five: the backups.  The sheet has only what is stored, a run's     *)
(* batch is stored, and what the run owes is in the sheet or in its batch  *)
(* still; as long as no two runs overlap, what a run has read of the sheet *)
(* and of the state is what they have, and the known record is the newest. *)
(***************************************************************************)
Leads(t) ==
    /\ known[t] = NoHash => \A h \in Hashes : <<t, h>> \notin records
    /\ known[t] # NoHash =>
          /\ <<t, known[t]>> \in records
          /\ \A h \in Hashes \ {known[t]} : <<t, h>> \in records =>
                 recordVersion[<<t, h>>] < recordVersion[<<t, known[t]>>]
Filed ==
    /\ contents \in [Names -> Hashes] /\ known \in [Names -> Hashes \cup {NoHash}]
    /\ records \subseteq RowVersions /\ synced \subseteq RowVersions
    /\ recordVersion \in [RowVersions -> Nat] /\ sheet \in [RowVersions -> Nat]
    /\ echoed \in [RowVersions -> Nat]
    /\ \A b \in RowVersions : sheet[b] > 0 => b \in records
    /\ \A b \in synced : sheet[b] > 0
    /\ ~overlapped => \A b \in RowVersions : sheet[b] <= 1 + echoed[b]
    /\ ~overlapped => \A t \in Names : Leads(t)
Running(j) ==
    /\ DOMAIN j = DOMAIN NoJob /\ j.batch \subseteq records
    /\ j.step # "none" => j.status # "success"
    /\ j.step \in {"table", "store"} => j.batch = {}
    /\ j.step = "store" => /\ j.table \in DOMAIN Tables /\ j.row \in Hashes
                           /\ j.was \in Hashes \cup {NoHash}
                           /\ ~overlapped => j.was = known[Tables[j.table]]
    /\ j.step \in {"append", "mark"} =>
           /\ j.title \in Names /\ j.there \subseteq Hashes
           /\ \A h \in j.there : sheet[<<j.title, h>>] > 0
    /\ j.step = "append" /\ ~overlapped =>
           \A h \in Hashes : sheet[<<j.title, h>>] > 0 =>
               h \in j.there \/ (j.landed /\ <<j.title, h>> \in j.batch)
    /\ j.step = "mark" => \A b \in j.batch : b[1] = j.title => sheet[b] > 0
    /\ j.step = "flush" => j.owed \subseteq records
    /\ j.step \notin {"none", "flush"} /\ ~j.failed =>
           \A b \in j.owed : sheet[b] > 0 \/ b \in j.batch
    /\ j.status = "success" => \A b \in j.owed : sheet[b] > 0
    /\ j.owed \subseteq RowVersions
Alone == ~overlapped => \A r, s \in Replicas :
             backup[r].step # "none" /\ backup[s].step # "none" => r = s
BackupsInv ==
    /\ Filed /\ Alone
    /\ DOMAIN backup = Replicas /\ \A r \in Replicas : Running(backup[r])
    /\ DOMAIN restore = {"table", "row"} /\ restore.row \in Hashes \cup {NoHash}

LEMMA VersionParts ==
    /\ \A b \in RowVersions : b[1] \in Names /\ b[2] \in Hashes /\ b = <<b[1], b[2]>>
    /\ \A t \in Names, h \in Hashes : <<t, h>> \in RowVersions
    /\ \A i \in DOMAIN Tables : Tables[i] \in Names
BY DEF RowVersions, Names

(* A step of run r: the others, idle if no runs overlap, keep what they had. *)
LEMMA RunGoesOn ==
    ASSUME BackupsInv, NEW r \in Replicas, NEW j, Job(r, j), Running(j)', Filed',
           records \subseteq records', \A b \in RowVersions : sheet'[b] >= sheet[b],
           overlapped => overlapped',
           UNCHANGED <<known, sheet>> \/ backup[r].step # "none",
           backup[r].step = "none" => overlapped' \/ j.step = "none" \/
               \A s \in Replicas \ {r} : backup[s].step = "none",
           UNCHANGED restore
    PROVE  BackupsInv'
<1>1. DOMAIN backup' = Replicas /\ backup'[r] = j
      /\ \A s \in Replicas \ {r} : backup'[s] = backup[s]
  BY DEF Job, BackupsInv
<1>2. Alone'
  BY <1>1 DEF Alone, BackupsInv
<1>3. ASSUME NEW s \in Replicas, s # r PROVE Running(backup[s])'
  <2>1. PICK k : k = backup[s]
    OBVIOUS
  <2>2. Running(k)
    BY <2>1 DEF BackupsInv
  <2>3. overlapped' \/ k.step = "none" \/ UNCHANGED <<known, sheet>>
    BY <1>3, <2>1 DEF BackupsInv, Alone
  <2>4. k.batch \subseteq RowVersions /\ k.owed \subseteq RowVersions
    BY <2>2 DEF Running, BackupsInv, Filed
  <2>5. \A b \in RowVersions : sheet[b] \in Nat /\ sheet'[b] \in Nat
    BY DEF BackupsInv, Filed
  <2>6. \A b \in RowVersions : sheet[b] > 0 => sheet'[b] > 0
    BY <2>5
  <2>7. k.step \in {"append", "mark"} => \A h \in k.there : sheet'[<<k.title, h>>] > 0
    BY <2>2, <2>6, VersionParts DEF Running
  <2> QED BY <1>1, <1>3, <2>1, <2>2, <2>3, <2>4, <2>6, <2>7 DEF Running
<1>4. \A s \in Replicas : Running(backup[s])'
  <2>1. Running(backup[r])'
    BY <1>1 DEF Running
  <2> HIDE DEF Running
  <2> QED BY <1>3, <2>1
<1> HIDE DEF Running, Filed, Alone
<1> QED BY <1>1, <1>2, <1>4 DEF BackupsInv

(* Steps that change neither what is stored nor the sheet.                  *)
LEMMA FiledStays ==
    ASSUME Filed, UNCHANGED <<contents, known, records, recordVersion, synced, sheet, echoed>>,
           overlapped => overlapped'
    PROVE  Filed'
BY DEF Filed, Leads
LEMMA RunMoves ==
    ASSUME BackupsInv, NEW r \in Replicas, NEW j, Job(r, j), Running(j),
           backup[r].step # "none",
           UNCHANGED <<contents, known, records, recordVersion, synced, sheet, echoed, restore, overlapped>>
    PROVE  BackupsInv'
<1>1. Filed'
  BY FiledStays DEF BackupsInv
<1>2. Running(j)'
  BY DEF Running
<1>3. records \subseteq records' /\ \A b \in RowVersions : sheet'[b] >= sheet[b]
  BY DEF BackupsInv, Filed
<1> HIDE DEF Running
<1> QED BY <1>1, <1>2, <1>3, RunGoesOn

(* What is left of a batch, and what is owed then.                          *)
LEMMA RestRuns ==
    ASSUME BackupsInv, NEW r \in Replicas, NEW batch, batch \subseteq records,
           backup[r].step # "none", NEW j, j = Rest(r, batch),
           backup[r].failed \/ \A b \in backup[r].owed : sheet[b] > 0 \/ b \in batch
    PROVE  Running(j)
<1>1. Running(backup[r])
  BY DEF BackupsInv
<1>2. /\ DOMAIN j = DOMAIN NoJob /\ j.batch = batch
      /\ j.step = (IF batch = {} THEN "table" ELSE "sync")
      /\ j.status = backup[r].status /\ j.owed = backup[r].owed /\ j.failed = backup[r].failed
  BY <1>1 DEF Rest, Running, NoJob
<1> QED BY <1>1, <1>2 DEF Running

(* Rows that the sheet was read not to have are appended: a first time, or  *)
(* again by a call that is repeated.                                        *)
LEMMA SheetGrows ==
    ASSUME BackupsInv, NEW r \in Replicas, backup[r].step = "append",
           sheet' = Appended(r), echoed' = Echoed(r),
           UNCHANGED <<contents, known, records, recordVersion, synced, overlapped>>
    PROVE  /\ Filed' /\ \A b \in RowVersions : sheet'[b] >= sheet[b]
           /\ \A b \in RowVersions : sheet[b] > 0 => sheet'[b] > 0
           /\ \A b \in backup[r].batch : b[1] = backup[r].title => sheet'[b] > 0
<1>1. PICK j : j = backup[r]
  OBVIOUS
<1>2. Running(j) /\ j.batch \subseteq RowVersions /\ j.step = "append"
  BY <1>1 DEF BackupsInv, Running, Filed
<1>3. \A b \in RowVersions : sheet[b] \in Nat
  BY DEF BackupsInv, Filed
<1>4. /\ DOMAIN sheet' = RowVersions /\ sheet' = [b \in RowVersions |-> sheet'[b]]
      /\ \A b \in RowVersions :
             sheet'[b] = IF b \in j.batch /\ b[1] = j.title /\ b[2] \notin j.there
                           THEN sheet[b] + 1 ELSE sheet[b]
  BY <1>1, <1>2 DEF Appended, Missing, OfTitle
<1>4a. /\ echoed' \in [RowVersions -> Nat]
       /\ \A b \in RowVersions :
             echoed'[b] = IF b \in j.batch /\ b[1] = j.title /\ b[2] \notin j.there /\ j.landed
                            THEN echoed[b] + 1 ELSE echoed[b]
       /\ \A b \in RowVersions : echoed[b] \in Nat
  BY <1>1, <1>2 DEF Echoed, Missing, OfTitle, BackupsInv, Filed
<1>5. \A b \in RowVersions : sheet'[b] \in Nat /\ sheet'[b] >= sheet[b]
  BY <1>3, <1>4
<1>6. \A b \in RowVersions : sheet'[b] > 0 => b \in records
  BY <1>2, <1>4 DEF BackupsInv, Filed, Running
<1>7. ASSUME ~overlapped, NEW b \in RowVersions PROVE sheet'[b] <= 1 + echoed'[b]
  <2>1. CASE b \in j.batch /\ b[1] = j.title /\ b[2] \notin j.there
    <3>1. b = <<j.title, b[2]>> /\ b[2] \in Hashes
      BY <2>1, VersionParts
    <3>2. CASE j.landed
      <4>1. sheet[b] <= 1 + echoed[b]
        BY <1>7 DEF BackupsInv, Filed
      <4> QED BY <1>3, <1>4, <1>4a, <2>1, <3>2, <4>1
    <3>3. CASE ~j.landed
      <4>1. sheet[b] = 0
        BY <1>2, <1>3, <1>7, <2>1, <3>1, <3>3 DEF Running, BackupsInv
      <4> QED BY <1>4, <1>4a, <2>1, <4>1
    <3> QED BY <3>2, <3>3
  <2>2. CASE ~(b \in j.batch /\ b[1] = j.title /\ b[2] \notin j.there)
    <3>1. sheet[b] <= 1 + echoed[b]
      BY <1>7 DEF BackupsInv, Filed
    <3> QED BY <1>4, <1>4a, <2>2, <3>1
  <2> QED BY <2>1, <2>2
<1>8. ASSUME NEW b \in j.batch, b[1] = j.title PROVE sheet'[b] > 0
  <2>1. b \in RowVersions /\ b = <<j.title, b[2]>>
    BY <1>2, <1>8, VersionParts
  <2>2. CASE b[2] \in j.there
    BY <1>2, <1>3, <1>4, <2>1, <2>2 DEF Running
  <2>3. CASE b[2] \notin j.there
    BY <1>3, <1>4, <1>8, <2>1, <2>3
  <2> QED BY <2>2, <2>3
<1>9. \A t \in Names : Leads(t) => Leads(t)'
  BY DEF Leads
<1>10. sheet' \in [RowVersions -> Nat]
  BY <1>4, <1>5
<1>11. \A b \in synced : sheet'[b] > 0
  BY <1>3, <1>5 DEF BackupsInv, Filed
<1>12. Filed'
  BY <1>4a, <1>6, <1>7, <1>9, <1>10, <1>11 DEF BackupsInv, Filed
<1> QED BY <1>1, <1>3, <1>5, <1>8, <1>12

LEMMA SyncSteps ==
    ASSUME BackupsInv, NEW r \in Replicas,
           FlushUnsynced(r) \/ ReadSheet(r) \/ AppendRows(r) \/ MarkSynced(r) \/ TryAgain(r)
           \/ CallFails(r)
    PROVE  BackupsInv'
<1>0. Running(backup[r]) /\ backup[r].batch \subseteq RowVersions
  BY DEF BackupsInv, Running, Filed
<1>1. CASE FlushUnsynced(r)
  <2>1. PICK j : j = Rest(r, records \ synced)
    OBVIOUS
  <2>2. /\ backup[r].step = "flush" /\ Job(r, j)
        /\ UNCHANGED <<contents, known, records, recordVersion, synced, sheet, echoed, restore, overlapped>>
    BY <1>1, <2>1 DEF FlushUnsynced, stored
  <2>3. \A b \in backup[r].owed : sheet[b] > 0 \/ b \in records \ synced
    BY <1>0, <2>2 DEF Running, BackupsInv, Filed
  <2>4. Running(j)
    BY <2>1, <2>2, <2>3, RestRuns
  <2> HIDE DEF Running
  <2> QED BY <2>2, <2>4, RunMoves
<1>2. CASE ReadSheet(r)
  <2>1. PICK b \in backup[r].batch :
          Job(r, [backup[r] EXCEPT !.step = "append", !.title = b[1],
                                   !.there = ExistingHashes(b[1])])
    BY <1>2 DEF ReadSheet
  <2>2. PICK j : j = [backup[r] EXCEPT !.step = "append", !.title = b[1],
                                       !.there = ExistingHashes(b[1])]
    OBVIOUS
  <2>3. /\ backup[r].step = "sync" /\ Job(r, j)
        /\ UNCHANGED <<contents, known, records, recordVersion, synced, sheet, echoed, restore, overlapped>>
    BY <1>2, <2>1, <2>2 DEF ReadSheet, stored
  <2>4. /\ DOMAIN j = DOMAIN NoJob /\ j.step = "append" /\ j.title = b[1] /\ b[1] \in Names
        /\ j.there = {h \in Hashes : sheet[<<b[1], h>>] > 0}
        /\ j.batch = backup[r].batch /\ j.owed = backup[r].owed
        /\ j.status = backup[r].status /\ j.failed = backup[r].failed
    BY <1>0, <2>2, VersionParts DEF Running, NoJob, ExistingHashes
  <2>5. Running(j)
    BY <1>0, <2>3, <2>4 DEF Running
  <2> HIDE DEF Running
  <2> QED BY <2>3, <2>5, RunMoves
<1>3. CASE AppendRows(r)
  <2>1. PICK j : j = [backup[r] EXCEPT !.step = "mark"]
    OBVIOUS
  <2>2. /\ backup[r].step = "append" /\ Job(r, j) /\ sheet' = Appended(r) /\ echoed' = Echoed(r)
        /\ UNCHANGED <<contents, known, records, recordVersion, synced, restore, overlapped>>
    BY <1>3, <2>1 DEF AppendRows, Arrive, stored
  <2>3. /\ DOMAIN j = DOMAIN NoJob /\ j.step = "mark" /\ j.title = backup[r].title
        /\ j.batch = backup[r].batch /\ j.owed = backup[r].owed /\ j.there = backup[r].there
        /\ j.status = backup[r].status /\ j.failed = backup[r].failed
    BY <1>0, <2>1 DEF Running, NoJob
  <2>4. /\ Filed' /\ \A b \in RowVersions : sheet'[b] >= sheet[b]
        /\ \A b \in RowVersions : sheet[b] > 0 => sheet'[b] > 0
        /\ \A b \in backup[r].batch : b[1] = backup[r].title => sheet'[b] > 0
    BY <2>2, SheetGrows
  <2>5. Running(j)'
    BY <1>0, <2>2, <2>3, <2>4, VersionParts DEF Running
  <2>6. records \subseteq records'
    BY <2>2
  <2> HIDE DEF Running
  <2> QED BY <2>2, <2>4, <2>5, <2>6, RunGoesOn
<1>4. CASE MarkSynced(r)
  <2>0. PICK rest : rest = backup[r].batch \ OfTitle(r)
    OBVIOUS
  <2>1. PICK j : j = Rest(r, rest)
    OBVIOUS
  <2>2. /\ backup[r].step = "mark" /\ Job(r, j) /\ synced' = synced \cup OfTitle(r)
        /\ UNCHANGED <<contents, known, records, recordVersion, sheet, echoed, restore, overlapped>>
    BY <1>4, <2>0, <2>1 DEF MarkSynced, stored
  <2>3. /\ rest \subseteq records
        /\ \A b \in backup[r].batch : b \in rest \/ sheet[b] > 0
        /\ OfTitle(r) \subseteq RowVersions /\ \A b \in OfTitle(r) : sheet[b] > 0
    BY <1>0, <2>0, <2>2 DEF Running, OfTitle
  <2>4. Running(j)
    BY <1>0, <2>1, <2>2, <2>3, RestRuns DEF Running
  <2>5. Running(j)'
    BY <2>2, <2>4 DEF Running
  <2>6. Filed'
    BY <2>2, <2>3 DEF BackupsInv, Filed, Leads
  <2>7. records \subseteq records' /\ \A b \in RowVersions : sheet'[b] >= sheet[b]
    BY <2>2 DEF BackupsInv, Filed
  <2> HIDE DEF Running
  <2> QED BY <2>2, <2>5, <2>6, <2>7, RunGoesOn
<1>5. CASE CallFails(r)
  <2>0. PICK rest : rest = backup[r].batch \ OfTitle(r)
    OBVIOUS
  <2>1. PICK j : j = [Rest(r, rest) EXCEPT !.failed = TRUE]
    OBVIOUS
  <2>2. /\ backup[r].step = "append" /\ Job(r, j)
        /\ (sheet' = Appended(r) /\ echoed' = Echoed(r)) \/ UNCHANGED <<sheet, echoed>>
        /\ UNCHANGED <<contents, known, records, recordVersion, synced, restore, overlapped>>
    BY <1>5, <2>0, <2>1 DEF CallFails, Arrive, GivesUp, stored
  <2>3. /\ DOMAIN j = DOMAIN NoJob /\ j.batch = rest
        /\ j.step = (IF rest = {} THEN "table" ELSE "sync")
        /\ j.status = backup[r].status /\ j.owed = backup[r].owed /\ j.failed = TRUE
    BY <1>0, <2>1 DEF Rest, Running, NoJob
  <2>4. rest \subseteq records
    BY <1>0, <2>0 DEF Running
  <2>5. Running(j)'
    BY <1>0, <2>2, <2>3, <2>4 DEF Running
  <2>6. Filed' /\ \A b \in RowVersions : sheet'[b] >= sheet[b]
    <3>1. CASE sheet' = Appended(r) /\ echoed' = Echoed(r)
      BY <2>2, <3>1, SheetGrows
    <3>2. CASE UNCHANGED <<sheet, echoed>>
      BY <2>2, <3>2, FiledStays DEF BackupsInv, Filed
    <3> QED BY <2>2, <3>1, <3>2
  <2>7. records \subseteq records'
    BY <2>2
  <2> HIDE DEF Running
  <2> QED BY <2>2, <2>5, <2>6, <2>7, RunGoesOn
<1>6. CASE TryAgain(r)
  <2>1. PICK arrived \in BOOLEAN :
          /\ Arrive(r, arrived)
          /\ Job(r, [backup[r] EXCEPT !.tries = @ + 1, !.landed = @ \/ arrived])
    BY <1>6 DEF TryAgain
  <2>2. PICK j : j = [backup[r] EXCEPT !.tries = @ + 1, !.landed = @ \/ arrived]
    OBVIOUS
  <2>3. /\ backup[r].step = "append" /\ Job(r, j)
        /\ UNCHANGED <<contents, known, records, recordVersion, synced, restore, overlapped>>
    BY <1>6, <2>1, <2>2 DEF TryAgain, stored
  <2>4. /\ DOMAIN j = DOMAIN NoJob /\ j.step = "append" /\ j.title = backup[r].title
        /\ j.batch = backup[r].batch /\ j.owed = backup[r].owed /\ j.there = backup[r].there
        /\ j.status = backup[r].status /\ j.failed = backup[r].failed
        /\ j.landed <=> (backup[r].landed \/ arrived)
    BY <1>0, <2>2, <2>3 DEF Running, NoJob
  <2>5. CASE arrived
    <3>1. sheet' = Appended(r) /\ echoed' = Echoed(r)
      BY <2>1, <2>5 DEF Arrive
    <3>2. /\ Filed' /\ \A b \in RowVersions : sheet'[b] >= sheet[b]
          /\ \A b \in RowVersions : sheet[b] > 0 => sheet'[b] > 0
      BY <2>3, <3>1, SheetGrows
    <3>3. ASSUME ~overlapped, NEW h \in Hashes, sheet'[<<j.title, h>>] > 0
          PROVE  h \in j.there \/ <<j.title, h>> \in j.batch
      <4>1. <<j.title, h>> \in RowVersions
        BY <1>0, <2>3, <2>4, VersionParts DEF Running
      <4>2. sheet[<<j.title, h>>] > 0 \/ <<j.title, h>> \in j.batch
        BY <2>4, <3>1, <3>3, <4>1 DEF Appended, Missing, OfTitle
      <4> QED BY <1>0, <2>3, <2>4, <3>3, <4>2 DEF Running
    <3>4. Running(j)'
      BY <1>0, <2>3, <2>4, <2>5, <3>2, <3>3, VersionParts DEF Running
    <3>5. records \subseteq records'
      BY <2>3
    <3> HIDE DEF Running
    <3> QED BY <2>3, <3>2, <3>4, <3>5, RunGoesOn
  <2>6. CASE ~arrived
    <3>1. UNCHANGED <<sheet, echoed>>
      BY <2>1, <2>6 DEF Arrive
    <3>2. Running(j)
      BY <1>0, <2>3, <2>4, <2>6 DEF Running
    <3> HIDE DEF Running
    <3> QED BY <2>3, <3>1, <3>2, RunMoves
  <2> QED BY <2>5, <2>6
<1> QED BY <1>1, <1>2, <1>3, <1>4, <1>5, <1>6

LEMMA StartSteps ==
    ASSUME BackupsInv, NEW r \in Replicas, StartRun(r)
    PROVE  BackupsInv'
<1>1. PICK j : j = [NoJob EXCEPT !.step = "flush", !.status = "running", !.owed = records]
  OBVIOUS
<1>2. /\ backup[r].step = "none" /\ Job(r, j)
      /\ overlapped' = (overlapped \/ \E s \in Replicas \ {r} : backup[s].step # "none")
      /\ UNCHANGED <<contents, known, records, recordVersion, synced, sheet, echoed, restore>>
  BY <1>1 DEF StartRun, stored
<1>3. /\ DOMAIN j = DOMAIN NoJob /\ j.step = "flush" /\ j.status = "running"
      /\ j.owed = records /\ j.batch = {}
  BY <1>1 DEF NoJob
<1>4. Running(j)'
  BY <1>2, <1>3 DEF Running, BackupsInv, Filed
<1>5. Filed'
  BY <1>2, FiledStays DEF BackupsInv
<1>6. records \subseteq records' /\ \A b \in RowVersions : sheet'[b] >= sheet[b]
  BY <1>2 DEF BackupsInv, Filed
<1>7. overlapped' \/ \A s \in Replicas \ {r} : backup[s].step = "none"
  BY <1>2
<1> HIDE DEF Running
<1> QED BY <1>2, <1>4, <1>5, <1>6, <1>7, RunGoesOn

(* The end of a run, with whatever status: only a success owes anything.    *)
LEMMA EndSteps ==
    ASSUME BackupsInv, NEW r \in Replicas,
           UploadSnapshot(r) \/ UploadFails(r) \/ RunDies(r)
    PROVE  BackupsInv'
<1>0. Running(backup[r]) /\ backup[r].owed \subseteq RowVersions
  BY DEF BackupsInv, Running
<1>1. CASE UploadSnapshot(r)
  <2>1. PICK j : j = [NoJob EXCEPT !.owed = backup[r].owed,
                            !.status = IF backup[r].failed THEN "partial" ELSE "success"]
    OBVIOUS
  <2>2. /\ backup[r].step = "table" /\ Job(r, j)
        /\ UNCHANGED <<contents, known, records, recordVersion, synced, sheet, echoed, restore, overlapped>>
    BY <1>1, <2>1 DEF UploadSnapshot, stored
  <2>3. /\ DOMAIN j = DOMAIN NoJob /\ j.step = "none" /\ j.batch = {}
        /\ j.status = (IF backup[r].failed THEN "partial" ELSE "success")
        /\ j.owed = backup[r].owed
    BY <2>1 DEF NoJob
  <2>4. j.status = "success" => \A b \in j.owed : sheet[b] > 0
    BY <1>0, <2>2, <2>3 DEF Running
  <2>5. Running(j)
    BY <1>0, <2>3, <2>4 DEF Running
  <2> HIDE DEF Running
  <2> QED BY <2>2, <2>5, RunMoves
<1>2. CASE UploadFails(r) \/ RunDies(r)
  <2>1. PICK j \in {[NoJob EXCEPT !.status = s] : s \in {"failed", "running"}} : Job(r, j)
    BY <1>2 DEF UploadFails, RunDies
  <2>2. /\ backup[r].step # "none"
        /\ UNCHANGED <<contents, known, records, recordVersion, synced, sheet, echoed, restore, overlapped>>
    BY <1>2 DEF UploadFails, RunDies, stored
  <2>3. /\ DOMAIN j = DOMAIN NoJob /\ j.step = "none" /\ j.batch = {}
        /\ j.status # "success" /\ j.owed = {}
    BY <2>1 DEF NoJob
  <2>4. Running(j)
    BY <2>3 DEF Running
  <2> HIDE DEF Running
  <2> QED BY <2>1, <2>2, <2>4, RunMoves
<1> QED BY <1>1, <1>2

LEMMA ScanSteps ==
    ASSUME BackupsInv, BackupsAssumption, NEW r \in Replicas, ScanTable(r)
    PROVE  BackupsInv'
<1>0. PICK t : t = Tables[backup[r].table]
  OBVIOUS
<1>1. /\ backup[r].step = "table" /\ backup[r].table \in DOMAIN Tables
      /\ UNCHANGED <<contents, known, records, recordVersion, synced, sheet, echoed, restore, overlapped>>
      /\ Job(r, IF known[t] = contents[t]
                THEN [backup[r] EXCEPT !.table = @ + 1]
                ELSE [backup[r] EXCEPT !.step = "store", !.was = known[t], !.row = contents[t]])
  BY <1>0 DEF ScanTable, stored
<1>2. t \in Names /\ contents[t] \in Hashes /\ known[t] \in Hashes \cup {NoHash}
  BY <1>0, <1>1, VersionParts DEF BackupsInv, Filed
<1>3. Running(backup[r]) /\ backup[r].batch = {}
  BY <1>1 DEF BackupsInv, Running
<1>4. CASE known[t] = contents[t]
  <2>1. PICK j : j = [backup[r] EXCEPT !.table = @ + 1]
    OBVIOUS
  <2>2. /\ DOMAIN j = DOMAIN NoJob /\ j.step = "table" /\ j.batch = {}
        /\ j.owed = backup[r].owed /\ j.failed = backup[r].failed /\ j.status = backup[r].status
    BY <1>1, <1>3, <2>1 DEF Running, NoJob
  <2>3. Running(j)
    BY <1>1, <1>3, <2>2 DEF Running
  <2>4. Job(r, j)
    BY <1>1, <1>4, <2>1
  <2> HIDE DEF Running
  <2> QED BY <1>1, <2>3, <2>4, RunMoves
<1>5. CASE known[t] # contents[t]
  <2>1. PICK j : j = [backup[r] EXCEPT !.step = "store", !.was = known[t], !.row = contents[t]]
    OBVIOUS
  <2>2. /\ DOMAIN j = DOMAIN NoJob /\ j.step = "store" /\ j.batch = {}
        /\ j.was = known[t] /\ j.row = contents[t] /\ j.table = backup[r].table
        /\ j.owed = backup[r].owed /\ j.failed = backup[r].failed /\ j.status = backup[r].status
    BY <1>3, <2>1 DEF Running, NoJob
  <2>3. Running(j)
    BY <1>0, <1>1, <1>2, <1>3, <2>2 DEF Running
  <2>4. Job(r, j)
    BY <1>1, <1>5, <2>1
  <2> HIDE DEF Running
  <2> QED BY <1>1, <2>3, <2>4, RunMoves
<1> QED BY <1>4, <1>5

(* The new record leads the others of its row: its version follows that of  *)
(* the known one, which led them, or it is the first.                       *)
LEMMA RecordLeads ==
    ASSUME BackupsInv, NEW t \in Names, NEW h \in Hashes, NEW was \in Hashes \cup {NoHash},
           NoHash \notin Hashes,
           <<t, h>> \notin records, ~(was = NoHash /\ known[t] # NoHash),
           ~overlapped => was = known[t], UNCHANGED <<contents, sheet, echoed, synced, overlapped>>,
           records' = records \cup {<<t, h>>}, known' = [known EXCEPT ![t] = h],
           recordVersion' = [recordVersion EXCEPT ![<<t, h>>] = NextVersion(t, was)]
    PROVE  Filed'
<1>1. <<t, h>> \in RowVersions
  BY VersionParts
<1>2. NextVersion(t, was) \in Nat
  BY VersionParts DEF NextVersion, BackupsInv, Filed
<1>3. PICK v \in Nat : v = NextVersion(t, was)
  BY <1>2
<1>4. known' \in [Names -> Hashes \cup {NoHash}] /\ recordVersion' \in [RowVersions -> Nat]
      /\ records' \subseteq RowVersions
  BY <1>1, <1>3 DEF BackupsInv, Filed
<1>5. known'[t] = h /\ recordVersion'[<<t, h>>] = v
      /\ \A s \in Names : s # t => known'[s] = known[s]
      /\ \A b \in RowVersions : b # <<t, h>> => recordVersion'[b] = recordVersion[b]
  BY <1>1, <1>3 DEF BackupsInv, Filed
<1>6. ASSUME ~overlapped, NEW s \in Names PROVE Leads(s)'
  <2>1. Leads(s) /\ Leads(t)
    BY <1>6 DEF BackupsInv, Filed
  <2>2. CASE s # t
    <3>1. \A g \in Hashes : <<s, g>> \in RowVersions /\ <<s, g>> # <<t, h>>
      BY <2>2, VersionParts
    <3>2. \A g \in Hashes : /\ <<s, g>> \in records' <=> <<s, g>> \in records
                            /\ recordVersion'[<<s, g>>] = recordVersion[<<s, g>>]
      BY <1>5, <3>1
    <3>3. known'[s] = known[s] /\ known[s] \in Hashes \cup {NoHash}
      BY <1>5, <2>2 DEF BackupsInv, Filed
    <3> QED BY <2>1, <3>2, <3>3 DEF Leads
  <2>3. CASE s = t
    <3>1. ASSUME NEW g \in Hashes \ {h}, <<t, g>> \in records'
          PROVE  recordVersion'[<<t, g>>] < recordVersion'[<<t, h>>]
      <4>1. <<t, g>> \in records /\ <<t, g>> \in RowVersions /\ <<t, g>> # <<t, h>>
        BY <3>1, VersionParts
      <4>2. was = known[t] /\ was # NoHash
        BY <1>6, <2>1, <4>1 DEF Leads
      <4>3. v = recordVersion[<<t, was>>] + 1 /\ <<t, was>> \in RowVersions
        BY <1>3, <4>2, VersionParts DEF NextVersion
      <4>4. recordVersion[<<t, g>>] <= recordVersion[<<t, was>>]
            /\ recordVersion[<<t, g>>] \in Nat /\ recordVersion[<<t, was>>] \in Nat
        <5>1. recordVersion[<<t, g>>] \in Nat /\ recordVersion[<<t, was>>] \in Nat
          BY <4>1, <4>3 DEF BackupsInv, Filed
        <5>2. g = was \/ recordVersion[<<t, g>>] < recordVersion[<<t, was>>]
          BY <2>1, <4>1, <4>2 DEF Leads
        <5> QED BY <5>1, <5>2
      <4> QED BY <1>5, <4>1, <4>3, <4>4
    <3>2. known'[t] = h /\ h # NoHash /\ <<t, h>> \in records'
      BY <1>5
    <3> QED BY <2>3, <3>1, <3>2 DEF Leads
  <2> QED BY <2>2, <2>3
<1>7. \A b \in RowVersions : sheet'[b] > 0 => b \in records'
  BY DEF BackupsInv, Filed
<1> QED BY <1>4, <1>6, <1>7 DEF BackupsInv, Filed

LEMMA StoreSteps ==
    ASSUME BackupsInv, BackupsAssumption, NEW r \in Replicas, StoreRecord(r)
    PROVE  BackupsInv'
<1>0. PICK t, h, was : t = Tables[backup[r].table] /\ h = backup[r].row /\ was = backup[r].was
  OBVIOUS
<1>1. /\ backup[r].step = "store" /\ Running(backup[r])
      /\ UNCHANGED <<contents, synced, sheet, echoed, restore, overlapped>>
  BY DEF StoreRecord, BackupsInv
<1>2. /\ t \in Names /\ h \in Hashes /\ was \in Hashes \cup {NoHash} /\ NoHash \notin Hashes
      /\ (~overlapped => was = known[t]) /\ backup[r].batch = {}
  BY <1>0, <1>1, VersionParts DEF Running, BackupsAssumption
<1>3. CASE <<t, h>> \in records \/ (was = NoHash /\ known[t] # NoHash)
  <2>1. PICK j : j = [backup[r] EXCEPT !.step = "stuck"]
    OBVIOUS
  <2>2. Job(r, j) /\ UNCHANGED <<known, records, recordVersion>>
    BY <1>0, <1>3, <2>1 DEF StoreRecord, stored
  <2>3. /\ DOMAIN j = DOMAIN NoJob /\ j.step = "stuck" /\ j.batch = {}
        /\ j.owed = backup[r].owed /\ j.failed = backup[r].failed /\ j.status = backup[r].status
    BY <1>1, <1>2, <2>1 DEF Running, NoJob
  <2>4. Running(j)
    BY <1>1, <1>2, <2>3 DEF Running
  <2> HIDE DEF Running
  <2> QED BY <1>1, <2>2, <2>4, RunMoves
<1>4. CASE ~(<<t, h>> \in records \/ (was = NoHash /\ known[t] # NoHash))
  <2>1. PICK j : j = [backup[r] EXCEPT !.step = "sync", !.table = @ + 1, !.was = NoHash,
                            !.row = NoHash, !.batch = {<<t, h>>}, !.owed = @ \cup {<<t, h>>}]
    OBVIOUS
  <2>2. /\ records' = records \cup {<<t, h>>} /\ known' = [known EXCEPT ![t] = h]
        /\ recordVersion' = [recordVersion EXCEPT ![<<t, h>>] = NextVersion(t, was)]
        /\ Job(r, j)
    BY <1>0, <1>4, <2>1 DEF StoreRecord
  <2>3. /\ DOMAIN j = DOMAIN NoJob /\ j.step = "sync" /\ j.batch = {<<t, h>>}
        /\ j.owed = backup[r].owed \cup {<<t, h>>}
        /\ j.failed = backup[r].failed /\ j.status = backup[r].status
    BY <1>1, <2>1 DEF Running, NoJob
  <2>4. Filed'
    BY <1>1, <1>2, <1>4, <2>2, RecordLeads
  <2>5. j.batch \subseteq records' /\ j.owed \subseteq RowVersions
    BY <1>1, <1>2, <2>2, <2>3, VersionParts DEF Running
  <2>6. ~j.failed => \A b \in j.owed : sheet'[b] > 0 \/ b \in j.batch
    BY <1>1, <1>2, <2>3 DEF Running
  <2>7. Running(j)'
    BY <1>1, <2>3, <2>5, <2>6 DEF Running
  <2>8. records \subseteq records' /\ \A b \in RowVersions : sheet'[b] >= sheet[b]
    BY <1>1, <2>2 DEF BackupsInv, Filed
  <2> HIDE DEF Running
  <2> QED BY <1>1, <2>2, <2>4, <2>7, <2>8, RunGoesOn
<1> QED BY <1>3, <1>4

LEMMA NewestAreHashes == \A t : Newest(InSheet, t) \subseteq Hashes
BY VersionParts DEF Newest, InSheet

(* Edits and restores change the rows only.                                 *)
LEMMA RowSteps ==
    ASSUME BackupsInv, NoHash \notin Hashes,
           \/ \E t \in Names : EditRow(t)
           \/ StartRestore \/ ReadForRestore \/ RestoreTable \/ RestoreFails
    PROVE  BackupsInv'
<1>1. UNCHANGED <<known, records, recordVersion, synced, sheet, echoed, backup, overlapped>>
  BY DEF EditRow, StartRestore, ReadForRestore, RestoreTable, RestoreFails, stored
<1>2. contents' \in [Names -> Hashes]
  BY DEF EditRow, StartRestore, ReadForRestore, RestoreTable, RestoreFails, BackupsInv, Filed
<1>3. DOMAIN restore' = {"table", "row"} /\ restore'.row \in Hashes \cup {NoHash}
  BY NewestAreHashes
     DEF EditRow, StartRestore, ReadForRestore, RestoreTable, RestoreFails, BackupsInv
<1>4. Filed' /\ Alone'
  BY <1>1, <1>2 DEF BackupsInv, Filed, Leads, Alone
<1>5. \A r \in Replicas : Running(backup[r])'
  BY <1>1 DEF BackupsInv, Running
<1> HIDE DEF Filed, Alone, Running
<1> QED BY <1>1, <1>3, <1>4, <1>5 DEF BackupsInv

LEMMA BackupsInvStep == ASSUME BackupsAssumption, BackupsInv, [BackupsNext]_backupVars
                        PROVE  BackupsInv'
<1>1. CASE UNCHANGED backupVars
  <2>1. UNCHANGED <<contents, known, records, recordVersion, synced, sheet, echoed, backup, restore,
                    overlapped>>
    BY <1>1 DEF backupVars, stored
  <2>2. Filed' /\ Alone' /\ \A r \in Replicas : Running(backup[r])'
    BY <2>1 DEF BackupsInv, Filed, Leads, Alone, Running
  <2> HIDE DEF Filed, Alone, Running
  <2> QED BY <2>1, <2>2 DEF BackupsInv
<1>2. CASE BackupsNext
  <2>1. NoHash \notin Hashes
    BY DEF BackupsAssumption
  <2> QED BY <1>2, <2>1, RowSteps, StartSteps, SyncSteps, ScanSteps, StoreSteps, EndSteps
          DEF BackupsNext
<1> QED BY <1>1, <1>2

LEMMA BackupsInvInit == BackupsInit => BackupsInv
<1> SUFFICES ASSUME BackupsInit PROVE BackupsInv
  OBVIOUS
<1>1. Filed
  BY VersionParts DEF BackupsInit, Filed, Leads
<1>2. DOMAIN backup = Replicas /\ \A r \in Replicas : backup[r] = NoJob
  BY DEF BackupsInit
<1>3. Running(NoJob)
  BY DEF Running, NoJob, BackupsInit
<1>4. NoJob.step = "none"
  BY DEF NoJob
<1>5. Alone /\ \A r \in Replicas : Running(backup[r])
  BY <1>2, <1>3, <1>4 DEF Alone
<1>6. DOMAIN restore = {"table", "row"} /\ restore.row = NoHash
  BY DEF BackupsInit
<1> HIDE DEF Filed, Alone, Running
<1> QED BY <1>1, <1>2, <1>5, <1>6 DEF BackupsInv

(* What the invariant says of the sheet.                                    *)
LEMMA SheetByInv == ASSUME BackupsAssumption, BackupsInv PROVE SheetIsABackup
<1>1. SheetHoldsRowsOnce /\ SuccessMeansInSheet
  BY DEF SheetHoldsRowsOnce, SuccessMeansInSheet, BackupsInv, Filed, Running
<1>2. ASSUME ~overlapped, NEW t \in Names, NEW set, set \subseteq records,
             <<t, known[t]>> \in set
      PROVE  Newest(set, t) = {known[t]}
  <2>1. Leads(t) /\ set \subseteq RowVersions
    BY <1>2 DEF BackupsInv, Filed
  <2>2. known[t] \in Hashes
    BY <1>2, <2>1, VersionParts
  <2>3. ASSUME NEW b \in set, b[1] = t, b # <<t, known[t]>>
        PROVE  recordVersion[b] < recordVersion[<<t, known[t]>>]
    <3>1. b = <<t, b[2]>> /\ b[2] \in Hashes \ {known[t]}
      BY <2>1, <2>3, VersionParts
    <3> QED BY <1>2, <2>1, <2>2, <2>3, <3>1 DEF Leads, BackupsAssumption
  <2>4. \A b \in RowVersions : recordVersion[b] \in Nat
    BY DEF BackupsInv, Filed
  <2>5. PICK top : top = <<t, known[t]>>
    OBVIOUS
  <2>6. top \in set /\ top[1] = t /\ top[2] = known[t] /\ top \in RowVersions
    BY <1>2, <2>1, <2>5
  <2>7. ASSUME NEW b \in set, b[1] = t
        PROVE  (\A d \in set : d[1] = t => recordVersion[d] <= recordVersion[b]) <=> b = top
    <3>1. CASE b = top
      <4>1. ASSUME NEW d \in set, d[1] = t PROVE recordVersion[d] <= recordVersion[top]
        <5>1. d # top => recordVersion[d] < recordVersion[top]
          BY <2>3, <2>5, <4>1
        <5>2. recordVersion[d] \in Nat /\ recordVersion[top] \in Nat
          BY <2>1, <2>4, <2>6
        <5> QED BY <5>1, <5>2
      <4> QED BY <3>1, <4>1
    <3>2. CASE b # top
      BY <2>1, <2>3, <2>4, <2>5, <2>6, <2>7, <3>2
    <3> QED BY <3>1, <3>2
  <2> QED BY <2>6, <2>7 DEF Newest
<1>3. NewestIsKnown
  <2> SUFFICES ASSUME ~overlapped, NEW t \in Names
               PROVE  /\ records \cap ({t} \X Hashes) # {} => Newest(records, t) = {known[t]}
                      /\ <<t, known[t]>> \in InSheet => Newest(InSheet, t) = {known[t]}
    BY DEF NewestIsKnown
  <2>1. Leads(t)
    BY DEF BackupsInv, Filed
  <2>2. records \cap ({t} \X Hashes) # {} => <<t, known[t]>> \in records
    BY <2>1 DEF Leads
  <2>3. InSheet \subseteq records
    BY DEF InSheet, BackupsInv, Filed
  <2> QED BY <1>2, <2>2, <2>3
<1> QED BY <1>1, <1>3 DEF SheetIsABackup

(* "De-duplication against the hashes already present in the worksheet" and *)
(* "latest-record snapshot": however runs, failed calls, crashes and        *)
(* restores interleave, the sheet has what is marked synced and what a      *)
(* successful run owed; and unless two runs overlapped, each version once,  *)
(* but for the appends that the client repeated though they had arrived,    *)
(* and the version last stored as the newest.                               *)
THEOREM SheetGivesBackTheNewest == BackupsSpec => []SheetIsABackup
<1>1. BackupsSpec => []BackupsInv
  BY BackupsInvInit, BackupsInvStep, BackupsAssumption, PTL DEF BackupsSpec
<1>2. BackupsInv => SheetIsABackup
  BY SheetByInv, BackupsAssumption
<1> QED BY <1>1, <1>2, PTL
HIDE EnforcerAssumption

-----------------------------------------------------------------------------
(***************************************************************************)
(* Part six: the configuration versions.                                   *)
(***************************************************************************)
(* One version is in force at a time.                                       *)
OneInForce == \A n, o \in Published : n = o

(* The steps between taking the lock and the commit hold it.                *)
WritersHoldLock ==
    \A p \in Publishers : pub[p].step \in {"again", "write"} => publishLock = p

(* The version publish is about to retire is the one in force: it was read  *)
(* under the lock, and nothing but a holder of the lock puts one in force.  *)
RetiresTheOneInForce ==
    \A p \in Publishers :
       pub[p].step = "write" /\ pub[p].op = "publish" => \A n \in Published : n = pub[p].no

(* A snapshot that is being read lacks a SELECT.                            *)
ReadsUnfinished == \A p \in Publishers : pub[p].step = "reading" => pub[p].done < Selects

(* Only publish compares again, and the others name a row.                  *)
OthersNameARow ==
    \A p \in Publishers :
       /\ pub[p].step = "again" => pub[p].op = "publish"
       /\ pub[p].step = "retire" => pub[p].op = "retire"
       /\ pub[p].op \in {"activate", "rollback", "retire"} => pub[p].no \in Nos

PublishInv ==
    ConfigTypeOK /\ ReadsUnfinished /\ OthersNameARow /\ OneInForce /\ WritersHoldLock
        /\ RetiresTheOneInForce /\ LockLeavesNoConflict

USE ConfigAssumption

Pubs == [step : PubSteps, op : {"none", "publish", "activate", "rollback", "retire"},
         no : 0..MaxVersions, snap : Snapshots, done : 0..Selects, seen : Statuses]
Rows == [status : Statuses, snap : Snapshots, source : 0..MaxVersions]
Budgets == [edits : 0..MaxConfigEdits, requests : 0..MaxPublishing]

(* A request that begins, moves on or ends keeps to the types.              *)
LEMMA StepTypes ==
    ASSUME ConfigTypeOK, NEW p \in Publishers
    PROVE  /\ Idle \in Pubs
           /\ \A op \in {"none", "publish", "activate", "rollback", "retire"},
                 n \in 0..MaxVersions, step \in PubSteps, seen \in Statuses :
                 Begin(p, op, n, step, seen) =>
                    /\ pub' \in [Publishers -> Pubs] /\ configBudget' \in Budgets
                    /\ pub'[p].step = step /\ pub'[p].op = op /\ pub'[p].no = n
                    /\ \A q \in Publishers \ {p} : pub'[q] = pub[q]
           /\ \A step \in PubSteps : To(p, step) =>
                 /\ pub' \in [Publishers -> Pubs]
                 /\ pub'[p].step = step /\ pub'[p].op = pub[p].op /\ pub'[p].no = pub[p].no
                 /\ \A q \in Publishers \ {p} : pub'[q] = pub[q]
           /\ Finish(p) =>
                 /\ pub' \in [Publishers -> Pubs] /\ publishLock' \in Publishers \cup {NoPublisher}
                 /\ pub'[p] = Idle /\ \A q \in Publishers \ {p} : pub'[q] = pub[q]
<1>1. Idle \in Pubs
  <2>1. [s \in 1..Selects |-> Empty] \in Snapshots
    BY DEF Snapshots
  <2> QED BY <2>1 DEF Idle, Pubs, PubSteps, Statuses
<1>2. pub \in [Publishers -> Pubs] /\ publishLock \in Publishers \cup {NoPublisher}
  BY DEF ConfigTypeOK, Pubs
<1>3. ASSUME NEW op \in {"none", "publish", "activate", "rollback", "retire"},
             NEW n \in 0..MaxVersions, NEW step \in PubSteps, NEW seen \in Statuses,
             Begin(p, op, n, step, seen)
      PROVE  /\ pub' \in [Publishers -> Pubs] /\ configBudget' \in Budgets
             /\ pub'[p].step = step /\ pub'[p].op = op /\ pub'[p].no = n
             /\ \A q \in Publishers \ {p} : pub'[q] = pub[q]
  <2>1. configBudget' \in Budgets
    <3>1. configBudget \in Budgets /\ configBudget.requests > 0
      BY <1>3 DEF Begin, Budgets, ConfigTypeOK
    <3>2. configBudget' = [configBudget EXCEPT !.requests = @ - 1]
      BY <1>3 DEF Begin
    <3> QED BY <3>1, <3>2 DEF Budgets
  <2> DEFINE x == [Idle EXCEPT !.op = op, !.no = n, !.step = step, !.seen = seen]
  <2>2. x \in Pubs /\ x.step = step /\ x.op = op /\ x.no = n
    BY <1>1 DEF Pubs
  <2>3. pub' = [pub EXCEPT ![p] = x]
    BY <1>3 DEF Begin
  <2> HIDE DEF x
  <2> QED BY <1>2, <2>1, <2>2, <2>3
<1>4. ASSUME NEW step \in PubSteps, To(p, step)
      PROVE  /\ pub' \in [Publishers -> Pubs]
             /\ pub'[p].step = step /\ pub'[p].op = pub[p].op /\ pub'[p].no = pub[p].no
             /\ \A q \in Publishers \ {p} : pub'[q] = pub[q]
  BY <1>2, <1>4 DEF To, Pubs
<1>5. ASSUME Finish(p)
      PROVE  /\ pub' \in [Publishers -> Pubs] /\ publishLock' \in Publishers \cup {NoPublisher}
             /\ pub'[p] = Idle /\ \A q \in Publishers \ {p} : pub'[q] = pub[q]
  <2>1. pub' = [pub EXCEPT ![p] = Idle]
    BY <1>5 DEF Finish
  <2>2. publishLock' \in Publishers \cup {NoPublisher}
    BY <1>2, <1>5 DEF Finish
  <2> QED BY <1>1, <1>2, <2>1, <2>2
<1> QED BY <1>1, <1>3, <1>4, <1>5

(* The number of the version in force is in range.                          *)
LEMMA NumberInForce == InForce \in 0..MaxVersions
<1>1. CASE Published = {}
  <2>1. InForce = 0
    BY <1>1, Zenon DEF InForce
  <2> QED BY <2>1
<1>2. CASE Published # {}
  <2>1. InForce \in Published
    BY <1>2 DEF InForce
  <2> QED BY <2>1 DEF Published, Nos
<1> QED BY <1>1, <1>2

(* Only the version that InForce names is published, if one is.             *)
LEMMA InForceIsTheOne ==
    ASSUME OneInForce PROVE \A n \in Published : n = InForce
<1>1. ASSUME NEW n \in Published PROVE n = InForce
  <2>1. InForce \in Published
    BY <1>1 DEF InForce
  <2> QED BY <1>1, <2>1 DEF OneInForce
<1> QED BY <1>1

(* What Replace does when every published version is the one it retires.    *)
LEMMA Replaces ==
    ASSUME ConfigTypeOK, NEW p \in Publishers, NEW old, NEW snap \in Snapshots,
           NEW source \in 0..MaxVersions, Replace(p, old, snap, source),
           Published \subseteq {old}
    PROVE  /\ Finish(p) /\ clashed' = clashed /\ stamp' \in 0..MaxVersions
           /\ versions' \in [Nos -> Rows]
           /\ OneInForce'
<1>1. Published \ {old} = {}
  OBVIOUS
<1>2. /\ NextNo \in Nos /\ Finish(p) /\ clashed' = clashed /\ stamp' = NextNo
      /\ versions' = [n \in Nos |->
            IF n = NextNo THEN [status |-> "PUBLISHED", snap |-> snap, source |-> source]
            ELSE IF n = old THEN [versions[n] EXCEPT !.status = "RETIRED"]
            ELSE versions[n]]
  BY <1>1 DEF Replace
<1>3. versions \in [Nos -> Rows]
  BY DEF ConfigTypeOK, Rows
<1>4. \A x \in Rows : [x EXCEPT !.status = "RETIRED"] \in Rows
                   /\ [x EXCEPT !.status = "RETIRED"].status = "RETIRED"
  BY DEF Rows, Statuses
<1>5. [status |-> "PUBLISHED", snap |-> snap, source |-> source] \in Rows
  BY DEF Rows, Statuses
<1>6. versions' \in [Nos -> Rows]
  BY <1>2, <1>3, <1>4, <1>5
<1>7. ASSUME NEW n \in Nos, n # NextNo PROVE versions'[n].status # "PUBLISHED"
  <2>1. CASE n = old
    BY <1>2, <1>3, <1>4, <1>7, <2>1
  <2>2. CASE n # old
    BY <1>2, <1>7, <2>2 DEF Published
  <2> QED BY <2>1, <2>2
<1>8. stamp' \in 0..MaxVersions
  BY <1>2 DEF Nos
<1> QED BY <1>2, <1>6, <1>7, <1>8 DEF Published, OneInForce

(* The variables keep to their types.                                       *)
LEMMA ConfigTypes == PublishInv /\ [ConfigNext]_configVars => ConfigTypeOK'
<1> SUFFICES ASSUME PublishInv, [ConfigNext]_configVars PROVE ConfigTypeOK'
    OBVIOUS
<1>t. /\ live \in Snapshots /\ versions \in [Nos -> Rows] /\ stamp \in 0..MaxVersions
      /\ publishLock \in Publishers \cup {NoPublisher} /\ pub \in [Publishers -> Pubs]
      /\ clashed \in BOOLEAN /\ overrun \subseteq Nos /\ configBudget \in Budgets
  BY DEF PublishInv, ConfigTypeOK, Pubs, Rows, Budgets
<1>s. ConfigTypeOK
  BY DEF PublishInv
<1>g. ASSUME live' \in Snapshots, versions' \in [Nos -> Rows], stamp' \in 0..MaxVersions,
             publishLock' \in Publishers \cup {NoPublisher}, pub' \in [Publishers -> Pubs],
             clashed' \in BOOLEAN, overrun' \subseteq Nos, configBudget' \in Budgets
      PROVE  ConfigTypeOK'
  BY <1>g DEF ConfigTypeOK, Pubs, Rows, Budgets
<1>1. CASE EditLive
  <2>1. configBudget' \in Budgets
    <3>1. configBudget.edits > 0 /\ configBudget' = [configBudget EXCEPT !.edits = @ - 1]
      BY <1>1 DEF EditLive
    <3> QED BY <1>t, <3>1 DEF Budgets
  <2>2. live' \in Snapshots
    BY <1>t, <1>1 DEF EditLive, Snapshots
  <2> QED BY <1>t, <1>g, <1>1, <2>1, <2>2 DEF EditLive
<1>2. ASSUME NEW n \in Nos, DeleteDraft(n) PROVE ConfigTypeOK'
  <2>1. configBudget' \in Budgets
    <3>1. configBudget.requests > 0 /\ configBudget' = [configBudget EXCEPT !.requests = @ - 1]
      BY <1>2 DEF DeleteDraft
    <3> QED BY <1>t, <3>1 DEF Budgets
  <2>2. Absent \in Rows
    <3>1. [s \in 1..Selects |-> Empty] \in Snapshots
      BY DEF Snapshots
    <3> QED BY <3>1 DEF Absent, Rows, Statuses
  <2>3. versions' \in [Nos -> Rows]
    BY <1>t, <1>2, <2>2 DEF DeleteDraft
  <2> QED BY <1>t, <1>g, <1>2, <2>1, <2>3 DEF DeleteDraft
<1>3. ASSUME NEW p \in Publishers, StartPublish(p) PROVE ConfigTypeOK'
  <2>1. Begin(p, "publish", 0, "reading", "ABSENT")
    BY <1>3 DEF StartPublish
  <2>2. "reading" \in PubSteps /\ "ABSENT" \in Statuses /\ 0 \in 0..MaxVersions
    BY DEF PubSteps, Statuses
  <2>3. pub' \in [Publishers -> Pubs] /\ configBudget' \in Budgets
    BY <1>s, <2>1, <2>2, StepTypes
  <2> QED BY <1>t, <1>g, <1>3, <2>3 DEF StartPublish
<1>4. ASSUME NEW p \in Publishers, ReadPart(p) PROVE ConfigTypeOK'
  <2>1. pub[p].done + 1 \in 1..Selects
    BY <1>t, <1>4 DEF ReadPart, PublishInv, ReadsUnfinished, Pubs
  <2>2. pub' \in [Publishers -> Pubs]
    BY <1>t, <1>4, <2>1 DEF ReadPart, Pubs, Snapshots, PubSteps
  <2>3. UNCHANGED <<live, versions, stamp, publishLock, clashed, overrun, configBudget>>
    BY <1>4 DEF ReadPart
  <2> QED BY <1>t, <1>g, <2>2, <2>3
<1>5. ASSUME NEW p \in Publishers, CheckSnapshot(p) PROVE ConfigTypeOK'
  <2>1. "lock" \in PubSteps
    BY DEF PubSteps
  <2> QED BY <1>s, <1>t, <1>g, <1>5, <2>1, StepTypes DEF CheckSnapshot
<1>6. ASSUME NEW p \in Publishers, TakePublishLock(p) PROVE ConfigTypeOK'
  <2>1. "again" \in PubSteps /\ "write" \in PubSteps
    BY DEF PubSteps
  <2> QED BY <1>s, <1>t, <1>g, <1>6, <2>1, StepTypes DEF TakePublishLock
<1>7. ASSUME NEW p \in Publishers, CheckAgain(p) PROVE ConfigTypeOK'
  <2>1. CASE Unchanged(p)
    BY <1>s, <1>t, <1>g, <1>7, <2>1, StepTypes DEF CheckAgain
  <2>2. CASE ~Unchanged(p)
    <3>1. pub' = [pub EXCEPT ![p].step = "write", ![p].no = InForce]
          /\ UNCHANGED <<live, versions, stamp, publishLock, clashed, overrun, configBudget>>
      BY <1>7, <2>2 DEF CheckAgain
    <3>2. pub' \in [Publishers -> Pubs]
      <4> DEFINE x == [pub[p] EXCEPT !.step = "write", !.no = InForce]
      <4>1. pub[p] \in Pubs
        BY <1>t
      <4>2. x \in Pubs
        BY <4>1, NumberInForce DEF Pubs, PubSteps
      <4>3. pub' = [pub EXCEPT ![p] = x]
        BY <3>1
      <4> HIDE DEF x
      <4> QED BY <1>t, <4>2, <4>3
    <3> QED BY <1>t, <1>g, <3>1, <3>2
  <2> QED BY <2>1, <2>2
<1>8. ASSUME NEW p \in Publishers, CommitPublish(p) PROVE ConfigTypeOK'
  <2> DEFINE old == pub[p].no
             snap == pub[p].snap
  <2>1. Replace(p, old, snap, 0) /\ UNCHANGED <<live, overrun, configBudget>>
        /\ Published \subseteq {old}
    BY <1>8 DEF CommitPublish, PublishInv, RetiresTheOneInForce
  <2>2. snap \in Snapshots /\ 0 \in 0..MaxVersions
    BY <1>t DEF Pubs
  <2> HIDE DEF old, snap
  <2>3. Finish(p) /\ clashed' = clashed /\ stamp' \in 0..MaxVersions /\ versions' \in [Nos -> Rows]
    BY <1>s, <2>1, <2>2, Replaces
  <2> QED BY <1>s, <1>t, <1>g, <2>1, <2>3, StepTypes
<1>9. ASSUME NEW p \in Publishers, Activate(p) PROVE ConfigTypeOK'
  <2>1. versions' \in [Nos -> Rows] /\ stamp' \in 0..MaxVersions
    <3>1. CASE UNCHANGED <<versions, stamp>>
      BY <1>t, <3>1
    <3>2. CASE ~UNCHANGED <<versions, stamp>>
      <4> DEFINE n == pub[p].no
      <4>1. /\ versions' = [o \in Nos |->
                   IF o = n THEN [versions[o] EXCEPT !.status = "PUBLISHED"]
                   ELSE IF o = InForce THEN [versions[o] EXCEPT !.status = "RETIRED"]
                   ELSE versions[o]]
            /\ stamp' = n
        BY <1>9, <3>2 DEF Activate
      <4>2. \A x \in Rows : [x EXCEPT !.status = "PUBLISHED"] \in Rows
                         /\ [x EXCEPT !.status = "RETIRED"] \in Rows
        BY DEF Rows, Statuses
      <4>3. n \in 0..MaxVersions
        BY <1>t DEF Pubs
      <4> QED BY <1>t, <4>1, <4>2, <4>3
    <3> QED BY <3>1, <3>2
  <2>2. Finish(p) /\ UNCHANGED <<live, clashed, overrun, configBudget>>
    BY <1>9 DEF Activate
  <2> QED BY <1>s, <1>t, <1>g, <2>1, <2>2, StepTypes
<1>10. ASSUME NEW p \in Publishers, Rollback(p) PROVE ConfigTypeOK'
  <2>1. CASE Finish(p) /\ UNCHANGED <<versions, stamp, clashed>>
    BY <1>s, <1>t, <1>g, <1>10, <2>1, StepTypes DEF Rollback
  <2>2. CASE Replace(p, InForce, versions[pub[p].no].snap, pub[p].no)
             /\ Activatable(pub[p].no) /\ pub[p].no # InForce
    <3> DEFINE snap == versions[pub[p].no].snap
               source == pub[p].no
    <3>1. source \in 0..MaxVersions
      BY <1>t DEF Pubs
    <3>2. snap \in Snapshots
      <4>1. pub[p].no \in Nos
        BY <1>t, <1>10 DEF Rollback, PublishInv, OthersNameARow
      <4> QED BY <1>t, <4>1 DEF Rows
    <3>3. Published \subseteq {InForce}
      BY InForceIsTheOne DEF PublishInv
    <3>4. Replace(p, InForce, snap, source)
      BY <2>2
    <3> HIDE DEF snap, source
    <3>5. Finish(p) /\ clashed' = clashed /\ stamp' \in 0..MaxVersions /\ versions' \in [Nos -> Rows]
      BY <1>s, <3>1, <3>2, <3>3, <3>4, Replaces
    <3> QED BY <1>s, <1>t, <1>g, <1>10, <3>5, StepTypes DEF Rollback
  <2> QED BY <1>10, <2>1, <2>2 DEF Rollback
<1>11. ASSUME NEW p \in Publishers, CommitRetire(p) PROVE ConfigTypeOK'
  <2>1. pub[p].no \in Nos
    BY <1>11 DEF CommitRetire, PublishInv, OthersNameARow
  <2>3. versions' \in [Nos -> Rows] /\ overrun' \subseteq Nos
    BY <1>t, <1>11, <2>1 DEF CommitRetire, Rows, Statuses
  <2>2. Finish(p) /\ UNCHANGED <<live, stamp, clashed, configBudget>>
    BY <1>11 DEF CommitRetire
  <2> QED BY <1>s, <1>t, <1>g, <2>2, <2>3, StepTypes
<1>12. ASSUME NEW p \in Publishers, NEW n \in Nos, NEW op \in {"activate", "rollback"},
              StartChange(p, op, n) PROVE ConfigTypeOK'
  <2>1. "lock" \in PubSteps /\ "ABSENT" \in Statuses /\ n \in 0..MaxVersions
    BY DEF PubSteps, Statuses, Nos
  <2>2. pub' \in [Publishers -> Pubs] /\ configBudget' \in Budgets
    BY <1>s, <1>12, <2>1, StepTypes DEF StartChange
  <2> QED BY <1>t, <1>g, <1>12, <2>2 DEF StartChange
<1>13. ASSUME NEW p \in Publishers, NEW n \in Nos, StartRetire(p, n) PROVE ConfigTypeOK'
  <2>1. "retire" \in PubSteps /\ n \in 0..MaxVersions /\ versions[n].status \in Statuses
    BY <1>t DEF PubSteps, Nos, Rows
  <2>2. pub' \in [Publishers -> Pubs] /\ configBudget' \in Budgets
    BY <1>s, <1>13, <2>1, StepTypes DEF StartRetire
  <2> QED BY <1>t, <1>g, <1>13, <2>2 DEF StartRetire
<1>14. CASE UNCHANGED configVars
  BY <1>t, <1>g, <1>14 DEF configVars
<1> QED BY <1>1, <1>2, <1>3, <1>4, <1>5, <1>6, <1>7, <1>8, <1>9, <1>10, <1>11, <1>12, <1>13,
           <1>14 DEF ConfigNext

(* A request that ends frees no lock but its own and leaves no step behind. *)
LEMMA Ended ==
    ASSUME PublishInv, NEW p \in Publishers, Finish(p), Published' \subseteq Published
    PROVE  /\ ReadsUnfinished' /\ OthersNameARow' /\ OneInForce'
           /\ WritersHoldLock' /\ RetiresTheOneInForce'
<1>1. ConfigTypeOK /\ ReadsUnfinished /\ OthersNameARow /\ OneInForce /\ WritersHoldLock
      /\ RetiresTheOneInForce
  BY DEF PublishInv
<1>2. pub'[p] = Idle /\ \A q \in Publishers \ {p} : pub'[q] = pub[q]
  BY <1>1, StepTypes
<1>3. Idle.step = "idle" /\ Idle.op = "none"
  BY DEF Idle
<1>4. \A q \in Publishers \ {p} : publishLock = q => publishLock' = q
  BY DEF Finish
<1> QED BY <1>1, <1>2, <1>3, <1>4 DEF ReadsUnfinished, OthersNameARow, OneInForce,
           WritersHoldLock, RetiresTheOneInForce

(* One that ends after writing had the lock, so that no other is writing.   *)
LEMMA EndedWriting ==
    ASSUME PublishInv, NEW p \in Publishers, Finish(p), pub[p].step = "write"
    PROVE  /\ ReadsUnfinished' /\ OthersNameARow'
           /\ WritersHoldLock' /\ RetiresTheOneInForce'
<1>1. ConfigTypeOK /\ ReadsUnfinished /\ OthersNameARow /\ WritersHoldLock
  BY DEF PublishInv
<1>2. pub'[p] = Idle /\ \A q \in Publishers \ {p} : pub'[q] = pub[q]
  BY <1>1, StepTypes
<1>3. Idle.step = "idle" /\ Idle.op = "none"
  BY DEF Idle
<1>4. \A q \in Publishers \ {p} : pub[q].step \notin {"again", "write"}
  BY <1>1 DEF WritersHoldLock
<1> QED BY <1>1, <1>2, <1>3, <1>4 DEF ReadsUnfinished, OthersNameARow, WritersHoldLock,
           RetiresTheOneInForce

(* PublishInv is inductive.                                                 *)
LEMMA PublishInvStep == PublishInv /\ [ConfigNext]_configVars => PublishInv'
<1> SUFFICES ASSUME PublishInv, [ConfigNext]_configVars PROVE PublishInv'
    OBVIOUS
<1>t. ConfigTypeOK' /\ ConfigTypeOK
  BY ConfigTypes DEF PublishInv
<1>u. versions \in [Nos -> Rows] /\ pub \in [Publishers -> Pubs]
  BY <1>t DEF ConfigTypeOK, Pubs, Rows
<1>i. ReadsUnfinished /\ OthersNameARow /\ OneInForce /\ WritersHoldLock /\ RetiresTheOneInForce
  BY DEF PublishInv
<1> USE DEF ReadsUnfinished, OthersNameARow, OneInForce, WritersHoldLock, RetiresTheOneInForce
<1>1. CASE EditLive \/ UNCHANGED configVars
  <2>1. UNCHANGED <<versions, stamp, publishLock, pub, clashed>>
    BY <1>1 DEF EditLive, configVars
  <2> QED BY <1>t, <1>i, <2>1 DEF PublishInv, LockLeavesNoConflict, Published
<1>2. ASSUME NEW n \in Nos, DeleteDraft(n) PROVE PublishInv'
  <2>1. Published' \subseteq Published
    BY <1>u, <1>2 DEF DeleteDraft, Published, Absent
  <2>2. UNCHANGED <<publishLock, pub, clashed>>
    BY <1>2 DEF DeleteDraft
  <2> QED BY <1>t, <1>i, <2>1, <2>2 DEF PublishInv, LockLeavesNoConflict
<1>3. ASSUME NEW p \in Publishers, StartPublish(p) PROVE PublishInv'
  <2>1. pub'[p].step = "reading" /\ pub'[p].op = "publish" /\ pub'[p].done = 0
        /\ \A q \in Publishers \ {p} : pub'[q] = pub[q]
    BY <1>u, <1>3 DEF StartPublish, Begin, Idle, Pubs
  <2>2. UNCHANGED <<versions, publishLock, clashed>>
    BY <1>3 DEF StartPublish
  <2>3. ReadsUnfinished' /\ OthersNameARow'
    BY <1>i, <2>1, ConfigAssumption
  <2> QED BY <1>t, <1>i, <2>1, <2>2, <2>3 DEF PublishInv, LockLeavesNoConflict, Published
<1>4. ASSUME NEW p \in Publishers, ReadPart(p) PROVE PublishInv'
  <2>1. /\ UNCHANGED <<versions, publishLock, clashed>>
        /\ \A q \in Publishers \ {p} : pub'[q] = pub[q]
        /\ pub'[p].step = IF pub[p].done + 1 = Selects THEN "check" ELSE "reading"
        /\ pub'[p].done = pub[p].done + 1 /\ pub'[p].op = pub[p].op /\ pub'[p].no = pub[p].no
    BY <1>u, <1>4 DEF ReadPart, Pubs
  <2>2. pub[p].done \in Nat /\ pub[p].done < Selects
    BY <1>u, <1>i, <1>4 DEF ReadPart, Pubs
  <2>3. ReadsUnfinished' /\ OthersNameARow'
    BY <1>i, <2>1, <2>2
  <2> QED BY <1>t, <1>i, <2>1, <2>3 DEF PublishInv, LockLeavesNoConflict, Published
<1>5. ASSUME NEW p \in Publishers, CheckSnapshot(p) PROVE PublishInv'
  <2>1. UNCHANGED <<versions, clashed>> /\ pub[p].step = "check"
        /\ (Finish(p) \/ (To(p, "lock") /\ UNCHANGED publishLock))
    BY <1>5 DEF CheckSnapshot
  <2>2. CASE Finish(p)
    BY <1>t, <1>i, <2>1, <2>2, Ended DEF PublishInv, LockLeavesNoConflict, Published
  <2>3. CASE To(p, "lock") /\ UNCHANGED publishLock
    <3>1. "lock" \in PubSteps
      BY DEF PubSteps
    <3>2. pub'[p].step = "lock" /\ pub'[p].op = pub[p].op /\ pub'[p].no = pub[p].no
          /\ \A q \in Publishers \ {p} : pub'[q] = pub[q]
      BY <1>t, <2>3, <3>1, StepTypes
    <3> QED BY <1>t, <1>i, <2>1, <2>3, <3>2 DEF PublishInv, LockLeavesNoConflict, Published
  <2> QED BY <2>1, <2>2, <2>3
<1>6. ASSUME NEW p \in Publishers, TakePublishLock(p) PROVE PublishInv'
  <2> DEFINE step == IF pub[p].op = "publish" THEN "again" ELSE "write"
  <2>1. UNCHANGED <<versions, clashed>> /\ publishLock = NoPublisher /\ publishLock' = p
        /\ To(p, step) /\ step \in PubSteps
    BY <1>6 DEF TakePublishLock, PubSteps
  <2>2. pub'[p].step = step /\ pub'[p].op = pub[p].op /\ pub'[p].no = pub[p].no
        /\ \A q \in Publishers \ {p} : pub'[q] = pub[q]
    BY <1>t, <2>1, StepTypes
  <2>3. \A q \in Publishers : publishLock # q
    BY <2>1, ConfigAssumption
  <2>4. ReadsUnfinished' /\ OthersNameARow'
    BY <1>i, <2>2
  <2>5. WritersHoldLock' /\ RetiresTheOneInForce'
    BY <1>i, <2>1, <2>2, <2>3 DEF Published
  <2> QED BY <1>t, <1>i, <2>1, <2>4, <2>5 DEF PublishInv, LockLeavesNoConflict, Published
<1>7. ASSUME NEW p \in Publishers, CheckAgain(p) PROVE PublishInv'
  <2>1. UNCHANGED <<versions, clashed>> /\ pub[p].step = "again"
    BY <1>7 DEF CheckAgain
  <2>2. CASE Unchanged(p)
    <3>1. Finish(p)
      BY <1>7, <2>2 DEF CheckAgain
    <3> QED BY <1>t, <1>i, <2>1, <3>1, Ended DEF PublishInv, LockLeavesNoConflict, Published
  <2>3. CASE ~Unchanged(p)
    <3>1. pub' = [pub EXCEPT ![p].step = "write", ![p].no = InForce] /\ UNCHANGED publishLock
      BY <1>7, <2>3 DEF CheckAgain
    <3>2. pub'[p].step = "write" /\ pub'[p].op = pub[p].op /\ pub'[p].no = InForce
          /\ \A q \in Publishers \ {p} : pub'[q] = pub[q]
      BY <1>u, <3>1 DEF Pubs
    <3>3. \A n \in Published : n = InForce
      BY <1>i, InForceIsTheOne
    <3>4. ReadsUnfinished' /\ OthersNameARow'
      BY <1>i, <2>1, <3>2
    <3>5. WritersHoldLock' /\ RetiresTheOneInForce'
      <4>1. \A q \in Publishers \ {p} : pub[q].step \notin {"again", "write"}
        BY <1>i, <2>1
      <4>2. publishLock' = publishLock /\ publishLock = p /\ Published' = Published
        BY <1>i, <2>1, <3>1 DEF Published
      <4> QED BY <1>i, <3>2, <3>3, <4>1, <4>2
    <3> QED BY <1>t, <1>i, <2>1, <3>4, <3>5 DEF PublishInv, LockLeavesNoConflict, Published
  <2> QED BY <2>2, <2>3
<1>8. ASSUME NEW p \in Publishers, CommitPublish(p) PROVE PublishInv'
  <2>0. PICK old, snap, source : old = pub[p].no /\ snap = pub[p].snap /\ source = 0
    OBVIOUS
  <2>1. Replace(p, old, snap, source) /\ pub[p].step = "write"
        /\ \A n \in Published : n = old
    BY <1>i, <1>8, <2>0 DEF CommitPublish
  <2>2. snap \in Snapshots /\ source \in 0..MaxVersions
    BY <1>u, <2>0 DEF Pubs
  <2>3. Finish(p) /\ clashed' = clashed /\ OneInForce'
    <3>1. Published \subseteq {old} /\ Replace(p, old, snap, source)
      BY <2>1
    <3> HIDE DEF OneInForce
    <3> QED BY <1>t, <2>2, <3>1, Replaces
  <2> QED BY <1>t, <1>i, <2>1, <2>3, EndedWriting DEF PublishInv, LockLeavesNoConflict
<1>9. ASSUME NEW p \in Publishers, Activate(p) PROVE PublishInv'
  <2>1. Finish(p) /\ UNCHANGED clashed /\ pub[p].step = "write"
    BY <1>9 DEF Activate
  <2>2. OneInForce'
    <3>1. CASE UNCHANGED versions
      BY <1>i, <3>1 DEF Published
    <3>2. CASE ~UNCHANGED versions
      <4>1. versions' = [o \in Nos |->
                   IF o = pub[p].no THEN [versions[o] EXCEPT !.status = "PUBLISHED"]
                   ELSE IF o = InForce THEN [versions[o] EXCEPT !.status = "RETIRED"]
                   ELSE versions[o]]
        BY <1>9, <3>2 DEF Activate
      <4>2. \A n \in Published : n = InForce
        BY <1>i, InForceIsTheOne
      <4>3. ASSUME NEW o \in Nos, o # pub[p].no PROVE versions'[o].status # "PUBLISHED"
        <5>1. CASE o = InForce
          BY <1>u, <4>1, <4>3, <5>1 DEF Rows
        <5>2. CASE o # InForce
          BY <4>1, <4>2, <4>3, <5>2 DEF Published
        <5> QED BY <5>1, <5>2
      <4> QED BY <4>3 DEF Published
    <3> QED BY <3>1, <3>2
  <2> QED BY <1>t, <1>i, <2>1, <2>2, EndedWriting DEF PublishInv, LockLeavesNoConflict
<1>10. ASSUME NEW p \in Publishers, Rollback(p) PROVE PublishInv'
  <2> DEFINE source == pub[p].no
             snap == versions[source].snap
  <2>1. pub[p].step = "write" /\ source \in 0..MaxVersions /\ snap \in Snapshots
    BY <1>u, <1>i, <1>10 DEF Rollback, Pubs, Rows
  <2>2. Published \subseteq {InForce}
    BY <1>i, InForceIsTheOne
  <2>3. \/ Replace(p, InForce, snap, source)
        \/ Finish(p) /\ UNCHANGED <<versions, clashed>>
    BY <1>10 DEF Rollback
  <2> HIDE DEF source, snap
  <2>4. CASE Replace(p, InForce, snap, source)
    <3>1. Finish(p) /\ clashed' = clashed /\ OneInForce'
      <4> HIDE DEF OneInForce
      <4> QED BY <1>t, <2>1, <2>2, <2>4, Replaces
    <3> QED BY <1>t, <1>i, <2>1, <3>1, EndedWriting DEF PublishInv, LockLeavesNoConflict
  <2>5. CASE Finish(p) /\ UNCHANGED <<versions, clashed>>
    BY <1>t, <1>i, <2>1, <2>5, Ended DEF PublishInv, LockLeavesNoConflict, Published
  <2> QED BY <2>3, <2>4, <2>5
<1>11. ASSUME NEW p \in Publishers, CommitRetire(p) PROVE PublishInv'
  <2>1. Published' \subseteq Published
    BY <1>u, <1>11 DEF CommitRetire, Published, Rows
  <2>2. Finish(p) /\ UNCHANGED clashed /\ pub[p].step = "retire"
    BY <1>11 DEF CommitRetire
  <2> QED BY <1>t, <1>i, <2>1, <2>2, Ended DEF PublishInv, LockLeavesNoConflict
<1>12. ASSUME NEW p \in Publishers, NEW n \in Nos, NEW op \in {"activate", "rollback"},
              StartChange(p, op, n) PROVE PublishInv'
  <2>1. "lock" \in PubSteps /\ "ABSENT" \in Statuses /\ n \in 0..MaxVersions
    BY DEF PubSteps, Statuses, Nos
  <2>2. pub'[p].step = "lock" /\ pub'[p].op = op /\ pub'[p].no = n
        /\ \A q \in Publishers \ {p} : pub'[q] = pub[q]
    BY <1>t, <1>12, <2>1, StepTypes DEF StartChange
  <2>3. UNCHANGED <<versions, publishLock, clashed>>
    BY <1>12 DEF StartChange
  <2>4. ReadsUnfinished' /\ OthersNameARow'
    BY <1>i, <2>2
  <2> QED BY <1>t, <1>i, <2>2, <2>3, <2>4 DEF PublishInv, LockLeavesNoConflict, Published
<1>13. ASSUME NEW p \in Publishers, NEW n \in Nos, StartRetire(p, n) PROVE PublishInv'
  <2>1. "retire" \in PubSteps /\ n \in 0..MaxVersions /\ versions[n].status \in Statuses
    BY <1>u DEF PubSteps, Nos, Rows
  <2>2. pub'[p].step = "retire" /\ pub'[p].op = "retire" /\ pub'[p].no = n
        /\ \A q \in Publishers \ {p} : pub'[q] = pub[q]
    BY <1>t, <1>13, <2>1, StepTypes DEF StartRetire
  <2>3. UNCHANGED <<versions, publishLock, clashed>>
    BY <1>13 DEF StartRetire
  <2>4. ReadsUnfinished' /\ OthersNameARow'
    BY <1>i, <2>2
  <2> QED BY <1>t, <1>i, <2>2, <2>3, <2>4 DEF PublishInv, LockLeavesNoConflict, Published
<1> QED BY <1>1, <1>2, <1>3, <1>4, <1>5, <1>6, <1>7, <1>8, <1>9, <1>10, <1>11, <1>12, <1>13
        DEF ConfigNext

(* The publication lock serialises publish, activate and rollback: the      *)
(* unique indexes never refuse a version, so that                           *)
(* CONFIGURATION_PUBLISH_CONFLICT is never answered.                        *)
THEOREM LockSuffices == ConfigSpec => []LockLeavesNoConflict
<1>1. ConfigInit => PublishInv
  <2> SUFFICES ASSUME ConfigInit PROVE PublishInv
    OBVIOUS
  <2>1. [s \in 1..Selects |-> Empty] \in Snapshots
    BY ConfigAssumption DEF Snapshots
  <2>2. Idle \in Pubs /\ Absent \in Rows
    BY <2>1, ConfigAssumption DEF Idle, Absent, Pubs, Rows, PubSteps, Statuses
  <2>3. live \in Snapshots /\ [Absent EXCEPT !.status = "DRAFT", !.snap = live] \in Rows
        /\ Absent.status = "ABSENT"
        /\ [Absent EXCEPT !.status = "DRAFT", !.snap = live].status = "DRAFT"
    BY <2>2 DEF ConfigInit, Rows, Statuses, Absent
  <2>4. PICK first \in {Absent, [Absent EXCEPT !.status = "DRAFT", !.snap = live]} :
           versions = [n \in Nos |-> IF n = 1 THEN first ELSE Absent]
    BY DEF ConfigInit
  <2>5. versions \in [Nos -> Rows] /\ Published = {}
    BY <2>2, <2>3, <2>4 DEF Published
  <2>6. pub = [p \in Publishers |-> Idle] /\ stamp = 0 /\ publishLock = NoPublisher
        /\ clashed = FALSE /\ overrun = {}
        /\ configBudget = [edits |-> MaxConfigEdits, requests |-> MaxPublishing]
    BY DEF ConfigInit
  <2>7. ConfigTypeOK
    <3>1. pub \in [Publishers -> Pubs] /\ stamp \in 0..MaxVersions /\ configBudget \in Budgets
      BY <2>2, <2>6, ConfigAssumption DEF Budgets
    <3>2. publishLock \in Publishers \cup {NoPublisher} /\ clashed \in BOOLEAN /\ overrun \subseteq Nos
      BY <2>6
    <3> QED BY <2>3, <2>5, <3>1, <3>2 DEF ConfigTypeOK, Pubs, Rows, Budgets
  <2>8. \A p \in Publishers : pub[p].step = "idle" /\ pub[p].op = "none"
    BY <2>6 DEF Idle
  <2> QED BY <2>5, <2>6, <2>7, <2>8 DEF PublishInv, ReadsUnfinished, OthersNameARow, OneInForce,
          WritersHoldLock, RetiresTheOneInForce, LockLeavesNoConflict
<1>2. PublishInv => LockLeavesNoConflict
  BY DEF PublishInv
<1> QED BY <1>1, <1>2, PublishInvStep, PTL DEF ConfigSpec

-----------------------------------------------------------------------------
(***************************************************************************)
(* Part seven: the component pages.  A layout checked while there were too *)
(* many rows does not show one only; an attribute without a membership is  *)
(* loose; and so is one under whose code no row, nor a row that a save has *)
(* read and that is still there, keeps its value.                          *)
(***************************************************************************)
KeepsCode(v) == v[1] \in Attributes /\ (code[v[1]] = v[2] \/ v[1] \in loose)
Saved ==
    /\ DOMAIN layout = Tabs /\ DOMAIN code = Attributes /\ DOMAIN member = Attributes
    /\ DOMAIN rows = Jobs /\ \A j \in Jobs : DOMAIN rows[j] \subseteq RowIds
    /\ \A j \in Jobs : \A r \in DOMAIN rows[j] : \A v \in rows[j][r] : KeepsCode(v)
    /\ \A a \in Attributes : member[a] = "NONE" => a \in loose
    /\ SavedRowsStayVisible
Designing(b) ==
    /\ DOMAIN b = DOMAIN Resting
    /\ b.step = "layout" => b.on \in Tabs /\ (~b.clear => ~ShowsOne(b.to))
    /\ b.step \in {"rename", "erase"} => b.on \in Attributes
    /\ b.step = "rename" => b.clear
    /\ b.step \in {"rows", "save"} =>
           /\ b.job \in Jobs /\ \A f \in b.fields : f[1] \in Attributes
    /\ b.step = "save" =>
           /\ DOMAIN b.seen \subseteq RowIds
           /\ \A r \in DOMAIN b.seen \cap DOMAIN rows[b.job] : \A v \in b.seen[r] : KeepsCode(v)
    /\ b.step # "save" => b.seen = <<>>
ComponentsInv ==
    Saved /\ DOMAIN design = Designers /\ \A d \in Designers : Designing(design[d])

(* A request's step: the others know what they knew.                        *)
LEMMA DesignGoesOn ==
    ASSUME ComponentsInv, NEW d \in Designers, NEW b, design' = [design EXCEPT ![d] = b],
           Designing(b)', Saved',
           (\E j \in Jobs : DOMAIN rows'[j] # {}) => \A v : KeepsCode(v) => KeepsCode(v)',
           \A o \in Designers \ {d}, j \in Jobs :
               DOMAIN rows'[j] \cap DOMAIN design[o].seen \subseteq DOMAIN rows[j]
    PROVE  ComponentsInv'
<1>1. /\ DOMAIN design' = Designers /\ design'[d] = b
      /\ \A o \in Designers \ {d} : design'[o] = design[o]
  BY DEF ComponentsInv
<1>2. ASSUME NEW o \in Designers \ {d} PROVE Designing(design[o])'
  <2>1. PICK c : c = design[o]
    OBVIOUS
  <2>2. Designing(c)
    BY <2>1 DEF ComponentsInv
  <2>3. ASSUME c.step = "save", NEW r \in DOMAIN c.seen \cap DOMAIN rows'[c.job], NEW v \in c.seen[r]
        PROVE  KeepsCode(v)'
    <3>1. c.job \in Jobs /\ r \in DOMAIN rows[c.job]
      BY <2>1, <2>2, <2>3 DEF Designing
    <3>2. KeepsCode(v)
      BY <2>2, <2>3, <3>1 DEF Designing
    <3> QED BY <2>3, <3>1, <3>2
  <2>4. Designing(c)'
    BY <2>2, <2>3 DEF Designing
  <2> QED BY <1>1, <2>1, <2>4
<1>3. \A o \in Designers : Designing(design[o])'
  <2>1. Designing(design[d])'
    BY <1>1
  <2> HIDE DEF Designing
  <2> QED BY <1>2, <2>1
<1> HIDE DEF Designing, Saved
<1> QED BY <1>1, <1>3 DEF ComponentsInv

(* Steps that change no row, code nor mark.                                 *)
LEMMA DesignMoves ==
    ASSUME ComponentsInv, NEW d \in Designers, NEW b, design' = [design EXCEPT ![d] = b],
           UNCHANGED <<code, rows, loose>>, Designing(b), Saved'
    PROVE  ComponentsInv'
<1>1. Designing(b)' /\ \A v : KeepsCode(v) => KeepsCode(v)'
  BY DEF Designing, KeepsCode
<1>2. \A o \in Designers \ {d}, j \in Jobs :
          DOMAIN rows'[j] \cap DOMAIN design[o].seen \subseteq DOMAIN rows[j]
  OBVIOUS
<1> HIDE DEF Designing, Saved, KeepsCode
<1> QED BY <1>1, <1>2, DesignGoesOn

LEMMA RestingIsQuiet == Designing(Resting) /\ Designing(Resting)'
BY DEF Designing, Resting

(* Layouts: a tab is hidden by a commit only if it was excused.             *)
LEMMA LayoutSteps ==
    ASSUME ComponentsInv, NEW d \in Designers,
           \/ \E t \in Tabs : Detach(d, t) \/ \E l \in Layouts : GuardLayout(d, t, l)
           \/ SetRenderMode(d) \/ CommitLayout(d)
    PROVE  ComponentsInv'
<1>1. CASE CommitLayout(d)
  <2>1. Designing(design[d]) /\ design[d].step = "layout"
    BY <1>1 DEF CommitLayout, ComponentsInv
  <2>2. PICK t, to : t = design[d].on /\ to = design[d].to
    OBVIOUS
  <2>3. /\ t \in Tabs /\ layout' = [layout EXCEPT ![t] = to]
        /\ design' = [design EXCEPT ![d] = Resting]
        /\ UNCHANGED <<member, code, rows, loose>>
    BY <1>1, <2>1, <2>2 DEF CommitLayout, DesignEnds, Designing
  <2>4. Hiding(layout', rows) \subseteq excused'
    <3>1. CASE design[d].clear
      BY <1>1, <3>1 DEF CommitLayout, ComponentsInv, Saved, SavedRowsStayVisible
    <3>2. CASE ~design[d].clear
      <4>1. ~ShowsOne(to) /\ excused' = excused
        BY <1>1, <2>1, <2>2, <3>2 DEF CommitLayout, Designing
      <4>2. Hiding(layout', rows) \subseteq Hiding(layout, rows)
        BY <2>3, <4>1 DEF Hiding, ComponentsInv, Saved
      <4> QED BY <4>1, <4>2 DEF ComponentsInv, Saved, SavedRowsStayVisible
    <3> QED BY <3>1, <3>2
  <2>5. DOMAIN layout' = Tabs
    BY <2>3 DEF ComponentsInv, Saved
  <2>6. Saved'
    BY <2>3, <2>4, <2>5 DEF ComponentsInv, Saved, SavedRowsStayVisible, KeepsCode
  <2> HIDE DEF Designing, Saved
  <2> QED BY <2>3, <2>6, RestingIsQuiet, DesignMoves
<1>2. ASSUME NEW t \in Tabs, Detach(d, t) PROVE ComponentsInv'
  <2>1. /\ layout' = [layout EXCEPT ![t] = "NONE"] /\ design' = [design EXCEPT ![d] = Resting]
        /\ UNCHANGED <<member, code, rows, excused, loose>>
    BY <1>2 DEF Detach, DesignBegins
  <2>2. DOMAIN layout' = Tabs /\ Hiding(layout', rows) \subseteq Hiding(layout, rows)
    BY <2>1 DEF Hiding, ComponentsInv, Saved
  <2>3. Saved'
    BY <2>1, <2>2 DEF ComponentsInv, Saved, SavedRowsStayVisible, KeepsCode
  <2> HIDE DEF Designing, Saved
  <2> QED BY <2>1, <2>3, RestingIsQuiet, DesignMoves
<1>3. ASSUME NEW t \in Tabs, NEW l \in Layouts, GuardLayout(d, t, l) PROVE ComponentsInv'
  <2>0. PICK current : current = IF layout[t] = "NONE" THEN legacy ELSE layout[t]
    OBVIOUS
  <2>1. PICK b : b = [Resting EXCEPT !.step = "layout", !.on = t, !.to = l,
                                  !.clear = ~Crowded \/ current = "formOnly"]
    OBVIOUS
  <2>2. /\ design' = [design EXCEPT ![d] = b] /\ ~(BecomesSingle(current, l) /\ Crowded)
        /\ UNCHANGED <<layout, member, code, rows, excused, loose>>
    BY <1>3, <2>0, <2>1 DEF GuardLayout, DesignBegins
  <2>3. /\ DOMAIN b = DOMAIN Resting /\ b.step = "layout" /\ b.on = t /\ b.to = l
        /\ b.clear = (~Crowded \/ current = "formOnly") /\ b.seen = <<>>
    BY <2>1 DEF Resting
  <2>4. Designing(b)
    BY <2>2, <2>3 DEF Designing, BecomesSingle
  <2>5. Saved'
    BY <2>2 DEF ComponentsInv, Saved, SavedRowsStayVisible, KeepsCode
  <2> HIDE DEF Designing, Saved
  <2> QED BY <2>2, <2>4, <2>5, DesignMoves
<1>4. CASE SetRenderMode(d)
  <2>1. /\ design' = [design EXCEPT ![d] = Resting]
        /\ UNCHANGED <<layout, member, code, rows, excused, loose>>
    BY <1>4 DEF SetRenderMode, DesignBegins
  <2>2. Saved'
    BY <2>1 DEF ComponentsInv, Saved, SavedRowsStayVisible, KeepsCode
  <2> HIDE DEF Designing, Saved
  <2> QED BY <2>1, <2>2, RestingIsQuiet, DesignMoves
<1> QED BY <1>1, <1>2, <1>3, <1>4

(* Attributes: a rename that rows would notice is refused or marked.        *)
LEMMA AttributeSteps ==
    ASSUME ComponentsInv, NEW d \in Designers,
           \/ \E a \in Attributes :
                 \/ \E s \in {"NONE", "ACTIVE", "INACTIVE"} : SetMembership(d, a, s)
                 \/ \E c \in FieldCodes : CheckRename(d, a, c)
                 \/ CheckErase(d, a)
           \/ CommitRename(d) \/ CommitErase(d)
    PROVE  ComponentsInv'
<1>1. ASSUME NEW a \in Attributes, NEW s, SetMembership(d, a, s) PROVE ComponentsInv'
  <2>1. /\ design' = [design EXCEPT ![d] = Resting] /\ member' = [member EXCEPT ![a] = s]
        /\ loose' = (IF s = "NONE" THEN loose \cup {a} ELSE loose)
        /\ UNCHANGED <<layout, code, rows, excused>>
    BY <1>1 DEF SetMembership, DesignBegins
  <2>2. \A v : KeepsCode(v) => KeepsCode(v)'
    BY <2>1 DEF KeepsCode
  <2>3. DOMAIN member' = Attributes /\ \A x \in Attributes : member'[x] = "NONE" => x \in loose'
    BY <2>1 DEF ComponentsInv, Saved
  <2>4. Saved'
    BY <2>1, <2>2, <2>3 DEF ComponentsInv, Saved, SavedRowsStayVisible
  <2>5. \A o \in Designers \ {d}, j \in Jobs :
            DOMAIN rows'[j] \cap DOMAIN design[o].seen \subseteq DOMAIN rows[j]
    BY <2>1
  <2> HIDE DEF Designing, Saved, KeepsCode
  <2> QED BY <2>1, <2>2, <2>4, <2>5, RestingIsQuiet, DesignGoesOn
<1>2. ASSUME NEW a \in Attributes, NEW c, CheckRename(d, a, c) \/ CheckErase(d, a)
      PROVE  ComponentsInv'
  <2>1. PICK b \in {[Resting EXCEPT !.step = "rename", !.on = a, !.code = c, !.clear = TRUE],
                    [Resting EXCEPT !.step = "erase", !.on = a]} :
            design' = [design EXCEPT ![d] = b]
    BY <1>2 DEF CheckRename, CheckErase, DesignBegins
  <2>2. UNCHANGED <<layout, member, code, rows, excused, loose>>
    BY <1>2 DEF CheckRename, CheckErase
  <2>3. /\ DOMAIN b = DOMAIN Resting /\ b.step \in {"rename", "erase"} /\ b.on = a
        /\ b.clear /\ b.seen = <<>>
    BY <2>1 DEF Resting
  <2>4. Designing(b)
    BY <2>3 DEF Designing
  <2>5. Saved'
    BY <2>2 DEF ComponentsInv, Saved, SavedRowsStayVisible, KeepsCode
  <2> HIDE DEF Designing, Saved
  <2> QED BY <2>1, <2>2, <2>4, <2>5, DesignMoves
<1>3. CASE CommitErase(d)
  <2>1. PICK a : a = design[d].on
    OBVIOUS
  <2>2. /\ a \in Attributes /\ code' = [code EXCEPT ![a] = NoCode]
        /\ member' = [member EXCEPT ![a] = "NONE"] /\ loose' = loose \cup {a}
        /\ design' = [design EXCEPT ![d] = Resting] /\ UNCHANGED <<layout, rows, excused>>
    BY <1>3, <2>1 DEF CommitErase, DesignEnds, ComponentsInv, Designing
  <2>3. \A v : KeepsCode(v) => KeepsCode(v)'
    BY <2>2 DEF KeepsCode, ComponentsInv, Saved
  <2>4. /\ DOMAIN member' = Attributes /\ DOMAIN code' = Attributes
        /\ \A x \in Attributes : member'[x] = "NONE" => x \in loose'
    BY <2>2 DEF ComponentsInv, Saved
  <2>5. Saved'
    BY <2>2, <2>3, <2>4 DEF ComponentsInv, Saved, SavedRowsStayVisible
  <2>6. \A o \in Designers \ {d}, j \in Jobs :
            DOMAIN rows'[j] \cap DOMAIN design[o].seen \subseteq DOMAIN rows[j]
    BY <2>2
  <2> HIDE DEF Designing, Saved, KeepsCode
  <2> QED BY <2>2, <2>3, <2>5, <2>6, RestingIsQuiet, DesignGoesOn
<1>4. CASE CommitRename(d)
  <2>1. PICK a : a = design[d].on
    OBVIOUS
  <2>2. /\ a \in Attributes /\ design[d].clear /\ design' = [design EXCEPT ![d] = Resting]
        /\ UNCHANGED <<layout, member, rows, excused>>
    BY <1>4, <2>1 DEF CommitRename, DesignEnds, ComponentsInv, Designing
  <2>3. \/ /\ code' = [code EXCEPT ![a] = design[d].code]
           /\ loose' = IF Referenced(a) THEN loose \cup {a} ELSE loose
        \/ UNCHANGED <<code, loose>>
    BY <1>4, <2>1, <2>2 DEF CommitRename
  <2>4. loose \subseteq loose' /\ DOMAIN code' = Attributes
    BY <2>3 DEF ComponentsInv, Saved
  <2>5. (\E j \in Jobs : DOMAIN rows[j] # {}) => \A v : KeepsCode(v) => KeepsCode(v)'
    BY <2>2, <2>3 DEF KeepsCode, Referenced, ComponentsInv, Saved
  <2>6. Saved'
    BY <2>2, <2>4, <2>5 DEF ComponentsInv, Saved, SavedRowsStayVisible
  <2>7. \A o \in Designers \ {d}, j \in Jobs :
            DOMAIN rows'[j] \cap DOMAIN design[o].seen \subseteq DOMAIN rows[j]
    BY <2>2
  <2> HIDE DEF Designing, Saved, KeepsCode
  <2> QED BY <2>2, <2>5, <2>6, <2>7, RestingIsQuiet, DesignGoesOn
<1> QED BY <1>1, <1>2, <1>3, <1>4

LEMMA ReadSteps ==
    ASSUME ComponentsInv, NEW d \in Designers,
           ReadRows(d) \/ \E j \in Jobs, t \in Tabs \cup {NoTab} : ReadLayout(d, j, t)
    PROVE  ComponentsInv'
<1>1. ASSUME NEW j \in Jobs, NEW t \in Tabs \cup {NoTab}, ReadLayout(d, j, t)
      PROVE  ComponentsInv'
  <2>1. PICK fields, to :
          /\ design' = [design EXCEPT ![d] = [Resting EXCEPT !.step = "rows", !.job = j, !.on = t,
                                                             !.to = to, !.fields = fields]]
          /\ fields = {<<a, code[a]>> : a \in {x \in Attributes : member[x] = "ACTIVE"}}
    BY <1>1 DEF ReadLayout, DesignBegins
  <2>2. PICK b : b = [Resting EXCEPT !.step = "rows", !.job = j, !.on = t,
                                     !.to = to, !.fields = fields]
    OBVIOUS
  <2>3. /\ DOMAIN b = DOMAIN Resting /\ b.step = "rows" /\ b.job = j /\ b.fields = fields
        /\ b.seen = <<>> /\ \A f \in fields : f[1] \in Attributes
    BY <2>1, <2>2 DEF Resting
  <2>4. Designing(b)
    BY <2>3 DEF Designing
  <2>5. UNCHANGED <<layout, member, code, rows, excused, loose>>
    BY <1>1 DEF ReadLayout
  <2>6. Saved'
    BY <2>5 DEF ComponentsInv, Saved, SavedRowsStayVisible, KeepsCode
  <2> HIDE DEF Designing, Saved
  <2> QED BY <2>1, <2>2, <2>4, <2>5, <2>6, DesignMoves
<1>2. CASE ReadRows(d)
  <2>1. PICK b : b = [design[d] EXCEPT !.step = "save", !.seen = rows[design[d].job]]
    OBVIOUS
  <2>2. /\ Designing(design[d]) /\ design[d].step = "rows" /\ DOMAIN design = Designers
        /\ UNCHANGED <<layout, member, code, rows, excused, loose>>
    BY <1>2 DEF ReadRows, ComponentsInv
  <2>3. design' = [design EXCEPT ![d] = b]
    BY <1>2, <2>1, <2>2 DEF ReadRows, Designing
  <2>4. /\ DOMAIN b = DOMAIN Resting /\ b.step = "save" /\ b.job = design[d].job
        /\ b.fields = design[d].fields /\ b.seen = rows[b.job] /\ b.job \in Jobs
    BY <2>1, <2>2 DEF Designing, Resting
  <2>5. Designing(b)
    BY <2>2, <2>4 DEF Designing, ComponentsInv, Saved
  <2>6. Saved'
    BY <2>2 DEF ComponentsInv, Saved, SavedRowsStayVisible, KeepsCode
  <2> HIDE DEF Designing, Saved
  <2> QED BY <2>2, <2>3, <2>5, <2>6, DesignMoves
<1> QED BY <1>1, <1>2

(* A save that nothing overlapped leaves one record where one is shown.     *)
LEMMA SavesKeepToOne ==
    ASSUME ComponentsInv, ComponentsAssumption, NEW d \in Designers,
           NEW kept \in SUBSET RowIds, NEW new \in SUBSET RowIds, NEW filled,
           Save(d, kept, new, filled),
           NEW t \in Hiding(layout, rows') \ Hiding(layout, rows)
    PROVE  t \in excused'
<1>0. PICK j : j = design[d].job
  OBVIOUS
<1>1. /\ j \in Jobs /\ design[d].step = "save"
      /\ excused' = excused \cup
           {x \in Hiding(layout, rows') \ Hiding(layout, rows) :
               x # design[d].on \/ layout[x] # design[d].to \/ rows[j] # design[d].seen}
      /\ MayHold(design[d].to, Cardinality(kept) + Cardinality(new))
      /\ kept \subseteq DOMAIN design[d].seen
      /\ (\A i \in Jobs \ {j} : rows'[i] = rows[i]) /\ DOMAIN rows = Jobs
  BY <1>0 DEF Save, ComponentsInv, Designing, Saved
<1>2. SUFFICES ASSUME rows[j] = design[d].seen, layout[t] = design[d].to PROVE FALSE
  BY <1>1
<1>3. ShowsOne(layout[t]) /\ ~Crowd(rows) /\ Crowd(rows')
  BY DEF Hiding
<1>4. DOMAIN rows'[j] = kept \cup new
  <2>1. kept \subseteq DOMAIN rows[j]
    BY <1>1, <1>2
  <2>2. PICK table : /\ DOMAIN table = (DOMAIN rows[j] \ DOMAIN design[d].seen) \cup kept \cup new
                     /\ rows' = [rows EXCEPT ![j] = table]
    BY <1>0, <2>1 DEF Save
  <2> QED BY <1>1, <1>2, <2>2
<1>5. /\ IsFiniteSet(kept) /\ IsFiniteSet(new) /\ IsFiniteSet(kept \cap new)
      /\ Cardinality(kept) + Cardinality(new) <= 1
  <2>1. IsFiniteSet(RowIds) /\ kept \cap new \in SUBSET RowIds
    BY DEF ComponentsAssumption
  <2> QED BY <1>1, <1>2, <1>3, <2>1, FS_Subset DEF MayHold
<1>6. Cardinality(kept \cup new) <= 1
  <2>1. Cardinality(kept \cup new) = Cardinality(kept) + Cardinality(new) - Cardinality(kept \cap new)
    BY <1>5, FS_Union
  <2>2. /\ Cardinality(kept) \in Nat /\ Cardinality(new) \in Nat
        /\ Cardinality(kept \cap new) \in Nat
    BY <1>5, FS_CardinalityType
  <2> QED BY <1>5, <2>1, <2>2
<1>7. PICK i \in Jobs : Cardinality(DOMAIN rows'[i]) > 1
  BY <1>3 DEF Crowd
<1>8. Cardinality(kept \cup new) \in Nat
  BY <1>5, FS_Union, FS_CardinalityType
<1>9. CASE i = j
  BY <1>4, <1>6, <1>7, <1>8, <1>9
<1>10. CASE i # j
  BY <1>1, <1>3, <1>7, <1>10 DEF Crowd
<1> QED BY <1>9, <1>10

LEMMA SaveSteps ==
    ASSUME ComponentsInv, ComponentsAssumption, NEW d \in Designers,
           NEW kept \in SUBSET RowIds, NEW new \in SUBSET RowIds, NEW filled,
           Save(d, kept, new, filled)
    PROVE  ComponentsInv'
<1>0. PICK j, seen : j = design[d].job /\ seen = design[d].seen
  OBVIOUS
<1>1. /\ j \in Jobs /\ design[d].step = "save" /\ Designing(design[d])
      /\ design' = [design EXCEPT ![d] = Resting] /\ UNCHANGED <<layout, member, code>>
      /\ loose' = loose \cup {f[1] : f \in {x \in filled : code[x[1]] # x[2]}}
      /\ new \cap DOMAIN rows[j] = {} /\ \A o \in Designers : new \cap DOMAIN design[o].seen = {}
      /\ filled \subseteq design[d].fields
  BY <1>0 DEF Save, DesignEnds, ComponentsInv, Designing
<1>2. \A v : KeepsCode(v) => KeepsCode(v)'
  BY <1>1 DEF KeepsCode
<1>3. \A v \in filled : KeepsCode(v)'
  BY <1>1 DEF KeepsCode, Designing
<1>4. PICK table : /\ \/ table = rows[j]
                      \/ /\ DOMAIN table \subseteq (DOMAIN rows[j] \cup new)
                         /\ \A r \in DOMAIN table : \A v \in table[r] :
                               \/ v \in filled
                               \/ (r \in DOMAIN rows[j] /\ v \in rows[j][r])
                               \/ (r \in DOMAIN rows[j] \cap DOMAIN seen /\ v \in seen[r])
                   /\ DOMAIN rows' = Jobs /\ rows'[j] = table
                   /\ \A i \in Jobs \ {j} : rows'[i] = rows[i]
  <2>0. DOMAIN rows = Jobs
    BY DEF ComponentsInv, Saved
  <2>1. CASE kept \subseteq DOMAIN rows[j]
    <3>1. PICK recalled : recalled = {f[2] : f \in design[d].fields}
      OBVIOUS
    <3>2. PICK table : /\ table = [r \in (DOMAIN rows[j] \ DOMAIN seen) \cup kept \cup new |->
                                      IF r \in kept THEN {v \in seen[r] : v[2] \notin recalled} \cup filled
                                      ELSE IF r \in new THEN filled ELSE rows[j][r]]
                       /\ rows' = [rows EXCEPT ![j] = table]
      <4>1. rows' = [rows EXCEPT ![design[d].job] =
                 [r \in (DOMAIN rows[design[d].job] \ DOMAIN design[d].seen) \cup kept \cup new |->
                     IF r \in kept
                       THEN {v \in design[d].seen[r] : v[2] \notin {f[2] : f \in design[d].fields}}
                                \cup filled
                       ELSE IF r \in new THEN filled ELSE rows[design[d].job][r]]]
        BY <1>0, <2>1 DEF Save
      <4>2. rows' = [rows EXCEPT ![j] =
                 [r \in (DOMAIN rows[j] \ DOMAIN seen) \cup kept \cup new |->
                     IF r \in kept THEN {v \in seen[r] : v[2] \notin recalled} \cup filled
                       ELSE IF r \in new THEN filled ELSE rows[j][r]]]
        BY <1>0, <3>1, <4>1, Zenon
      <4> QED BY <4>2
    <3>3. kept \subseteq DOMAIN seen
      BY <1>0 DEF Save
    <3>4. DOMAIN table \subseteq (DOMAIN rows[j] \cup new)
      BY <2>1, <3>2
    <3>5. ASSUME NEW r \in DOMAIN table, NEW v \in table[r]
          PROVE  \/ v \in filled \/ (r \in DOMAIN rows[j] /\ v \in rows[j][r])
                 \/ (r \in DOMAIN rows[j] \cap DOMAIN seen /\ v \in seen[r])
      BY <2>1, <3>2, <3>3, <3>5
    <3>6. DOMAIN rows' = Jobs /\ rows'[j] = table /\ \A i \in Jobs \ {j} : rows'[i] = rows[i]
      BY <1>1, <2>0, <3>2
    <3> QED BY <3>4, <3>5, <3>6
  <2>2. CASE ~(kept \subseteq DOMAIN rows[j])
    <3>1. rows' = rows
      BY <1>0, <2>2 DEF Save
    <3> QED BY <2>0, <3>1
  <2> QED BY <2>1, <2>2
<1>5. /\ DOMAIN rows' = Jobs /\ rows'[j] = table /\ \A i \in Jobs \ {j} : rows'[i] = rows[i]
  BY <1>4
<1>6. \A i \in Jobs : DOMAIN rows'[i] \subseteq RowIds
  BY <1>1, <1>4, <1>5 DEF ComponentsInv, Saved
<1>7. ASSUME NEW i \in Jobs, NEW r \in DOMAIN rows'[i], NEW v \in rows'[i][r] PROVE KeepsCode(v)'
  <2>1. CASE i # j
    BY <1>2, <1>5, <1>7, <2>1 DEF ComponentsInv, Saved
  <2>2. CASE i = j
    <3>1. v \in filled \/ (r \in DOMAIN rows[j] /\ v \in rows[j][r])
          \/ (r \in DOMAIN rows[j] \cap DOMAIN seen /\ v \in seen[r])
      BY <1>4, <1>5, <1>7, <2>2
    <3>2. (r \in DOMAIN rows[j] /\ v \in rows[j][r]) => KeepsCode(v)
      BY <1>1 DEF ComponentsInv, Saved
    <3>3. (r \in DOMAIN rows[j] \cap DOMAIN seen /\ v \in seen[r]) => KeepsCode(v)
      BY <1>0, <1>1 DEF Designing
    <3> QED BY <1>2, <1>3, <3>1, <3>2, <3>3
  <2> QED BY <2>1, <2>2
<1>8. Hiding(layout, rows') \subseteq excused'
  <2>1. Hiding(layout, rows) \subseteq excused /\ excused \subseteq excused'
    BY DEF ComponentsInv, Saved, SavedRowsStayVisible, Save
  <2> QED BY <2>1, SavesKeepToOne
<1>9. Saved'
  BY <1>1, <1>5, <1>6, <1>7, <1>8 DEF ComponentsInv, Saved, SavedRowsStayVisible
<1>10. \A o \in Designers \ {d}, i \in Jobs :
           DOMAIN rows'[i] \cap DOMAIN design[o].seen \subseteq DOMAIN rows[i]
  BY <1>1, <1>4, <1>5
<1> HIDE DEF Designing, Saved, KeepsCode
<1> QED BY <1>1, <1>2, <1>9, <1>10, RestingIsQuiet, DesignGoesOn

LEMMA ComponentsInvStep == ASSUME ComponentsAssumption, ComponentsInv, [ComponentsNext]_componentVars
                           PROVE  ComponentsInv'
<1>1. CASE UNCHANGED componentVars
  BY <1>1 DEF componentVars, ComponentsInv, Saved, SavedRowsStayVisible, KeepsCode, Designing
<1>2. CASE ComponentsNext
  BY <1>2, LayoutSteps, AttributeSteps, ReadSteps, SaveSteps DEF ComponentsNext
<1> QED BY <1>1, <1>2

(* Whatever order designs and saves come in, for any number of tabs, orders *)
(* and attributes: no saved row is hidden and no value loses its code but   *)
(* by the ways round the guards that the histories name.                    *)
THEOREM DesignsSpareSavedData == ComponentsSpec => []SavedDataStaysWhole
<1>1. ComponentsInit => ComponentsInv
  <2> SUFFICES ASSUME ComponentsInit PROVE ComponentsInv
    OBVIOUS
  <2>1. Hiding(layout, rows) = {}
    BY DEF ComponentsInit, Hiding
  <2>2. Saved
    BY <2>1 DEF ComponentsInit, Saved, SavedRowsStayVisible
  <2> HIDE DEF Saved, Designing
  <2> QED BY <2>2, RestingIsQuiet DEF ComponentsInit, ComponentsInv
<1>2. ComponentsInv => SavedDataStaysWhole
  BY DEF ComponentsInv, Saved, KeepsCode, SavedDataStaysWhole, ValuesKeepTheirCode
<1> QED BY <1>1, <1>2, ComponentsInvStep, ComponentsAssumption, PTL DEF ComponentsSpec

-----------------------------------------------------------------------------
(***************************************************************************)
(* Part eight: the archive.  One request at a time has an entry's lock;    *)
(* one that is about to restore or erase found the entry ARCHIVED under it;*)
(* and a deletion looked for assignments to the roles it is about to       *)
(* archive.                                                                *)
(***************************************************************************)
EntriesKept ==
    /\ DOMAIN row = Records /\ \A r \in Records : DOMAIN row[r] = {"at", "status"}
    /\ DOMAIN entry = Records /\ assigned \subseteq Parties \X PartyRoles
    /\ ArchiveMatchesRow /\ AssignedRolesLive
Knows(a) ==
    /\ DOMAIN a = DOMAIN Asked
    /\ a.step \notin {"lockEntry", "takeRow"} => a.holds = {}
    /\ a.step = "save" =>
           \E r \in Records : /\ a.on = {r} /\ a.roles \subseteq PartyRoles
                              /\ a.roles # {} => r \in Parties
    /\ a.step \in {"status", "takeEntry"} => \E r \in Records : a.on = {r}
    /\ a.step = "takeEntry" => a.op # "delete"
    /\ a.step \in {"inUse", "lockRow", "lockEntry"} => a.on \subseteq Records
    /\ a.step \in {"lockRow", "lockEntry"} => a.on \cap PartyRoles \subseteq a.roles
    /\ a.step = "lockEntry" => \E r \in a.on \ a.seen : a.holds = {<<r, "row">>}
    /\ a.step = "takeRow" =>
           /\ a.op # "delete"
           /\ \E r \in Records : /\ a.on = {r} /\ a.holds = {<<r, "entry">>}
                                 /\ entry[r] = "ARCHIVED"
OneAtTheEntry ==
    \A c, o \in Clerks, r \in Records :
       <<r, "entry">> \in clerk[c].holds /\ <<r, "entry">> \in clerk[o].holds => c = o
CatalogInv ==
    /\ EntriesKept /\ OneAtTheEntry
    /\ DOMAIN clerk = Clerks /\ \A c \in Clerks : Knows(clerk[c])

LEMMA AskedFields ==
    /\ DOMAIN Asked = {"step", "op", "on", "roles", "seen", "holds"}
    /\ \A a : Knows(a) => DOMAIN a = DOMAIN Asked
BY DEF Asked, Knows

LEMMA OneIsOne == \A r : One({r}) = r
BY DEF One

LEMMA EntryHolders ==
    ASSUME CatalogInv, NEW c \in Clerks, NEW r, <<r, "entry">> \in clerk[c].holds
    PROVE  /\ clerk[c].step = "takeRow" /\ clerk[c].on = {r} /\ r \in Records
           /\ clerk[c].holds = {<<r, "entry">>} /\ entry[r] = "ARCHIVED"
<1>1. Knows(clerk[c])
  BY DEF CatalogInv
<1>2. clerk[c].step # "lockEntry"
  BY <1>1 DEF Knows
<1>3. clerk[c].step = "takeRow"
  BY <1>1, <1>2 DEF Knows
<1>4. PICK x \in Records : /\ clerk[c].on = {x} /\ clerk[c].holds = {<<x, "entry">>}
                           /\ entry[x] = "ARCHIVED"
  BY <1>1, <1>3 DEF Knows
<1>5. x = r
  BY <1>4
<1> QED BY <1>3, <1>4, <1>5

LEMMA ClerkGoesOn ==
    ASSUME CatalogInv, NEW c \in Clerks, NEW b, clerk' = [clerk EXCEPT ![c] = b],
           Knows(b)', EntriesKept',
           \A r \in Records : /\ <<r, "entry">> \in b.holds => EntryFree(c, r)
                              /\ \/ entry'[r] = entry[r] \/ entry'[r] = "ARCHIVED"
                                 \/ <<r, "entry">> \in clerk[c].holds
    PROVE  CatalogInv'
<1>1. DOMAIN clerk' = Clerks /\ clerk'[c] = b /\ \A o \in Clerks \ {c} : clerk'[o] = clerk[o]
  BY DEF CatalogInv
<1>2. OneAtTheEntry'
  BY <1>1 DEF OneAtTheEntry, EntryFree, CatalogInv
<1>3. ASSUME NEW o \in Clerks \ {c} PROVE Knows(clerk[o])'
  <2>1. PICK a : a = clerk[o]
    OBVIOUS
  <2>2. Knows(a)
    BY <2>1 DEF CatalogInv
  <2>3. ASSUME NEW r \in Records, <<r, "entry">> \in a.holds, entry[r] = "ARCHIVED"
        PROVE  entry'[r] = "ARCHIVED"
    BY <2>1, <2>3 DEF CatalogInv, OneAtTheEntry
  <2>4. Knows(a)'
    BY <2>2, <2>3 DEF Knows
  <2> QED BY <1>1, <2>1, <2>4
<1>4. \A o \in Clerks : Knows(clerk[o])'
  <2>1. Knows(clerk[c])'
    BY <1>1
  <2> HIDE DEF Knows
  <2> QED BY <1>3, <2>1
<1> HIDE DEF Knows, EntriesKept
<1> QED BY <1>1, <1>2, <1>4 DEF CatalogInv

(* A request that only moves on, and one that ends.                         *)
LEMMA ClerkMoves ==
    ASSUME CatalogInv, NEW c \in Clerks, NEW b, clerk' = [clerk EXCEPT ![c] = b],
           UNCHANGED <<row, entry, assigned, crossed>>, Knows(b),
           \A r \in Records : <<r, "entry">> \in b.holds => EntryFree(c, r)
    PROVE  CatalogInv'
<1>1. Knows(b)' /\ EntriesKept'
  BY DEF Knows, EntriesKept, CatalogInv, ArchiveMatchesRow, AssignedRolesLive
<1>2. \A r \in Records : entry'[r] = entry[r]
  OBVIOUS
<1> HIDE DEF Knows, EntriesKept
<1> QED BY <1>1, <1>2, ClerkGoesOn
LEMMA Ending == Knows(Asked) /\ Knows(Asked)' /\ Asked.holds = {}
BY DEF Knows, Asked
LEMMA ClerkStops ==
    ASSUME CatalogInv, NEW c \in Clerks, ClerkEnds(c), UNCHANGED <<row, entry, assigned, crossed>>
    PROVE  CatalogInv'
<1>1. clerk' = [clerk EXCEPT ![c] = Asked]
  BY DEF ClerkEnds
<1> HIDE DEF Knows
<1> QED BY <1>1, Ending, ClerkMoves

(* What starts a request.                                                   *)
LEMMA BeginSteps ==
    ASSUME CatalogInv, NEW c \in Clerks, CatalogAssumption,
           \/ \E r \in Records :
                 \/ \E roles \in SUBSET PartyRoles : ReadSave(c, r, roles)
                 \/ ReadStatus(c, r)
                 \/ \E op \in {"restore", "erase"} : AskArchive(c, r, op)
           \/ \E rs \in {PartyRoles} \cup {{r} : r \in Records} : ReadDelete(c, rs)
    PROVE  CatalogInv'
<1>1. ASSUME NEW r \in Records, NEW roles \in SUBSET PartyRoles, ReadSave(c, r, roles)
      PROVE  CatalogInv'
  <2>1. PICK op : clerk' = [clerk EXCEPT ![c] = [Asked EXCEPT !.step = "save", !.op = op,
                                                  !.on = {r}, !.roles = roles]]
    BY <1>1 DEF ReadSave, ClerkBegins
  <2>2. PICK b : b = [Asked EXCEPT !.step = "save", !.op = op, !.on = {r}, !.roles = roles]
    OBVIOUS
  <2>3. /\ DOMAIN b = DOMAIN Asked /\ b.step = "save" /\ b.on = {r} /\ b.roles = roles
        /\ b.holds = {}
    BY <2>2 DEF Asked
  <2>4. Knows(b)
    BY <1>1, <2>3 DEF Knows, ReadSave
  <2>5. UNCHANGED <<row, entry, assigned, crossed>>
    BY <1>1 DEF ReadSave
  <2> HIDE DEF Knows
  <2> QED BY <2>1, <2>2, <2>3, <2>4, <2>5, ClerkMoves
<1>2. ASSUME NEW r \in Records, ReadStatus(c, r) PROVE CatalogInv'
  <2>1. PICK b : b = [Asked EXCEPT !.step = "status", !.op = "status", !.on = {r},
                                    !.seen = IF row[r].status = "ACTIVE" THEN {r} ELSE {}]
    OBVIOUS
  <2>2. clerk' = [clerk EXCEPT ![c] = b] /\ UNCHANGED <<row, entry, assigned, crossed>>
    BY <1>2, <2>1 DEF ReadStatus, ClerkBegins
  <2>3. DOMAIN b = DOMAIN Asked /\ b.step = "status" /\ b.on = {r} /\ b.holds = {}
    BY <2>1 DEF Asked
  <2>4. Knows(b)
    BY <2>3 DEF Knows
  <2> HIDE DEF Knows
  <2> QED BY <2>2, <2>3, <2>4, ClerkMoves
<1>3. ASSUME NEW r \in Records, NEW op \in {"restore", "erase"}, AskArchive(c, r, op)
      PROVE  CatalogInv'
  <2>1. PICK b : b = [Asked EXCEPT !.step = "takeEntry", !.op = op, !.on = {r}]
    OBVIOUS
  <2>2. clerk' = [clerk EXCEPT ![c] = b] /\ UNCHANGED <<row, entry, assigned, crossed>>
    BY <1>3, <2>1 DEF AskArchive, ClerkBegins
  <2>3. /\ DOMAIN b = DOMAIN Asked /\ b.step = "takeEntry" /\ b.on = {r} /\ b.holds = {}
        /\ b.op = op
    BY <2>1 DEF Asked
  <2>4. Knows(b)
    BY <2>3 DEF Knows
  <2> HIDE DEF Knows
  <2> QED BY <2>2, <2>3, <2>4, ClerkMoves
<1>4. ASSUME NEW rs \in {PartyRoles} \cup {{r} : r \in Records}, ReadDelete(c, rs)
      PROVE  CatalogInv'
  <2>0. PICK found, step : /\ found = {r \in rs : Exists(r)}
                           /\ step = IF found \subseteq PartyRoles THEN "inUse" ELSE "lockRow"
    OBVIOUS
  <2>1. PICK b : b = [Asked EXCEPT !.step = step, !.op = "delete", !.on = found,
                                   !.seen = {r \in found : ~Live(r)}]
    OBVIOUS
  <2>2. clerk' = [clerk EXCEPT ![c] = b] /\ UNCHANGED <<row, entry, assigned, crossed>>
    BY <1>4, <2>0, <2>1 DEF ReadDelete, ClerkBegins
  <2>3. DOMAIN b = DOMAIN Asked /\ b.step = step /\ b.on = found /\ b.holds = {}
    BY <2>1 DEF Asked
  <2>4. found \subseteq Records /\ (step = "lockRow" => found \cap PartyRoles = {})
    BY <2>0 DEF CatalogAssumption
  <2>5. Knows(b)
    BY <2>0, <2>3, <2>4 DEF Knows
  <2> HIDE DEF Knows
  <2> QED BY <2>2, <2>3, <2>5, ClerkMoves
<1> QED BY <1>1, <1>2, <1>3, <1>4

(* Locks and checks, before anything is written.                            *)
LEMMA LockSteps ==
    ASSUME CatalogInv, NEW c \in Clerks,
           CheckInUse(c) \/ (\E r \in Records : LockRow(c, r)) \/ TakeEntry(c) \/ DeadlockVictim(c)
    PROVE  CatalogInv'
<1>0. Knows(clerk[c])
  BY DEF CatalogInv
<1>1. CASE CheckInUse(c)
  <2>0. UNCHANGED <<row, entry, assigned, crossed>> /\ clerk[c].step = "inUse"
    BY <1>1 DEF CheckInUse
  <2>1. PICK b : b = [clerk[c] EXCEPT !.step = "lockRow", !.roles = clerk[c].on]
    OBVIOUS
  <2>2. ClerkEnds(c) \/ clerk' = [clerk EXCEPT ![c] = b]
    BY <1>0, <1>1, <2>1 DEF CheckInUse, Knows, CatalogInv
  <2>3. /\ DOMAIN b = DOMAIN Asked /\ b.step = "lockRow" /\ b.on = clerk[c].on
        /\ b.roles = clerk[c].on /\ b.holds = {}
    <3>1. DOMAIN clerk[c] = DOMAIN Asked /\ clerk[c].holds = {}
      BY <1>0, <2>0 DEF Knows
    <3> QED BY <2>1, <3>1, AskedFields
  <2>4. Knows(b)
    BY <1>0, <2>0, <2>3 DEF Knows
  <2> HIDE DEF Knows
  <2> QED BY <2>0, <2>2, <2>3, <2>4, ClerkMoves, ClerkStops
<1>2. ASSUME NEW r \in Records, LockRow(c, r) PROVE CatalogInv'
  <2>0. UNCHANGED <<row, entry, assigned, crossed>> /\ clerk[c].step = "lockRow" /\ r \in clerk[c].on
    BY <1>2 DEF LockRow
  <2>1. PICK b : b = [clerk[c] EXCEPT !.step = "lockEntry", !.holds = {<<r, "row">>}]
    OBVIOUS
  <2>2. ClerkEnds(c) \/ (r \notin clerk[c].seen /\ clerk' = [clerk EXCEPT ![c] = b])
    BY <1>0, <1>2, <2>1 DEF LockRow, Knows, CatalogInv
  <2>3. CASE ClerkEnds(c)
    BY <2>0, <2>3, ClerkStops
  <2>4. CASE r \notin clerk[c].seen /\ clerk' = [clerk EXCEPT ![c] = b]
    <3>1. /\ DOMAIN b = DOMAIN Asked /\ b.step = "lockEntry" /\ b.holds = {<<r, "row">>}
          /\ b.on = clerk[c].on /\ b.roles = clerk[c].roles /\ b.seen = clerk[c].seen
      BY <1>0, <2>1, AskedFields
    <3>2. Knows(b)
      BY <1>0, <2>0, <2>4, <3>1 DEF Knows
    <3>3. \A x \in Records : <<x, "entry">> \notin b.holds
      BY <3>1
    <3> HIDE DEF Knows
    <3> QED BY <2>0, <2>4, <3>2, <3>3, ClerkMoves
  <2> QED BY <2>2, <2>3, <2>4
<1>3. CASE TakeEntry(c)
  <2>0. UNCHANGED <<row, entry, assigned, crossed>> /\ clerk[c].step = "takeEntry"
    BY <1>3 DEF TakeEntry
  <2>1. PICK r \in Records : clerk[c].on = {r} /\ One(clerk[c].on) = r
    BY <1>0, <2>0, OneIsOne DEF Knows
  <2>2. PICK b : b = [clerk[c] EXCEPT !.step = "takeRow", !.holds = {<<r, "entry">>}]
    OBVIOUS
  <2>3. EntryFree(c, r) /\ (ClerkEnds(c) \/ (entry[r] = "ARCHIVED" /\ clerk' = [clerk EXCEPT ![c] = b]))
    BY <1>0, <1>3, <2>1, <2>2 DEF TakeEntry, Knows, CatalogInv
  <2>4. CASE ClerkEnds(c)
    BY <2>0, <2>4, ClerkStops
  <2>5. CASE entry[r] = "ARCHIVED" /\ clerk' = [clerk EXCEPT ![c] = b]
    <3>1. /\ DOMAIN b = DOMAIN Asked /\ b.step = "takeRow" /\ b.holds = {<<r, "entry">>}
          /\ b.on = {r} /\ b.op = clerk[c].op
      BY <1>0, <2>1, <2>2, AskedFields
    <3>2. Knows(b)
      BY <1>0, <2>0, <2>5, <3>1 DEF Knows
    <3>3. \A x \in Records : <<x, "entry">> \in b.holds => EntryFree(c, x)
      BY <2>3, <3>1
    <3> HIDE DEF Knows
    <3> QED BY <2>0, <2>5, <3>2, <3>3, ClerkMoves
  <2> QED BY <2>3, <2>4, <2>5
<1>4. CASE DeadlockVictim(c)
  BY <1>4, ClerkStops DEF DeadlockVictim
<1> QED BY <1>1, <1>2, <1>3, <1>4

(* A commit writes row and entry alike, and a role still refers to a row.   *)
LEMMA WriteSteps ==
    ASSUME CatalogInv, NEW c \in Clerks, CatalogAssumption,
           CommitSave(c) \/ CommitStatus(c) \/ Restore(c) \/ Erase(c)
    PROVE  CatalogInv'
<1>0. Knows(clerk[c]) /\ clerk' = [clerk EXCEPT ![c] = Asked]
  BY DEF CatalogInv, CommitSave, CommitStatus, Restore, Erase, ClerkEnds
<1>1. ASSUME EntriesKept', \A r \in Records : entry'[r] = entry[r] \/ <<r, "entry">> \in clerk[c].holds
      PROVE  CatalogInv'
  <2>1. \A r \in Records : <<r, "entry">> \notin Asked.holds
    BY Ending
  <2> HIDE DEF Knows, EntriesKept
  <2> QED BY <1>0, <1>1, <2>1, Ending, ClerkGoesOn
<1>k. EntriesKept
  BY DEF CatalogInv
<1>2. CASE CommitSave(c)
  <2>1. PICK r \in Records : /\ clerk[c].on = {r} /\ One(clerk[c].on) = r
                             /\ clerk[c].roles \subseteq PartyRoles
                             /\ clerk[c].roles # {} => r \in Parties
    BY <1>0, <1>2, OneIsOne DEF Knows, CommitSave
  <2>2. entry' = entry
    BY <1>2 DEF CommitSave
  <2>3. \/ UNCHANGED <<row, assigned, crossed>>
        \/ /\ \A x \in clerk[c].roles : Exists(x)
           /\ \/ row' = row
              \/ /\ row[r].at = "ABSENT"
                 /\ \E s \in {"ACTIVE", "INACTIVE"} : row' = [row EXCEPT ![r] = [at |-> "LIVE", status |-> s]]
           /\ assigned' = {a \in assigned : a[1] # r} \cup {r} \X clerk[c].roles
           /\ crossed' = crossed \cup {x \in clerk[c].roles : ~Live(x)}
    BY <1>2, <2>1 DEF CommitSave
  <2>4. CASE UNCHANGED <<row, assigned, crossed>>
    BY <1>1, <1>k, <2>2, <2>4 DEF EntriesKept, ArchiveMatchesRow, AssignedRolesLive
  <2>5. CASE /\ \A x \in clerk[c].roles : Exists(x)
             /\ \/ row' = row
                \/ /\ row[r].at = "ABSENT"
                   /\ \E s \in {"ACTIVE", "INACTIVE"} :
                          row' = [row EXCEPT ![r] = [at |-> "LIVE", status |-> s]]
             /\ assigned' = {a \in assigned : a[1] # r} \cup {r} \X clerk[c].roles
             /\ crossed' = crossed \cup {x \in clerk[c].roles : ~Live(x)}
    <3>1. /\ DOMAIN row' = Records /\ \A x \in Records : DOMAIN row'[x] = {"at", "status"}
          /\ \A x \in Records : \/ row'[x].at = row[x].at
                                \/ row[x].at = "ABSENT" /\ row'[x].at = "LIVE"
      BY <1>k, <2>5 DEF EntriesKept
    <3>2. ArchiveMatchesRow'
      BY <1>k, <2>2, <3>1 DEF EntriesKept, ArchiveMatchesRow
    <3>3. assigned' \subseteq Parties \X PartyRoles
      BY <1>k, <2>1, <2>5 DEF EntriesKept
    <3>4. ASSUME NEW a \in assigned'
          PROVE  row'[a[2]].at # "ERASED" /\ (row'[a[2]].at = "DELETED" => a[2] \in crossed')
      <4>1. a[2] \in Records
        BY <3>3 DEF CatalogAssumption
      <4>2. CASE a \in assigned
        BY <1>k, <2>5, <3>1, <4>1, <4>2 DEF EntriesKept, AssignedRolesLive
      <4>3. CASE a[2] \in clerk[c].roles
        BY <2>5, <3>1, <4>1, <4>3 DEF Exists, Live
      <4> QED BY <2>5, <4>2, <4>3
    <3> QED BY <1>1, <1>k, <2>2, <3>1, <3>2, <3>3, <3>4 DEF EntriesKept, AssignedRolesLive
  <2> QED BY <2>3, <2>4, <2>5
<1>3. CASE CommitStatus(c)
  <2>1. /\ DOMAIN row' = Records /\ \A x \in Records : DOMAIN row'[x] = {"at", "status"}
        /\ \A x \in Records : row'[x].at = row[x].at
        /\ UNCHANGED <<entry, assigned, crossed>>
    BY <1>3, <1>k DEF CommitStatus, EntriesKept
  <2>2. \A a \in assigned : a[2] \in Records
    BY <1>k DEF EntriesKept, CatalogAssumption
  <2>3. EntriesKept'
    BY <1>k, <2>1, <2>2 DEF EntriesKept, ArchiveMatchesRow, AssignedRolesLive
  <2> QED BY <1>1, <2>1, <2>3
<1>4. CASE Restore(c) \/ Erase(c)
  <2>1. PICK r \in Records : /\ clerk[c].on = {r} /\ One(clerk[c].on) = r
                             /\ clerk[c].holds = {<<r, "entry">>}
    BY <1>0, <1>4, OneIsOne DEF Knows, Restore, Erase
  <2>2. /\ UNCHANGED <<assigned, crossed>>
        /\ \/ UNCHANGED <<row, entry>>
           \/ row' = [row EXCEPT ![r].at = "LIVE"] /\ entry' = [entry EXCEPT ![r] = "RESTORED"]
           \/ /\ Dependents(r) = {}
              /\ row' = [row EXCEPT ![r].at = "ERASED"] /\ entry' = [entry EXCEPT ![r] = "HARD_DELETED"]
    BY <1>4, <2>1 DEF Restore, Erase
  <2>3. /\ DOMAIN row' = Records /\ \A x \in Records : DOMAIN row'[x] = {"at", "status"}
        /\ DOMAIN entry' = Records
        /\ \A x \in Records \ {r} : row'[x].at = row[x].at /\ entry'[x] = entry[x]
    BY <1>k, <2>2 DEF EntriesKept
  <2>4. \/ row'[r].at = row[r].at /\ entry'[r] = entry[r]
        \/ row'[r].at = "LIVE" /\ entry'[r] = "RESTORED"
        \/ Dependents(r) = {} /\ row'[r].at = "ERASED" /\ entry'[r] = "HARD_DELETED"
    BY <1>k, <2>2 DEF EntriesKept
  <2>5. ArchiveMatchesRow'
    BY <1>k, <2>3, <2>4 DEF EntriesKept, ArchiveMatchesRow
  <2>6. \A a \in assigned : a[2] \in Records /\ (Dependents(r) = {} => a[2] # r)
    BY <1>k DEF EntriesKept, CatalogAssumption, Dependents
  <2>7. AssignedRolesLive'
    BY <1>k, <2>2, <2>3, <2>4, <2>6 DEF EntriesKept, AssignedRolesLive
  <2>8. EntriesKept'
    BY <1>k, <2>2, <2>3, <2>5, <2>7 DEF EntriesKept
  <2> QED BY <1>1, <2>1, <2>3, <2>8
<1> QED BY <1>2, <1>3, <1>4

(* A role is archived as its deletion found it, or the assignment overlapped.*)
LEMMA ArchiveStep ==
    ASSUME CatalogInv, NEW c \in Clerks, CatalogAssumption, Archive(c)
    PROVE  CatalogInv'
<1>0. PICK a : a = clerk[c]
  OBVIOUS
<1>1. Knows(a) /\ EntriesKept /\ a.step = "lockEntry"
  BY <1>0 DEF CatalogInv, Archive
<1>2. PICK r \in a.on : a.holds = {<<r, "row">>} /\ r \in Records
  BY <1>1 DEF Knows
<1>3. One({l[1] : l \in a.holds}) = r
  <2>1. {l[1] : l \in a.holds} = {r}
    BY <1>2
  <2> QED BY <2>1, OneIsOne
<1>4. PICK b : b = IF a.on \ {r} = {} THEN Asked
                   ELSE [a EXCEPT !.step = "lockRow", !.on = a.on \ {r}, !.holds = {}]
  OBVIOUS
<1>5. /\ row' = [row EXCEPT ![r].at = "DELETED"] /\ entry' = [entry EXCEPT ![r] = "ARCHIVED"]
      /\ crossed' = (IF InUse(r) /\ r \in a.roles THEN crossed \cup {r} ELSE crossed)
      /\ clerk' = [clerk EXCEPT ![c] = b] /\ assigned' = assigned
  BY <1>0, <1>3, <1>4 DEF Archive, CatalogInv
<1>6. Knows(b)' /\ b.holds = {}
  <2>1. CASE a.on \ {r} = {}
    BY <1>4, <2>1, Ending
  <2>2. CASE a.on \ {r} # {}
    <3>1. /\ DOMAIN b = DOMAIN Asked /\ b.step = "lockRow" /\ b.on = a.on \ {r} /\ b.holds = {}
          /\ b.roles = a.roles
      BY <1>1, <1>4, <2>2, AskedFields
    <3> QED BY <1>1, <3>1 DEF Knows
  <2> QED BY <2>1, <2>2
<1>7. /\ DOMAIN row' = Records /\ \A x \in Records : DOMAIN row'[x] = {"at", "status"}
      /\ DOMAIN entry' = Records /\ row'[r].at = "DELETED" /\ entry'[r] = "ARCHIVED"
      /\ \A x \in Records \ {r} : row'[x].at = row[x].at /\ entry'[x] = entry[x]
  BY <1>1, <1>2, <1>5 DEF EntriesKept
<1>8. ArchiveMatchesRow'
  BY <1>1, <1>7 DEF EntriesKept, ArchiveMatchesRow
<1>9. ASSUME NEW x \in assigned
      PROVE  row'[x[2]].at # "ERASED" /\ (row'[x[2]].at = "DELETED" => x[2] \in crossed')
  <2>1. x[2] \in Records /\ x[2] \in PartyRoles /\ x[1] \in Parties /\ x = <<x[1], x[2]>>
    BY <1>1 DEF EntriesKept, CatalogAssumption
  <2>2. CASE x[2] # r
    BY <1>1, <1>5, <1>7, <2>1, <2>2 DEF EntriesKept, AssignedRolesLive
  <2>3. CASE x[2] = r
    <3>1. InUse(r) /\ r \in a.roles
      BY <1>1, <1>2, <2>1, <2>3 DEF InUse, Knows
    <3> QED BY <1>5, <1>7, <2>3, <3>1
  <2> QED BY <2>2, <2>3
<1>10. EntriesKept'
  BY <1>1, <1>5, <1>7, <1>8, <1>9 DEF EntriesKept, AssignedRolesLive
<1>11. \A x \in Records : entry'[x] = entry[x] \/ entry'[x] = "ARCHIVED"
  BY <1>7
<1> HIDE DEF Knows, EntriesKept
<1> QED BY <1>5, <1>6, <1>10, <1>11, ClerkGoesOn

LEMMA CatalogInvStep == ASSUME CatalogAssumption, CatalogInv, [CatalogNext]_catalogVars
                        PROVE  CatalogInv'
<1>1. CASE UNCHANGED catalogVars
  BY <1>1 DEF catalogVars, CatalogInv, EntriesKept, Knows, OneAtTheEntry, ArchiveMatchesRow,
              AssignedRolesLive
<1>2. CASE CatalogNext
  BY <1>2, BeginSteps, LockSteps, WriteSteps, ArchiveStep DEF CatalogNext
<1> QED BY <1>1, <1>2

(* Two that wait for each other: the one that restores has found the entry  *)
(* ARCHIVED, so another deletion was there first.                           *)
LEMMA WaitsByInv == CatalogInv => CircularWaitsNeedTwoDeletions
<1> SUFFICES ASSUME CatalogInv, NEW c \in Clerks, NEW o \in Clerks, Circular(c, o),
                    clerk[c].op = "delete", NEW l \in clerk[c].holds
             PROVE  row[l[1]].at = "DELETED" /\ l[1] \notin clerk[c].seen
  BY DEF CircularWaitsNeedTwoDeletions
<1>1. Knows(clerk[c])
  BY DEF CatalogInv
<1>2. clerk[c].step = "lockEntry"
  BY <1>1 DEF Circular, WaitsFor, Knows
<1>3. PICK r \in clerk[c].on \ clerk[c].seen : clerk[c].holds = {<<r, "row">>}
  BY <1>1, <1>2 DEF Knows
<1>4. WaitsFor(c) = {<<r, "entry">>}
  BY <1>2, <1>3 DEF WaitsFor
<1>5. <<r, "entry">> \in clerk[o].holds
  BY <1>4 DEF Circular
<1>6. entry[r] = "ARCHIVED" /\ r \in Records
  BY <1>5, EntryHolders
<1> QED BY <1>3, <1>6 DEF CatalogInv, EntriesKept, ArchiveMatchesRow

(* For any number of requests, records and roles: the archive says what the *)
(* rows are, the roles that parties have are not archived but where the     *)
(* assignment overlapped, and a circle of waits takes two deletions.        *)
THEOREM ArchivesTellTheTruth == CatalogSpec => []ArchivesAgree
<1>1. CatalogInit => CatalogInv
  <2> SUFFICES ASSUME CatalogInit PROVE CatalogInv
    OBVIOUS
  <2>1. EntriesKept
    BY DEF CatalogInit, EntriesKept, ArchiveMatchesRow, AssignedRolesLive
  <2>2. DOMAIN clerk = Clerks /\ \A c \in Clerks : clerk[c] = Asked
    BY DEF CatalogInit
  <2> HIDE DEF EntriesKept, Knows
  <2> QED BY <2>1, <2>2, Ending DEF CatalogInv, OneAtTheEntry
<1>2. CatalogInv => ArchivesAgree
  BY WaitsByInv DEF CatalogInv, EntriesKept, ArchivesAgree
<1> QED BY <1>1, <1>2, CatalogInvStep, CatalogAssumption, PTL DEF CatalogSpec
=============================================================================
