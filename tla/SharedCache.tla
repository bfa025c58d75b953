---------------------------- MODULE SharedCache ----------------------------
(* One list of the reference data in the namespaced cache (core/cache.py,   *)
(* core/redis.py; list_reference of master_data/service.py).  A value is    *)
(* kept under the version its namespace has when it is stored; a writer     *)
(* counts the version up after its commit, the spreadsheet import before.   *)
(* Redis may be out, which makes every call a miss, and may come back empty.*)
EXTENDS Naturals, FiniteSets

CONSTANTS
    Visitors,       \* requests for the list
    Writers,        \* requests that change the list
    MaxListChanges, \* bound on changes of the list
    MaxLosses       \* bound on outages of Redis

ASSUME SharedCacheAssumption ==
    MaxListChanges \in Nat /\ MaxLosses \in Nat /\ IsFiniteSet(Writers)

VARIABLES
    list,      \* the committed list, as the number of its last change
    version,   \* the namespace's version counter in Redis
    answers,   \* whether Redis answers
    losses,    \* outages left
    cached,    \* the value kept under each version
    visits,    \* what each visitor has read
    writing,   \* how far each writer is
    announced  \* the last change whose commit came before a bump Redis counted (history)

cacheVars == <<list, version, answers, losses, cached, visits, writing, announced>>

Numbers == 0..MaxListChanges
(* "late" says a bump, or the loss of Redis's data, fell between the        *)
(* reading of the rows and the storing of the value (history).              *)
Kept == [kept : BOOLEAN, list : Numbers, late : BOOLEAN]
Nothing == [kept |-> FALSE, list |-> 0, late |-> FALSE]
Away == [step |-> "away", list |-> 0, version |-> 0, late |-> FALSE]
(* safe_counter.                                                            *)
SafeVersion == IF answers THEN version ELSE 0

CacheTypeOK ==
    /\ list \in Numbers /\ version \in Numbers /\ announced \in Numbers
    /\ answers \in BOOLEAN /\ losses \in 0..MaxLosses
    /\ cached \in [Numbers -> Kept]
    /\ visits \in [Visitors -> [step : {"away", "name", "put"}, list : Numbers,
                                version : Numbers, late : BOOLEAN]]
    /\ writing \in [Writers -> {"none", "bump", "commit"}]

-----------------------------------------------------------------------------
(* get_json finds nothing and list_reference reads the rows; a hit is       *)
(* answered as it is and changes nothing.                                   *)
ReadList(v) ==
    /\ visits[v].step = "away" /\ (answers => ~cached[version].kept)
    /\ visits' = [visits EXCEPT ![v] = [Away EXCEPT !.step = "name", !.list = list]]
    /\ UNCHANGED <<list, version, answers, losses, cached, writing, announced>>
(* set_json reads the version for the key ...                               *)
NameKey(v) ==
    /\ visits[v].step = "name"
    /\ visits' = [visits EXCEPT ![v].step = "put", ![v].version = SafeVersion]
    /\ UNCHANGED <<list, version, answers, losses, cached, writing, announced>>
(* ... and stores the value under it, if Redis takes it.                    *)
Put(v) ==
    /\ visits[v].step = "put"
    /\ visits' = [visits EXCEPT ![v] = Away]
    /\ cached' = IF answers
                   THEN [cached EXCEPT ![visits[v].version] =
                           [kept |-> TRUE, list |-> visits[v].list, late |-> visits[v].late]]
                   ELSE cached
    /\ UNCHANGED <<list, version, answers, losses, writing, announced>>

(* A clerk's request and an import: what each does first.                   *)
Starts(w, step) ==
    /\ writing[w] = "none"
    /\ list + Cardinality({x \in Writers : writing[x] = "commit"}) < MaxListChanges
    /\ writing' = [writing EXCEPT ![w] = step]

CommitList == list' = list + 1

(* Mutant: a bump sets the counter instead of counting it up. *)
CountUpOnce ==
    /\ version' = IF answers THEN 1 ELSE version
    /\ visits' = [v \in Visitors |->
                    [visits[v] EXCEPT !.late = @ \/ (answers /\ visits[v].step = "name")]]
    /\ announced' = IF answers THEN list ELSE announced

(* Redis counts the bump; values read before it and not yet named are late. *)
CountUp ==
    /\ version' = IF answers THEN version + 1 ELSE version
    /\ visits' = [v \in Visitors |->
                    [visits[v] EXCEPT !.late = @ \/ (answers /\ visits[v].step = "name")]]
    /\ announced' = IF answers THEN list ELSE announced

ClerkCommits(w) ==
    /\ Starts(w, "bump") /\ CommitList
    /\ UNCHANGED <<version, answers, losses, cached, visits, announced>>
ClerkBumps(w) ==
    /\ writing[w] = "bump" /\ CountUp
    /\ writing' = [writing EXCEPT ![w] = "none"]
    /\ UNCHANGED <<list, answers, losses, cached>>
(* confirm_import bumps inside the transaction, so the bump announces what  *)
(* others have committed, and nothing announces the import's own rows.      *)
ImportBumps(w) ==
    /\ Starts(w, "commit") /\ CountUp
    /\ UNCHANGED <<list, answers, losses, cached>>
ImportCommits(w) ==
    /\ writing[w] = "commit" /\ CommitList
    /\ writing' = [writing EXCEPT ![w] = "none"]
    /\ UNCHANGED <<version, answers, losses, cached, visits, announced>>

-----------------------------------------------------------------------------
(* Mutant: a value is stored without its time to live. *)
ExpiresM(n) == FALSE

Expires(n) == cached[n].kept

Expire(n) ==
    /\ Expires(n)
    /\ cached' = [cached EXCEPT ![n] = Nothing]
    /\ UNCHANGED <<list, version, answers, losses, visits, writing, announced>>

CacheGoes ==
    /\ answers /\ losses > 0 /\ answers' = FALSE /\ losses' = losses - 1
    /\ UNCHANGED <<list, version, cached, visits, writing, announced>>
(* It comes back with its data or without: then the count starts again, and *)
(* what a visitor read before may get a number that is used again.          *)
CacheReturns ==
    /\ ~answers /\ answers' = TRUE
    /\ UNCHANGED <<list, losses, writing>>
    /\ \/ UNCHANGED <<version, cached, visits, announced>>
       \/ /\ version' = 0 /\ announced' = 0
          /\ cached' = [n \in Numbers |-> Nothing]
          /\ visits' = [v \in Visitors |-> [visits[v] EXCEPT !.late = visits[v].step # "away"]]

CacheInit ==
    /\ list = 0 /\ version = 0 /\ answers = TRUE /\ losses = MaxLosses /\ announced = 0
    /\ cached = [n \in Numbers |-> Nothing]
    /\ visits = [v \in Visitors |-> Away] /\ writing = [w \in Writers |-> "none"]

Visits(v) == ReadList(v) \/ NameKey(v) \/ Put(v)
Writes(w) == ClerkCommits(w) \/ ClerkBumps(w) \/ ImportBumps(w) \/ ImportCommits(w)

CacheNext ==
    \/ \E v \in Visitors : Visits(v)
    \/ \E w \in Writers : Writes(w)
    \/ \E n \in Numbers : Expire(n)
    \/ CacheGoes \/ CacheReturns

CacheSpec == CacheInit /\ [][CacheNext]_cacheVars

-----------------------------------------------------------------------------
(* bump "invalidates every cached value": the value that a lookup finds has *)
(* every change committed before a bump that Redis counted, unless a bump   *)
(* came between the reading of its rows and set_json's reading of the       *)
(* version, which stores the old rows as the new version's.                 *)
CachedListsAreCurrent ==
    cached[version].kept /\ ~cached[version].late => cached[version].list >= announced

(* Whatever was stored late, before an import's commit or through an outage *)
(* is served for the time to live at most: once the changes stop, the cache *)
(* holds the committed list or nothing.                                     *)
StaleListsExpire == <>[](cached[version].kept => cached[version].list = list)
=============================================================================
