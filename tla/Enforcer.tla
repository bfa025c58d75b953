------------------------------ MODULE Enforcer ------------------------------
(* The copy of the access rules that each worker decides with               *)
(* (core/authorization/service.py).  A committed change is published by     *)
(* counting up a version in Redis; a worker whose version differs, or whose *)
(* copy is older than casbin_reload_interval_seconds, reloads before it     *)
(* decides.  A reload reads the version, then the roles, then the rules.    *)
(* Redis may be out, which loses a publication and reads as version 0, and  *)
(* may come back empty, which starts the count again.                       *)
EXTENDS Naturals

CONSTANTS
    Workers,       \* the processes of the API
    MaxRuleChanges,\* bound on changes of the rules
    MaxOutages     \* bound on outages of Redis

ASSUME EnforcerAssumption == MaxRuleChanges \in Nat /\ MaxOutages \in Nat

VARIABLES
    rules,       \* the committed rules, as the number of the last change
    counter,     \* the version in Redis
    redis,       \* whether Redis answers
    outages,     \* outages left
    unpublished, \* workers that have committed a change and not published it
    published,   \* the last change published by counting
    recounted,   \* whether Redis came back empty once (history)
    copy,        \* the worker's copy: the rules it has read, and the version it read first
    loading,     \* the worker's reload (asyncio.Lock: one at a time)
    aged         \* workers whose copy is older than the interval

enforcerVars ==
    <<rules, counter, redis, outages, unpublished, published, recounted, copy,
      loading, aged>>

Changes == 0..MaxRuleChanges
(* What safe_counter returns.                                               *)
Version == IF redis = "up" THEN counter ELSE 0
NoRules == [roles |-> 0, rules |-> 0, version |-> 0, loaded |-> FALSE]
NotLoading == [step |-> "none", roles |-> 0, rules |-> 0, version |-> 0]

EnforcerTypeOK ==
    /\ rules \in Changes /\ counter \in Nat /\ redis \in {"up", "down"}
    /\ outages \in 0..MaxOutages /\ published \in Changes /\ recounted \in BOOLEAN
    /\ unpublished \subseteq Workers /\ aged \subseteq Workers
    /\ copy \in [Workers -> [roles : Changes, rules : Changes, version : Nat, loaded : BOOLEAN]]
    /\ loading \in [Workers -> [step : {"none", "version", "roles", "rules", "swap"},
                                roles : Changes, rules : Changes, version : Nat]]

RedisKept == UNCHANGED <<redis, outages, recounted>>

-----------------------------------------------------------------------------
(* A command on roles or users commits a change of the rules ...            *)
ChangeRules(w) ==
    /\ rules < MaxRuleChanges /\ w \notin unpublished
    /\ rules' = rules + 1
    /\ unpublished' = unpublished \cup {w}
    /\ UNCHANGED <<counter, published, copy, loading, aged>> /\ RedisKept

Loading(w, step, roles, allowed, version) ==
    loading' = [loading EXCEPT ![w] =
                   [step |-> step, roles |-> roles, rules |-> allowed, version |-> version]]
StartLoading(w) == Loading(w, "version", 0, 0, 0)

(* ... and refresh publishes it and reloads the worker's own copy.          *)
Publish(w) ==
    /\ w \in unpublished /\ loading[w].step = "none"
    /\ unpublished' = unpublished \ {w}
    /\ counter' = IF redis = "up" THEN counter + 1 ELSE counter
    /\ published' = IF redis = "up" THEN rules ELSE published
    /\ StartLoading(w)
    /\ UNCHANGED <<rules, copy, aged>> /\ RedisKept
(* The worker dies between the commit and the publication; one that starts  *)
(* again has no copy.                                                       *)
WorkerRestarts(w) ==
    /\ w \in unpublished
    /\ unpublished' = unpublished \ {w}
    /\ copy' = [copy EXCEPT ![w] = NoRules]
    /\ loading' = [loading EXCEPT ![w] = NotLoading]
    /\ aged' = aged \ {w}
    /\ UNCHANGED <<rules, counter, published>> /\ RedisKept

(* Mutant: the age of the copy is not looked at. *)
OutOfDateM(w) == ~copy[w].loaded \/ Version # copy[w].version

OutOfDate(w) == ~copy[w].loaded \/ Version # copy[w].version \/ w \in aged

(* ensure_current, before a request is decided.                             *)
EnsureCurrent(w) ==
    /\ loading[w].step = "none" /\ OutOfDate(w)
    /\ StartLoading(w)
    /\ UNCHANGED <<rules, counter, unpublished, published, copy, aged>> /\ RedisKept

ReadVersion(w) ==
    /\ loading[w].step = "version"
    /\ Loading(w, "roles", 0, 0, Version)
    /\ UNCHANGED <<rules, counter, unpublished, published, copy, aged>> /\ RedisKept
ReadRoles(w) ==
    /\ loading[w].step = "roles"
    /\ Loading(w, "rules", rules, 0, loading[w].version)
    /\ UNCHANGED <<rules, counter, unpublished, published, copy, aged>> /\ RedisKept
ReadRules(w) ==
    /\ loading[w].step = "rules"
    /\ Loading(w, "swap", loading[w].roles, rules, loading[w].version)
    /\ UNCHANGED <<rules, counter, unpublished, published, copy, aged>> /\ RedisKept

(* Mutant: the copy is recorded under the version of its last moment. *)
RecordedVersionM(w) == Version

RecordedVersion(w) == loading[w].version

(* The copy is replaced, or dropped when the database failed: the worker    *)
(* then answers 503 until a reload succeeds.                                *)
Swap(w) ==
    /\ loading[w].step = "swap"
    /\ copy' = [copy EXCEPT ![w] = [roles |-> loading[w].roles, rules |-> loading[w].rules,
                                    version |-> RecordedVersion(w), loaded |-> TRUE]]
    /\ loading' = [loading EXCEPT ![w] = NotLoading]
    /\ aged' = aged \ {w}
    /\ UNCHANGED <<rules, counter, unpublished, published>> /\ RedisKept
LoadFails(w) ==
    /\ loading[w].step \in {"roles", "rules"}
    /\ copy' = [copy EXCEPT ![w] = NoRules]
    /\ loading' = [loading EXCEPT ![w] = NotLoading]
    /\ UNCHANGED <<rules, counter, unpublished, published, aged>> /\ RedisKept

(* The interval passes for a copy.                                          *)
Age(w) ==
    /\ copy[w].loaded /\ w \notin aged
    /\ aged' = aged \cup {w}
    /\ UNCHANGED <<rules, counter, unpublished, published, copy, loading>> /\ RedisKept

RedisGoes ==
    /\ redis = "up" /\ outages > 0
    /\ outages' = outages - 1 /\ redis' = "down"
    /\ UNCHANGED <<rules, counter, unpublished, published, recounted, copy, loading, aged>>
(* It comes back with its data, or empty.                                   *)
RedisReturns(kept) ==
    /\ redis = "down" /\ redis' = "up"
    /\ counter' = IF kept THEN counter ELSE 0
    /\ recounted' = (recounted \/ ~kept)
    /\ UNCHANGED <<rules, outages, unpublished, published, copy, loading, aged>>

-----------------------------------------------------------------------------
EnforcerInit ==
    /\ rules = 0 /\ counter = 0 /\ redis = "up" /\ outages = MaxOutages
    /\ unpublished = {} /\ published = 0 /\ recounted = FALSE /\ aged = {}
    /\ copy = [w \in Workers |-> [roles |-> 0, rules |-> 0, version |-> 0, loaded |-> TRUE]]
    /\ loading = [w \in Workers |-> NotLoading]

Reloads(w) == EnsureCurrent(w) \/ ReadVersion(w) \/ ReadRoles(w) \/ ReadRules(w) \/ Swap(w)

EnforcerNext ==
    \/ \E w \in Workers :
          \/ ChangeRules(w) \/ Publish(w) \/ WorkerRestarts(w)
          \/ Reloads(w) \/ LoadFails(w) \/ Age(w)
    \/ RedisGoes \/ \E kept \in BOOLEAN : RedisReturns(kept)

EnforcerSpec == EnforcerInit /\ [][EnforcerNext]_enforcerVars


-----------------------------------------------------------------------------
(* "A change committed while the rows are being read leaves a newer version *)
(* in Redis than the one recorded": while Redis keeps the count, a copy     *)
(* that passes for current has both its roles and its rules from after the  *)
(* last change that was published.  (After a recount an old copy may hold   *)
(* the number a new change gets, and passes until the interval is over.)    *)
CurrentCopiesAreComplete ==
    \A w \in Workers :
       redis = "up" /\ ~recounted /\ copy[w].loaded /\ copy[w].version = counter =>
          copy[w].roles >= published /\ copy[w].rules >= published

(* Every worker ends with the last rules in its copy, or with none and so   *)
(* refusing, even when an outage of Redis or the death of a worker lost the *)
(* publication: the interval makes up for it.                               *)
RulesReachEveryWorker ==
    \A w \in Workers : <>[](copy[w].loaded => copy[w].roles = rules /\ copy[w].rules = rules)
=============================================================================
