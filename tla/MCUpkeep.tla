------------------------------ MODULE MCUpkeep ------------------------------
(* ConfigVersions, Catalog, Components, Imports, Enforcer, SharedCache,     *)
(* Backups and AdvisoryLocks on small instances.  They share no variable,   *)
(* so their interleaving adds nothing: a behaviour runs one of them, which  *)
(* "part" names.                                                            *)
EXTENDS ConfigVersions, Catalog, Components, Imports, Enforcer, SharedCache, Backups,
        AdvisoryLocks

CONSTANTS customer, client, acme, k1, k2, h1, c1,
    Loner,           \* a replica that runs backups alone
    MaxSharedRuns,   \* bound on runs where replicas may overlap
    MaxSharedCalls   \* bound on failed calls there

VARIABLE part

Homonyms == {<<customer, client>>}
Workbooks == {<<k1, k2>>, <<k2, k1>>}
InOrder == <<"roles", "orders">>

Parts == {"versions", "catalog", "components", "imports", "enforcer", "cache", "backups",
          "lone backups", "locks"}

UpkeepInit ==
    /\ part \in Parts
    /\ ConfigInit /\ CatalogInit /\ ComponentsInit /\ ImportsInit
    /\ EnforcerInit /\ CacheInit /\ LocksInit
    /\ BackupsInit /\ contents = [t \in Names |-> h1]
    /\ part # "versions" => live = [s \in 1..Selects |-> 1] /\ versions[1] = Absent
    /\ part # "components" => legacy = "multiple" /\ code = [t \in Attributes |-> c1]
    /\ part # "imports" => present = <<>>

Others(rest) == UNCHANGED <<part, rest>>
UpkeepNext ==
    \/ /\ part = "versions" /\ ConfigNext
       /\ Others(<<catalogVars, componentVars, importVars, enforcerVars,
                   cacheVars, backupVars, lockVars>>)
    \/ /\ part = "catalog" /\ CatalogNext
       /\ Others(<<configVars, componentVars, importVars, enforcerVars,
                   cacheVars, backupVars, lockVars>>)
    \/ /\ part = "components" /\ ComponentsNext
       /\ Others(<<configVars, catalogVars, importVars, enforcerVars,
                   cacheVars, backupVars, lockVars>>)
    \/ /\ part = "imports" /\ ImportsNext
       /\ Others(<<configVars, catalogVars, componentVars, enforcerVars,
                   cacheVars, backupVars, lockVars>>)
    \/ /\ part = "enforcer" /\ EnforcerNext
       /\ Others(<<configVars, catalogVars, componentVars, importVars,
                   cacheVars, backupVars, lockVars>>)
    \/ /\ part = "cache" /\ CacheNext
       /\ Others(<<configVars, catalogVars, componentVars, importVars,
                   enforcerVars, backupVars, lockVars>>)
    \/ /\ part \in {"backups", "lone backups"} /\ BackupsNext
       /\ IF part = "backups"
            THEN /\ spent'.runs <= MaxSharedRuns /\ spent'.calls <= MaxSharedCalls
                 /\ restore' = restore
            ELSE \A r \in Replicas \ {Loner} : backup'[r] = NoJob
       /\ Others(<<configVars, catalogVars, componentVars, importVars,
                   enforcerVars, cacheVars, lockVars>>)
    \/ /\ part = "locks" /\ LocksNext
       /\ Others(<<configVars, catalogVars, componentVars, importVars,
                   enforcerVars, cacheVars, backupVars>>)

(* Requests keep coming, so a worker whose copy of the rules is out of date *)
(* loads them, whether or not the database answers, and a copy that is kept *)
(* grows old.  A scheduler keeps polling and goes on until it has unlocked; *)
(* of those that find the lock free again and again one wins it, and of     *)
(* those that won it one starts its run, for a manual run that is in the    *)
(* way ends; and the pools close connections that have grown too old.       *)
UpkeepFairness ==
    /\ \A w \in Workers : /\ WF_enforcerVars(part = "enforcer" /\ (Reloads(w) \/ LoadFails(w)))
                          /\ WF_enforcerVars(part = "enforcer" /\ Age(w))
    /\ \A p \in Schedulers :
          WF_lockVars(part = "locks" /\ (\/ PassOver(p) \/ UnlockBlock(p)
                                        \/ \E c \in Conns : SeeDue(p, c) \/ EndDueRun(p, c)))
    /\ SF_lockVars(part = "locks" /\ \E p \in Schedulers : Win(p))
    /\ SF_lockVars(part = "locks" /\ \E p \in Schedulers : StartDueRun(p))
    /\ WF_lockVars(part = "locks" /\ \E p \in Schedulers, c \in Conns : CloseConnection(p, c))

UpkeepSpec ==
    /\ UpkeepInit
    /\ [][UpkeepNext]_<<part, configVars, catalogVars, componentVars, importVars, enforcerVars,
                        cacheVars, backupVars, lockVars>>
    /\ UpkeepFairness

(* Every variable of the eight modules holds what its table, its process or *)
(* its key may hold.                                                        *)
UpkeepTypeOK ==
    /\ ConfigTypeOK /\ CatalogTypeOK /\ ComponentsTypeOK /\ ImportsTypeOK
    /\ EnforcerTypeOK /\ CacheTypeOK /\ BackupsTypeOK /\ LocksTypeOK
=============================================================================
