---------------------------- MODULE AccessPolicy ----------------------------
(***************************************************************************)
(* The access policy (maintenance and read-only mode, the lifetimes of     *)
(* sessions) that every request is held against, and the copy each worker  *)
(* process keeps of it for _ACCESS_POLICY_TTL_SECONDS                      *)
(* (backend/app/modules/settings/service.py, core/access_modes.py).        *)
(*                                                                         *)
(* A worker runs requests concurrently: one may wait for its SELECT while  *)
(* another stores a policy or drops the copy.                              *)
(***************************************************************************)
EXTENDS Integers

CONSTANTS
    Workers,   \* the processes of the API
    Readers,   \* concurrent requests of each worker (bound)
    TTL,       \* for how many ticks a copy is served
    MaxClock,  \* ticks of the clock (bound)
    MaxPolicy  \* changes of the policy (bound)

ASSUME AccessPolicyAssumption == TTL \in Nat \ {0} /\ MaxClock \in Nat /\ MaxPolicy \in Nat

VARIABLES
    clock,      \* the monotonic clock
    policy,     \* the policy in the database, as the number of its last change
    supersededAt, \* when each policy was replaced
    copy,       \* the copy of each worker
    reader,     \* what each request is doing
    unpublished \* workers that have committed a change and not dropped their copy

policyVars == <<clock, policy, supersededAt, copy, reader, unpublished>>

Times == 0 .. MaxClock
Policies == 0 .. MaxPolicy
Never == MaxClock + 1
Copy == [stamp : Times, holds : Policies]
NoCopy == [stamp |-> -1, holds |-> 0]
Fresh(w) == copy[w] # NoCopy /\ clock - copy[w].stamp < TTL
(* at: the clock when the request looked for a copy; holds: what it uses.  *)
Reader == [step : {"idle", "select", "store", "served"}, at : Times, holds : Policies]
IdleReader == [step |-> "idle", at |-> 0, holds |-> 0]
ReaderGoes(w, r, to) == reader' = [reader EXCEPT ![w][r] = to]

(* get_access_policy: a copy that is young enough answers.                 *)
Serve(w, r) ==
    /\ reader[w][r].step = "idle" /\ Fresh(w)
    /\ ReaderGoes(w, r, [step |-> "served", at |-> clock, holds |-> copy[w].holds])
    /\ UNCHANGED <<clock, policy, supersededAt, copy, unpublished>>
(* Otherwise the policy is read; the stamp of the copy is the time before. *)
Look(w, r) ==
    /\ reader[w][r].step = "idle" /\ ~Fresh(w)
    /\ ReaderGoes(w, r, [step |-> "select", at |-> clock, holds |-> 0])
    /\ UNCHANGED <<clock, policy, supersededAt, copy, unpublished>>
Select(w, r) ==
    /\ reader[w][r].step = "select"
    /\ ReaderGoes(w, r, [step |-> "store", at |-> reader[w][r].at, holds |-> policy])
    /\ UNCHANGED <<clock, policy, supersededAt, copy, unpublished>>
(* Mutant: the copy is stamped when it is stored.                          *)
StampLate(w, r) == clock
Stamp(w, r) == reader[w][r].at
Store(w, r) ==
    /\ reader[w][r].step = "store"
    /\ copy' = [copy EXCEPT ![w] = [stamp |-> Stamp(w, r), holds |-> reader[w][r].holds]]
    /\ ReaderGoes(w, r, [reader[w][r] EXCEPT !.step = "served"])
    /\ UNCHANGED <<clock, policy, supersededAt, unpublished>>
(* enforce_access_modes has held the request against the policy.           *)
Enforced(w, r) ==
    /\ reader[w][r].step = "served"
    /\ ReaderGoes(w, r, IdleReader)
    /\ UNCHANGED <<clock, policy, supersededAt, copy, unpublished>>
(* update_app_config commits a change of system or security, in one of     *)
(* these workers or elsewhere; a little later invalidate_access_policy     *)
(* drops the copy of its own process.                                      *)
ChangePolicy(by) ==
    /\ policy < MaxPolicy
    /\ policy' = policy + 1
    /\ supersededAt' = [supersededAt EXCEPT ![policy] = clock]
    /\ unpublished' = unpublished \cup by
    /\ UNCHANGED <<clock, copy, reader>>
Invalidate(w) ==
    /\ w \in unpublished
    /\ unpublished' = unpublished \ {w}
    /\ copy' = [copy EXCEPT ![w] = NoCopy]
    /\ UNCHANGED <<clock, policy, supersededAt, reader>>
(* A process restarts: its copy and its requests are gone.                 *)
Restart(w) ==
    /\ copy' = [copy EXCEPT ![w] = NoCopy]
    /\ reader' = [reader EXCEPT ![w] = [r \in Readers |-> IdleReader]]
    /\ unpublished' = unpublished \ {w}
    /\ UNCHANGED <<clock, policy, supersededAt>>
PolicyTick == clock < MaxClock /\ clock' = clock + 1 /\ UNCHANGED <<policy, supersededAt, copy, reader, unpublished>>

AccessPolicyInit ==
    /\ clock = 0 /\ policy = 0
    /\ supersededAt = [p \in Policies |-> Never]
    /\ copy = [w \in Workers |-> NoCopy]
    /\ reader = [w \in Workers |-> [r \in Readers |-> IdleReader]]
    /\ unpublished = {}
AccessPolicyNext ==
    \/ PolicyTick \/ ChangePolicy({})
    \/ \E w \in Workers :
        \/ ChangePolicy({w}) \/ Invalidate(w) \/ Restart(w)
        \/ \E r \in Readers : Serve(w, r) \/ Look(w, r) \/ Select(w, r) \/ Store(w, r) \/ Enforced(w, r)
AccessPolicySpec == AccessPolicyInit /\ [][AccessPolicyNext]_policyVars
-----------------------------------------------------------------------------
(* Every variable holds what its table or its process may hold.            *)
AccessPolicyTypeOK ==
    /\ clock \in Times /\ policy \in Policies
    /\ supersededAt \in [Policies -> Times \cup {Never}]
    /\ copy \in [Workers -> Copy \cup {NoCopy}]
    /\ reader \in [Workers -> [Readers -> Reader]]
    /\ unpublished \subseteq Workers

(* "A safety net only ... bounds propagation from another process": a      *)
(* request is never answered from a copy whose policy had been replaced    *)
(* for TTL ticks, and a request that read the database itself uses what    *)
(* stood there when it looked, or later.                                   *)
StalenessBounded == \A w \in Workers, r \in Readers :
    reader[w][r].step = "served" => supersededAt[reader[w][r].holds] + TTL > reader[w][r].at
=============================================================================
