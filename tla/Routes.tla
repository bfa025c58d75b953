------------------------------- MODULE Routes -------------------------------
(* The route of a quotation revision or of a service order                  *)
(* (master_data/route_stops.py).  A save reads the stored stops without a   *)
(* lock, checks the submitted ones, and rewrites the route in place: the    *)
(* stops it read are parked on negative numbers, then numbered 1, 2, ... in *)
(* the submitted order, and those that were left out are deleted.  The      *)
(* parking locks them until COMMIT, so that nobody sees it; a stop that has *)
(* gone by then, and a number that is taken, roll the save back.            *)
EXTENDS FiniteSets, Sequences, Naturals

CONSTANTS
    Planners,       \* requests that save the route (bound)
    PlaceRoles,     \* the place roles
    Submissions,    \* the lists of stops a request may submit (bound)
    MaxStopId,      \* stops ever stored (bound)
    MaxRouteSaves,  \* saves begun (bound)
    MaxRetirements  \* roles deactivated (bound)

ASSUME RoutesAssumption ==
    /\ {MaxStopId, MaxRouteSaves, MaxRetirements} \subseteq Nat
    /\ \A list \in Submissions : list \in Seq([id : Nat, role : PlaceRoles])

VARIABLES
    stops,     \* the rows: id, sequence_no and place_role_id
    lastStop,  \* the last id given
    retired,   \* the roles that are not ACTIVE
    planning,  \* each request: the rows it read and the stops it submitted
    wanted,    \* roles of the last route that was saved, in order (history)
    version,   \* saves committed (history)
    mixed,     \* the last save had read an older version (history)
    routeSaves

routeVars == <<stops, lastStop, retired, planning, wanted, version, mixed, routeSaves>>

IdsOf(rows) == {s.id : s \in rows}
StopOf(rows, id) == CHOOSE s \in rows : s.id = id
NoPlan == [step |-> "idle", seen |-> {}, at |-> 0, submitted |-> <<>>]

-----------------------------------------------------------------------------
(* resolve_route_stops: an inactive role passes on a row that had it.       *)
RoleAllowed(s) ==
    \/ s.role \notin retired
    \/ s.id \in IdsOf(stops) /\ StopOf(stops, s.id).role = s.role
ReadRoute(c, list) ==
    /\ planning[c].step = "idle" /\ routeSaves < MaxRouteSaves
    /\ \A i \in DOMAIN list : RoleAllowed(list[i])
    /\ planning' = [planning EXCEPT ![c] = [step |-> "read", seen |-> stops, at |-> version,
                                            submitted |-> list]]
    /\ routeSaves' = routeSaves + 1
    /\ UNCHANGED <<stops, lastStop, retired, wanted, version, mixed>>

(* Mutant: a row id that is submitted twice takes the same row twice.       *)
TakesTheRow(p, i) == p.submitted[i].id \in IdsOf(p.seen)
(* The i-th stop is stored in the row it names, if the route had it and no  *)
(* earlier stop named it; else in a new row.                                *)
Reuses(p, i) ==
    /\ p.submitted[i].id \in IdsOf(p.seen)
    /\ \A j \in 1..i - 1 : p.submitted[j].id # p.submitted[i].id

(* The last stop stored in a row gives it its number and its role; the role *)
(* is in the UPDATE only if it differs from the one that was read.          *)
Renumbered(p) ==
    LET Positions(id) == {i \in DOMAIN p.submitted : p.submitted[i].id = id /\ Reuses(p, i)}
        Last(id) == CHOOSE i \in Positions(id) : \A j \in Positions(id) : j <= i
        Role(id) == IF p.submitted[Last(id)].role # StopOf(p.seen, id).role
                    THEN p.submitted[Last(id)].role ELSE StopOf(stops, id).role
    IN {[id |-> id, seq |-> Last(id), role |-> Role(id)] :
            id \in {k \in IdsOf(p.seen) : Positions(k) # {}}}
Inserted(p) ==
    LET new == {i \in DOMAIN p.submitted : ~Reuses(p, i)} IN
    {[id |-> lastStop + Cardinality({j \in new : j <= i}), seq |-> i,
      role |-> p.submitted[i].role] : i \in new}

CommitRoute(c) ==
    LET p == planning[c]
        unseen == {s \in stops : s.id \notin IdsOf(p.seen)}
        route == Renumbered(p) \cup Inserted(p)
    IN
    /\ p.step = "read" /\ IdsOf(p.seen) \subseteq IdsOf(stops)
    /\ \A s \in unseen, r \in route : s.seq # r.seq
    /\ lastStop + Cardinality(Inserted(p)) <= MaxStopId
    /\ stops' = unseen \cup route
    /\ lastStop' = lastStop + Cardinality(Inserted(p))
    /\ wanted' = [i \in DOMAIN p.submitted |-> p.submitted[i].role]
    /\ version' = version + 1 /\ mixed' = (p.at # version)
    /\ planning' = [planning EXCEPT ![c] = NoPlan]
    /\ UNCHANGED <<retired, routeSaves>>
(* A row it read has gone, a number is taken, or the process died.          *)
AbandonRoute(c) ==
    /\ planning[c].step = "read" /\ planning' = [planning EXCEPT ![c] = NoPlan]
    /\ UNCHANGED <<stops, lastStop, retired, wanted, version, mixed, routeSaves>>

RetireRole(role) ==
    /\ role \notin retired /\ Cardinality(retired) < MaxRetirements
    /\ retired' = retired \cup {role}
    /\ UNCHANGED <<stops, lastStop, planning, wanted, version, mixed, routeSaves>>

-----------------------------------------------------------------------------
RoutesInit ==
    /\ stops = {} /\ lastStop = 0 /\ retired = {} /\ wanted = <<>>
    /\ planning = [c \in Planners |-> NoPlan]
    /\ version = 0 /\ mixed = FALSE /\ routeSaves = 0

RoutesNext ==
    \/ \E c \in Planners : (\E list \in Submissions : ReadRoute(c, list)) \/ CommitRoute(c)
                           \/ AbandonRoute(c)
    \/ \E role \in PlaceRoles : RetireRole(role)

RoutesSpec == RoutesInit /\ [][RoutesNext]_routeVars

RoutesTypeOK ==
    /\ \A s \in stops : s.id \in 1..lastStop /\ s.seq \in Nat \ {0} /\ s.role \in PlaceRoles
    /\ Cardinality(IdsOf(stops)) = Cardinality(stops)
    /\ lastStop \in 0..MaxStopId /\ retired \subseteq PlaceRoles
    /\ \A c \in Planners : planning[c].step \in {"idle", "read"}
    /\ mixed \in BOOLEAN /\ routeSaves \in 0..MaxRouteSaves

-----------------------------------------------------------------------------
(* route_stops.py, "the submitted order wins": after a save that read the   *)
(* route as it was, the route is the list that was submitted, every stop in *)
(* a row of its own, numbered without a gap, whatever row ids the list      *)
(* repeats, reorders or leaves out, and whatever saves overlapped before.   *)
RoutesStayInOrder ==
    ~mixed => /\ Cardinality(stops) = Len(wanted)
              /\ {<<s.seq, s.role>> : s \in stops} = {<<i, wanted[i]>> : i \in DOMAIN wanted}
=============================================================================
