----------------------------- MODULE Components -----------------------------
(* The dynamic tabs of a Service Order (master_data/component_config.py and  *)
(* operations/component_tabs.py).  A group of attributes is attached to tabs,*)
(* each attachment with a layout that shows one record or several; an order  *)
(* saves a group's rows as a whole, their values keyed by attribute code.    *)
(* Configuration and saves check each other's rows without a lock.           *)
EXTENDS FiniteSets, Naturals

CONSTANTS
    Designers,     \* the requests, each one process at a time
    Tabs,          \* the tabs the group may be attached to
    Jobs,          \* the Service Orders
    Attributes,    \* the attribute rows
    FieldCodes,    \* the codes they may have
    NoCode,        \* an attribute that was deleted
    RowIds,        \* the ids of component rows
    MaxDesigns     \* bound on requests

ASSUME ComponentsAssumption ==
    /\ NoCode \notin FieldCodes /\ MaxDesigns \in Nat
    /\ RowIds \subseteq Nat /\ IsFiniteSet(RowIds)

(* A layout: a form with no table, one record beside a table, or many.      *)
Layouts == {"formOnly", "single", "multiple"}
ShowsOne(l) == l \in {"formOnly", "single"}

VARIABLES
    legacy,        \* the group's render_mode, as the layout it stands for
    layout,        \* component_tab_groups: the layout by tab, NONE when not attached
    member,        \* component_group_attributes: status by attribute, NONE when not one
    code,          \* component_attributes.code, NoCode once deleted
    rows,          \* service_order_component_rows by order: id -> the values it has
    design,        \* the requests' steps and what they read
    excused,       \* history: tabs that hide rows the guards could not see
    loose,         \* history: attributes renamed past values the guard could not see
    designing      \* requests left

componentVars ==
    <<legacy, layout, member, code, rows, design, excused, loose, designing>>

Values == SUBSET (Attributes \X FieldCodes)      \* which attribute wrote under which code
RowTables == UNION {[S -> Values] : S \in SUBSET RowIds}
NoTab == "omitted"
DesignSteps == {"idle", "layout", "rename", "erase", "rows", "save"}
Resting == [step |-> "idle", on |-> NoTab, to |-> "multiple", code |-> NoCode,
            fields |-> {}, job |-> NoTab, seen |-> <<>>, clear |-> TRUE]

ComponentsTypeOK ==
    /\ legacy \in {"formOnly", "multiple"}
    /\ layout \in [Tabs -> Layouts \cup {"NONE"}]
    /\ member \in [Attributes -> {"NONE", "ACTIVE", "INACTIVE"}]
    /\ code \in [Attributes -> FieldCodes \cup {NoCode}]
    /\ rows \in [Jobs -> RowTables]
    /\ \A d \in Designers : design[d].step \in DesignSteps /\ design[d].clear \in BOOLEAN
    /\ excused \subseteq Tabs /\ loose \subseteq Attributes
    /\ designing \in 0..MaxDesigns

(* _orders_with_multiple_rows, of the rows rs.                              *)
Crowd(rs) == \E j \in Jobs : Cardinality(DOMAIN rs[j]) > 1
Crowded == Crowd(rows)
(* The tabs that hide rows under the layouts ls.                            *)
Hiding(ls, rs) == {t \in Tabs : ls[t] # "NONE" /\ ShowsOne(ls[t]) /\ Crowd(rs)}

DesignBegins(d, r) ==
    /\ design[d].step = "idle" /\ designing > 0
    /\ designing' = designing - 1
    /\ design' = [design EXCEPT ![d] = r]
DesignEnds(d) == design' = [design EXCEPT ![d] = Resting]

-----------------------------------------------------------------------------
(* Mutant: one record beside a table is not seen as a single-record layout. *)
BecomesSingleM(current, target) == target = "formOnly" /\ current # "formOnly"

BecomesSingle(current, target) == ShowsOne(target) /\ current # "formOnly"

(* add_tab_group and update_tab_group: LAYOUT_CHANGE_WOULD_HIDE_ROWS.  The  *)
(* layout in force is the attachment's, or the group's legacy one for a new *)
(* attachment.                                                              *)
GuardLayout(d, t, target) ==
    /\ LET current == IF layout[t] = "NONE" THEN legacy ELSE layout[t]
       IN /\ ~(BecomesSingle(current, target) /\ Crowded)
          /\ DesignBegins(d, [Resting EXCEPT !.step = "layout", !.on = t, !.to = target,
                                  !.clear = ~Crowded \/ current = "formOnly"])
    /\ UNCHANGED <<legacy, layout, member, code, rows, excused, loose>>

CommitLayout(d) ==
    /\ design[d].step = "layout"
    /\ layout' = [layout EXCEPT ![design[d].on] = design[d].to]
    /\ excused' = IF design[d].clear THEN excused \cup (Hiding(layout', rows) \ Hiding(layout, rows))
                  ELSE excused
    /\ DesignEnds(d)
    /\ UNCHANGED <<legacy, member, code, rows, loose, designing>>

(* remove_tab_group, delete_tab; and update_group, which no guard covers.   *)
Detach(d, t) ==
    /\ layout[t] # "NONE"
    /\ DesignBegins(d, Resting)
    /\ layout' = [layout EXCEPT ![t] = "NONE"]
    /\ UNCHANGED <<legacy, member, code, rows, excused, loose>>
SetRenderMode(d) ==
    /\ DesignBegins(d, Resting)
    /\ legacy' = IF legacy = "formOnly" THEN "multiple" ELSE "formOnly"
    /\ UNCHANGED <<layout, member, code, rows, excused, loose>>

(* add_group_attribute, update_group_attribute, remove_group_attribute.  A  *)
(* row is linked to an attribute by the membership alone.                   *)
SetMembership(d, a, status) ==
    /\ code[a] # NoCode /\ member[a] # status
    /\ DesignBegins(d, Resting)
    /\ member' = [member EXCEPT ![a] = status]
    /\ loose' = IF status = "NONE" THEN loose \cup {a} ELSE loose
    /\ UNCHANGED <<legacy, layout, code, rows, excused>>

(* _attribute_row_references, which counts rows and not values.             *)
Referenced(a) == member[a] # "NONE" /\ \E j \in Jobs : DOMAIN rows[j] # {}

(* Mutant: the saved rows are not looked at. *)
CheckRenameM(d, a, c) ==
    /\ code[a] \in FieldCodes \ {c} /\ \A o \in Attributes : code[o] # c
    /\ DesignBegins(d, [Resting EXCEPT !.step = "rename", !.on = a, !.code = c, !.clear = ~Referenced(a)])
    /\ UNCHANGED <<legacy, layout, member, code, rows, excused, loose>>

(* _rename_attribute refuses a code in use and one saved rows refer to.     *)
CheckRename(d, a, c) ==
    /\ code[a] \in FieldCodes \ {c} /\ \A o \in Attributes : code[o] # c
    /\ ~Referenced(a)
    /\ DesignBegins(d, [Resting EXCEPT !.step = "rename", !.on = a, !.code = c, !.clear = ~Referenced(a)])
    /\ UNCHANGED <<legacy, layout, member, code, rows, excused, loose>>

CommitRename(d) ==
    /\ design[d].step = "rename"
    /\ LET a == design[d].on
       IN IF code[a] # NoCode /\ \A o \in Attributes \ {a} : code[o] # design[d].code
          THEN /\ code' = [code EXCEPT ![a] = design[d].code]
               /\ loose' = IF design[d].clear /\ Referenced(a) THEN loose \cup {a} ELSE loose
          ELSE UNCHANGED <<code, loose>>
    /\ DesignEnds(d)
    /\ UNCHANGED <<legacy, layout, member, rows, excused, designing>>

(* delete_attribute: erased when no group, row or published snapshot refers *)
(* to it, deactivated otherwise (which changes nothing here).  A membership *)
(* added since goes with it.                                                *)
CheckErase(d, a) ==
    /\ code[a] # NoCode /\ member[a] = "NONE"
    /\ DesignBegins(d, [Resting EXCEPT !.step = "erase", !.on = a])
    /\ UNCHANGED <<legacy, layout, member, code, rows, excused, loose>>
CommitErase(d) ==
    /\ design[d].step = "erase"
    /\ LET a == design[d].on
       IN /\ code' = [code EXCEPT ![a] = NoCode]
          /\ member' = [member EXCEPT ![a] = "NONE"]
          /\ loose' = loose \cup {a}
    /\ DesignEnds(d)
    /\ UNCHANGED <<legacy, layout, rows, excused, designing>>

(* bulk_save reads the group's visible attributes, and the layout of the    *)
(* attachment its caller names, or the group's legacy one.                  *)
ReadLayout(d, j, t) ==
    /\ t # NoTab => layout[t] # "NONE"
    /\ DesignBegins(d, [Resting EXCEPT !.step = "rows", !.job = j, !.on = t,
            !.to = IF t = NoTab THEN legacy ELSE layout[t],
            !.fields = {<<a, code[a]>> : a \in {x \in Attributes : member[x] = "ACTIVE"}}])
    /\ UNCHANGED <<legacy, layout, member, code, rows, excused, loose>>

ReadRows(d) ==
    /\ design[d].step = "rows"
    /\ design' = [design EXCEPT ![d].step = "save", ![d].seen = rows[design[d].job]]
    /\ UNCHANGED <<legacy, layout, member, code, rows, excused, loose, designing>>

(* Mutant: a single-record group accepts any number of rows. *)
MayHoldM(l, n) == TRUE

MayHold(l, n) == ShowsOne(l) => n <= 1

(* Rows sent with the id of one that was read are kept and their values for *)
(* the read attributes replaced; the other rows it read are deleted, and    *)
(* rows without an id inserted, under ids that nobody knows.  A kept row     *)
(* that was deleted since fails the save.                                   *)
Save(d, kept, new, filled) ==
    /\ design[d].step = "save"
    /\ kept \subseteq DOMAIN design[d].seen /\ filled \subseteq design[d].fields
    /\ LET j == design[d].job
           seen == design[d].seen
           here == rows[j]
           others == DOMAIN here \ DOMAIN seen
           known == {f[2] : f \in design[d].fields}
           Old(r) == {v \in seen[r] : v[2] \notin known}
       IN /\ new \cap DOMAIN here = {}
          /\ \A o \in Designers : new \cap DOMAIN design[o].seen = {}
          /\ MayHold(design[d].to, Cardinality(kept) + Cardinality(new))
          /\ IF kept \subseteq DOMAIN here
             THEN rows' = [rows EXCEPT ![j] = [r \in others \cup kept \cup new |->
                      IF r \in kept THEN Old(r) \cup filled
                      ELSE IF r \in new THEN filled ELSE here[r]]]
             ELSE UNCHANGED rows
          /\ excused' = excused \cup
                {t \in Hiding(layout, rows') \ Hiding(layout, rows) : t # design[d].on \/ layout[t] # design[d].to \/ here # seen}
          /\ loose' = loose \cup {f[1] : f \in {x \in filled : code[x[1]] # x[2]}}
    /\ DesignEnds(d)
    /\ UNCHANGED <<legacy, layout, member, code, designing>>

-----------------------------------------------------------------------------
ComponentsInit ==
    /\ legacy \in {"formOnly", "multiple"}
    /\ layout = [t \in Tabs |-> "NONE"]
    /\ member = [a \in Attributes |-> "ACTIVE"]
    /\ code \in {c \in [Attributes -> FieldCodes] : \A a, b \in Attributes : a # b => c[a] # c[b]}
    /\ rows = [j \in Jobs |-> <<>>]
    /\ design = [d \in Designers |-> Resting]
    /\ excused = {} /\ loose = {}
    /\ designing = MaxDesigns

ComponentsNext ==
    \E d \in Designers :
       \/ \E t \in Tabs : Detach(d, t) \/ \E l \in Layouts : GuardLayout(d, t, l)
       \/ SetRenderMode(d) \/ CommitLayout(d)
       \/ \E a \in Attributes :
             \/ \E s \in {"NONE", "ACTIVE", "INACTIVE"} : SetMembership(d, a, s)
             \/ \E c \in FieldCodes : CheckRename(d, a, c)
             \/ CheckErase(d, a)
       \/ CommitRename(d) \/ CommitErase(d) \/ ReadRows(d)
       \/ \E j \in Jobs, t \in Tabs \cup {NoTab} : ReadLayout(d, j, t)
       \/ /\ design[d].step = "save"
          /\ \E kept, new \in SUBSET RowIds : \E filled \in {{}, design[d].fields} :
                Save(d, kept, new, filled)

ComponentsSpec == ComponentsInit /\ [][ComponentsNext]_componentVars

-----------------------------------------------------------------------------
(* A tab whose layout shows one record hides no saved row: _guard_layout_   *)
(* change refuses to make one of a group with more, and bulk_save refuses a *)
(* second.  Excused are the ways round these checks: a save and a change    *)
(* that overlap, two saves that do, a save that names another tab or none,  *)
(* and an attachment added to a group whose legacy layout is a form.        *)
SavedRowsStayVisible == Hiding(layout, rows) \subseteq excused

(* A value stays under the code its attribute has: ATTRIBUTE_CODE_IN_USE    *)
(* refuses to rename an attribute that saved rows refer to.  Excused are an *)
(* attribute whose membership was removed first, which hides its rows from  *)
(* the check, and one renamed while a save was under way.                   *)
ValuesKeepTheirCode ==
    \A j \in Jobs : \A r \in DOMAIN rows[j] : \A v \in rows[j][r] :
       code[v[1]] = v[2] \/ v[1] \in loose

(* A redesign of the tabs leaves the saved rows visible and their values    *)
(* under the codes that their attributes have.                              *)
SavedDataStaysWhole == SavedRowsStayVisible /\ ValuesKeepTheirCode
=============================================================================
