------------------------------ MODULE Capture ------------------------------
(* What the page of a Service Order shows of a component group and what its *)
(* saves take (operations/component_tabs.py; the page, useComponentTabs.ts, *)
(* is as far modelled as it decides what is sent).  A page is loaded once   *)
(* and saved later, over attributes that are edited and rows that others    *)
(* save meanwhile; a save sends every row of the group as the page holds it.*)
(* Components has the layouts, the codes and the number of rows instead.    *)
EXTENDS Naturals, FiniteSets

CONSTANTS
    Typists,     \* the pages that are open at a time
    Fields,      \* the attributes of the group
    Words,       \* what may be typed
    Attributes,  \* the attribute settings that administrators submit
    MaxPages,    \* bound on pages opened
    MaxTypings,  \* bound on cells typed
    MaxFormEdits,\* bound on edits of the group
    MaxLines,    \* bound on rows added
    MaxSaves     \* bound on saves

(* A value is a text or a number; the empty text is no value.               *)
Text(w) == [kind |-> "text", word |-> w]
Number(w) == [kind |-> "number", word |-> w]
Missing == Text("")
Numerals == {"0", "1", "1.0"}
Answers == {Text(w) : w \in Words \cup Numerals} \cup {Number("0"), Number("1")}
Lines == [Fields -> Answers]
(* A row as a page has it: "keys" are the codes its values have.            *)
PageLines == [keys : SUBSET Fields, values : Lines]

ASSUME CaptureAssumption ==
    /\ {MaxPages, MaxTypings, MaxFormEdits, MaxLines, MaxSaves} \subseteq Nat
    /\ "" \in Words
    /\ Attributes \subseteq [type : {"text", "number", "select"}, required : BOOLEAN,
                            options : SUBSET Words]

VARIABLES
    attribute,  \* component_attributes: type, is_required, options
    membership, \* component_group_attributes: visible and active, is_required
    lines,      \* the order's rows of the group, by id
    lastLine,   \* the last id given
    pinned,     \* the attributes as the version the order was created under has them
    page,       \* each page and the save it has under way
    acts        \* pages opened, cells typed, edits of the group, rows added, saves

captureVars == <<attribute, membership, lines, lastLine, pinned, page, acts>>

Memberships == [shown : BOOLEAN, required : {"unset", "yes", "no"}]
NoPage == [step |-> "away", shown |-> <<>>, opened |-> <<>>, rows |-> <<>>, added |-> {},
           typed |-> {}, form |-> <<>>, seen |-> <<>>]

CaptureTypeOK ==
    /\ attribute \in [Fields -> Attributes] /\ membership \in [Fields -> Memberships]
    /\ \A form \in pinned : \E shown \in SUBSET Fields : form \in [shown -> Attributes]
    /\ DOMAIN lines \subseteq 1..lastLine /\ \A r \in DOMAIN lines : lines[r] \in Lines
    /\ \A u \in Typists :
          /\ page[u].step \in {"away", "rows", "page", "form", "commit"}
          /\ page[u].added \subseteq PageLines /\ Cardinality(page[u].added) <= 1
          /\ \A r \in DOMAIN page[u].rows : page[u].rows[r] \in PageLines
    /\ acts \in [pages : 0..MaxPages, typings : 0..MaxTypings, edits : 0..MaxFormEdits,
                 lines : 0..MaxLines, saves : 0..MaxSaves]

Spend(what) == acts' = [acts EXCEPT ![what] = @ + 1]
On(u, p) == page' = [page EXCEPT ![u] = p]

-----------------------------------------------------------------------------
(* _validate_attribute_config, of the settings that a request touches.      *)
ConfigValid(a) == "" \notin a.options /\ (a.type = "select" => a.options # {})

(* update_attribute and update_group_attribute (and adding or removing the  *)
(* membership): saved values are not looked at.                             *)
UpdateAttribute(f, a) ==
    /\ acts.edits < MaxFormEdits /\ ConfigValid(a) /\ a # attribute[f]
    /\ attribute' = [attribute EXCEPT ![f] = a] /\ Spend("edits")
    /\ UNCHANGED <<membership, lines, lastLine, pinned, page>>
UpdateMembership(f, m) ==
    /\ acts.edits < MaxFormEdits /\ m # membership[f]
    /\ membership' = [membership EXCEPT ![f] = m] /\ Spend("edits")
    /\ UNCHANGED <<attribute, lines, lastLine, pinned, page>>

(* _group_attributes, with the membership's is_required over the attribute's.*)
ShownFields == {f \in Fields : membership[f].shown}
Form == [f \in ShownFields |->
    [attribute[f] EXCEPT !.required = CASE membership[f].required = "unset" -> @
                                        [] OTHER -> membership[f].required = "yes"]]

(* bootstrap reads the rows, then the groups and their attributes: those of *)
(* the version that stamp_service_order pinned the order to as it was       *)
(* created, if one was published then, and else those of now.               *)
Shown == IF pinned = {} THEN {Form} ELSE pinned
OpenPage(u) ==
    /\ page[u].step = "away" /\ acts.pages < MaxPages /\ Spend("pages")
    /\ On(u, [NoPage EXCEPT !.step = "rows", !.opened = lines])
    /\ UNCHANGED <<attribute, membership, lines, lastLine, pinned>>
OnPage(row) == [keys |-> {f \in Fields : row[f] # Missing}, values |-> row]
ShowPage(u) ==
    /\ page[u].step = "rows"
    /\ \E form \in Shown :
         On(u, [page[u] EXCEPT !.step = "page", !.shown = form,
                 !.rows = [r \in DOMAIN page[u].opened |-> OnPage(page[u].opened[r])]])
    /\ UNCHANGED <<attribute, membership, lines, lastLine, pinned, acts>>
Written(row, f, w) == [keys |-> row.keys \cup {f}, values |-> [row.values EXCEPT ![f] = Text(w)]]
TypeCell(u, f, w) ==
    /\ page[u].step = "page" /\ f \in DOMAIN page[u].shown
    /\ acts.typings < MaxTypings /\ Spend("typings")
    /\ \/ \E r \in DOMAIN page[u].rows :
             On(u, [page[u] EXCEPT !.rows[r] = Written(@, f, w), !.typed = @ \cup {<<r, f>>}])
       \/ \E row \in page[u].added : On(u, [page[u] EXCEPT !.added = {Written(row, f, w)}])
    /\ UNCHANGED <<attribute, membership, lines, lastLine, pinned>>
(* blankRow: 0 for a number, the default (here: none) for the rest.         *)
AddLine(u) ==
    /\ page[u].step = "page" /\ page[u].added = {} /\ acts.lines < MaxLines /\ Spend("lines")
    /\ LET form == page[u].shown
           zero == {f \in DOMAIN form : form[f].type = "number"}
           blank == [f \in Fields |-> IF f \in zero THEN Number("0") ELSE Missing]
       IN On(u, [page[u] EXCEPT !.added = {[keys |-> DOMAIN form, values |-> blank]}])
    /\ UNCHANGED <<attribute, membership, lines, lastLine, pinned>>
RemoveLine(u, r) ==
    /\ page[u].step = "page" /\ r \in DOMAIN page[u].rows
    /\ On(u, [page[u] EXCEPT !.rows = [s \in DOMAIN @ \ {r} |-> @[s]]])
    /\ UNCHANGED <<attribute, membership, lines, lastLine, pinned, acts>>

-----------------------------------------------------------------------------
(* _coerce_value and the options: what the value becomes, if it fits.       *)
Fits(a, v) == CASE a.type = "number" -> v.word \in Numerals
                [] a.type = "select" -> a.options = {} \/ v.word \in a.options
                [] OTHER -> TRUE
Coerced(a, v) == IF a.type # "number" THEN Text(v.word)
                 ELSE Number(IF v.word = "1.0" THEN "1" ELSE v.word)

(* _validate_values, of a row as it is sent over the row that exists.       *)
Provided(sent, existing, f) == IF f \in sent.keys THEN sent.values[f] ELSE existing[f]
Acceptable(form, sent, existing) ==
    \A f \in DOMAIN form : LET v == Provided(sent, existing, f)
                           IN IF v = Missing THEN ~form[f].required ELSE Fits(form[f], v)
(* Mutant: the values of the attributes that are not shown are dropped. *)
ValidatedM(form, sent, existing) == [f \in Fields |->
    IF f \in DOMAIN form /\ Provided(sent, existing, f) # Missing
      THEN Coerced(form[f], Provided(sent, existing, f)) ELSE Missing]

Validated(form, sent, existing) == [f \in Fields |->
    IF f \notin DOMAIN form THEN existing[f]
    ELSE LET v == Provided(sent, existing, f) IN IF v = Missing THEN v ELSE Coerced(form[f], v)]

(* bulk_save: the attributes, then the rows, are read; any row that does    *)
(* not fit refuses the save.  A row sent with an id that is gone is new.    *)
NoLine == [f \in Fields |-> Missing]
StartSave(u) ==
    /\ page[u].step = "page" /\ acts.saves < MaxSaves /\ Spend("saves")
    /\ On(u, [page[u] EXCEPT !.step = "form", !.form = Form])
    /\ UNCHANGED <<attribute, membership, lines, lastLine, pinned>>
SentAsNew(u, there) ==
    page[u].added \cup {page[u].rows[r] : r \in DOMAIN page[u].rows \ DOMAIN there}
ReadLines(u) ==
    /\ page[u].step = "form"
    /\ LET p == page[u]
           accepted == /\ \A r \in DOMAIN p.rows \cap DOMAIN lines :
                             Acceptable(p.form, p.rows[r], lines[r])
                       /\ \A row \in SentAsNew(u, lines) : Acceptable(p.form, row, NoLine)
       IN On(u, IF accepted THEN [p EXCEPT !.step = "commit", !.seen = lines]
                ELSE [p EXCEPT !.step = "page", !.form = <<>>])
    /\ UNCHANGED <<attribute, membership, lines, lastLine, pinned, acts>>

(* Rows that were read and not sent are deleted, rows that were sent written*)
(* as they were validated and the new ones inserted; a row to be updated    *)
(* that is gone fails the save, and may pass when nothing in it changes.    *)
(* The page takes the rows from the answer.                                 *)
KeptLines(u) == DOMAIN page[u].rows \cap DOMAIN page[u].seen
CommitSave(u) ==
    /\ page[u].step = "commit"
    /\ LET p == page[u]
           new == SentAsNew(u, p.seen)
           ids == (lastLine + 1)..(lastLine + Cardinality(new))
           unread == DOMAIN lines \ DOMAIN p.seen
       IN \E order \in [ids -> new] :
            /\ \A row \in new : \E i \in ids : order[i] = row
            /\ LET result == [r \in KeptLines(u) \cup ids |->
                      IF r \in ids THEN Validated(p.form, order[r], NoLine)
                      ELSE Validated(p.form, p.rows[r], p.seen[r])]
                   gone == KeptLines(u) \ DOMAIN lines
               IN /\ \A r \in gone : result[r] = p.seen[r]
                  /\ lines' = [r \in (DOMAIN result \ gone) \cup unread |->
                                 IF r \in unread THEN lines[r] ELSE result[r]]
                  /\ On(u, [NoPage EXCEPT !.step = "page", !.shown = p.shown, !.opened = result,
                               !.rows = [r \in DOMAIN result |-> OnPage(result[r])]])
            /\ lastLine' = lastLine + Cardinality(new)
    /\ UNCHANGED <<attribute, membership, pinned, acts>>
SaveFails(u) ==
    /\ page[u].step = "commit" /\ ~(KeptLines(u) \subseteq DOMAIN lines)
    /\ On(u, [page[u] EXCEPT !.step = "page", !.form = <<>>, !.seen = <<>>])
    /\ UNCHANGED <<attribute, membership, lines, lastLine, pinned, acts>>

CaptureInit ==
    /\ attribute \in [Fields -> {a \in Attributes : a.type = "text" /\ ConfigValid(a)}]
    /\ membership = [f \in Fields |-> [shown |-> TRUE, required |-> "unset"]]
    /\ lines \in {[r \in {1} |-> line] : line \in [Fields -> {Missing, Text("1.0")}]}
    /\ pinned \in {{}, {Form}}
    /\ lastLine = 1 /\ page = [u \in Typists |-> NoPage]
    /\ acts = [pages |-> 0, typings |-> 0, edits |-> 0, lines |-> 0, saves |-> 0]

CaptureNext ==
    \/ \E f \in Fields : \/ \E a \in Attributes : UpdateAttribute(f, a)
                         \/ \E m \in Memberships : UpdateMembership(f, m)
    \/ \E u \in Typists :
          \/ OpenPage(u) \/ ShowPage(u) \/ AddLine(u)
          \/ \E f \in Fields, w \in Words : TypeCell(u, f, w)
          \/ \E r \in DOMAIN page[u].rows : RemoveLine(u, r)
          \/ StartSave(u) \/ ReadLines(u) \/ CommitSave(u) \/ SaveFails(u)

CaptureSpec == CaptureInit /\ [][CaptureNext]_captureVars

-----------------------------------------------------------------------------
(* A save changes a cell only if its user typed it, if it spells the same   *)
(* word as the attribute's type wants it, or if someone else had saved that *)
(* row since the page was loaded; and of the rows the page was loaded with  *)
(* it takes away only those that its user removed.  So the values under     *)
(* attributes that are hidden, or that the page does not know, stay, and    *)
(* saving a page one did not touch changes nothing.                         *)
SavesChangeWhatWasTyped ==
    [][\A u \in Typists : page[u].step = "commit" /\ page'[u].step = "page" =>
          \A r \in DOMAIN lines \cap DOMAIN page[u].opened :
             \/ lines[r] # page[u].opened[r]
             \/ r \in DOMAIN page[u].seen /\ page[u].seen[r] # page[u].opened[r]
             \/ r \notin DOMAIN lines' /\ r \notin DOMAIN page[u].rows
             \/ /\ r \in DOMAIN lines'
                /\ \A f \in Fields \ {g \in Fields : <<r, g>> \in page[u].typed} :
                      \/ lines'[r][f] = lines[r][f]
                      \/ /\ f \in DOMAIN page[u].form
                         /\ lines'[r][f] = Coerced(page[u].form[f], lines[r][f])]_captureVars
=============================================================================
