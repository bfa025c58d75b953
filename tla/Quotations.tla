----------------------------- MODULE Quotations -----------------------------
(***************************************************************************)
(* Quotations, their revisions, and the conversion of a revision into a    *)
(* service order (backend/app/modules/quotations/service.py, repository.py *)
(* and models.py; operations/service.py create_service_order_from_quotation*)
(* and core/sequences.py).                                                 *)
(*                                                                         *)
(* A request is one READ COMMITTED transaction.  Its steps are the points  *)
(* where it reads without a lock, waits for a row lock, or commits.  The   *)
(* ORM writes an attribute only if it differs from the value the request   *)
(* loaded, which is what Assigned says.  A revision's terms are one number *)
(* kept twice, as in the tables: the total rolled up on the revision and   *)
(* the lines it was rolled up from.                                        *)
(***************************************************************************)
EXTENDS Integers, FiniteSets, FiniteSetsExt

CONSTANTS
    Quotes,       \* the quotations there may be
    Quoters,      \* concurrent requests (bound)
    Terms,        \* the terms a revision may be saved with (bound)
    NoTerms,      \* a save without priced lines leaves the terms alone
    Keys,         \* idempotency keys of conversions
    NoKey,        \* the key of a conversion sent without one
    MaxRevisions, \* revisions of one quotation (bound)
    MaxBookings,  \* service order numbers available (bound)
    MaxQuoting,   \* requests that ever start (bound)
    Asked,        \* header statuses a save may ask for (bound)
    Nobody        \* the holder of a lock nobody holds

ASSUME QuotationsAssumption ==
    /\ NoTerms \notin Terms
    /\ MaxRevisions \in Nat \ {0}
    /\ MaxBookings \in Nat
    /\ MaxQuoting \in Nat
    /\ Asked \subseteq {"DRAFT", "SUBMITTED", "CANCELLED"}
    /\ Nobody \notin Quoters
    /\ NoKey \notin Keys

VARIABLES
    quotations,   \* rows of quotations: header status and current revision
    revisions,    \* rows of quotation_revisions, by quotation and number
    conversions,  \* rows of quotation_conversions
    bookings,     \* the service orders made from a quotation
    lastBooking,  \* last_value of the SERVICE_ORDER sequence
    bookingLock,  \* the request holding that sequence row
    headerLock,   \* the request holding each quotation's row lock
    quoting,      \* where each request is
    draft,        \* what each request has read and been asked
    started,      \* how many requests have started
    answers,      \* history: the orders that conversions were answered with
    stale         \* history: revisions written over a version that was not
                  \* read, and the clones of such revisions

quotationRows == <<quotations, revisions, conversions, bookings, lastBooking>>
quotationLocks == <<bookingLock, headerLock>>
quotationHistory == <<started, answers, stale>>
quotationVars == <<quotationRows, quotationLocks, quotationHistory, quoting, draft>>

RevisionStatus == {"ABSENT", "DRAFT", "SUBMITTED", "SENT", "ACCEPTED",
                   "REJECTED", "CANCELLED", "SUPERSEDED", "CONVERTED"}
RevisionNos == 1 .. MaxRevisions
Numbers == Quotes \X RevisionNos
NoNumber == <<Nobody, 0>>
Header == [status : RevisionStatus \cup {"ERASED"}, current : 0 .. MaxRevisions,
           source : 0 .. MaxBookings]
Revision == [status : RevisionStatus, total : Terms \cup {NoTerms}, lines : Terms \cup {NoTerms}]
Booking == [status : {"ABSENT", "ACTIVE", "ERASED"}, of : Numbers \cup {NoNumber},
            total : Terms \cup {NoTerms}, lines : Terms \cup {NoTerms}]
Conversion == [of : Numbers, order : 1 .. MaxBookings, key : Keys \cup {NoKey}]
NoRevision == [status |-> "ABSENT", total |-> NoTerms, lines |-> NoTerms]
NoBooking == [status |-> "ABSENT", of |-> NoNumber, total |-> NoTerms, lines |-> NoTerms]
(* header and row: what was loaded; next: the status, terms and header     *)
(* status to be written (NoTerms, "KEEP": unchanged).                      *)
Draft == [of : Numbers \cup {NoNumber}, header : Header, row : Revision, to : RevisionStatus \cup {"KEEP"},
          terms : Terms \cup {NoTerms}, no : Nat, key : Keys \cup {NoKey}]
NoHeader == [status |-> "ABSENT", current |-> 0, source |-> 0]
NoDraft == [of |-> NoNumber, header |-> NoHeader, row |-> NoRevision, to |-> "KEEP",
            terms |-> NoTerms, no |-> 0, key |-> NoKey]
QuotingSteps == {"idle", "save_write", "clone_number", "clone_commit", "revise_number",
                 "revise_commit", "transition_write", "convert_prior", "convert_number",
                 "convert_commit", "delete_write", "requote_link"}

-----------------------------------------------------------------------------
Assigned(committed, loaded, new) == IF new = loaded THEN committed ELSE new
Immutable == RevisionStatus \ {"ABSENT", "DRAFT"}
(* Mutants: a submitted, or a converted, revision may be overwritten.      *)
ClosedUnlessSubmitted == Immutable \ {"SUBMITTED"}
ClosedUnlessConverted == Immutable \ {"CONVERTED"}
Closed == Immutable
LiveOffer == {"DRAFT", "SENT", "ACCEPTED", "SUBMITTED"}

RevisionsOf(q) == {n \in RevisionNos : revisions[<<q, n>>].status # "ABSENT"}
Quoted(q) == quotations[q].status \notin {"ABSENT", "ERASED"}
LatestOf(q) == Max(RevisionsOf(q))
ConversionsOf(q) == {c \in conversions : c.of[1] = q}
Living(b) == bookings[b].status = "ACTIVE"

StartQuote == started < MaxQuoting /\ started' = started + 1
BeginQuote(r) == quoting[r] = "idle" /\ StartQuote
QuoteTo(r, step) == quoting' = [quoting EXCEPT ![r] = step]
EndQuote(r) ==
    /\ quoting' = [quoting EXCEPT ![r] = "idle"]
    /\ draft' = [draft EXCEPT ![r] = NoDraft]
    /\ bookingLock' = IF bookingLock = r THEN Nobody ELSE bookingLock
    /\ headerLock' = [q \in Quotes |-> IF headerLock[q] = r THEN Nobody ELSE headerLock[q]]
HeaderFree(r, q) == headerLock[q] \in {r, Nobody}

(* The write of row over revision n by request r, which loaded draft[r].   *)
WriteRevision(r, n, row) ==
    /\ revisions' = [revisions EXCEPT ![n] = row]
    /\ stale' = IF revisions[n] = draft[r].row THEN stale ELSE stale \cup {n}

-----------------------------------------------------------------------------
(* save_quotation without an id, and the first half of a re-quotation: the *)
(* header and revision 1 are committed together.                           *)
CreateQuotation(q, terms, asked) ==
    /\ quotations[q].status = "ABSENT"
    /\ quotations' = [quotations EXCEPT ![q] =
           [status |-> IF asked = "KEEP" THEN "DRAFT" ELSE asked, current |-> 1, source |-> 0]]
    /\ revisions' = [revisions EXCEPT ![<<q, 1>>] =
           [status |-> "DRAFT", total |-> terms, lines |-> terms]]
    /\ UNCHANGED <<conversions, bookings, lastBooking, quotationLocks,
                   quotationHistory, quoting, draft>>

(* save_quotation with an id: the header and the latest revision are read  *)
(* without a lock; a revision past DRAFT sends the save to a clone.        *)
SaveQuotation(r, q, terms, asked) ==
    LET n == <<q, LatestOf(q)>> IN
    /\ BeginQuote(r) /\ Quoted(q)
    /\ draft' = [draft EXCEPT ![r] =
           [NoDraft EXCEPT !.of = n, !.header = quotations[q], !.row = revisions[n],
                           !.to = asked, !.terms = terms]]
    /\ QuoteTo(r, IF revisions[n].status \in Closed THEN "clone_number" ELSE "save_write")
    /\ UNCHANGED <<quotationRows, quotationLocks, answers, stale>>

(* Mutant: the header names the revision after the one inserted.           *)
SavedHeaderAhead(r, q, status, current) ==
    LET loaded == draft[r].header IN
    quotations' = [quotations EXCEPT
        ![q].status = Assigned(@, loaded.status, status),
        ![q].current = Assigned(@, loaded.current, current + 1)]
SavedHeader(r, q, status, current) ==
    LET asked == IF draft[r].to = "KEEP" THEN status ELSE draft[r].to
        loaded == draft[r].header IN
    quotations' = [quotations EXCEPT
        ![q].status = Assigned(@, loaded.status, asked),
        ![q].current = Assigned(@, loaded.current, current)]
(* The terms of a row over which a save that loaded row writes.            *)
SavedTerms(r, row) ==
    IF draft[r].terms = NoTerms THEN row
    ELSE [row EXCEPT !.total = Assigned(@, draft[r].row.total, draft[r].terms),
                     !.lines = draft[r].terms]

(* The draft is overwritten in place.                                      *)
SaveInPlace(r) ==
    LET n == draft[r].of IN
    /\ quoting[r] = "save_write" /\ HeaderFree(r, n[1])
    /\ revisions[n].status # "ABSENT"
    /\ WriteRevision(r, n, SavedTerms(r, revisions[n]))
    /\ SavedHeader(r, n[1], draft[r].header.status, draft[r].header.current)
    /\ EndQuote(r)
    /\ UNCHANGED <<conversions, bookings, lastBooking, started, answers>>

(* create_revision reads the header and the latest revision ...            *)
ReviseQuotation(r, q) ==
    LET n == <<q, LatestOf(q)>> IN
    /\ BeginQuote(r) /\ Quoted(q)
    /\ draft' = [draft EXCEPT ![r] =
           [NoDraft EXCEPT !.of = n, !.header = quotations[q], !.row = revisions[n]]]
    /\ QuoteTo(r, "revise_number")
    /\ UNCHANGED <<quotationRows, quotationLocks, answers, stale>>

CloneNumber(r, q) == draft' = [draft EXCEPT ![r].no = LatestOf(q) + 1]
(* Mutant: the highest number read without the header's row lock.          *)
CloneNumberUnlocked(r, q) ==
    /\ quoting[r] \in {"clone_number", "revise_number"} /\ draft[r].of[1] = q
    /\ Quoted(q) /\ LatestOf(q) < MaxRevisions
    /\ CloneNumber(r, q)
    /\ QuoteTo(r, IF quoting[r] = "clone_number" THEN "clone_commit" ELSE "revise_commit")
    /\ UNCHANGED <<quotationRows, quotationLocks, quotationHistory>>
(* _clone_revision: the header is locked, then the highest number is read. *)
LockHeader(r, q) ==
    /\ quoting[r] \in {"clone_number", "revise_number"} /\ draft[r].of[1] = q
    /\ headerLock[q] = Nobody
    /\ Quoted(q) /\ LatestOf(q) < MaxRevisions
    /\ headerLock' = [headerLock EXCEPT ![q] = r]
    /\ CloneNumber(r, q)
    /\ QuoteTo(r, IF quoting[r] = "clone_number" THEN "clone_commit" ELSE "revise_commit")
    /\ UNCHANGED <<quotationRows, bookingLock, quotationHistory>>

(* The clone has the total of the revision as loaded and the lines of the  *)
(* revision as committed now.                                              *)
CloneOf(r) == [status |-> "DRAFT", total |-> draft[r].row.total,
               lines |-> revisions[draft[r].of].lines]
InsertRevision(r, row) ==
    LET n == <<draft[r].of[1], draft[r].no>> IN
    /\ HeaderFree(r, n[1])
    /\ revisions[n].status = "ABSENT"
    /\ revisions' = [revisions EXCEPT ![n] = row]
    /\ stale' = IF revisions[draft[r].of] = draft[r].row /\ draft[r].of \notin stale
                THEN stale ELSE stale \cup {n}
    /\ EndQuote(r)
    /\ UNCHANGED <<conversions, bookings, lastBooking, started, answers>>

(* save_quotation: the clone is filled with what was saved ...             *)
CloneAndSave(r) ==
    LET asked == draft[r].terms  clone == CloneOf(r) IN
    /\ quoting[r] = "clone_commit"
    /\ InsertRevision(r, IF asked = NoTerms THEN clone
                         ELSE [clone EXCEPT !.total = asked, !.lines = asked])
    /\ SavedHeader(r, draft[r].of[1], "DRAFT", draft[r].no)

(* ... and create_revision leaves it as cloned.                            *)
CloneAsRevision(r) ==
    /\ quoting[r] = "revise_commit"
    /\ InsertRevision(r, CloneOf(r))
    /\ SavedHeader(r, draft[r].of[1],
           IF draft[r].row.status = "DRAFT" THEN draft[r].header.status ELSE "DRAFT",
           draft[r].no)

-----------------------------------------------------------------------------
(* From which statuses each transition leaves; the one it leads to replays.*)
Leaves(to) ==
    CASE to = "SENT" -> {"DRAFT"}
      [] to = "SUBMITTED" -> {"DRAFT"}
      [] to = "ACCEPTED" -> {"SENT"}
      [] to \in {"REJECTED", "CANCELLED"} -> {"SUBMITTED", "SENT", "DRAFT"}
Replays(to) == IF to = "SUBMITTED" THEN {"SUBMITTED", "SENT"} ELSE {to}
Transitions == {"SENT", "SUBMITTED", "ACCEPTED", "REJECTED", "CANCELLED"}

(* send_, submit_, accept_, reject_ and cancel_revision read the revision  *)
(* and its header without a lock ...                                       *)
ReadForTransition(r, n, to) ==
    /\ BeginQuote(r) /\ Quoted(n[1])
    /\ revisions[n].status \in Leaves(to) \ Replays(to)
    /\ draft' = [draft EXCEPT ![r] =
           [NoDraft EXCEPT !.of = n, !.header = quotations[n[1]], !.row = revisions[n], !.to = to]]
    /\ QuoteTo(r, "transition_write")
    /\ UNCHANGED <<quotationRows, quotationLocks, answers, stale>>

(* ... and write them.  An acceptance supersedes the other offers; a       *)
(* rejection or a withdrawal reaches the header only if the revision is    *)
(* the current one and no other is live.                                   *)
OtherLive(n) == \E m \in RevisionsOf(n[1]) \ {n[2]} :
                    revisions[<<n[1], m>>].status \in LiveOffer
WriteTransition(r) ==
    LET n == draft[r].of  q == n[1]  to == draft[r].to
        silent == to \in {"REJECTED", "CANCELLED"} /\
                  (draft[r].header.current # n[2] \/ OtherLive(n))
        header == IF silent THEN draft[r].header.status ELSE to
        superseded == IF to # "ACCEPTED" THEN {}
                      ELSE {<<q, m>> : m \in {k \in RevisionsOf(q) \ {n[2]} :
                               revisions[<<q, k>>].status \in {"SENT", "ACCEPTED", "SUBMITTED"}}}
    IN
    /\ quoting[r] = "transition_write" /\ HeaderFree(r, q)
    /\ revisions[n].status # "ABSENT"
    /\ revisions' = [m \in Numbers |->
           IF m = n THEN [revisions[n] EXCEPT !.status = to]
           ELSE IF m \in superseded THEN [revisions[m] EXCEPT !.status = "SUPERSEDED"]
           ELSE revisions[m]]
    /\ stale' = IF revisions[n] = draft[r].row THEN stale ELSE stale \cup {n}
    /\ quotations' = [quotations EXCEPT ![q].status =
           Assigned(@, draft[r].header.status, header)]
    /\ EndQuote(r)
    /\ UNCHANGED <<conversions, bookings, lastBooking, started, answers>>

-----------------------------------------------------------------------------
Answer(key, order) ==
    answers' = answers \cup {[key |-> k, order |-> order] : k \in {key} \ {NoKey}}

(* convert_revision: a key that was used is answered with its order ...    *)
ReplayConversion(r, key) ==
    /\ BeginQuote(r)
    /\ \E c \in conversions : c.key = key /\ Answer(key, c.order)
    /\ UNCHANGED <<quotationRows, quotationLocks, stale, quoting, draft>>

(* ... otherwise the revision and its header are read ...                  *)
Convertible == {"SUBMITTED", "SENT", "ACCEPTED"}
ReadForConversion(r, n, key) ==
    /\ BeginQuote(r) /\ Quoted(n[1])
    /\ \A c \in conversions : c.key \notin {key} \ {NoKey}
    /\ revisions[n].status \in Convertible
    /\ draft' = [draft EXCEPT ![r] =
           [NoDraft EXCEPT !.of = n, !.header = quotations[n[1]], !.row = revisions[n],
                           !.to = "CONVERTED", !.key = key]]
    /\ QuoteTo(r, "convert_prior")
    /\ UNCHANGED <<quotationRows, quotationLocks, answers, stale>>

(* ... then the quotation's earlier conversions, still without a lock.     *)
CheckPriorConversion(r) ==
    /\ quoting[r] = "convert_prior"
    /\ ConversionsOf(draft[r].of[1]) = {}
    /\ QuoteTo(r, "convert_number")
    /\ UNCHANGED <<quotationRows, quotationLocks, quotationHistory, draft>>

(* create_service_order_from_quotation: the number's sequence row is held  *)
(* to the commit.                                                          *)
AllocateBooking(r) ==
    /\ quoting[r] = "convert_number"
    /\ bookingLock = Nobody /\ lastBooking < MaxBookings
    /\ bookingLock' = r
    /\ draft' = [draft EXCEPT ![r].no = lastBooking + 1]
    /\ QuoteTo(r, "convert_commit")
    /\ UNCHANGED <<quotationRows, headerLock, quotationHistory>>

(* The order takes the totals as loaded and the lines as committed now.    *)
BookingOf(r) == [status |-> "ACTIVE", of |-> draft[r].of, total |-> draft[r].row.total,
                 lines |-> revisions[draft[r].of].lines]
(* Mutant: what was read before is relied on for the revision and the key. *)
ConflictsByOrder(r) == \E c \in conversions : c.order = draft[r].no
(* The unique constraints of quotation_conversions.                        *)
ConversionConflicts(r) == \E c \in conversions :
    c.of = draft[r].of \/ c.order = draft[r].no \/ c.key \in {draft[r].key} \ {NoKey}

CommitConversion(r) ==
    LET n == draft[r].of IN
    /\ quoting[r] = "convert_commit" /\ HeaderFree(r, n[1])
    /\ revisions[n].status # "ABSENT"
    /\ ~ConversionConflicts(r)
    /\ conversions' = conversions \cup
           {[of |-> n, order |-> draft[r].no, key |-> draft[r].key]}
    /\ bookings' = [bookings EXCEPT ![draft[r].no] = BookingOf(r)]
    /\ lastBooking' = draft[r].no
    /\ WriteRevision(r, n, [revisions[n] EXCEPT !.status = "CONVERTED"])
    /\ quotations' = [quotations EXCEPT ![n[1]].status =
           Assigned(@, draft[r].header.status, "CONVERTED")]
    /\ Answer(draft[r].key, draft[r].no)
    /\ EndQuote(r)
    /\ UNCHANGED started

(* Another request won a constraint: everything is rolled back, and the    *)
(* request is answered with the winner's order if it has the winner's key. *)
LoseConversion(r) ==
    /\ quoting[r] = "convert_commit"
    /\ ConversionConflicts(r)
    /\ answers' = answers \cup {[key |-> c.key, order |-> c.order] :
           c \in {d \in conversions : d.key \in {draft[r].key} \ {NoKey}}}
    /\ EndQuote(r)
    /\ UNCHANGED <<quotationRows, started, stale>>

-----------------------------------------------------------------------------
(* delete_quotations: a conversion to a living order forbids it.           *)
ReadForDeletion(r, q) ==
    /\ BeginQuote(r) /\ Quoted(q)
    /\ \A c \in ConversionsOf(q) : ~Living(c.order)
    /\ draft' = [draft EXCEPT ![r] = [NoDraft EXCEPT !.of = <<q, 1>>]]
    /\ QuoteTo(r, "delete_write")
    /\ UNCHANGED <<quotationRows, quotationLocks, answers, stale>>

(* Conversions whose order is gone go first; a conversion that remains, or *)
(* an order made from a revision, stops the cascade (foreign keys).        *)
DeleteQuotation(r) ==
    LET q == draft[r].of[1]
        kept == conversions \ {c \in ConversionsOf(q) : ~Living(c.order)} IN
    /\ quoting[r] = "delete_write" /\ HeaderFree(r, q)
    /\ Quoted(q)
    /\ \A c \in kept : c.of[1] # q
    /\ \A b \in 1 .. MaxBookings : Living(b) => bookings[b].of[1] # q
    /\ conversions' = kept
    /\ quotations' = [quotations EXCEPT ![q] = [NoHeader EXCEPT !.status = "ERASED"]]
    /\ revisions' = [n \in Numbers |-> IF n[1] = q THEN NoRevision ELSE revisions[n]]
    /\ EndQuote(r)
    /\ UNCHANGED <<bookings, lastBooking, quotationHistory>>

(* delete_service_orders, seen from here: the conversion keeps the number. *)
EraseBooking(b) ==
    /\ Living(b)
    /\ bookings' = [bookings EXCEPT ![b].status = "ERASED"]
    /\ UNCHANGED <<quotations, revisions, conversions, lastBooking, quotationLocks,
                   quotationHistory, quoting, draft>>

(* create_quotation_from_service_order: save_quotation commits the copy of *)
(* the order ...                                                           *)
Requote(r, b, q) ==
    /\ BeginQuote(r) /\ Living(b)
    /\ quotations[q].status = "ABSENT"
    /\ quotations' = [quotations EXCEPT ![q] = [status |-> "DRAFT", current |-> 1, source |-> 0]]
    /\ revisions' = [revisions EXCEPT ![<<q, 1>>] =
           [status |-> "DRAFT", total |-> bookings[b].lines, lines |-> bookings[b].lines]]
    /\ draft' = [draft EXCEPT ![r] = [NoDraft EXCEPT !.of = <<q, 1>>, !.no = b]]
    /\ QuoteTo(r, "requote_link")
    /\ UNCHANGED <<conversions, bookings, lastBooking, quotationLocks, answers, stale>>

(* ... and a second commit records where it came from.                     *)
LinkRequote(r) ==
    LET q == draft[r].of[1] IN
    /\ quoting[r] = "requote_link" /\ HeaderFree(r, q)
    /\ Quoted(q) /\ Living(draft[r].no)
    /\ quotations' = [quotations EXCEPT ![q].source = draft[r].no]
    /\ EndQuote(r)
    /\ UNCHANGED <<revisions, conversions, bookings, lastBooking, quotationHistory>>

(* The request is refused, finds its rows gone, or its process dies: what  *)
(* it had not committed is rolled back.                                    *)
AbandonQuote(r) ==
    /\ quoting[r] # "idle"
    /\ EndQuote(r)
    /\ UNCHANGED <<quotationRows, quotationHistory>>

-----------------------------------------------------------------------------
QuotationsInit ==
    /\ quotations = [q \in Quotes |-> NoHeader]
    /\ revisions = [n \in Numbers |-> NoRevision]
    /\ conversions = {}
    /\ bookings = [b \in 1 .. MaxBookings |-> NoBooking]
    /\ lastBooking = 0
    /\ bookingLock = Nobody
    /\ headerLock = [q \in Quotes |-> Nobody]
    /\ quoting = [r \in Quoters |-> "idle"]
    /\ draft = [r \in Quoters |-> NoDraft]
    /\ started = 0
    /\ answers = {}
    /\ stale = {}

Converting(r) ==
    \/ \E key \in Keys : ReplayConversion(r, key)
    \/ \E n \in Numbers, key \in Keys \cup {NoKey} : ReadForConversion(r, n, key)
    \/ CheckPriorConversion(r)
    \/ AllocateBooking(r)
    \/ CommitConversion(r)
    \/ LoseConversion(r)
Editing(r) ==
    \/ \E q \in Quotes, terms \in Terms \cup {NoTerms}, asked \in Asked \cup {"KEEP"} :
           SaveQuotation(r, q, terms, asked)
    \/ SaveInPlace(r)
    \/ \E q \in Quotes : ReviseQuotation(r, q) \/ LockHeader(r, q)
    \/ CloneAndSave(r)
    \/ CloneAsRevision(r)
    \/ \E n \in Numbers, to \in Transitions : ReadForTransition(r, n, to)
    \/ WriteTransition(r)
Removing(r) ==
    \/ \E q \in Quotes : ReadForDeletion(r, q)
    \/ DeleteQuotation(r)
    \/ \E b \in 1 .. MaxBookings, q \in Quotes : Requote(r, b, q)
    \/ LinkRequote(r)
QuotationsNext ==
    \/ \E q \in Quotes, terms \in Terms, asked \in Asked \cup {"KEEP"} : CreateQuotation(q, terms, asked)
    \/ \E b \in 1 .. MaxBookings : EraseBooking(b)
    \/ \E r \in Quoters : Converting(r) \/ Editing(r) \/ Removing(r) \/ AbandonQuote(r)

QuotationsSpec == QuotationsInit /\ [][QuotationsNext]_quotationVars

-----------------------------------------------------------------------------
(* Every variable holds what its table or its process may hold, and the    *)
(* current revision of a quotation is one of its rows.                     *)
QuotationsTypeOK ==
    /\ quotations \in [Quotes -> Header]
    /\ \A q \in Quotes : Quoted(q) => quotations[q].current \in RevisionsOf(q)
    /\ revisions \in [Numbers -> Revision]
    /\ conversions \subseteq Conversion
    /\ bookings \in [1 .. MaxBookings -> Booking]
    /\ lastBooking \in 0 .. MaxBookings
    /\ bookingLock \in Quoters \cup {Nobody}
    /\ headerLock \in [Quotes -> Quoters \cup {Nobody}]
    /\ quoting \in [Quoters -> QuotingSteps]
    /\ draft \in [Quoters -> Draft]
    /\ started \in 0 .. MaxQuoting
    /\ answers \subseteq [key : Keys, order : 1 .. MaxBookings]
    /\ stale \subseteq Numbers

(* A service order stands for the offer the customer saw: its total, its   *)
(* lines, and the terms of the revision it was converted from are the same *)
(* and the revision is closed - unless some request wrote that revision,   *)
(* or the one it was cloned from, over a version it had not read, which no *)
(* lock prevents (save_quotation, convert_revision).                       *)
BookingCarriesItsOffer == \A b \in 1 .. MaxBookings :
    LET n == bookings[b].of IN
    Living(b) /\ n \notin stale =>
        /\ revisions[n].status \in Immutable
        /\ revisions[n].total = revisions[n].lines
        /\ bookings[b].total = revisions[n].total
        /\ bookings[b].lines = revisions[n].lines

(* The terms of a revision that left DRAFT are frozen for as long as it    *)
(* exists, whatever saves, clones, decisions and conversions overlap, but  *)
(* for the same late writes (IMMUTABLE_STATUSES; reject_revision: "its     *)
(* terms stay frozen").                                                    *)
SentOffersFrozen == [][\A n \in Numbers :
    revisions[n].status \in Immutable /\ n \notin stale' =>
        \/ revisions'[n].status \in Immutable /\ revisions'[n].total = revisions[n].total
           /\ revisions'[n].lines = revisions[n].lines
        \/ quotations'[n[1]].status = "ERASED"]_quotationVars

(* The header's row lock serialises the numbering of revisions: when a     *)
(* clone is inserted its number is still free (_clone_revision: "two       *)
(* concurrent create revision requests would otherwise race").             *)
CloneNumberFree == \A r \in Quoters :
    quoting[r] \in {"clone_commit", "revise_commit"} /\ Quoted(draft[r].of[1]) =>
        revisions[<<draft[r].of[1], draft[r].no>>].status = "ABSENT"

(* However often a conversion is retried under its key, and whoever wins,  *)
(* it is answered with one order as long as that order lives               *)
(* (convert_revision, idempotency_key).                                    *)
RetriesGetOneOrder == \A a, b \in answers :
    a.key = b.key /\ Living(a.order) /\ Living(b.order) => a.order = b.order

(* What was offered stands: a service order is the offer that the customer *)
(* saw, and an offer that was sent is not changed.                         *)
OffersStand == []BookingCarriesItsOffer /\ SentOffersFrozen
=============================================================================
