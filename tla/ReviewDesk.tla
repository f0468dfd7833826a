----------------------------- MODULE ReviewDesk -----------------------------
(***************************************************************************)
(* The review of trajectories: the page with its form, its cached answers  *)
(* and its pending calls, in several browser tabs, and the reviews that    *)
(* the proxy stores, reads back and exports.                               *)
(* Modelled from dashboard/src/pages/ReviewPage.tsx,                       *)
(* dashboard/src/api/hooks.ts, crates/agentland-store/src/reviews.rs and   *)
(* crates/agentland-proxy/src/api/handlers/reviews.rs.                     *)
(*                                                                         *)
(* An event is told apart only by its session, so the failure event of a   *)
(* form or of a review is a session or None. React runs an effect after    *)
(* the render that changes its dependencies, before the next event; the    *)
(* query library caches an answer by session and fetches it again when it  *)
(* is invalidated or selected (both external).                             *)
(*                                                                         *)
(* The names of the specification carry the word desk, so that a module    *)
(* can extend this one beside Management, the rest of the API.             *)
(***************************************************************************)
EXTENDS Integers, Sequences, SequencesExt, FiniteSetsExt, Functions

CONSTANTS
    Sessions,     \* the sessions that have events
    Tabs,         \* the browser tabs that show the page
    ExportLimit,  \* how many reviews an export returns at most
    Words,        \* what a caller or the assistant may give for a label
    MaxSaves,     \* bound of the model: how many reviews are saved
    MaxMoves      \* bound of the model: how many clicks and edits are made

None == "none"
Unloaded == -1
NoReview == 0
Labels == {"good", "bad", "needs_review"}

ASSUME DeskAssumption ==
    /\ None \notin Sessions
    /\ ExportLimit \in Nat \ {0}
    /\ MaxSaves \in Nat
    /\ MaxMoves \in Nat

VARIABLES
    saved,      \* trajectory_reviews in the order of updated_at
    recent,     \* the sessions by their latest event, as the list query orders them
    list,       \* the list a tab has loaded
    selected,   \* the session a reviewer has clicked, if any
    cache,      \* the detail a tab has loaded: Unloaded, NoReview or a review
    form,       \* overallLabel and failureEventId
    ran,        \* the dependencies the effect ran with last
    saving,     \* the review that is being posted, a sequence of at most one
    asking,     \* the session the assistant is asked about
    moves,      \* how many clicks and edits were made
    stale,      \* history: the form was not filled for the session that is shown
    dirty       \* history: the reviewer has changed the form since it was filled

deskVars == <<saved, recent, list, selected, cache, form, ran, saving, asking, moves, stale, dirty>>

-----------------------------------------------------------------------------
Forms == [label : Labels, event : Sessions \cup {None}]

\* stale and elsewhere are history: the form was not filled for the session, and
\* the review was not saved from a page.
Reviews == [session : Sessions, label : Labels, event : Sessions \cup {None},
            stale : BOOLEAN, elsewhere : BOOLEAN]

DeskTypeOK ==
    /\ saved \in Seq(Reviews) /\ Len(saved) =< MaxSaves
    /\ recent \in Seq(Sessions) /\ IsInjective(recent)
    /\ list \in [Tabs -> Seq(Sessions)]
    /\ selected \in [Tabs -> Sessions \cup {None}]
    /\ cache \in [Tabs -> [Sessions -> Unloaded .. Len(saved)]]
    /\ form \in [Tabs -> Forms]
    /\ ran \in [Tabs -> (NoReview .. Len(saved)) \X (Sessions \cup {None})]
    /\ saving \in [Tabs -> Seq(Reviews)] /\ \A t \in Tabs : Len(saving[t]) =< 1
    /\ asking \in [Tabs -> Sessions \cup {None}]
    /\ moves \in 0 .. MaxMoves
    /\ stale \in [Tabs -> BOOLEAN]
    /\ dirty \in [Tabs -> BOOLEAN]

DeskInit ==
    /\ saved = <<>>
    /\ recent = <<>>
    /\ list = [t \in Tabs |-> <<>>]
    /\ selected = [t \in Tabs |-> None]
    /\ cache = [t \in Tabs |-> [s \in Sessions |-> Unloaded]]
    /\ form = [t \in Tabs |-> [label |-> "needs_review", event |-> None]]
    /\ ran = [t \in Tabs |-> <<NoReview, None>>]
    /\ saving = [t \in Tabs |-> <<>>]
    /\ asking = [t \in Tabs |-> None]
    /\ moves = 0
    /\ stale = [t \in Tabs |-> FALSE]
    /\ dirty = [t \in Tabs |-> FALSE]

-----------------------------------------------------------------------------
(* The queries                                                             *)

ReviewsOf(s) == {i \in DOMAIN saved : saved[i].session = s}

\* ORDER BY updated_at DESC LIMIT 1, NoReview when there is none.
GetReview(s) == IF ReviewsOf(s) = {} THEN NoReview ELSE Max(ReviewsOf(s))

\* Faulty variant: the join takes the first review.
ListLabelOldest(s) == IF ReviewsOf(s) = {} THEN None ELSE saved[Min(ReviewsOf(s))].label

\* The lateral join of the list takes the label of the latest review.
ListLabel(s) == IF ReviewsOf(s) = {} THEN None ELSE saved[GetReview(s)].label

\* ORDER BY updated_at DESC
NewestFirst(S) ==
    CHOOSE f \in [1 .. Cardinality(S) -> S] : \A i, j \in DOMAIN f : i < j => f[i] > f[j]

\* list_reviewed_sessions: a row per review of a session with events.
ListReviewedSessions(limit) ==
    LET rows == NewestFirst({i \in DOMAIN saved : saved[i].session \in Range(recent)})
    IN [k \in {i \in DOMAIN rows : i =< limit} |-> saved[rows[k]]]

\* export_reviews: the global_key of a line is the session, so that several
\* lines may have the same.
Export ==
    LET rows == ListReviewedSessions(ExportLimit)
    IN [i \in DOMAIN rows |-> [key |-> rows[i].session, label |-> rows[i].label,
                               event |-> rows[i].event]]

ValidateLabel(word) == word \in Labels

\* normalize_label; an answer that is no JSON has the label needs_review.
NormalizeLabel(word) == IF word \in Labels THEN word ELSE "needs_review"

-----------------------------------------------------------------------------
(* The page                                                                *)

\* selectedSession || sessions[0]
ActiveOf(sel, sessions) ==
    IF sel # None THEN sel ELSE IF sessions = <<>> THEN None ELSE sessions[1]

Active(t) == ActiveOf(selected[t], list[t])

Detail(loaded, s) == IF s = None THEN Unloaded ELSE loaded[s]

\* Faulty variant: the effect depends on the answer, not on the id in it.
RenderAlways(t, s, loaded, f, old, edited) ==
    LET review == Detail(loaded, s)
        deps   == <<IF review >= 1 THEN review ELSE NoReview, s>>
        fires  == review >= 1
    IN /\ ran' = [ran EXCEPT ![t] = deps]
       /\ form' = [form EXCEPT ![t] =
                     IF fires THEN [label |-> saved'[review].label, event |-> saved'[review].event]
                     ELSE f]
       /\ stale' = [stale EXCEPT ![t] = IF fires THEN saved'[review].stale ELSE old]
       /\ dirty' = [dirty EXCEPT ![t] = ~ fires /\ edited]

\* The effect copies the review into the form when the id of the review or
\* the active session has changed, and does nothing without a review. What it
\* finds in the form otherwise stays there.
Render(t, s, loaded, f, old, edited) ==
    LET review == Detail(loaded, s)
        deps   == <<IF review >= 1 THEN review ELSE NoReview, s>>
        fires  == deps # ran[t] /\ review >= 1
    IN /\ ran' = [ran EXCEPT ![t] = deps]
       /\ form' = [form EXCEPT ![t] =
                     IF fires THEN [label |-> saved'[review].label, event |-> saved'[review].event]
                     ELSE f]
       /\ stale' = [stale EXCEPT ![t] = IF fires THEN saved'[review].stale ELSE old]
       /\ dirty' = [dirty EXCEPT ![t] = ~ fires /\ edited]

\* An event is stored: its session comes first in the list query.
EventArrives(s) ==
    /\ recent' = Cons(s, RemoveFirst(recent, s))
    /\ UNCHANGED <<saved, list, selected, cache, form, ran, saving, asking, moves, stale, dirty>>

\* Every ten seconds, and after a save. Where nothing is selected the first
\* session is the active one, whatever the form was filled for.
RefetchList(t) ==
    LET s == ActiveOf(selected[t], recent) IN
    /\ list[t] # recent
    /\ list' = [list EXCEPT ![t] = recent]
    /\ UNCHANGED <<saved, recent, selected, cache, saving, asking, moves>>
    /\ Render(t, s, cache[t], form[t], stale[t] \/ Active(t) \notin {None, s}, dirty[t])

\* The detail of the active session is loaded, or loaded again: after a
\* save, a selection, or when the browser is back online.
LoadDetail(t) ==
    LET s == Active(t)
        loaded == [cache[t] EXCEPT ![s] = GetReview(s)]
    IN /\ s # None
       /\ cache' = [cache EXCEPT ![t] = loaded]
       /\ UNCHANGED <<saved, recent, list, selected, saving, asking, moves>>
       /\ Render(t, s, loaded, form[t], stale[t], dirty[t])

Moves == moves < MaxMoves /\ moves' = moves + 1

Select(t) ==
    \E s \in Range(list[t]) \ {selected[t]} :
       /\ Moves
       /\ selected' = [selected EXCEPT ![t] = s]
       /\ UNCHANGED <<saved, recent, list, cache, saving, asking>>
       /\ Render(t, s, cache[t], form[t], stale[t] \/ Active(t) \notin {None, s}, dirty[t])

\* The steps offered are those of the detail that is loaded.
MarkFailure(t) ==
    /\ Moves
    /\ Detail(cache[t], Active(t)) # Unloaded
    /\ form[t].label # "good"
    /\ form' = [form EXCEPT ![t].event = Active(t)]
    /\ stale' = [stale EXCEPT ![t] = FALSE]
    /\ dirty' = [dirty EXCEPT ![t] = TRUE]
    /\ UNCHANGED <<saved, recent, list, selected, cache, ran, saving, asking>>

SetLabel(t) ==
    /\ Moves
    /\ \E l \in Labels \ {form[t].label} : form' = [form EXCEPT ![t].label = l]
    /\ dirty' = [dirty EXCEPT ![t] = TRUE]
    /\ UNCHANGED <<saved, recent, list, selected, cache, ran, saving, asking, stale>>

\* The body is built when the button is clicked; a good label has no event.
Save(t) ==
    /\ Active(t) # None
    /\ saving[t] = <<>>
    /\ saving' = [saving EXCEPT ![t] =
                    << [session |-> Active(t), label |-> form[t].label,
                        event |-> IF form[t].label = "good" THEN None ELSE form[t].event,
                        stale |-> stale[t], elsewhere |-> FALSE] >>]
    /\ UNCHANGED <<saved, recent, list, selected, cache, form, ran, asking, moves, stale, dirty>>

\* Faulty variant: the session is the one shown when the call is made.
UpsertReviewOfShown(t) ==
    /\ saving[t] # <<>>
    /\ Len(saved) < MaxSaves
    /\ saved' = Append(saved, [saving[t][1] EXCEPT !.session = Active(t)])
    /\ saving' = [saving EXCEPT ![t] = <<>>]
    /\ UNCHANGED <<recent, list, selected, cache, form, ran, asking, moves, stale, dirty>>

\* Each save inserts a row, under a fresh id.
UpsertReview(t) ==
    /\ saving[t] # <<>>
    /\ Len(saved) < MaxSaves
    /\ saved' = saved \o saving[t]
    /\ saving' = [saving EXCEPT ![t] = <<>>]
    /\ UNCHANGED <<recent, list, selected, cache, form, ran, asking, moves, stale, dirty>>

\* Another client of the API saves a review: any event goes with any session,
\* known or not, and with any label that is one.
SaveElsewhere(s) ==
    /\ Len(saved) < MaxSaves
    /\ \E l \in Words, e \in Sessions \cup {None} :
          /\ ValidateLabel(l)
          /\ saved' = Append(saved, [session |-> s, label |-> l, event |-> e,
                                     stale |-> FALSE, elsewhere |-> TRUE])
    /\ UNCHANGED <<recent, list, selected, cache, form, ran, saving, asking, moves, stale, dirty>>

SaveError(t) ==
    /\ saving[t] # <<>>
    /\ saving' = [saving EXCEPT ![t] = <<>>]
    /\ UNCHANGED <<saved, recent, list, selected, cache, form, ran, asking, moves, stale, dirty>>

Assist(t) ==
    /\ Moves
    /\ Active(t) # None
    /\ asking[t] = None
    /\ asking' = [asking EXCEPT ![t] = Active(t)]
    /\ UNCHANGED <<saved, recent, list, selected, cache, form, ran, saving, stale, dirty>>

\* The answer goes into the form, whatever session it shows by now.
AssistAnswers(t) ==
    /\ asking[t] # None
    /\ \E word \in Words, e \in {None, asking[t]} :
          form' = [form EXCEPT ![t] = [label |-> NormalizeLabel(word), event |-> e]]
    /\ stale' = [stale EXCEPT ![t] = asking[t] # Active(t)]
    /\ dirty' = [dirty EXCEPT ![t] = FALSE]
    /\ asking' = [asking EXCEPT ![t] = None]
    /\ UNCHANGED <<saved, recent, list, selected, cache, ran, saving, moves>>

AssistFails(t) ==
    /\ asking[t] # None
    /\ asking' = [asking EXCEPT ![t] = None]
    /\ UNCHANGED <<saved, recent, list, selected, cache, form, ran, saving, moves, stale, dirty>>

-----------------------------------------------------------------------------
Reviewer(t) == Select(t) \/ MarkFailure(t) \/ SetLabel(t) \/ Save(t) \/ Assist(t)

Browser(t) ==
    \/ RefetchList(t) \/ LoadDetail(t)
    \/ UpsertReview(t) \/ SaveError(t) \/ AssistAnswers(t) \/ AssistFails(t)

DeskNext ==
    \/ \E s \in Sessions : EventArrives(s) \/ SaveElsewhere(s)
    \/ \E t \in Tabs : Reviewer(t) \/ Browser(t)

DeskSpec == DeskInit /\ [][DeskNext]_deskVars

-----------------------------------------------------------------------------
(* Properties                                                              *)

\* Another client has named the event for a review of the session.
NamedElsewhere(session, event) ==
    \E i \in DOMAIN saved :
        saved[i].elsewhere /\ saved[i].session = session /\ saved[i].event = event

(* A review marks an event of another session for one of two reasons. The  *)
(* form was not filled for the session that the page showed: it had moved  *)
(* on, by a click or because a new session came first in the list, to a    *)
(* session without a loaded review, or an answer of the assistant came     *)
(* after the move (ReviewPage.tsx:339, 356-362, 394-402). Or another       *)
(* client named this very event for this very session, in this review or   *)
(* in one that a page has loaded and saved again: the proxy does not check *)
(* the event it is given (reviews.rs:120-141).                             *)
StrayEventIsStale ==
    \A i \in DOMAIN saved :
        \/ saved[i].event \in {None, saved[i].session}
        \/ saved[i].stale
        \/ NamedElsewhere(saved[i].session, saved[i].event)

(* What the reviewer has changed in the form is thrown away only when the  *)
(* page shows another session, the assistant answers, or somebody saved a  *)
(* review of the session that the tab had not loaded, which may be the one *)
(* that the reviewer saved just before (ReviewPage.tsx:356-362).           *)
EditsLostOnlyToNews ==
    [][\A t \in Tabs :
         dirty[t] /\ ~ dirty'[t] =>
            \/ Active(t)' # Active(t)
            \/ asking[t] # None /\ asking'[t] = None
            \/ GetReview(Active(t)) > Detail(cache[t], Active(t))]_deskVars

(* The first exported line of a session carries the label that the list    *)
(* shows; a session with a review is missing only when as many reviews as  *)
(* the export takes are newer, be they of one session that was saved again *)
(* and again (reviews.rs:94-126, 171-177).                                 *)
ExportShowsList ==
    \A s \in Range(recent) :
        LET lines == {i \in DOMAIN Export : Export[i].key = s} IN
        IF lines = {}
        THEN GetReview(s) = NoReview \/ Len(saved) - GetReview(s) >= ExportLimit
        ELSE Export[Min(lines)].label = ListLabel(s)
=============================================================================
