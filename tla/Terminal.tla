------------------------------ MODULE Terminal ------------------------------
(***************************************************************************)
(* The interactive inbox of the command line client (apps/cli/src/tui).    *)
(*                                                                         *)
(* Keys, polls and answers of the server change the state of the app (ui)  *)
(* and the route (history).  What a callback reads is another copy: the    *)
(* state a screen was last rendered from (rendered), which the container   *)
(* keeps.  Rendering is a step of its own, since the terminal library      *)
(* decides when it happens.  Refreshes and detail loads are numbered and   *)
(* their answers come in any order; lists and deletions take effect at the *)
(* server some time before their answer arrives.                           *)
(***************************************************************************)
EXTENDS Integers, Sequences, SequencesExt, Functions

CONSTANTS
  Matching,     \* the ids the typed filter matches
  PageSize,     \* PAGE_SIZE
  None, All,
  MaxId, MaxRefreshes, MaxLoads, MaxDeletes   \* bounds of the model

ASSUME TerminalAssumption ==
  MaxId \in Nat /\ Matching \subseteq 1..MaxId /\ PageSize \in Nat

VARIABLES
  phase,       \* "starting" until the first refresh, "running", "over"
  mailbox,     \* the ids the server stores
  lastId,      \* the last one it gave
  ui,          \* TuiState: emails, selected, focus, filter, loading, error
  history,     \* the routes of the router, the current one last
  rendered,    \* the container: the state last rendered, and its screen
  typing,      \* whether a filter input has the focus
  lists,       \* the calls of refreshEmails(), by number
  loads,       \* the calls of loadEmailDetail(), by number
  deletes,     \* the calls that delete
  table        \* history: the refresh whose answer the table shows

vars == <<phase, mailbox, lastId, ui, history, rendered, typing, lists, loads,
          deletes, table>>

Route == Last(history)

\* A call goes from Pending to Done or Failed at the server, then is Settled.
Pending == "pending"
Done == "done"
Failed == "failed"
Settled == "settled"
Arriving == {Done, Failed}

\* listRequest and detailRequest.
ListRequest == Len(lists)
DetailRequest == Len(loads)
Opened == loads[DetailRequest].id

\* The newest mail comes first.
Listed(ids) == Reverse(SetToSortSeq(ids, <))

Smaller(a, b) == Min({a, b})
Larger(a, b) == Max({a, b})

\* calculateNextIndex(), from the index 0.
NextIndex(index, count, key) ==
  CASE key = "up" -> Larger(0, index - 1)
    [] key = "down" -> Smaller(count - 1, index + 1)
    [] key = "home" -> 0
    [] key = "end" -> count - 1
    [] key = "pageUp" -> Larger(0, index - PageSize)
    [] key = "pageDown" -> Smaller(count - 1, index + PageSize)
Keys == {"up", "down", "home", "end", "pageUp", "pageDown"}

\* setCurrentState(): what callbacks will read of the state.
View(route) ==
  [route |-> route, emails |-> ui.emails, selected |-> ui.selected,
   focus |-> ui.focus, filter |-> ui.filter]

FocusedEmail ==
  IF rendered.focus < Len(rendered.emails)
  THEN rendered.emails[rendered.focus + 1] ELSE None

-----------------------------------------------------------------------------
(***************************************************************************)
(* Refreshes                                                               *)
(***************************************************************************)
CanRefresh == ListRequest < MaxRefreshes

AskedFor(filter) == [is |-> Pending, filter |-> filter, emails |-> <<>>]
SettledList == [is |-> Settled, filter |-> {}, emails |-> <<>>]

\* refreshEmails() up to its await; the filter is the rendered one.
Refresh(state) ==
  /\ lists' = Append(lists, AskedFor(rendered.filter))
  /\ ui' = [state EXCEPT !.loading = TRUE, !.error = FALSE]

Poll ==
  /\ Route = "list" /\ CanRefresh
  /\ Refresh(ui)
  /\ UNCHANGED <<phase, mailbox, lastId, history, rendered, typing, loads, deletes, table>>

RefreshKey ==
  /\ phase = "running" /\ Route = "list" /\ CanRefresh
  /\ Refresh(ui)
  /\ UNCHANGED <<phase, mailbox, lastId, history, rendered, typing, loads, deletes, table>>

\* The server reads the list, or the call fails; the answer is under way.
AnswerList(r) ==
  /\ lists[r].is = Pending
  /\ \E result \in Arriving :
       lists' = [lists EXCEPT ![r].is = result, ![r].emails =
                   IF result = Done
                   THEN Listed(mailbox \intersect lists[r].filter) ELSE <<>>]
  /\ UNCHANGED <<phase, mailbox, lastId, ui, history, rendered, typing, loads,
                 deletes, table>>

\* The state after an answer to the newest refresh.
Shown(list) ==
  IF list.is = Failed
  THEN [ui EXCEPT !.loading = FALSE, !.error = TRUE]
  ELSE [ui EXCEPT !.loading = FALSE, !.emails = list.emails,
                  !.focus = Smaller(@, Larger(0, Len(list.emails) - 1))]

\* app.run() follows the first refresh, superseded or not.
Started(r) == phase' = IF phase = "starting" /\ r = 1 THEN "running" ELSE phase

Arrived(r) == lists[r].is \in Arriving

\* Mutant: a refresh that failed does not look whether it is the newest.
FailureIsShown(r) ==
  /\ Arrived(r)
  /\ ui' = IF r = ListRequest \/ lists[r].is = Failed THEN Shown(lists[r]) ELSE ui
  /\ table' = IF r = ListRequest /\ lists[r].is = Done THEN r ELSE table
  /\ lists' = [lists EXCEPT ![r] = SettledList]
  /\ Started(r)
  /\ UNCHANGED <<mailbox, lastId, history, rendered, typing, loads, deletes>>

ListArrives(r) ==
  /\ Arrived(r)
  /\ ui' = IF r = ListRequest THEN Shown(lists[r]) ELSE ui
  /\ table' = IF r = ListRequest /\ lists[r].is = Done THEN r ELSE table
  /\ lists' = [lists EXCEPT ![r] = SettledList]
  /\ Started(r)
  /\ UNCHANGED <<mailbox, lastId, history, rendered, typing, loads, deletes>>

-----------------------------------------------------------------------------
(***************************************************************************)
(* The detail screen                                                       *)
(***************************************************************************)
\* Mutant: the email shown before stays selected until the next one is loaded.
OpenOver(id) ==
  /\ phase = "running" /\ rendered.route = "list"
  /\ id \in Range(rendered.emails) /\ DetailRequest < MaxLoads
  /\ loads' = Append(loads, [id |-> id, open |-> TRUE, stored |-> id \in mailbox])
  /\ history' = Append(history, "detail")
  /\ UNCHANGED <<phase, mailbox, lastId, ui, rendered, typing, lists, deletes, table>>

\* A row is pressed, or Enter with the focused email: load, then navigate.
Open(id) ==
  /\ phase = "running" /\ rendered.route = "list"
  /\ id \in Range(rendered.emails) /\ DetailRequest < MaxLoads
  /\ loads' = Append(loads, [id |-> id, open |-> TRUE, stored |-> id \in mailbox])
  /\ ui' = [ui EXCEPT !.selected = None]
  /\ history' = Append(history, "detail")
  /\ UNCHANGED <<phase, mailbox, lastId, rendered, typing, lists, deletes, table>>

\* router.back() keeps the first route.
BackFrom(routes) == IF Len(routes) > 1 THEN Front(routes) ELSE routes

Escape ==
  /\ phase = "running" /\ Route = "detail"
  /\ history' = BackFrom(history)
  /\ UNCHANGED <<phase, mailbox, lastId, ui, rendered, typing, lists, loads, deletes, table>>

\* A load may fail; it must when the email was gone before it was asked for.
CanEnd(r, failed) == loads[r].open /\ (failed \/ loads[r].stored)
Ended(r) == [loads EXCEPT ![r].open = FALSE, ![r].stored = FALSE]

\* Mutant: an answer is shown without looking whether it is the newest.
AnyLoadEnds(r, failed) ==
  /\ CanEnd(r, failed)
  /\ ui' = IF failed THEN [ui EXCEPT !.error = TRUE]
                     ELSE [ui EXCEPT !.selected = loads[r].id]
  /\ loads' = Ended(r)
  /\ UNCHANGED <<phase, mailbox, lastId, history, rendered, typing, lists,
                 deletes, table>>

LoadEnds(r, failed) ==
  /\ CanEnd(r, failed)
  /\ LET current == r = DetailRequest
     IN  /\ ui' = IF ~current THEN ui
                  ELSE IF failed THEN [ui EXCEPT !.error = TRUE]
                  ELSE [ui EXCEPT !.selected = loads[r].id]
         /\ history' = IF current /\ failed /\ Route = "detail"
                       THEN BackFrom(history) ELSE history
  /\ loads' = Ended(r)
  /\ UNCHANGED <<phase, mailbox, lastId, rendered, typing, lists, deletes, table>>

-----------------------------------------------------------------------------
(***************************************************************************)
(* Deletions                                                               *)
(***************************************************************************)
\* handleDeleteKey(): the current route, but the state last rendered.
DeleteTarget(shift) ==
  CASE Route = "detail" -> rendered.selected
    [] Route = "list" /\ shift -> IF rendered.emails = <<>> THEN None ELSE All
    [] OTHER -> FocusedEmail

StartDelete(target, from) ==
  /\ target # None /\ Len(deletes) < MaxDeletes
  /\ deletes' = Append(deletes, [target |-> target, from |-> from, is |-> Pending])
  /\ UNCHANGED <<phase, mailbox, lastId, ui, history, rendered, typing, lists,
                 loads, table>>

\* The terminal may report one press as a key and as a text: both delete.
DeleteKey ==
  /\ phase = "running" /\ ~typing
  /\ \E shift \in BOOLEAN : StartDelete(DeleteTarget(shift), Route)

\* The buttons belong to the rendered screen.
DeleteButton ==
  /\ phase = "running" /\ rendered.emails # <<>> /\ rendered.route = "list"
  /\ \E target \in {All, FocusedEmail} : StartDelete(target, "list")

DetailDeleteButton ==
  /\ phase = "running" /\ rendered.route = "detail"
  /\ StartDelete(rendered.selected, "detail")

\* One email must exist to be deleted; either call may fail on its way.
AnswerDelete(d) ==
  /\ deletes[d].is = Pending
  /\ LET ids == IF deletes[d].target = All THEN mailbox ELSE {deletes[d].target}
     IN  \/ /\ ids \subseteq mailbox
            /\ mailbox' = mailbox \ ids
            /\ \E result \in Arriving : deletes' = [deletes EXCEPT ![d].is = result]
         \/ /\ deletes' = [deletes EXCEPT ![d].is = Failed]
            /\ UNCHANGED mailbox
  /\ UNCHANGED <<phase, lastId, ui, history, rendered, typing, lists, loads, table>>

\* The rest of the handler: back from a detail, then a refresh; or the error.
DeleteEnds(d) ==
  /\ deletes[d].is \in Arriving
  /\ deletes' = [deletes EXCEPT ![d].is = Settled]
  /\ IF deletes[d].is = Failed
     THEN /\ ui' = [ui EXCEPT !.error = TRUE]
          /\ UNCHANGED <<lists, history>>
     ELSE /\ CanRefresh /\ Refresh(ui)
          /\ history' = IF deletes[d].from = "detail"
                        THEN BackFrom(history) ELSE history
  /\ UNCHANGED <<phase, mailbox, lastId, rendered, typing, loads, table>>

-----------------------------------------------------------------------------
(***************************************************************************)
(* The rest of the keyboard, the screen and the server                     *)
(***************************************************************************)
MoveFocus ==
  /\ phase = "running" /\ Route = "list" /\ rendered.emails # <<>>
  /\ \E key \in Keys :
       LET next == NextIndex(rendered.focus, Len(rendered.emails), key) IN
       /\ next # rendered.focus
       /\ ui' = [ui EXCEPT !.focus = next]
  /\ UNCHANGED <<phase, mailbox, lastId, history, rendered, typing, lists, loads, deletes, table>>

\* Focus moves into a filter input, or out of it.
FocusChange ==
  /\ phase = "running" /\ rendered.route = "list"
  /\ typing' = ~typing
  /\ UNCHANGED <<phase, mailbox, lastId, ui, history, rendered, lists, loads, deletes, table>>

TypeFilter ==
  /\ phase = "running" /\ typing
  /\ \E filter \in {1..MaxId, Matching} : ui' = [ui EXCEPT !.filter = filter]
  /\ UNCHANGED <<phase, mailbox, lastId, history, rendered, typing, lists, loads, deletes, table>>

Render ==
  /\ phase = "running"
  /\ rendered' = View(Route)
  /\ typing' = (typing /\ Route = "list")
  /\ UNCHANGED <<phase, mailbox, lastId, ui, history, lists, loads, deletes, table>>

Quit ==
  /\ phase = "running"
  /\ phase' = "over"
  /\ UNCHANGED <<mailbox, lastId, ui, history, rendered, typing, lists, loads, deletes, table>>

\* A mail arrives at the server.
Receive ==
  /\ lastId < MaxId
  /\ lastId' = lastId + 1
  /\ mailbox' = mailbox \union {lastId'}
  /\ UNCHANGED <<phase, ui, history, rendered, typing, lists, loads, deletes, table>>

\* createInitialState(), with the refresh that startTui() begins with.
Init ==
  /\ phase = "starting"
  /\ lastId \in 0..MaxId /\ mailbox = 1..lastId
  /\ ui = [emails |-> <<>>, selected |-> None, focus |-> 0, filter |-> 1..MaxId,
           loading |-> TRUE, error |-> FALSE]
  /\ history = <<"list">>
  /\ rendered = View("list")
  /\ typing = FALSE
  /\ lists = <<AskedFor(1..MaxId)>>
  /\ loads = <<>> /\ deletes = <<>> /\ table = 0

Next ==
  /\ phase # "over"
  /\ \/ Poll \/ RefreshKey \/ Escape \/ DeleteKey \/ DeleteButton
     \/ DetailDeleteButton \/ MoveFocus \/ FocusChange \/ TypeFilter \/ Render
     \/ Quit \/ Receive
     \/ \E id \in 1..MaxId : Open(id)
     \/ \E r \in DOMAIN lists : AnswerList(r) \/ ListArrives(r)
     \/ \E r \in DOMAIN loads, failed \in BOOLEAN : LoadEnds(r, failed)
     \/ \E d \in DOMAIN deletes : AnswerDelete(d) \/ DeleteEnds(d)

Spec == Init /\ [][Next]_vars

-----------------------------------------------------------------------------
\* The detail screen never shows another email than the one opened last,
\* whatever loads of earlier ones answer late, after the user went back, or
\* while a deletion is under way (loadEmailDetail()).
ShownIsOpened ==
  Route = "detail" /\ ui.selected # None => ui.selected = Opened

\* The spinner turns exactly while the newest refresh is open.  At rest the
\* table shows the answer of that refresh, or an error says that it does not;
\* answers of refreshes that were overtaken change nothing (refreshEmails()).
RestingTableIsCurrent ==
  /\ ui.loading <=> lists[ListRequest].is # Settled
  /\ ~ui.loading => table = ListRequest \/ ui.error

\* "Delete the focused or opened email" (packages/cli/README.md:73), although
\* keys combine the route of now with the state last rendered: if the email
\* that is loaded, or that none is, has been rendered, what a key or a button
\* deletes is the email opened last, the focused row, or all emails, and never
\* one that the user has left for another.
DeletesFocusedOrOpened ==
  [][\A d \in DOMAIN deletes' \ DOMAIN deletes :
       rendered.selected = ui.selected =>
         \/ deletes'[d].target \in {All, FocusedEmail}
         \/ loads # <<>> /\ deletes'[d].target = Opened]_vars
=============================================================================
