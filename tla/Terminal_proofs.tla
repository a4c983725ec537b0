-------------------------- MODULE Terminal_proofs --------------------------
(***************************************************************************)
(* Theorems about the interactive inbox, for every number of mails,        *)
(* refreshes, loads and deletions.                                         *)
(*                                                                         *)
(* The invariant says nothing of the routes or of what was rendered: the   *)
(* two numbers of the app, that of the newest refresh and that of the      *)
(* newest load, are enough whatever a callback believes the state of the   *)
(* screen to be.  Only a deletion depends on what was rendered.            *)
(***************************************************************************)
EXTENDS Terminal, TLAPS

Filters == SUBSET (1..MaxId)
Tables == {Listed(ids) : ids \in Filters} \union {<<>>}
Stages == {Pending, Done, Failed, Settled}
ListCall == [is : Stages, filter : Filters, emails : Tables]
LoadCall == [id : 1..MaxId, open : BOOLEAN, stored : BOOLEAN]

\* The parts of the state the properties are about have their shape.
ListCalls == lists \in Seq(ListCall) /\ lists # <<>>
LoadCalls == loads \in Seq(LoadCall)
Screen ==
  /\ {"emails", "selected", "focus", "filter", "loading", "error"} = DOMAIN ui
  /\ ui.filter \in Filters /\ ui.loading \in BOOLEAN /\ ui.error \in BOOLEAN
Container == rendered.filter \in Filters

\* An email is kept only while its load is the newest one, on every route.
SelectedIsNewest ==
  ui.selected # None => loads # <<>> /\ ui.selected = Opened

Spinning == ui.loading <=> (lists[ListRequest].is # Settled)
Resting == ~ui.loading => (table = ListRequest \/ ui.error)

IInv == /\ ListCalls /\ LoadCalls /\ Screen /\ Container
        /\ SelectedIsNewest /\ Spinning /\ Resting

-----------------------------------------------------------------------------
LEMMA StagesDiffer ==
  /\ Pending # Settled /\ Done # Settled /\ Failed # Settled
  /\ Pending # Done /\ Pending # Failed /\ Done # Failed
  BY DEF Pending, Settled, Done, Failed

LEMMA InitialInv == Init => IInv
  <1> SUFFICES ASSUME Init PROVE IInv
    OBVIOUS
  <1>1. 1..MaxId \in Filters
    BY DEF Filters
  <1>2. AskedFor(1..MaxId) \in ListCall
    BY <1>1 DEF AskedFor, ListCall, Tables, Stages
  <1>3. lists = <<AskedFor(1..MaxId)>>
    BY DEF Init
  <1>4. ListCalls
    BY <1>2, <1>3 DEF ListCalls
  <1>5. LoadCalls
    BY DEF Init, LoadCalls
  <1>6. Screen
    BY <1>1 DEF Init, Screen
  <1>7. Container
    BY <1>1 DEF Init, Container, View
  <1>8. SelectedIsNewest
    BY DEF Init, SelectedIsNewest
  <1>9. Len(lists) = 1 /\ lists[1] = AskedFor(1..MaxId)
    BY <1>3
  <1>10. Spinning
    BY <1>9, StagesDiffer DEF Init, Spinning, ListRequest, AskedFor
  <1>11. Resting
    BY DEF Init, Resting
  <1> QED
    BY <1>4, <1>5, <1>6, <1>7, <1>8, <1>10, <1>11 DEF IInv

-----------------------------------------------------------------------------
(***************************************************************************)
(* The three ways in which an action touches the lists.                    *)
(***************************************************************************)
\* A refresh begins: the spinner turns, for a call nobody has answered.
LEMMA RefreshKeeps ==
  ASSUME IInv, Refresh(ui), UNCHANGED <<rendered, loads, table>>
  PROVE  IInv'
  <1> DEFINE call == AskedFor(rendered.filter)
  <1>1. call \in ListCall /\ call.is = Pending
    BY DEF IInv, Container, AskedFor, ListCall, Tables, Stages
  <1> HIDE DEF call
  <1>2. lists' = Append(lists, call)
    BY DEF Refresh, call
  <1>3. lists' \in Seq(ListCall) /\ Len(lists') = Len(lists) + 1
        /\ lists'[Len(lists')] = call
    BY <1>1, <1>2 DEF IInv, ListCalls
  <1>4. ListCalls'
    BY <1>3 DEF ListCalls, IInv
  <1>5. /\ DOMAIN ui' = DOMAIN ui /\ ui'.filter = ui.filter
        /\ ui'.loading = TRUE /\ ui'.error = FALSE /\ ui'.selected = ui.selected
    BY DEF IInv, Screen, Refresh
  <1>6. Screen' /\ Container' /\ LoadCalls'
    BY <1>5 DEF IInv, Screen, Container, LoadCalls
  <1>7. SelectedIsNewest'
    BY <1>5 DEF IInv, SelectedIsNewest, Opened, DetailRequest
  <1>8. Spinning' /\ Resting'
    BY <1>1, <1>3, <1>5, StagesDiffer DEF Spinning, Resting, ListRequest
  <1> QED
    BY <1>4, <1>6, <1>7, <1>8 DEF IInv

\* The server answers one of them: whether it is settled does not change.
LEMMA AnswerListKeeps ==
  ASSUME IInv, NEW r \in DOMAIN lists, AnswerList(r)
  PROVE  IInv'
  <1> USE DEF IInv
  <1>1. PICK result \in Arriving :
          lists' = [lists EXCEPT ![r].is = result, ![r].emails =
                      IF result = Done
                      THEN Listed(mailbox \intersect lists[r].filter) ELSE <<>>]
    BY DEF AnswerList
  <1> DEFINE answer == IF result = Done
                       THEN Listed(mailbox \intersect lists[r].filter) ELSE <<>>
  <1>2. lists[r] \in ListCall
    BY DEF ListCalls
  <1>3. mailbox \intersect lists[r].filter \in Filters
    BY <1>2 DEF ListCall, Filters
  <1>4. answer \in Tables
    BY <1>3 DEF Tables
  <1>5. lists' = [lists EXCEPT ![r].is = result, ![r].emails = answer]
    BY <1>1
  <1> HIDE DEF answer
  <1> DEFINE call == [lists[r] EXCEPT !.is = result, !.emails = answer]
  <1>6. call \in ListCall /\ call.is = result
    BY <1>2, <1>4 DEF ListCall, Arriving, Stages
  <1>7. lists' = [lists EXCEPT ![r] = call]
    BY <1>5, <1>2 DEF ListCalls
  <1> HIDE DEF call
  <1>8. /\ lists' \in Seq(ListCall) /\ Len(lists') = Len(lists)
        /\ lists'[r] = call
        /\ \A n \in DOMAIN lists : n # r => lists'[n] = lists[n]
    BY <1>6, <1>7 DEF ListCalls
  <1>9. ListCalls'
    BY <1>8 DEF ListCalls
  <1>10. ListRequest' = ListRequest /\ ListRequest \in DOMAIN lists
    BY <1>8 DEF ListRequest, ListCalls
  <1>11. result # Settled /\ lists[r].is # Settled
    BY StagesDiffer DEF Arriving, AnswerList
  <1>12. (lists[ListRequest].is # Settled) <=> (lists'[ListRequest].is # Settled)
    BY <1>6, <1>8, <1>10, <1>11
  <1>13. UNCHANGED <<ui, rendered, loads, table>>
    BY DEF AnswerList
  <1>14. Screen' /\ Container' /\ LoadCalls' /\ SelectedIsNewest'
    BY <1>13 DEF Screen, Container, LoadCalls, SelectedIsNewest, Opened, DetailRequest
  <1>15. Spinning' /\ Resting'
    BY <1>10, <1>12, <1>13 DEF Spinning, Resting
  <1> QED
    BY <1>9, <1>14, <1>15

\* An answer arrives: only that of the newest refresh is shown.
LEMMA ListArrivesKeeps ==
  ASSUME IInv, NEW r \in DOMAIN lists, ListArrives(r)
  PROVE  IInv'
  <1> USE DEF IInv
  <1>1. SettledList \in ListCall /\ SettledList.is = Settled
    BY DEF SettledList, ListCall, Tables, Stages, Filters
  <1>2. lists' = [lists EXCEPT ![r] = SettledList]
    BY DEF ListArrives
  <1>3. /\ lists' \in Seq(ListCall) /\ Len(lists') = Len(lists)
        /\ lists'[r] = SettledList
        /\ \A n \in DOMAIN lists : n # r => lists'[n] = lists[n]
    BY <1>1, <1>2 DEF ListCalls
  <1>4. ListCalls'
    BY <1>3 DEF ListCalls
  <1>5. ListRequest' = ListRequest /\ ListRequest \in DOMAIN lists
    BY <1>3 DEF ListRequest, ListCalls
  <1>6. UNCHANGED <<rendered, loads>>
    BY DEF ListArrives
  <1>7. /\ DOMAIN ui' = DOMAIN ui /\ ui'.filter = ui.filter
        /\ ui'.selected = ui.selected
        /\ ui'.loading \in BOOLEAN /\ ui'.error \in BOOLEAN
    BY DEF ListArrives, Shown, Screen
  <1>8. Screen' /\ Container' /\ LoadCalls' /\ SelectedIsNewest'
    BY <1>6, <1>7 DEF Screen, Container, LoadCalls, SelectedIsNewest, Opened,
                      DetailRequest
  <1>9. CASE r = ListRequest
    <2>1. lists[r].is \in {Done, Failed}
      BY DEF ListArrives, Arrived, Arriving
    <2>2. ui'.loading = FALSE
      BY <1>9 DEF ListArrives, Shown, Screen
    <2>3. lists[r].is = Failed => ui'.error = TRUE
      BY <1>9 DEF ListArrives, Shown, Screen
    <2>4. lists[r].is = Done => table' = ListRequest
      BY <1>9 DEF ListArrives
    <2>5. Spinning'
      BY <1>1, <1>3, <1>5, <1>9, <2>2 DEF Spinning
    <2>6. Resting'
      BY <1>5, <2>1, <2>3, <2>4 DEF Resting
    <2> QED
      BY <1>4, <1>8, <2>5, <2>6
  <1>10. CASE r # ListRequest
    <2>1. UNCHANGED <<ui, table>>
      BY <1>10 DEF ListArrives
    <2>2. lists'[ListRequest] = lists[ListRequest]
      BY <1>3, <1>5, <1>10
    <2>3. Spinning' /\ Resting'
      BY <1>5, <2>1, <2>2 DEF Spinning, Resting
    <2> QED
      BY <1>4, <1>8, <2>3
  <1> QED
    BY <1>9, <1>10

-----------------------------------------------------------------------------
(***************************************************************************)
(* The detail screen                                                       *)
(***************************************************************************)
\* An email is opened: nothing is selected until its load has ended.
LEMMA OpenKeeps ==
  ASSUME IInv, NEW id \in 1..MaxId, Open(id)
  PROVE  IInv'
  <1> USE DEF IInv
  <1> DEFINE call == [id |-> id, open |-> TRUE, stored |-> id \in mailbox]
  <1>1. call \in LoadCall
    BY DEF LoadCall
  <1>2. loads' = Append(loads, call)
    BY DEF Open
  <1> HIDE DEF call
  <1>3. LoadCalls'
    BY <1>1, <1>2 DEF LoadCalls
  <1>4. UNCHANGED <<lists, rendered, table>>
    BY DEF Open
  <1>5. /\ DOMAIN ui' = DOMAIN ui /\ ui'.filter = ui.filter
        /\ ui'.loading = ui.loading /\ ui'.error = ui.error
        /\ ui'.selected = None
    BY DEF Open, Screen
  <1>6. ListCalls' /\ Container' /\ Screen'
    BY <1>4, <1>5 DEF ListCalls, Container, Screen
  <1>7. SelectedIsNewest'
    BY <1>5 DEF SelectedIsNewest
  <1>8. Spinning' /\ Resting'
    BY <1>4, <1>5 DEF Spinning, Resting, ListRequest
  <1> QED
    BY <1>3, <1>6, <1>7, <1>8

\* A load ends: the email of the newest one is selected, no other.
LEMMA LoadEndsKeeps ==
  ASSUME IInv, NEW r \in DOMAIN loads, NEW failed \in BOOLEAN, LoadEnds(r, failed)
  PROVE  IInv'
  <1> USE DEF IInv
  <1>1. loads' = Ended(r)
    BY DEF LoadEnds
  <1>2. loads[r] \in LoadCall
    BY DEF LoadCalls
  <1> DEFINE call == [loads[r] EXCEPT !.open = FALSE, !.stored = FALSE]
  <1>3. call \in LoadCall /\ call.id = loads[r].id
    BY <1>2 DEF LoadCall
  <1>4. loads' = [loads EXCEPT ![r] = call]
    BY <1>1, <1>2 DEF Ended, LoadCalls
  <1> HIDE DEF call
  <1>5. /\ loads' \in Seq(LoadCall) /\ Len(loads') = Len(loads)
        /\ loads'[r] = call
        /\ \A n \in DOMAIN loads : n # r => loads'[n] = loads[n]
    BY <1>3, <1>4 DEF LoadCalls
  <1>6. LoadCalls'
    BY <1>5 DEF LoadCalls
  <1>7. loads # <<>> /\ loads' # <<>> /\ DetailRequest \in DOMAIN loads
        /\ DetailRequest' = DetailRequest
    BY <1>5 DEF DetailRequest, LoadCalls
  <1>8. Opened' = Opened
    BY <1>3, <1>5, <1>7 DEF Opened
  <1>9. UNCHANGED <<lists, rendered, table>>
    BY DEF LoadEnds
  <1>10. /\ DOMAIN ui' = DOMAIN ui /\ ui'.filter = ui.filter
         /\ ui'.loading = ui.loading
         /\ ui'.error \in BOOLEAN /\ (ui.error => ui'.error)
         /\ \/ ui'.selected = ui.selected
            \/ r = DetailRequest /\ ui'.selected = loads[r].id
    BY DEF LoadEnds, Screen
  <1>11. ListCalls' /\ Container' /\ Screen'
    BY <1>9, <1>10 DEF ListCalls, Container, Screen
  <1>12. SelectedIsNewest'
    BY <1>7, <1>8, <1>10 DEF SelectedIsNewest, Opened
  <1>13. Spinning' /\ Resting'
    BY <1>9, <1>10 DEF Spinning, Resting, ListRequest
  <1> QED
    BY <1>6, <1>11, <1>12, <1>13

-----------------------------------------------------------------------------
\* A step that touches neither the calls nor the table: it may show an error,
\* but only a refresh lifts one.
Elsewhere ==
  /\ UNCHANGED <<lists, loads, table>>
  /\ Screen' /\ Container'
  /\ ui'.selected = ui.selected /\ ui'.loading = ui.loading
  /\ ui.error => ui'.error

LEMMA ElsewhereKeeps ==
  ASSUME IInv, Elsewhere
  PROVE  IInv'
  <1> USE DEF IInv, Elsewhere
  <1>1. ListCalls' /\ LoadCalls'
    BY DEF ListCalls, LoadCalls
  <1>2. SelectedIsNewest'
    BY DEF SelectedIsNewest, Opened, DetailRequest
  <1>3. Spinning' /\ Resting'
    BY DEF Spinning, Resting, ListRequest
  <1> QED
    BY <1>1, <1>2, <1>3

LEMMA DeleteEndsKeeps ==
  ASSUME IInv, NEW d \in DOMAIN deletes, DeleteEnds(d)
  PROVE  IInv'
  <1>1. CASE deletes[d].is = Failed
    <2>1. ui' = [ui EXCEPT !.error = TRUE] /\ UNCHANGED <<lists, loads, table, rendered>>
      BY <1>1 DEF DeleteEnds
    <2>2. Elsewhere
      BY <2>1 DEF IInv, Elsewhere, Screen, Container
    <2> QED
      BY <2>2, ElsewhereKeeps
  <1>2. CASE deletes[d].is # Failed
    <2>1. Refresh(ui) /\ UNCHANGED <<rendered, loads, table>>
      BY <1>2 DEF DeleteEnds
    <2> QED
      BY <2>1, RefreshKeeps
  <1> QED
    BY <1>1, <1>2

LEMMA KeysKeep ==
  ASSUME IInv, MoveFocus \/ TypeFilter \/ Render
  PROVE  IInv'
  <1>1. CASE MoveFocus
    <2>1. PICK next : ui' = [ui EXCEPT !.focus = next]
      BY <1>1 DEF MoveFocus
    <2>2. UNCHANGED <<lists, loads, table, rendered>>
      BY <1>1 DEF MoveFocus
    <2>3. Elsewhere
      BY <2>1, <2>2 DEF IInv, Elsewhere, Screen, Container
    <2> QED
      BY <2>3, ElsewhereKeeps
  <1>2. CASE TypeFilter
    <2>1. PICK filter \in {1..MaxId, Matching} : ui' = [ui EXCEPT !.filter = filter]
      BY <1>2 DEF TypeFilter
    <2>2. filter \in Filters
      BY TerminalAssumption DEF Filters
    <2>3. UNCHANGED <<lists, loads, table, rendered>>
      BY <1>2 DEF TypeFilter
    <2>4. Elsewhere
      BY <2>1, <2>2, <2>3 DEF IInv, Elsewhere, Screen, Container
    <2> QED
      BY <2>4, ElsewhereKeeps
  <1>3. CASE Render
    <2>1. UNCHANGED <<ui, lists, loads, table>> /\ rendered' = View(Route)
      BY <1>3 DEF Render
    <2>2. Container'
      BY <2>1 DEF IInv, Container, Screen, View
    <2>3. Elsewhere
      BY <2>1, <2>2 DEF IInv, Elsewhere, Screen
    <2> QED
      BY <2>3, ElsewhereKeeps
  <1> QED
    BY <1>1, <1>2, <1>3

\* Everything else leaves all of it alone.
LEMMA OthersKeep ==
  ASSUME IInv,
         \/ Escape \/ DeleteKey \/ DeleteButton \/ DetailDeleteButton
         \/ FocusChange \/ Quit \/ Receive
         \/ \E d \in DOMAIN deletes : AnswerDelete(d)
         \/ UNCHANGED vars
  PROVE  IInv'
  <1>1. UNCHANGED <<ui, rendered, lists, loads, table>>
    BY DEF Escape, DeleteKey, DeleteButton, DetailDeleteButton, StartDelete,
           FocusChange, Quit, Receive, AnswerDelete, vars
  <1>2. Elsewhere
    BY <1>1 DEF IInv, Elsewhere, Screen, Container
  <1> QED
    BY <1>2, ElsewhereKeeps

LEMMA StepInv == IInv /\ [Next]_vars => IInv'
  <1> SUFFICES ASSUME IInv, [Next]_vars PROVE IInv'
    OBVIOUS
  <1>1. CASE Poll \/ RefreshKey
    <2>1. Refresh(ui) /\ UNCHANGED <<rendered, loads, table>>
      BY <1>1 DEF Poll, RefreshKey
    <2> QED
      BY <2>1, RefreshKeeps
  <1>2. CASE MoveFocus \/ TypeFilter \/ Render
    BY <1>2, KeysKeep
  <1>3. CASE \/ Escape \/ DeleteKey \/ DeleteButton \/ DetailDeleteButton
             \/ FocusChange \/ Quit \/ Receive
             \/ \E d \in DOMAIN deletes : AnswerDelete(d)
             \/ UNCHANGED vars
    BY <1>3, OthersKeep
  <1>4. CASE \E id \in 1..MaxId : Open(id)
    BY <1>4, OpenKeeps
  <1>5. CASE \E r \in DOMAIN lists : AnswerList(r) \/ ListArrives(r)
    BY <1>5, AnswerListKeeps, ListArrivesKeeps
  <1>6. CASE \E r \in DOMAIN loads, failed \in BOOLEAN : LoadEnds(r, failed)
    BY <1>6, LoadEndsKeeps
  <1>7. CASE \E d \in DOMAIN deletes : DeleteEnds(d)
    BY <1>7, DeleteEndsKeeps
  <1> QED
    BY <1>1, <1>2, <1>3, <1>4, <1>5, <1>6, <1>7 DEF Next

LEMMA Invariant == Spec => []IInv
  BY InitialInv, StepInv, PTL DEF Spec

-----------------------------------------------------------------------------
(***************************************************************************)
(* Deletions: each step adds one at most, and a new one has its target.    *)
(***************************************************************************)
IsSequence(s) == \E S : s \in Seq(S)

LEMMA OneIsAppended ==
  ASSUME NEW s, IsSequence(s), NEW x
  PROVE  /\ IsSequence(Append(s, x))
         /\ \A i \in DOMAIN Append(s, x) \ DOMAIN s : Append(s, x)[i] = x
  <1>1. PICK S : s \in Seq(S)
    BY DEF IsSequence
  <1> DEFINE T == S \union {x}
  <1>2. s \in Seq(T) /\ x \in T
    BY <1>1
  <1>3. Append(s, x) \in Seq(T)
    BY <1>2
  <1>4. \A i \in DOMAIN Append(s, x) \ DOMAIN s : Append(s, x)[i] = x
    BY <1>1
  <1> QED
    BY <1>3, <1>4 DEF IsSequence

LEMMA OneIsReplaced ==
  ASSUME NEW s, IsSequence(s), NEW i \in DOMAIN s, NEW x
  PROVE  IsSequence([s EXCEPT ![i] = x]) /\ DOMAIN [s EXCEPT ![i] = x] = DOMAIN s
  <1>1. PICK S : s \in Seq(S)
    BY DEF IsSequence
  <1> DEFINE T == S \union {x}
  <1>2. s \in Seq(T) /\ x \in T
    BY <1>1
  <1>3. [s EXCEPT ![i] = x] \in Seq(T)
    BY <1>2
  <1> QED
    BY <1>3 DEF IsSequence

\* What the container has rendered of the selected email is the state's.
SelectionRendered == rendered.selected = ui.selected
AimedWell(target) ==
  \/ target \in {All, FocusedEmail}
  \/ loads # <<>> /\ target = Opened

\* What is on the detail screen was opened last.
LEMMA TargetsAreRight ==
  ASSUME IInv, SelectionRendered, NEW target, target # None,
         \/ target = rendered.selected
         \/ target \in {All, FocusedEmail}
  PROVE  AimedWell(target)
  BY DEF IInv, SelectedIsNewest, SelectionRendered, AimedWell

LEMMA StartsAreRight ==
  ASSUME IInv, IsSequence(deletes), NEW target, NEW from,
         StartDelete(target, from),
         \/ target = rendered.selected
         \/ target \in {All, FocusedEmail}
  PROVE  /\ IsSequence(deletes')
         /\ \A d \in DOMAIN deletes' \ DOMAIN deletes :
              SelectionRendered => AimedWell(deletes'[d].target)
  <1> DEFINE call == [target |-> target, from |-> from, is |-> Pending]
  <1>1. deletes' = Append(deletes, call) /\ target # None
    BY DEF StartDelete
  <1>2. call.target = target
    OBVIOUS
  <1> HIDE DEF call
  <1>3. /\ IsSequence(deletes')
        /\ \A d \in DOMAIN deletes' \ DOMAIN deletes : deletes'[d] = call
    BY <1>1, OneIsAppended
  <1> QED
    BY <1>1, <1>2, <1>3, TargetsAreRight

LEMMA DeletionsStep ==
  ASSUME IInv, IsSequence(deletes), [Next]_vars
  PROVE  /\ IsSequence(deletes')
         /\ \A d \in DOMAIN deletes' \ DOMAIN deletes :
              SelectionRendered => AimedWell(deletes'[d].target)
  <1>1. CASE DeleteKey
    <2>1. PICK shift \in BOOLEAN : StartDelete(DeleteTarget(shift), Route)
      BY <1>1 DEF DeleteKey
    <2>2. DeleteTarget(shift) # None
      BY <2>1 DEF StartDelete
    <2>3. \/ DeleteTarget(shift) = rendered.selected
          \/ DeleteTarget(shift) \in {All, FocusedEmail}
      BY <2>2 DEF DeleteTarget
    <2> QED
      BY <2>1, <2>3, StartsAreRight
  <1>2. CASE DeleteButton
    BY <1>2, StartsAreRight DEF DeleteButton
  <1>3. CASE DetailDeleteButton
    BY <1>3, StartsAreRight DEF DetailDeleteButton
  <1>4. CASE \E d \in DOMAIN deletes : AnswerDelete(d) \/ DeleteEnds(d)
    <2>1. PICK d \in DOMAIN deletes :
            \E stage : deletes' = [deletes EXCEPT ![d].is = stage]
      BY <1>4 DEF AnswerDelete, DeleteEnds
    <2>2. PICK stage : deletes' = [deletes EXCEPT ![d].is = stage]
      BY <2>1
    <2>3. deletes' = [deletes EXCEPT ![d] = [deletes[d] EXCEPT !.is = stage]]
      BY <2>2
    <2> QED
      BY <2>3, OneIsReplaced
  <1>5. CASE UNCHANGED deletes
    BY <1>5
  <1>6. CASE \/ Poll \/ RefreshKey \/ Escape \/ MoveFocus \/ FocusChange
             \/ TypeFilter \/ Render \/ Quit \/ Receive \/ UNCHANGED vars
    BY <1>5, <1>6 DEF Poll, RefreshKey, Escape, MoveFocus, FocusChange, TypeFilter,
                      Render, Quit, Receive, vars
  <1>7. CASE \/ \E id \in 1..MaxId : Open(id)
             \/ \E r \in DOMAIN lists : AnswerList(r) \/ ListArrives(r)
             \/ \E r \in DOMAIN loads, failed \in BOOLEAN : LoadEnds(r, failed)
    BY <1>5, <1>7 DEF Open, AnswerList, ListArrives, LoadEnds
  <1> QED
    BY <1>1, <1>2, <1>3, <1>4, <1>6, <1>7 DEF Next

LEMMA DeletionsAreListed == Spec => []IsSequence(deletes)
  <1>1. Init => IsSequence(deletes)
    BY DEF Init, IsSequence
  <1>2. IInv /\ IsSequence(deletes) /\ [Next]_vars => IsSequence(deletes)'
    BY DeletionsStep
  <1> QED
    BY <1>1, <1>2, Invariant, PTL DEF Spec

-----------------------------------------------------------------------------
\* The detail screen never shows another email than the one opened last: the
\* answer of a load that was overtaken finds another number and selects
\* nothing, in whatever order answers, keys and renders come.
THEOREM NoStaleDetail == Spec => []ShownIsOpened
  <1>1. IInv => ShownIsOpened
    BY DEF IInv, SelectedIsNewest, ShownIsOpened
  <1> QED
    BY <1>1, Invariant, PTL

\* The spinner turns exactly while the newest refresh is open, and at rest
\* the table shows its answer or an error is shown: no other answer, poll,
\* deletion or key comes between the two.
THEOREM TableComesToRest == Spec => []RestingTableIsCurrent
  <1>1. IInv => RestingTableIsCurrent
    BY DEF IInv, Spinning, Resting, RestingTableIsCurrent
  <1> QED
    BY <1>1, Invariant, PTL
\* Once the selected email has been rendered, the delete key and the buttons
\* hit the email opened last, the focused row or all of them, whatever loads
\* and refreshes are still to be answered: the one copy that a key may take
\* from an earlier visit is the selection of the last render.
THEOREM DeletesHitTheirTarget == Spec => DeletesFocusedOrOpened
  <1>1. IInv /\ IsSequence(deletes) /\ [Next]_vars =>
          [\A d \in DOMAIN deletes' \ DOMAIN deletes :
             rendered.selected = ui.selected =>
               \/ deletes'[d].target \in {All, FocusedEmail}
               \/ loads # <<>> /\ deletes'[d].target = Opened]_vars
    BY DeletionsStep DEF SelectionRendered, AimedWell
  <1> QED
    BY <1>1, Invariant, DeletionsAreListed, PTL DEF Spec, DeletesFocusedOrOpened
=============================================================================
