----------------------------- MODULE TuiFocusProofs -----------------------------
(***************************************************************************)
(* Typing of the table and its details for every value of the constants;   *)
(* what the request ids protect: details, failures and explanations always *)
(* belong to the torrent they are shown for; and what hangs on the rows:   *)
(* the focus ends on the cursor, hidden rows leave nothing behind, and no  *)
(* keystroke in the search box is lost.                                    *)
(***************************************************************************)
EXTENDS TuiFocus, TLAPS

ViewType ==
  /\ raw \in SUBSET Hash /\ filters \in SUBSET Hash /\ search \in SUBSET Hash
  /\ rank \in [Hash -> 1..Cardinality(Hash)]
DetailType ==
  /\ focused \in Focus /\ details \in Details /\ failed \in BOOLEAN
  /\ requestId \in Nat
FetchType == fetches \in SUBSET Fetch /\ lastFetch \in Nat
ScreenType ==
  /\ pending \in Nat
  /\ explain \in [title : Focus, report : Details]
  /\ stack \in Stacks /\ retry \in BOOLEAN
TableType == cursor \in Focus /\ events \in Seq(Focus)
Waiting == (SUBSET Hash) \cup {NoText}
Boxes == {"closed", "focused", "mounted"}
BoxType ==
  /\ box \in Boxes
  /\ typed \in SUBSET Hash /\ debounce \in Waiting
Types ==
  /\ ViewType /\ selected \in SUBSET Hash /\ DetailType /\ FetchType
  /\ ScreenType /\ TableType /\ BoxType /\ version \in Nat

LEMMA TypesAreTypeOK == Types <=> TypeOK
BY DEF Types, TypeOK, ViewType, DetailType, FetchType, ScreenType, TableType,
       BoxType, Waiting, Boxes

-----------------------------------------------------------------------------
(* What the shared parts of the handlers preserve. *)

LEMMA Unchanged ==
  ASSUME Types
  PROVE  /\ UNCHANGED viewVars => ViewType'
         /\ UNCHANGED detailVars => DetailType'
         /\ UNCHANGED fetchVars => FetchType'
         /\ UNCHANGED screenVars => ScreenType'
         /\ UNCHANGED tableVars => TableType'
         /\ UNCHANGED boxVars => BoxType'
<1>1. UNCHANGED viewVars => ViewType'
  BY DEF Types, viewVars, ViewType
<1>2. UNCHANGED detailVars => DetailType'
  BY DEF Types, detailVars, DetailType
<1>3. UNCHANGED fetchVars => FetchType'
  BY DEF Types, fetchVars, FetchType
<1>4. UNCHANGED screenVars => ScreenType'
  BY DEF Types, screenVars, ScreenType
<1>5. UNCHANGED tableVars => TableType'
  BY DEF Types, tableVars, TableType
<1>6. UNCHANGED boxVars => BoxType'
  BY DEF Types, boxVars, BoxType
<1>7. QED
  BY <1>1, <1>2, <1>3, <1>4, <1>5, <1>6

LEMMA NoDetailsType == NoDetails \in Details /\ NoReport \in Details
BY DEF NoDetails, NoReport, Details, Focus

LEMMA FocusType ==
  ASSUME Types
  PROVE  /\ ClearFocus => DetailType'
         /\ \A h \in Focus : FocusOn(h) => DetailType'
         /\ ReconcileFocus => DetailType'
         /\ BeginManual => DetailType'
<1> USE DEF Types, DetailType
<1>1. ASSUME ClearFocus
      PROVE  DetailType'
  <2>1. requestId' \in Nat
    BY <1>1 DEF ClearFocus
  <2>2. focused' \in Focus /\ details' \in Details /\ failed' \in BOOLEAN
    BY <1>1, NoDetailsType DEF ClearFocus, Focus
  <2>3. QED
    BY <2>1, <2>2
<1>2. ASSUME NEW h \in Focus, FocusOn(h)
      PROVE  DetailType'
  <2>1. CASE UNCHANGED detailVars
    BY <2>1, Unchanged
  <2>2. CASE h # focused
    <3>1. requestId' \in Nat
      BY <1>2, <2>2 DEF FocusOn
    <3>2. focused' \in Focus /\ details' \in Details /\ failed' \in BOOLEAN
      BY <1>2, <2>2, NoDetailsType DEF FocusOn
    <3>3. QED
      BY <3>1, <3>2
  <2>3. QED
    BY <1>2, <2>1, <2>2 DEF FocusOn
<1>3. ReconcileFocus => DetailType'
  BY <1>1, Unchanged DEF ReconcileFocus
<1>4. ASSUME BeginManual
      PROVE  DetailType'
  <2>1. requestId' \in Nat
    BY <1>4 DEF BeginManual
  <2>2. focused' \in Focus /\ details' \in Details /\ failed' \in BOOLEAN
    BY <1>4 DEF BeginManual
  <2>3. QED
    BY <2>1, <2>2
<1>5. QED
  BY <1>1, <1>2, <1>3, <1>4

LEMMA SelectionType ==
  ASSUME Types, ViewType', ReconcileSelection
  PROVE  selected' \in SUBSET Hash
BY DEF Types, ViewType, ReconcileSelection, Visible

LEMMA RebuildType ==
  ASSUME Types, ViewType', DetailType', Rebuild
  PROVE  TableType'
<1>1. CASE /\ Visible' = {} /\ cursor' = NoHash
           /\ \/ UNCHANGED events
              \/ Len(events) < MaxEvents /\ events' = Append(events, NoHash)
  BY <1>1 DEF Types, TableType, Focus
<1>2. ASSUME NEW h \in Top',
             cursor' = IF focused' \in Visible' THEN focused' ELSE h,
             events' = events \o Posted(h)
      PROVE  TableType'
  <2>1. h \in Focus /\ focused' \in Focus
    BY <1>2 DEF Top, Visible, ViewType, DetailType, Focus
  <2>2. Posted(h) \in Seq(Focus)
    BY <2>1 DEF Posted
  <2>3. events' \in Seq(Focus)
    BY <1>2, <2>2 DEF Types, TableType
  <2>4. QED
    BY <1>2, <2>1, <2>3 DEF TableType
<1>3. QED
  BY <1>1, <1>2 DEF Rebuild

LEMMA RenderType ==
  ASSUME Types, ViewType', DetailType', Render
  PROVE  TableType'
BY RebuildType, Unchanged DEF Render

LEMMA StartFetchType ==
  ASSUME Types, requestId' \in Nat, focused # NoHash, StartFetch
  PROVE  FetchType'
<1> DEFINE f == [id |-> requestId', hash |-> focused,
                 outcome |-> "running", seen |-> 0]
<1>1. f \in Fetch
  BY DEF Types, DetailType, Focus, Fetch, Outcome
<1>2. QED
  BY <1>1 DEF StartFetch, Types, FetchType

LEMMA RefreshDetailsType ==
  ASSUME Types, RefreshDetails
  PROVE  DetailType' /\ FetchType'
<1>1. DetailType'
  BY FocusType DEF RefreshDetails
<1>2. QED
  BY <1>1, StartFetchType DEF RefreshDetails, DetailType

LEMMA Pairs ==
  ASSUME NEW S, NEW x \in S, NEW y \in S
  PROVE  SubSeq(<<x, y>>, 1, 1) = <<x>> /\ Append(<<x>>, y) = <<x, y>>
<1> DEFINE s == SubSeq(<<x, y>>, 1, 1)
           t == Append(<<x>>, y)
<1>1. s \in Seq(S) /\ Len(s) = 1 /\ s[1] = x
  OBVIOUS
<1>2. t \in Seq(S) /\ Len(t) = 2 /\ t[1] = x /\ t[2] = y
  OBVIOUS
<1> HIDE DEF s, t
<1>3. s = <<x>> /\ t = <<x, y>>
  BY <1>1, <1>2
<1>4. QED
  BY <1>3 DEF s, t

LEMMA ExplainOverDetails ==
  /\ SubSeq(<<"details", "explain">>, 1, 1) = <<"details">>
  /\ Append(<<"details">>, "explain") = <<"details", "explain">>
<1>1. "details" \in {"details", "explain"} /\ "explain" \in {"details", "explain"}
  OBVIOUS
<1>2. QED
  BY <1>1, Pairs

LEMMA StackType ==
  ASSUME Types
  PROVE  /\ stack # << >> => CloseTop \in Stacks
         /\ stack \in {<< >>, <<"details">>} => Append(stack, "explain") \in Stacks
         /\ IsOpen("explain") => stack # << >>
<1>1. stack \in Stacks
  BY DEF Types, ScreenType
<1>2. ASSUME stack # << >>
      PROVE  CloseTop \in Stacks
  <2>1. CASE Len(stack) = 1
    <3>1. CloseTop = << >>
      BY <1>1, <2>1 DEF CloseTop, Stacks
    <3>2. QED
      BY <3>1 DEF Stacks
  <2>2. CASE stack = <<"details", "explain">>
    <3>1. CloseTop = <<"details">>
      BY <2>2, ExplainOverDetails DEF CloseTop
    <3>2. QED
      BY <3>1 DEF Stacks
  <2>3. QED
    BY <1>1, <1>2, <2>1, <2>2 DEF Stacks
<1>3. ASSUME stack \in {<< >>, <<"details">>}
      PROVE  Append(stack, "explain") \in Stacks
  <2>1. CASE stack = << >>
    BY <2>1 DEF Stacks
  <2>2. CASE stack = <<"details">>
    BY <2>2, ExplainOverDetails DEF Stacks
  <2>3. QED
    BY <1>3, <2>1, <2>2
<1>4. IsOpen("explain") => stack # << >>
  BY DEF IsOpen
<1>5. QED
  BY <1>2, <1>3, <1>4

-----------------------------------------------------------------------------
(* Type correctness. *)

LEMMA InitTypes == Init => Types
<1> SUFFICES ASSUME Init PROVE Types
  OBVIOUS
<1>1. ViewType /\ selected \in SUBSET Hash
  BY DEF Init, ViewType, Ranks
<1>2. DetailType
  <2>1. requestId \in Nat
    BY DEF Init
  <2>2. focused \in Focus /\ details \in Details /\ failed \in BOOLEAN
    BY NoDetailsType DEF Init, Focus
  <2>3. QED
    BY <2>1, <2>2 DEF DetailType
<1>3. FetchType /\ version \in Nat
  BY DEF Init, FetchType
<1>4. ScreenType
  <2>1. pending \in Nat
    BY DEF Init
  <2>2. explain \in [title : Focus, report : Details]
    BY NoDetailsType DEF Init, NoExplain, Focus
  <2>3. stack \in Stacks /\ retry \in BOOLEAN
    BY DEF Init, Stacks
  <2>4. QED
    BY <2>1, <2>2, <2>3 DEF ScreenType
<1>5. TableType
  BY DEF Init, TableType, Focus
<1>6. BoxType
  <2>1. box = "closed" /\ typed = Hash /\ debounce = NoText
    BY DEF Init
  <2>2. box \in Boxes
    BY <2>1 DEF Boxes
  <2>3. typed \in SUBSET Hash /\ debounce \in Waiting
    BY <2>1 DEF Waiting
  <2>4. QED
    BY <2>2, <2>3 DEF BoxType
<1>7. QED
  BY <1>1, <1>2, <1>3, <1>4, <1>5, <1>6 DEF Types

\* The handlers that change the rows.
LEMMA RowsTypes ==
  ASSUME Types, Refresh \/ ApplyFilters \/ ApplySort \/ ResetView
  PROVE  Types'
<1>1. ViewType'
  BY FocusAssumption
     DEF Types, ViewType, Refresh, ApplyFilters, ApplySort, ResetView, Ranks
<1>2. DetailType'
  BY FocusType, Unchanged DEF Refresh, ApplyFilters, ApplySort, ResetView
<1>3. selected' \in SUBSET Hash
  BY <1>1, SelectionType
     DEF Types, Refresh, ApplyFilters, ApplySort, ResetView
<1>4. TableType'
  BY <1>1, <1>2, RebuildType, RenderType
     DEF Refresh, ApplyFilters, ApplySort, ResetView
<1>5. FetchType' /\ ScreenType' /\ BoxType' /\ version' \in Nat
  BY Unchanged DEF Types, Refresh, ApplyFilters, ApplySort, ResetView
<1>6. QED
  BY <1>1, <1>2, <1>3, <1>4, <1>5 DEF Types

LEMMA CursorTypes ==
  ASSUME Types, MoveCursor \/ RowHighlighted \/ ToggleSelection \/ SelectAll
  PROVE  Types'
<1>1. CASE MoveCursor
  <2>1. TableType'
    <3>1. PICK h \in Visible : cursor' = h /\ events' = Append(events, h)
      BY <1>1 DEF MoveCursor
    <3>2. h \in Focus
      BY DEF Types, ViewType, Visible, Focus
    <3>3. QED
      BY <3>1, <3>2 DEF Types, TableType
  <2>2. QED
    BY <1>1, <2>1, Unchanged DEF MoveCursor, Types
<1>2. CASE RowHighlighted
  <2>1. Head(events) \in Focus /\ Tail(events) \in Seq(Focus)
    BY <1>2 DEF RowHighlighted, Types, TableType
  <2>2. DetailType' /\ TableType'
    BY <1>2, <2>1, FocusType DEF RowHighlighted, Types, TableType
  <2>3. QED
    BY <1>2, <2>2, Unchanged DEF RowHighlighted, Types
<1>3. CASE ToggleSelection
  <2>1. focused \in Hash
    BY <1>3 DEF ToggleSelection, Types, DetailType, Focus
  <2>2. selected' \in SUBSET Hash
    BY <1>3, <2>1 DEF ToggleSelection, Types
  <2>3. QED
    BY <1>3, <2>2, Unchanged DEF ToggleSelection, Types
<1>4. CASE SelectAll
  <2>1. selected' \in SUBSET Hash
    BY <1>4 DEF SelectAll, Types, ViewType, Visible
  <2>2. QED
    BY <1>4, <2>1, Unchanged DEF SelectAll, Types
<1>5. QED
  BY <1>1, <1>2, <1>3, <1>4

LEMMA FetchTypes ==
  ASSUME Types, PressRefresh \/ OpenDetails \/ RetryDetails \/ FetchReturns
  PROVE  Types'
<1>1. CASE PressRefresh
  BY <1>1, RefreshDetailsType, Unchanged DEF PressRefresh, Types
<1>2. CASE OpenDetails
  <2>1. DetailType' /\ FetchType'
    BY <1>2, RefreshDetailsType, Unchanged DEF OpenDetails
  <2>2. ScreenType'
    BY <1>2 DEF OpenDetails, Types, ScreenType, Stacks
  <2>3. QED
    BY <1>2, <2>1, <2>2, Unchanged DEF OpenDetails, Types
<1>3. CASE RetryDetails
  <2>1. DetailType' /\ FetchType'
    BY <1>3, RefreshDetailsType, Unchanged DEF RetryDetails
  <2>2. ScreenType'
    BY <1>3 DEF RetryDetails, Types, ScreenType
  <2>3. QED
    BY <1>3, <2>1, <2>2, Unchanged DEF RetryDetails, Types
<1>4. CASE FetchReturns
  <2>1. PICK f \in fetches, o \in Outcome :
           fetches' = (fetches \ {f}) \cup
             {[f EXCEPT !.outcome = o, !.seen = IF o = "ok" THEN version ELSE 0]}
    BY <1>4 DEF FetchReturns
  <2>2. f \in Fetch /\ version \in Nat
    BY DEF Types, FetchType
  <2>3. [f EXCEPT !.outcome = o, !.seen = IF o = "ok" THEN version ELSE 0]
          \in Fetch
    BY <2>2 DEF Fetch
  <2>4. FetchType'
    BY <1>4, <2>1, <2>3 DEF FetchReturns, Types, FetchType
  <2>5. QED
    BY <1>4, <2>4, Unchanged DEF FetchReturns, Types
<1>5. QED
  BY <1>1, <1>2, <1>3, <1>4

LEMMA ResultTypes ==
  ASSUME Types, DetailResult
  PROVE  Types'
<1>1. PICK f \in fetches :
         /\ fetches' = fetches \ {f}
         /\ \/ UNCHANGED <<detailVars, screenVars>>
            \/ Publish(f) /\ ResolveExplain(f)
  BY DEF DetailResult
<1>2. f \in Fetch
  BY DEF Types, FetchType
<1>3. FetchType'
  BY <1>1 DEF DetailResult, Types, FetchType
<1>4. DetailType'
  <2>1. CASE UNCHANGED detailVars
    BY <2>1, Unchanged
  <2>2. CASE Publish(f)
    <3>1. requestId' \in Nat
      BY <2>2 DEF Publish, Types, DetailType
    <3>2. [hash |-> f.hash, seen |-> f.seen] \in Details
      BY <1>2 DEF Fetch, Details, Focus
    <3>3. details' \in Details
      BY <2>2, <3>2 DEF Publish, Types, DetailType
    <3>4. focused' \in Focus /\ failed' \in BOOLEAN
      BY <2>2 DEF Publish, Types, DetailType
    <3>5. QED
      BY <3>1, <3>3, <3>4 DEF DetailType
  <2>3. QED
    BY <1>1, <2>1, <2>2
<1>5. ScreenType'
  <2>1. CASE UNCHANGED screenVars
    BY <2>1, Unchanged
  <2>2. CASE ResolveExplain(f) /\ pending = f.id
    <3>1. Report \in Details
      BY <1>4 DEF Report, Details, DetailType, Types
    <3>2. [explain EXCEPT !.report = Report] \in [title : Focus, report : Details]
      BY <3>1 DEF Types, ScreenType
    <3>3. explain' \in [title : Focus, report : Details]
      BY <2>2, <3>2 DEF ResolveExplain, Types, ScreenType
    <3>4. stack' \in Stacks
      BY <2>2, StackType DEF ResolveExplain, Types, ScreenType
    <3>5. pending' \in Nat
      BY <2>2 DEF ResolveExplain
    <3>6. retry' \in BOOLEAN
      BY <2>2 DEF ResolveExplain, Types, ScreenType
    <3>7. QED
      BY <3>3, <3>4, <3>5, <3>6 DEF ScreenType
  <2>3. QED
    BY <1>1, <2>1, <2>2 DEF ResolveExplain
<1>6. QED
  BY <1>3, <1>4, <1>5, Unchanged DEF DetailResult, Types

LEMMA ScreenTypes ==
  ASSUME Types, OpenExplain \/ OpenFilters \/ DismissScreen
  PROVE  Types'
<1>1. CASE OpenExplain
  <2>1. DetailType' /\ FetchType'
    <3>1. CASE UNCHANGED <<detailVars, fetchVars>>
      BY <3>1, Unchanged
    <3>2. CASE BeginManual /\ StartFetch
      BY <1>1, <3>2, FocusType, StartFetchType DEF OpenExplain, DetailType
    <3>3. QED
      BY <1>1, <3>1, <3>2 DEF OpenExplain
  <2>2. stack' \in Stacks
    BY <1>1, StackType DEF OpenExplain, OnTable
  <2>3. pending' \in Nat
    BY <1>1, <2>1 DEF OpenExplain, Types, ScreenType, DetailType
  <2>4. explain' \in [title : Focus, report : Details]
    BY <1>1, NoDetailsType DEF OpenExplain, Types, DetailType, Details
  <2>5. retry' \in BOOLEAN
    BY <1>1 DEF OpenExplain, Types, ScreenType
  <2>6. ScreenType'
    BY <2>2, <2>3, <2>4, <2>5 DEF ScreenType
  <2>7. QED
    BY <1>1, <2>1, <2>6, Unchanged DEF OpenExplain, Types
<1>2. CASE OpenFilters
  <2>1. ScreenType'
    BY <1>2 DEF OpenFilters, Types, ScreenType, Stacks
  <2>2. QED
    BY <1>2, <2>1, Unchanged DEF OpenFilters, Types
<1>3. CASE DismissScreen
  <2>1. stack' \in Stacks
    BY <1>3, StackType DEF DismissScreen
  <2>2. retry' \in BOOLEAN
    BY <1>3 DEF DismissScreen, Types, ScreenType
  <2>3. ScreenType'
    BY <1>3, <2>1, <2>2 DEF DismissScreen, Types, ScreenType
  <2>4. QED
    BY <1>3, <2>3, Unchanged DEF DismissScreen, Types
<1>4. QED
  BY <1>1, <1>2, <1>3

LEMMA NoTextWaits == NoText \in Waiting
BY DEF Waiting

LEMMA FlushTypes ==
  ASSUME Types, Flush
  PROVE  ViewType' /\ selected' \in SUBSET Hash /\ DetailType' /\ TableType'
<1>1. CASE debounce = NoText
  BY <1>1, Unchanged DEF Flush, Types
<1>2. CASE debounce # NoText
  <2>1. SetSearch(debounce)
    BY <1>2 DEF Flush
  <2>2. debounce \in SUBSET Hash
    BY <1>2 DEF Types, BoxType, Waiting
  <2>3. ViewType'
    BY <2>1, <2>2 DEF SetSearch, Types, ViewType
  <2>4. DetailType'
    BY <2>1, FocusType DEF SetSearch
  <2>5. QED
    BY <2>1, <2>3, <2>4, SelectionType, RenderType DEF SetSearch
<1>3. QED
  BY <1>1, <1>2

LEMMA SearchTypes ==
  ASSUME Types,
         OpenSearch \/ TypeText \/ DebounceFires \/ LeaveInput \/ CloseSearch
         \/ TrackersChange
  PROVE  Types'
<1>1. BoxType'
  <2>1. CASE OpenSearch
    BY <2>1 DEF Types, BoxType, Boxes, ViewType, OpenSearch
  <2>2. CASE TypeText
    <3>1. PICK text \in Text : typed' = text /\ debounce' = text
      BY <2>2 DEF TypeText
    <3>2. text \in SUBSET Hash
      BY FocusAssumption
    <3>3. text \in Waiting
      BY <3>2 DEF Waiting
    <3>4. QED
      BY <2>2, <3>1, <3>2, <3>3 DEF TypeText, Types, BoxType
  <2>3. CASE DebounceFires
    BY <2>3, NoTextWaits DEF Types, BoxType, DebounceFires
  <2>4. CASE LeaveInput
    BY <2>4 DEF Types, BoxType, Boxes, LeaveInput
  <2>5. CASE CloseSearch
    <3>1. box' = "closed" /\ typed' = typed /\ debounce' = NoText
      BY <2>5 DEF CloseSearch
    <3>2. box' \in Boxes
      BY <3>1 DEF Boxes
    <3>3. QED
      BY <3>1, <3>2, NoTextWaits DEF Types, BoxType
  <2>6. CASE TrackersChange
    BY <2>6, Unchanged DEF TrackersChange
  <2>7. QED
    BY <2>1, <2>2, <2>3, <2>4, <2>5, <2>6
<1>2. ViewType' /\ selected' \in SUBSET Hash /\ DetailType' /\ TableType'
  BY FlushTypes, Unchanged
     DEF Types, OpenSearch, TypeText, DebounceFires, LeaveInput, CloseSearch,
         TrackersChange
<1>3. FetchType' /\ ScreenType'
  BY Unchanged
     DEF OpenSearch, TypeText, DebounceFires, LeaveInput, CloseSearch,
         TrackersChange
<1>4. version' \in Nat
  BY DEF Types, OpenSearch, TypeText, DebounceFires, LeaveInput, CloseSearch,
         TrackersChange
<1>5. QED
  BY <1>1, <1>2, <1>3, <1>4 DEF Types

LEMMA NextTypes == Types /\ [Next]_vars => Types'
<1> SUFFICES ASSUME Types, [Next]_vars PROVE Types'
  OBVIOUS
<1>1. CASE UNCHANGED vars
  BY <1>1, Unchanged DEF vars, Types
<1>2. CASE Next
  BY <1>2, RowsTypes, CursorTypes, FetchTypes, ResultTypes, ScreenTypes,
     SearchTypes DEF Next
<1>3. QED
  BY <1>1, <1>2

\* Every reachable state of the table and its screens is well typed, whatever
\* the torrents, filters, texts and bounds.
THEOREM FocusTypeCorrect == Spec => []TypeOK
<1>1. Init => Types
  BY InitTypes
<1>2. Types /\ [Next]_vars => Types'
  BY NextTypes
<1>3. Types => TypeOK
  BY TypesAreTypeOK
<1>4. QED
  BY <1>1, <1>2, <1>3, PTL DEF Spec

-----------------------------------------------------------------------------
(* The invariant of the detail requests.  A step does one of four things   *)
(* to them: nothing, give up the focus for another, start a fetch for the  *)
(* focused torrent, or move a fetch along.                                 *)

Requests == <<detailVars, fetches, pending, explain, version>>

LEMMA RequestTypes ==
  ASSUME Types
  PROVE  /\ requestId \in Nat /\ version \in Nat /\ pending \in Nat
         /\ details \in Details /\ focused \in Focus
         /\ \A f \in fetches : /\ f \in Fetch /\ f.id \in Nat /\ f.seen \in Nat
                               /\ f.hash \in Hash
         /\ details.seen \in Nat
BY DEF Types, DetailType, FetchType, ScreenType, Fetch, Details

LEMMA InitRequests == Init => RequestInv
<1> SUFFICES ASSUME Init PROVE RequestInv
  OBVIOUS
<1>1. fetches = {} /\ pending = 0 /\ requestId = 0 /\ version = 0
  BY DEF Init
<1>2. details = NoDetails /\ details.seen = 0 /\ ~failed
  BY DEF Init, NoDetails
<1>3. ~IsOpen("explain")
  BY DEF Init, IsOpen
<1>4. RequestsAreOrdered /\ NewestIsOfFocus /\ ReadingsAreOrdered
  BY <1>1, <1>2 DEF RequestsAreOrdered, NewestIsOfFocus, ReadingsAreOrdered
<1>5. QED
  BY <1>2, <1>3, <1>4
     DEF RequestInv, AwaitedIsOfFocus, DetailsAreOfFocus, FailureIsFinal,
         ExplainNamesItsTorrent

\* No request is touched, and no Explain screen opens.
LEMMA SameRequests ==
  ASSUME RequestInv, UNCHANGED Requests, IsOpen("explain")' => IsOpen("explain")
  PROVE  RequestInv'
BY DEF RequestInv, Requests, detailVars, RequestsAreOrdered, NewestIsOfFocus,
       ReadingsAreOrdered, AwaitedIsOfFocus, DetailsAreOfFocus, FailureIsFinal,
       ExplainNamesItsTorrent

Refocused ==
  /\ details' = NoDetails
  /\ failed' = FALSE
  /\ requestId' = requestId + 1

\* The focus goes: no fetch in flight is the newest request any more.
LEMMA NewFocus ==
  ASSUME Types, RequestInv, Refocused,
         UNCHANGED <<fetches, pending, explain, stack, version>>
  PROVE  RequestInv'
<1> USE RequestTypes DEF RequestInv
<1>1. requestId' = requestId + 1 /\ pending <= requestId
  BY DEF Refocused, RequestsAreOrdered
<1>2. \A f \in fetches : f.id <= requestId
  BY DEF RequestsAreOrdered
<1>3. RequestsAreOrdered'
  BY <1>1, <1>2 DEF RequestsAreOrdered
<1>4. NewestIsOfFocus'
  BY <1>1, <1>2 DEF NewestIsOfFocus
<1>5. ReadingsAreOrdered'
  <2>1. details'.seen = 0
    BY DEF Refocused, NoDetails
  <2>2. QED
    BY <1>1, <1>2, <2>1 DEF ReadingsAreOrdered, Refocused
<1>6. AwaitedIsOfFocus'
  BY <1>1 DEF AwaitedIsOfFocus
<1>7. DetailsAreOfFocus' /\ FailureIsFinal'
  BY DEF Refocused, DetailsAreOfFocus, FailureIsFinal
<1>8. ExplainNamesItsTorrent'
  BY DEF ExplainNamesItsTorrent, IsOpen
<1>9. QED
  BY <1>3, <1>4, <1>5, <1>6, <1>7, <1>8

\* A fetch starts: its id is new, its torrent the focused one.
LEMMA NewFetch ==
  ASSUME Types, RequestInv, BeginManual, StartFetch, UNCHANGED version,
         pending' <= requestId',
         AwaitedIsOfFocus', ExplainNamesItsTorrent'
  PROVE  RequestInv'
<1> USE RequestTypes DEF RequestInv
<1> DEFINE g == [id |-> requestId', hash |-> focused,
                 outcome |-> "running", seen |-> 0]
<1>1. requestId' = requestId + 1 /\ UNCHANGED <<focused, details>> /\ failed' = FALSE
  BY DEF BeginManual
<1>2. fetches' = fetches \cup {g}
  BY DEF StartFetch
<1>3. g.id = requestId + 1 /\ g.hash = focused /\ g.outcome = "running"
      /\ g.seen = 0
  BY <1>1
<1> HIDE DEF g
<1>4. \A f \in fetches : f.id <= requestId /\ f.id > 0
  BY DEF RequestsAreOrdered
<1>5. \A f \in fetches' : f = g \/ (f \in fetches /\ f.id # requestId')
  BY <1>1, <1>2, <1>4
<1>6. RequestsAreOrdered'
  <2>1. \A f \in fetches' : f.id > 0 /\ f.id <= requestId'
    BY <1>1, <1>3, <1>4, <1>5
  <2>2. \A f, h \in fetches' : f.id = h.id => f = h
    BY <1>1, <1>3, <1>5 DEF RequestsAreOrdered
  <2>3. QED
    BY <2>1, <2>2 DEF RequestsAreOrdered
<1>7. NewestIsOfFocus'
  BY <1>1, <1>3, <1>5 DEF NewestIsOfFocus
<1>8. ReadingsAreOrdered'
  <2>1. \A f \in fetches' : f.seen <= version
    BY <1>3, <1>5 DEF ReadingsAreOrdered
  <2>2. \A f \in fetches' : ~(f.id = requestId' /\ f.outcome = "ok")
    BY <1>3, <1>5
  <2>3. QED
    BY <1>1, <2>1, <2>2 DEF ReadingsAreOrdered
<1>9. DetailsAreOfFocus' /\ FailureIsFinal'
  BY <1>1 DEF DetailsAreOfFocus, FailureIsFinal
<1>10. QED
  BY <1>6, <1>7, <1>8, <1>9

\* Closing the top screen opens none, and closes an Explain screen on top.
LEMMA ClosingOpensNothing ==
  ASSUME Types, stack # << >>, stack' = CloseTop
  PROVE  ~IsOpen("explain")'
<1>1. stack \in Stacks
  BY DEF Types, ScreenType
<1>2. CASE Len(stack) = 1
  <2>1. stack' = << >>
    BY <1>1, <1>2 DEF CloseTop, Stacks
  <2>2. QED
    BY <2>1 DEF IsOpen
<1>3. CASE stack = <<"details", "explain">>
  <2>1. stack' = <<"details">>
    BY <1>3, ExplainOverDetails DEF CloseTop
  <2>2. QED
    BY <2>1 DEF IsOpen
<1>4. QED
  BY <1>1, <1>2, <1>3 DEF Stacks

\* The handlers that leave the focus alone or give it up.
LEMMA FocusSteps ==
  /\ ClearFocus => Refocused
  /\ \A h : FocusOn(h) => Refocused \/ UNCHANGED detailVars
  /\ ReconcileFocus => Refocused \/ UNCHANGED detailVars
  /\ Flush => Refocused \/ UNCHANGED detailVars
<1>1. ClearFocus => Refocused
  BY DEF ClearFocus, Refocused
<1>2. \A h : FocusOn(h) => Refocused \/ UNCHANGED detailVars
  BY DEF FocusOn, Refocused
<1>3. ReconcileFocus => Refocused \/ UNCHANGED detailVars
  BY <1>1 DEF ReconcileFocus
<1>4. Flush => Refocused \/ UNCHANGED detailVars
  BY <1>3 DEF Flush, SetSearch
<1>5. QED
  BY <1>1, <1>2, <1>3, <1>4

\* The steps that change the rows, the focus or the search.
LEMMA RowsRequests ==
  ASSUME Types, RequestInv,
         \/ Refresh \/ ApplyFilters \/ ApplySort \/ ResetView
         \/ RowHighlighted \/ DebounceFires \/ CloseSearch
  PROVE  RequestInv'
<1>1. UNCHANGED <<fetches, pending, explain, stack, version>>
  BY DEF Refresh, ApplyFilters, ApplySort, ResetView, RowHighlighted,
         DebounceFires, CloseSearch, fetchVars, screenVars
<1>2. Refocused \/ UNCHANGED detailVars
  BY FocusSteps
     DEF Refresh, ApplyFilters, ApplySort, ResetView, RowHighlighted,
         DebounceFires, CloseSearch
<1>3. CASE Refocused
  BY <1>1, <1>3, NewFocus
<1>4. CASE UNCHANGED detailVars
  BY <1>1, <1>4, SameRequests DEF Requests, IsOpen
<1>5. QED
  BY <1>2, <1>3, <1>4

\* The steps that neither move the focus nor fetch.
LEMMA QuietRequests ==
  ASSUME Types, RequestInv,
         \/ MoveCursor \/ ToggleSelection \/ SelectAll \/ OpenFilters
         \/ OpenSearch \/ TypeText \/ LeaveInput \/ DismissScreen
  PROVE  RequestInv'
<1>1. UNCHANGED Requests
  BY DEF MoveCursor, ToggleSelection, SelectAll, OpenFilters, OpenSearch,
         TypeText, LeaveInput, DismissScreen, Requests, fetchVars, screenVars
<1>2. IsOpen("explain")' => IsOpen("explain")
  <2>1. CASE DismissScreen
    BY <2>1, ClosingOpensNothing DEF DismissScreen
  <2>2. CASE OpenFilters
    BY <2>2 DEF OpenFilters, IsOpen
  <2>3. CASE UNCHANGED stack
    BY <2>3 DEF IsOpen
  <2>4. QED
    BY <2>1, <2>2, <2>3
       DEF MoveCursor, ToggleSelection, SelectAll, OpenSearch, TypeText,
           LeaveInput, screenVars
<1>3. QED
  BY <1>1, <1>2, SameRequests

\* A refresh of the details, under a screen that is not a new Explain.
LEMMA RefreshRequests ==
  ASSUME Types, RequestInv, RefreshDetails,
         UNCHANGED <<pending, explain, version>>,
         IsOpen("explain")' => IsOpen("explain")
  PROVE  RequestInv'
<1>1. pending' < requestId' /\ pending' # requestId'
  BY RequestTypes DEF RefreshDetails, BeginManual, RequestInv, RequestsAreOrdered
<1>2. AwaitedIsOfFocus'
  BY <1>1 DEF AwaitedIsOfFocus
<1>3. ExplainNamesItsTorrent'
  BY DEF RequestInv, ExplainNamesItsTorrent
<1>4. pending' <= requestId'
  BY RequestTypes DEF RefreshDetails, BeginManual, RequestInv, RequestsAreOrdered
<1>5. QED
  BY <1>2, <1>3, <1>4, NewFetch DEF RefreshDetails

LEMMA DetailScreenRequests ==
  ASSUME Types, RequestInv, PressRefresh \/ OpenDetails \/ RetryDetails
  PROVE  RequestInv'
<1>1. UNCHANGED <<pending, explain, version>>
  BY DEF PressRefresh, OpenDetails, RetryDetails, screenVars
<1>2. IsOpen("explain")' => IsOpen("explain")
  <2>1. CASE OpenDetails
    BY <2>1 DEF OpenDetails, IsOpen
  <2>2. CASE UNCHANGED stack
    BY <2>2 DEF IsOpen
  <2>3. QED
    BY <2>1, <2>2 DEF PressRefresh, RetryDetails, screenVars
<1>3. RefreshDetails \/ UNCHANGED <<detailVars, fetches>>
  BY DEF PressRefresh, OpenDetails, RetryDetails, fetchVars
<1>4. CASE RefreshDetails
  BY <1>1, <1>2, <1>4, RefreshRequests
<1>5. CASE UNCHANGED <<detailVars, fetches>>
  BY <1>1, <1>2, <1>5, SameRequests DEF Requests
<1>6. QED
  BY <1>3, <1>4, <1>5

\* The trackers change after every reading so far.
LEMMA TrackersRequests ==
  ASSUME Types, RequestInv, TrackersChange
  PROVE  RequestInv'
<1> USE RequestTypes DEF RequestInv
<1>1. version' = version + 1 /\ UNCHANGED <<detailVars, fetches, screenVars>>
  BY DEF TrackersChange, fetchVars
<1>2. ReadingsAreOrdered'
  BY <1>1 DEF ReadingsAreOrdered, detailVars
<1>3. RequestsAreOrdered' /\ NewestIsOfFocus'
  BY <1>1 DEF RequestsAreOrdered, NewestIsOfFocus, detailVars, screenVars
<1>4. AwaitedIsOfFocus' /\ ExplainNamesItsTorrent'
  BY <1>1 DEF AwaitedIsOfFocus, ExplainNamesItsTorrent, detailVars, screenVars,
              IsOpen
<1>5. DetailsAreOfFocus' /\ FailureIsFinal'
  BY <1>1 DEF DetailsAreOfFocus, FailureIsFinal, detailVars
<1>6. QED
  BY <1>2, <1>3, <1>4, <1>5

\* A fetch ends with the newest reading there is.
LEMMA ReturnRequests ==
  ASSUME Types, RequestInv, FetchReturns
  PROVE  RequestInv'
<1> USE RequestTypes DEF RequestInv
<1>1. PICK f \in fetches, o \in Outcome :
         /\ f.outcome = "running"
         /\ fetches' = (fetches \ {f}) \cup
              {[f EXCEPT !.outcome = o,
                         !.seen = IF o = "ok" THEN version ELSE 0]}
  BY DEF FetchReturns
<1> DEFINE g == [f EXCEPT !.outcome = o,
                          !.seen = IF o = "ok" THEN version ELSE 0]
<1>2. g.id = f.id /\ g.hash = f.hash /\ g.outcome = o
      /\ g.seen = (IF o = "ok" THEN version ELSE 0)
  BY DEF Fetch
<1>3. fetches' = (fetches \ {f}) \cup {g}
  BY <1>1
<1> HIDE DEF g
<1>4. UNCHANGED <<detailVars, screenVars, version>>
  BY DEF FetchReturns
<1>5. RequestsAreOrdered'
  BY <1>2, <1>3, <1>4 DEF RequestsAreOrdered, detailVars, screenVars
<1>6. NewestIsOfFocus'
  BY <1>2, <1>3, <1>4 DEF NewestIsOfFocus, detailVars
<1>7. ReadingsAreOrdered'
  <2>1. g.seen <= version /\ (g.outcome = "ok" => details.seen <= g.seen)
    BY <1>2 DEF ReadingsAreOrdered
  <2>2. QED
    BY <1>3, <1>4, <2>1 DEF ReadingsAreOrdered, detailVars
<1>8. AwaitedIsOfFocus' /\ ExplainNamesItsTorrent'
  BY <1>4 DEF AwaitedIsOfFocus, ExplainNamesItsTorrent, detailVars, screenVars,
              IsOpen
<1>9. DetailsAreOfFocus'
  BY <1>4 DEF DetailsAreOfFocus, detailVars
<1>10. FailureIsFinal'
  BY <1>2, <1>3, <1>4 DEF FailureIsFinal, detailVars
<1>11. QED
  BY <1>5, <1>6, <1>7, <1>8, <1>9, <1>10

\* What is published by the result of f: nothing, unless f is the newest.
LEMMA PublishRequests ==
  ASSUME Types, RequestInv, NEW f \in fetches,
         fetches' = fetches \ {f}, UNCHANGED version, pending' <= requestId,
         Publish(f) \/ (UNCHANGED detailVars /\ ~failed')
  PROVE  /\ RequestsAreOrdered' /\ NewestIsOfFocus' /\ ReadingsAreOrdered'
         /\ DetailsAreOfFocus' /\ FailureIsFinal'
<1> USE RequestTypes DEF RequestInv
<1>1. UNCHANGED <<focused, requestId>>
  BY DEF Publish, detailVars
<1>2. f.id = requestId => \A g \in fetches' : g.id # requestId
  BY DEF RequestsAreOrdered
<1>3. \/ details' = details
      \/ /\ f.id = requestId /\ f.outcome = "ok"
         /\ details' = [hash |-> f.hash, seen |-> f.seen]
  BY DEF Publish, IsCurrent, detailVars
<1>4. RequestsAreOrdered'
  BY <1>1 DEF RequestsAreOrdered
<1>5. NewestIsOfFocus'
  BY <1>1 DEF NewestIsOfFocus
<1>6. ReadingsAreOrdered'
  <2>1. CASE details' = details
    BY <1>1, <2>1 DEF ReadingsAreOrdered
  <2>2. CASE /\ f.id = requestId /\ f.outcome = "ok"
             /\ details' = [hash |-> f.hash, seen |-> f.seen]
    <3>1. details'.hash # NoHash
      BY <2>2, FocusAssumption
    <3>2. details'.seen <= version'
      BY <2>2 DEF ReadingsAreOrdered
    <3>3. \A g \in fetches' : g.id # requestId' /\ g.seen <= version'
      BY <1>1, <1>2, <2>2 DEF ReadingsAreOrdered
    <3>4. QED
      BY <3>1, <3>2, <3>3 DEF ReadingsAreOrdered
  <2>3. QED
    BY <1>3, <2>1, <2>2
<1>7. DetailsAreOfFocus'
  BY <1>1, <1>3 DEF DetailsAreOfFocus, NewestIsOfFocus
<1>8. FailureIsFinal'
  <2>1. CASE f.id = requestId
    BY <1>1, <1>2, <2>1 DEF FailureIsFinal
  <2>2. CASE f.id # requestId
    BY <1>1, <2>2 DEF FailureIsFinal, Publish, IsCurrent, detailVars
  <2>3. QED
    BY <2>1, <2>2
<1>9. QED
  BY <1>4, <1>5, <1>6, <1>7, <1>8

\* The Explain screen that awaited f was opened for the torrent f was about.
LEMMA ResolveRequests ==
  ASSUME Types, RequestInv, NEW f \in fetches, Publish(f), ResolveExplain(f)
  PROVE  /\ pending' <= requestId
         /\ AwaitedIsOfFocus' /\ ExplainNamesItsTorrent'
<1> USE RequestTypes DEF RequestInv
<1>1. UNCHANGED <<focused, requestId>> /\ pending <= requestId /\ f.id > 0
      /\ f.id <= requestId
  BY DEF Publish, RequestsAreOrdered
<1>2. CASE pending # f.id
  <2>1. UNCHANGED screenVars
    BY <1>2 DEF ResolveExplain
  <2>2. QED
    BY <1>1, <2>1
       DEF screenVars, AwaitedIsOfFocus, ExplainNamesItsTorrent, IsOpen
<1>3. CASE pending = f.id
  <2>1. pending' = 0 /\ pending' # requestId'
    BY <1>1, <1>3 DEF ResolveExplain
  <2>2. AwaitedIsOfFocus'
    BY <2>1 DEF AwaitedIsOfFocus
  <2>3. CASE IsOpen("explain") /\ Awaited(f) /\ focused \in raw
    <3>1. explain' = [explain EXCEPT !.report = Report] /\ stack' = stack
      BY <1>3, <2>3 DEF ResolveExplain
    <3>2. explain.title = focused
      BY <1>3, <2>3 DEF Awaited, AwaitedIsOfFocus
    <3>3. explain'.title = focused /\ explain'.report.hash = focused
      BY <3>1, <3>2 DEF Report, Types, ScreenType
    <3>4. QED
      BY <1>1, <2>1, <2>2, <3>3 DEF ExplainNamesItsTorrent
  <2>4. CASE IsOpen("explain") /\ Awaited(f) /\ focused \notin raw
    <3>1. stack' = CloseTop
      BY <1>3, <2>4 DEF ResolveExplain
    <3>2. stack # << >>
      BY <2>4, StackType
    <3>3. ~IsOpen("explain")'
      BY <3>1, <3>2, ClosingOpensNothing
    <3>4. QED
      BY <1>1, <2>1, <2>2, <3>3 DEF ExplainNamesItsTorrent
  <2>5. CASE ~(IsOpen("explain") /\ Awaited(f))
    <3>1. UNCHANGED <<explain, stack>>
      BY <1>3, <2>5 DEF ResolveExplain
    <3>2. ExplainNamesItsTorrent'
      BY <3>1 DEF ExplainNamesItsTorrent, IsOpen
    <3>3. QED
      BY <1>1, <2>1, <2>2, <3>2
  <2>6. QED
    BY <2>3, <2>4, <2>5
<1>4. QED
  BY <1>2, <1>3

LEMMA ResultRequests ==
  ASSUME Types, RequestInv, DetailResult
  PROVE  RequestInv'
<1>1. PICK f \in fetches :
         /\ fetches' = fetches \ {f}
         /\ \/ IsCurrent(f) /\ UNCHANGED <<detailVars, screenVars>>
            \/ Publish(f) /\ ResolveExplain(f)
  BY DEF DetailResult
<1>2. UNCHANGED version
  BY DEF DetailResult
<1>3. CASE Publish(f) /\ ResolveExplain(f)
  BY <1>1, <1>2, <1>3, PublishRequests, ResolveRequests DEF RequestInv
<1>4. CASE IsCurrent(f) /\ UNCHANGED <<detailVars, screenVars>>
  <2>1. ~failed' /\ UNCHANGED detailVars
    BY <1>4 DEF RequestInv, FailureIsFinal, IsCurrent, detailVars
  <2>2. pending' <= requestId
    BY <1>4 DEF RequestInv, RequestsAreOrdered, screenVars
  <2>3. AwaitedIsOfFocus' /\ ExplainNamesItsTorrent'
    BY <1>4 DEF RequestInv, AwaitedIsOfFocus, ExplainNamesItsTorrent, IsOpen,
                detailVars, screenVars
  <2>4. QED
    BY <1>1, <1>2, <2>1, <2>2, <2>3, PublishRequests DEF RequestInv
<1>5. QED
  BY <1>1, <1>3, <1>4

LEMMA ExplainRequests ==
  ASSUME Types, RequestInv, OpenExplain
  PROVE  RequestInv'
<1> USE RequestTypes
<1>1. UNCHANGED <<focused, version>>
  BY DEF OpenExplain, detailVars, BeginManual
<1>2. explain'.title = focused'
  BY <1>1 DEF OpenExplain
<1>3. AwaitedIsOfFocus'
  BY <1>2 DEF AwaitedIsOfFocus
<1>4. ExplainNamesItsTorrent'
  <2>1. explain'.report # NoReport => explain'.report.hash = focused
    BY DEF OpenExplain
  <2>2. QED
    BY <1>1, <1>2, <2>1 DEF ExplainNamesItsTorrent
<1>5. CASE BeginManual /\ StartFetch /\ pending' = requestId'
  <2>1. pending' <= requestId'
    BY <1>5 DEF BeginManual
  <2>2. QED
    BY <1>1, <1>3, <1>4, <1>5, <2>1, NewFetch
<1>6. CASE UNCHANGED <<detailVars, fetches>> /\ pending' \in {pending, requestId}
  <2>1. pending' <= requestId
    BY <1>6 DEF RequestInv, RequestsAreOrdered
  <2>2. RequestsAreOrdered'
    BY <1>6, <2>1 DEF RequestInv, RequestsAreOrdered, detailVars
  <2>3. NewestIsOfFocus' /\ ReadingsAreOrdered'
    BY <1>1, <1>6
       DEF RequestInv, NewestIsOfFocus, ReadingsAreOrdered, detailVars
  <2>4. DetailsAreOfFocus' /\ FailureIsFinal'
    BY <1>6 DEF RequestInv, DetailsAreOfFocus, FailureIsFinal, detailVars
  <2>5. QED
    BY <1>3, <1>4, <2>2, <2>3, <2>4 DEF RequestInv
<1>7. QED
  BY <1>5, <1>6 DEF OpenExplain, fetchVars

-----------------------------------------------------------------------------
(* The theorems. *)

LEMMA NextRequests == Types /\ RequestInv /\ [Next]_vars => RequestInv'
<1> SUFFICES ASSUME Types, RequestInv, [Next]_vars PROVE RequestInv'
  OBVIOUS
<1>1. CASE UNCHANGED vars
  <2>1. UNCHANGED Requests /\ stack' = stack
    BY <1>1 DEF vars, Requests, fetchVars, screenVars
  <2>2. QED
    BY <2>1, SameRequests DEF IsOpen
<1>2. CASE Next
  BY <1>2, RowsRequests, QuietRequests, DetailScreenRequests, TrackersRequests,
     ReturnRequests, ResultRequests, ExplainRequests DEF Next
<1>3. QED
  BY <1>1, <1>2

\* However fetches, focus changes and screens interleave, request ids stay
\* unique and the newest one is about the focused torrent; so what
\* apply_tracker_details_success and _maybe_resolve_pending_explain compare
\* is enough to keep a torrent's details and reports to itself.
THEOREM RequestInvariant == Spec => []RequestInv
<1>1. Init => Types /\ RequestInv
  BY InitTypes, InitRequests
<1>2. (Types /\ RequestInv) /\ [Next]_vars => (Types /\ RequestInv)'
  BY NextTypes, NextRequests
<1>3. QED
  BY <1>1, <1>2, PTL DEF Spec

\* The details on display are always those of the focused torrent: the
\* comparison of request ids in apply_tracker_details_success stands in for
\* the comparison of hashes the code does not make.
THEOREM DetailsBelongToFocus == Spec => []DetailsAreOfFocus
<1>1. RequestInv => DetailsAreOfFocus
  BY DEF RequestInv
<1>2. QED
  BY <1>1, RequestInvariant, PTL

\* The report on an Explain screen is always about the torrent of its title,
\* whatever was focused while _maybe_resolve_pending_explain waited.
THEOREM ReportsBelongToTitles == Spec => []ExplainNamesItsTorrent
<1>1. RequestInv => ExplainNamesItsTorrent
  BY DEF RequestInv
<1>2. QED
  BY <1>1, RequestInvariant, PTL

\* Only three kinds of step touch the details: they are kept, dropped, or
\* replaced by what the newest request read.
LEMMA DetailSteps ==
  ASSUME Types, [Next]_vars
  PROVE  \/ details' = details
         \/ details' = NoDetails
         \/ \E f \in fetches : /\ f.id = requestId /\ f.outcome = "ok"
                               /\ details' = [hash |-> f.hash, seen |-> f.seen]
<1>1. CASE UNCHANGED vars
  BY <1>1 DEF vars, detailVars
<1>2. CASE Refresh \/ ApplyFilters \/ ApplySort \/ ResetView \/ RowHighlighted
           \/ DebounceFires \/ CloseSearch
  <2>1. Refocused \/ UNCHANGED detailVars
    BY <1>2, FocusSteps
       DEF Refresh, ApplyFilters, ApplySort, ResetView, RowHighlighted,
           DebounceFires, CloseSearch
  <2>2. QED
    BY <2>1 DEF Refocused, detailVars
<1>3. CASE DetailResult
  BY <1>3 DEF DetailResult, Publish, IsCurrent, detailVars
<1>4. CASE PressRefresh \/ OpenDetails \/ RetryDetails \/ OpenExplain
  BY <1>4 DEF PressRefresh, OpenDetails, RetryDetails, OpenExplain,
              RefreshDetails, BeginManual, detailVars
<1>5. CASE MoveCursor \/ ToggleSelection \/ SelectAll \/ FetchReturns
           \/ OpenFilters \/ DismissScreen \/ OpenSearch \/ TypeText
           \/ LeaveInput \/ TrackersChange
  BY <1>5 DEF MoveCursor, ToggleSelection, SelectAll, FetchReturns, OpenFilters,
              DismissScreen, OpenSearch, TypeText, LeaveInput, TrackersChange,
              detailVars
<1>6. QED
  BY <1>1, <1>2, <1>3, <1>4, <1>5 DEF Next

\* Refreshing a torrent's details never brings back an older reading: the ids
\* of begin_manual_detail_refresh order readings as well as torrents.
THEOREM ReadingsNeverGoBack == Spec => LatestReadingWins
<1>1. ASSUME Types, RequestInv, [Next]_vars, details.hash = details'.hash
      PROVE  details'.seen >= details.seen
  <2> USE RequestTypes
  <2>1. CASE details' = details
    BY <1>1, <2>1
  <2>2. CASE details' = NoDetails
    <3>1. details = NoDetails
      BY <1>1, <2>2 DEF RequestInv, ReadingsAreOrdered, NoDetails
    <3>2. QED
      BY <1>1, <2>2, <3>1
  <2>3. ASSUME NEW f \in fetches, f.id = requestId, f.outcome = "ok",
               details' = [hash |-> f.hash, seen |-> f.seen]
        PROVE  details'.seen >= details.seen
    <3>1. details.seen <= f.seen /\ details'.seen = f.seen
      BY <1>1, <2>3 DEF RequestInv, ReadingsAreOrdered
    <3>2. f.seen \in Nat /\ details.seen \in Nat
      BY <1>1
    <3>3. QED
      BY <3>1, <3>2
  <2>4. QED
    BY <1>1, <2>1, <2>2, <2>3, DetailSteps
<1>2. Types /\ RequestInv /\ [Next]_vars =>
        [details.hash = details'.hash => details'.seen >= details.seen]_vars
  BY <1>1
<1>3. Spec => []Types
  BY InitTypes, NextTypes, PTL DEF Spec
<1>4. QED
  BY <1>2, <1>3, RequestInvariant, PTL DEF Spec, LatestReadingWins

-----------------------------------------------------------------------------
(* The rows, the cursor and the focus. *)

LEMMA SameRows ==
  ASSUME Types, ViewType', Rows' = Rows
  PROVE  Visible' = Visible
<1>1. Visible \subseteq Hash /\ \A h \in Hash : rank[h] \in Nat
  BY DEF Types, ViewType, Visible
<1>2. Visible' \subseteq Hash /\ \A h \in Hash : rank'[h] \in Nat
  BY DEF ViewType, Visible
<1>3. \A h : h \in Visible <=> <<h, h>> \in Rows
  BY <1>1 DEF Rows
<1>4. \A h : h \in Visible' <=> <<h, h>> \in Rows'
  BY <1>2 DEF Rows
<1>5. QED
  BY <1>3, <1>4

\* Where the focus will be once the queued highlights are handled.
Pointed == IF events = << >> THEN focused ELSE events[Len(events)]

\* The cursor is on a row, and is where the focus is heading.
CursorInv == Visible # {} => cursor \in Visible /\ Pointed = cursor

LEMMA RebuildPoints ==
  ASSUME Types, ViewType', DetailType', Rebuild
  PROVE  CursorInv'
<1>1. SUFFICES ASSUME Visible' # {}
               PROVE  cursor' \in Visible' /\ Pointed' = cursor'
  BY DEF CursorInv
<1>2. PICK h \in Top' :
         /\ cursor' = IF focused' \in Visible' THEN focused' ELSE h
         /\ events' = events \o Posted(h)
  BY <1>1 DEF Rebuild
<1>3. h \in Visible' /\ h \in Focus
  BY <1>2 DEF Top, Visible, ViewType, Focus
<1>4. events \in Seq(Focus) /\ focused' \in Focus
  BY DEF Types, TableType, DetailType
<1>5. Posted(h) \in Seq(Focus) /\ Posted(h) # << >>
      /\ Posted(h)[Len(Posted(h))] = cursor'
  <2>1. CASE focused' \in Visible' \ {h}
    <3>1. Posted(h) = <<h, focused'>>
      BY <2>1 DEF Posted
    <3>2. cursor' = focused'
      BY <1>2, <2>1
    <3>3. QED
      BY <1>3, <1>4, <3>1, <3>2
  <2>2. CASE focused' \notin Visible' \ {h}
    <3>1. Posted(h) = <<h>>
      BY <2>2 DEF Posted
    <3>2. cursor' = h
      BY <1>2, <2>2
    <3>3. QED
      BY <1>3, <3>1, <3>2
  <2>3. QED
    BY <2>1, <2>2
<1>6. events' # << >> /\ events'[Len(events')] = cursor'
  <2> DEFINE s == Posted(h)
  <2>1. s \in Seq(Focus) /\ s # << >> /\ s[Len(s)] = cursor'
    BY <1>5
  <2>2. events' = events \o s
    BY <1>2
  <2> HIDE DEF s
  <2>3. QED
    BY <1>4, <2>1, <2>2
<1>7. cursor' \in Visible'
  BY <1>2, <1>3
<1>8. QED
  BY <1>6, <1>7 DEF Pointed

LEMMA RenderPoints ==
  ASSUME Types, CursorInv, ViewType', DetailType', Render,
         ReconcileFocus \/ UNCHANGED detailVars
  PROVE  CursorInv'
<1>1. CASE Rows' # Rows
  BY <1>1, RebuildPoints DEF Render
<1>2. CASE Rows' = Rows
  <2>1. Visible' = Visible /\ UNCHANGED <<cursor, events>>
    BY <1>2, SameRows DEF Render, tableVars
  <2>2. SUFFICES ASSUME Visible # {}
                 PROVE  cursor \in Visible /\ Pointed' = cursor
    BY <2>1 DEF CursorInv
  <2>3. cursor \in Visible /\ Pointed = cursor
    BY <2>2 DEF CursorInv
  <2>4. CASE events = << >>
    <3>1. focused = cursor
      BY <2>3, <2>4 DEF Pointed
    <3>2. focused' = focused
      BY <2>1, <2>3, <3>1 DEF ReconcileFocus, detailVars
    <3>3. QED
      BY <2>1, <2>3, <2>4, <3>1, <3>2 DEF Pointed
  <2>5. CASE events # << >>
    BY <2>1, <2>3, <2>5 DEF Pointed
  <2>6. QED
    BY <2>4, <2>5
<1>3. QED
  BY <1>1, <1>2

LEMMA SamePoint ==
  ASSUME CursorInv, UNCHANGED <<viewVars, cursor, events, focused>>
  PROVE  CursorInv'
BY DEF CursorInv, Pointed, Visible, viewVars

LEMMA FlushPoints ==
  ASSUME Types, Types', CursorInv, Flush
  PROVE  CursorInv'
<1>1. CASE debounce = NoText
  BY <1>1, SamePoint DEF Flush, detailVars, tableVars
<1>2. CASE SetSearch(debounce)
  BY <1>2, RenderPoints DEF SetSearch, Types
<1>3. QED
  BY <1>1, <1>2 DEF Flush

LEMMA HighlightPoints ==
  ASSUME Types, CursorInv, RowHighlighted
  PROVE  CursorInv'
<1>1. /\ events \in Seq(Focus) /\ events # << >> /\ events' = Tail(events)
      /\ UNCHANGED <<viewVars, cursor>>
  BY DEF Types, TableType, RowHighlighted
<1>2. Visible' = Visible
  BY <1>1 DEF Visible, viewVars
<1>3. SUFFICES ASSUME Visible # {}
               PROVE  Pointed' = cursor
  BY <1>1, <1>2 DEF CursorInv
<1>4. cursor \in Visible /\ events[Len(events)] = cursor
  BY <1>1, <1>3 DEF CursorInv, Pointed
<1>5. CASE Len(events) = 1
  <2>1. Head(events) = cursor /\ events' = << >>
    BY <1>1, <1>4, <1>5
  <2>2. cursor # NoHash
    BY <1>4, FocusAssumption DEF Types, ViewType, Visible
  <2>3. FocusOn(cursor)
    BY <2>1, <2>2 DEF RowHighlighted
  <2>4. focused' = cursor
    BY <2>3 DEF FocusOn, detailVars
  <2>5. QED
    BY <1>1, <2>1, <2>4 DEF Pointed
<1>6. CASE Len(events) # 1
  <2> DEFINE n == Len(events)
  <2>1. n \in Nat /\ n > 0 /\ n # 1
    BY <1>1, <1>6
  <2>2. /\ Len(events') = n - 1
        /\ \A i \in 1..(n - 1) : events'[i] = events[i + 1]
    BY <1>1
  <2> HIDE DEF n
  <2>3. events' # << >>
    <3>1. Len(events') # 0
      BY <2>1, <2>2
    <3>2. QED
      BY <3>1
  <2>4. events' # << >> /\ events'[Len(events')] = events[Len(events)]
    <3>1. n - 1 \in 1..(n - 1) /\ (n - 1) + 1 = n
      BY <2>1
    <3>2. QED
      BY <2>2, <2>3, <3>1 DEF n
  <2>5. QED
    BY <1>1, <1>4, <2>4 DEF Pointed
<1>7. QED
  BY <1>5, <1>6

LEMMA NextPoints ==
  ASSUME Types, CursorInv, [Next]_vars
  PROVE  CursorInv'
<1>1. Types'
  BY NextTypes
<1>2. CASE Refresh \/ ApplyFilters \/ ApplySort \/ ResetView
  <2>1. \/ Render /\ (ReconcileFocus \/ UNCHANGED detailVars)
        \/ Rebuild
    BY <1>2 DEF Refresh, ApplyFilters, ApplySort, ResetView
  <2>2. QED
    BY <1>1, <2>1, RenderPoints, RebuildPoints DEF Types
<1>3. CASE MoveCursor
  <2>1. PICK h \in Visible : cursor' = h /\ events' = Append(events, h)
    BY <1>3 DEF MoveCursor
  <2>2. Visible' = Visible /\ events \in Seq(Focus) /\ h \in Focus
    BY <1>3 DEF MoveCursor, Visible, viewVars, Types, TableType, ViewType, Focus
  <2>3. events' # << >> /\ events'[Len(events')] = h
    BY <2>1, <2>2
  <2>4. QED
    BY <2>1, <2>2, <2>3 DEF CursorInv, Pointed
<1>4. CASE RowHighlighted
  BY <1>4, HighlightPoints
<1>5. CASE DebounceFires \/ CloseSearch
  BY <1>1, <1>5, FlushPoints DEF DebounceFires, CloseSearch
<1>6. CASE DetailResult
  <2>1. UNCHANGED <<viewVars, tableVars, focused>>
    BY <1>6 DEF DetailResult, Publish, detailVars
  <2>2. QED
    BY <2>1, SamePoint DEF tableVars
<1>7. CASE \/ ToggleSelection \/ SelectAll \/ PressRefresh \/ OpenDetails
           \/ RetryDetails \/ FetchReturns \/ OpenExplain \/ OpenFilters
           \/ DismissScreen \/ OpenSearch \/ TypeText \/ LeaveInput
           \/ TrackersChange \/ UNCHANGED vars
  <2>1. UNCHANGED <<viewVars, tableVars>>
    BY <1>7 DEF ToggleSelection, SelectAll, PressRefresh, OpenDetails,
       RetryDetails, FetchReturns, OpenExplain, OpenFilters, DismissScreen,
       OpenSearch, TypeText, LeaveInput, TrackersChange, vars
  <2>2. UNCHANGED focused
    BY <1>7 DEF ToggleSelection, SelectAll, PressRefresh, OpenDetails,
       RetryDetails, FetchReturns, OpenExplain, OpenFilters, DismissScreen,
       OpenSearch, TypeText, LeaveInput, TrackersChange, vars, detailVars,
       RefreshDetails, BeginManual
  <2>3. QED
    BY <2>1, <2>2, SamePoint DEF tableVars
<1>8. QED
  BY <1>2, <1>3, <1>4, <1>5, <1>6, <1>7 DEF Next

(***************************************************************************)
(* on_data_table_row_highlighted and _render_table: whatever refreshes,    *)
(* filters, orders and searches rebuild the table, and whatever highlights *)
(* the rebuilds queue behind one another, the focus ends up on the row     *)
(* under the cursor.                                                       *)
(***************************************************************************)
THEOREM FocusEndsOnCursor == Spec => []FocusFollowsCursor
<1>1. Init => Types /\ CursorInv
  <2>1. Init => CursorInv
    BY DEF Init, CursorInv, Visible
  <2>2. QED
    BY <2>1, InitTypes
<1>2. (Types /\ CursorInv) /\ [Next]_vars => (Types /\ CursorInv)'
  BY NextTypes, NextPoints
<1>3. CursorInv => FocusFollowsCursor
  BY DEF CursorInv, Pointed, FocusFollowsCursor
<1>4. QED
  BY <1>1, <1>2, <1>3, PTL DEF Spec

-----------------------------------------------------------------------------
(* What a step that hides rows leaves behind. *)

Dropped ==
  ~(Visible \subseteq Visible') =>
     selected' \subseteq Visible' /\ focused' \in Visible' \cup {NoHash}

LEMMA ReconcileDrops ==
  ASSUME ReconcileFocus, ReconcileSelection \/ selected' = {}
  PROVE  Dropped
<1>1. focused' \in Visible' \cup {NoHash}
  BY DEF ReconcileFocus, ClearFocus, detailVars
<1>2. QED
  BY <1>1 DEF Dropped, ReconcileSelection

(***************************************************************************)
(* _reconcile_focus and reconcile_selection: any step that takes a row     *)
(* away, by a refresh, a filter, a search or a reset, drops it from the    *)
(* selection and takes the focus off it in that same step.                 *)
(***************************************************************************)
THEOREM HiddenRowsGo == Spec => HiddenRowsAreDropped
<1>1. [Next]_vars => Dropped
  <2> SUFFICES ASSUME [Next]_vars PROVE Dropped
    OBVIOUS
  <2>1. CASE Refresh \/ ApplyFilters \/ ResetView
    BY <2>1, ReconcileDrops DEF Refresh, ApplyFilters, ResetView
  <2>2. CASE DebounceFires \/ CloseSearch
    <3>1. CASE UNCHANGED viewVars
      BY <3>1 DEF Dropped, Visible, viewVars
    <3>2. CASE SetSearch(debounce)
      BY <3>2, ReconcileDrops DEF SetSearch
    <3>3. QED
      BY <2>2, <3>1, <3>2 DEF DebounceFires, CloseSearch, Flush
  <2>3. CASE UNCHANGED <<raw, filters, search>>
    BY <2>3 DEF Dropped, Visible
  <2>4. QED
    BY <2>1, <2>2, <2>3 DEF Next, ApplySort, MoveCursor, RowHighlighted,
       ToggleSelection, SelectAll, PressRefresh, OpenDetails, RetryDetails,
       FetchReturns, DetailResult, OpenExplain, OpenFilters, DismissScreen,
       OpenSearch, TypeText, LeaveInput, TrackersChange, vars, viewVars
<1>2. [Next]_vars => [Dropped]_vars
  BY <1>1
<1>3. QED
  BY <1>2, PTL DEF Spec, HiddenRowsAreDropped, Dropped

-----------------------------------------------------------------------------
(* The search box and its debounce timer. *)

\* A running timer holds the text of an open input; none runs once the text
\* is searched for.
SearchInv ==
  IF debounce = NoText THEN typed = search
  ELSE typed = debounce /\ box # "closed"

LEMMA NextSearch ==
  ASSUME SearchInv, [Next]_vars
  PROVE  SearchInv'
<1>1. CASE OpenSearch
  BY <1>1 DEF OpenSearch, SearchInv, viewVars
<1>2. CASE TypeText
  <2>1. PICK text \in Text : typed' = text /\ debounce' = text
    BY <1>2 DEF TypeText
  <2>2. box' = "focused" /\ text # NoText
    BY <1>2, FocusAssumption DEF TypeText
  <2>3. QED
    BY <2>1, <2>2 DEF SearchInv
<1>3. CASE DebounceFires \/ CloseSearch
  <2>1. typed' = typed /\ debounce' = NoText /\ Flush
    BY <1>3 DEF DebounceFires, CloseSearch
  <2>2. CASE debounce = NoText
    BY <2>1, <2>2 DEF SearchInv, Flush, viewVars
  <2>3. CASE debounce # NoText
    BY <2>1, <2>3 DEF SearchInv, Flush, SetSearch
  <2>4. QED
    BY <2>2, <2>3
<1>4. CASE LeaveInput
  BY <1>4 DEF LeaveInput, SearchInv, viewVars
<1>5. CASE UNCHANGED <<boxVars, search>>
  BY <1>5 DEF SearchInv, boxVars
<1>6. QED
  BY <1>1, <1>2, <1>3, <1>4, <1>5 DEF Next, Refresh, ApplyFilters, ResetView,
     ApplySort, MoveCursor, RowHighlighted, ToggleSelection, SelectAll,
     PressRefresh, OpenDetails, RetryDetails, FetchReturns, DetailResult,
     OpenExplain, OpenFilters, DismissScreen, TrackersChange, vars, viewVars

(***************************************************************************)
(* _flush_pending_search: whichever comes first of the debounce timer,     *)
(* Escape, a change of workspace and another keystroke, the text in the    *)
(* search input is searched for or still held by the timer.                *)
(***************************************************************************)
THEOREM KeystrokesAreKept == Spec => []NoKeystrokeIsLost
<1>1. Init => SearchInv
  BY DEF Init, SearchInv
<1>2. SearchInv /\ [Next]_vars => SearchInv'
  BY NextSearch
<1>3. SearchInv => NoKeystrokeIsLost
  BY DEF SearchInv, NoKeystrokeIsLost
<1>4. QED
  BY <1>1, <1>2, <1>3, PTL DEF Spec
=============================================================================
