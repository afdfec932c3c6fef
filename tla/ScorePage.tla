------------------------------- MODULE ScorePage -------------------------------
(***************************************************************************)
(* The scores page (apps/web/src/components/ScoresPage.tsx).  What it asks *)
(* for follows the buttons, the filters and the windows the server scores; *)
(* its lists are answered each at a moment of its own, and patched by live *)
(* score updates in between.  The server's scores are those of a coin in a *)
(* window: a net score and how far it moved.  The market regime, shown as  *)
(* it is answered, is one answer more and left out.                        *)
(***************************************************************************)
EXTENDS DataPages, Collections

CONSTANTS
  DefaultScoreWindows, ServerScoreWindows,   \* minutes
  PreferredWindow,       \* 15 in defaultScoreWindow()
  ScoredCoins, Nets,     \* the server's scores
  NetsAtMount,           \* those when the page is opened
  NarrowCoins,           \* the coins that pass the filters of a query
  FeedKeysOf,            \* of a coin, the feeds its evidence is from
  ConfidenceOptions,
  FilterChoices,         \* [classes, exchanges, markets] the header may choose
  TopLimit, CurrentLimit,        \* 10 and 50
  MaxChanges                     \* bound of the model, on what the server changes

VARIABLES
  board,      \* the server's scores, and the version of their configuration
  scores,     \* the page
  detail      \* ScoreDetailPanel, when a coin is selected

scoreVars == <<board, scores, detail>>

ASSUME ScorePageAssumption ==
  /\ IsFiniteSet(ScoredCoins) /\ NarrowCoins \subseteq ScoredCoins
  /\ Nets \subseteq Int /\ NetsAtMount \in [ScoredCoins -> Nets]
  /\ TopLimit \in Nat /\ CurrentLimit \in Nat /\ IsFiniteSet(ServerScoreWindows)

Boards == {"bull", "bear", "current"}
NoWindow == 0
NoUpdate == [version |-> 0, rows |-> {}]

LeastOf(S) == CHOOSE x \in S : \A y \in S : x <= y
DefaultScoreWindow(windows) ==
  IF PreferredWindow \in windows THEN PreferredWindow ELSE LeastOf(windows)

-----------------------------------------------------------------------------
(* The server *)

Row(coin, window) ==
  [coin |-> coin, window |-> window, version |-> board.version, feedKeys |-> FeedKeysOf[coin],
   net |-> board.net[coin], delta |-> board.delta[coin]]

(* The order of the page, compareBullScores() and its like, and that of    *)
(* the server, orderByForSide(); of rows that tie, either is first.        *)
Size(n) == IF n < 0 THEN -n ELSE n
SortKey(kind, row) ==
  CASE kind = "bull" -> <<-row.net>>
    [] kind = "bear" -> <<row.net>>
    [] kind = "current" -> <<-row.delta, -Size(row.net)>>
ServerKey(kind, row) == IF kind = "current" THEN <<-Size(row.net)>> ELSE SortKey(kind, row)

Directional(kind, row) ==
  CASE kind = "bull" -> row.net > 0
    [] kind = "bear" -> row.net < 0
    [] kind = "current" -> TRUE
BoardLimit(kind) == IF kind = "current" THEN CurrentLimit ELSE TopLimit
Sided(kind, rows) == {r \in rows : Directional(kind, r)}
Limited(kind, keys) == FirstOf(SortedBy(keys), BoardLimit(kind))
Ranked(kind, rows) == Limited(kind, [r \in Sided(kind, rows) |-> SortKey(kind, r)])
Served(kind, rows) == Limited(kind, [r \in Sided(kind, rows) |-> ServerKey(kind, r)])

ScoreAnswer(kind, query) ==
  LET window == IF query.window = NoWindow THEN DefaultScoreWindow(ServerScoreWindows)
                ELSE query.window
      coins == IF query.confidence > 0 \/ query.since \/ query.halal
               THEN NarrowCoins ELSE ScoredCoins
  IN [query |-> query, window |-> window, version |-> board.version,
      rows |-> Served(kind, {Row(c, window) : c \in coins})]

-----------------------------------------------------------------------------
(* What the page asks for *)

(* Until the server says which windows it scores, the page asks for none.  *)
ScoreWindows(page) == IF page.configured THEN ServerScoreWindows ELSE DefaultScoreWindows
WindowMinutes(page) ==
  IF page.selected \in ScoreWindows(page) THEN page.selected
  ELSE DefaultScoreWindow(ScoreWindows(page))
BaseQuery(page) ==
  [window |-> IF page.configured THEN WindowMinutes(page) ELSE NoWindow,
   confidence |-> page.confidence, since |-> page.since,
   halal |-> page.filters.classes = {"halal"}]

Request(query) == [query |-> query, answers |-> <<>>]
Fetching(page) ==
  [page EXCEPT !.loading = TRUE, !.requests = Aborted(@) \cup {Request(BaseQuery(page))}]

DetailOf(panel, page) ==
  IF panel.coin = {} THEN panel
  ELSE LET asked == [coin |-> panel.coin, query |-> BaseQuery(page)]
       IN [panel EXCEPT !.loading = TRUE, !.requests = Aborted(@) \cup {asked}]

-----------------------------------------------------------------------------
(* Live updates *)

MergeLiveScore(row, item) == [row EXCEPT !.net = item.net, !.delta = item.delta]
LiveScoreToSummary(item) == [item EXCEPT !.feedKeys = {}]

OfTheWindow(update, response) == {i \in update.rows : i.window = response.window}
OfAnyWindow(update, response) == update.rows
PatchItems(update, response) == OfTheWindow(update, response)

PatchScoreResponse(response, update, kind, allowInsert) ==
  LET rows == ToSet(response.rows)
      items == PatchItems(update, response)
      untouched == {r \in rows : \A i \in items : i.coin # r.coin}
      merged == {MergeLiveScore(p[1], p[2]) : p \in {q \in rows \X items : q[1].coin = q[2].coin}}
      added == {LiveScoreToSummary(i) : i \in {j \in items : \A r \in rows : r.coin # j.coin}}
  IN IF response.version # update.version THEN response
     ELSE [response EXCEPT !.rows =
             Ranked(kind, untouched \cup merged \cup IF allowInsert THEN added ELSE {})]

NoFilters == [classes |-> {}, exchanges |-> {}, markets |-> {}]
CanInsertLiveRows(kind, filters) == kind = "current" /\ filters = NoFilters

(* The effect of an update or of other filters applies the last update.    *)
Patched(page) ==
  [page EXCEPT !.pending = FALSE, !.lists =
     [k \in DOMAIN page.lists |->
        PatchScoreResponse(page.lists[k], page.update, k, CanInsertLiveRows(k, page.filters))]]

(* The worker has scored a coin anew, in every window, and tells the page, *)
(* which renders later: an update before that is replaced by the next.     *)
ScoreUpdate ==
  /\ board.changes < MaxChanges
  /\ \E coin \in ScoredCoins : \E net \in Nets \ {board.net[coin]} :
       LET delta == net - board.net[coin]
           Item(w) == [coin |-> coin, window |-> w, version |-> board.version,
                       feedKeys |-> FeedKeysOf[coin], net |-> net, delta |-> delta]
       IN /\ board' = [board EXCEPT !.changes = @ + 1, !.net[coin] = net, !.delta[coin] = delta]
          /\ scores' = [scores EXCEPT !.pending = TRUE, !.update =
               [version |-> board.version, rows |-> {Item(w) : w \in ServerScoreWindows}]]
  /\ UNCHANGED <<detail, clicks>>

UpdateEffect ==
  /\ scores.pending
  /\ scores' = Patched(scores)
  /\ UNCHANGED <<board, detail, clicks>>

(* A server with another configuration scores under another version.       *)
ServerReconfigured ==
  /\ board.changes < MaxChanges
  /\ board' = [board EXCEPT !.changes = @ + 1, !.version = @ + 1]
  /\ UNCHANGED <<scores, detail, clicks>>

-----------------------------------------------------------------------------
(* The page *)

(* A step that changes what the page asks for aborts, and asks again.      *)
Asks(page) == scores' = Fetching(page) /\ detail' = DetailOf(detail, page)

(* GET /api/scoring/config/current, or a status message, says the windows. *)
WindowsConfigured ==
  /\ ~scores.configured
  /\ LET page == [scores EXCEPT !.configured = TRUE]
     IN Asks([page EXCEPT !.selected = IF @ \in ServerScoreWindows THEN @ ELSE NoWindow])
  /\ UNCHANGED <<board, clicks>>

SelectWindow(window) ==
  /\ Click
  /\ window \in ScoreWindows(scores)
  /\ LET page == [scores EXCEPT !.selected = window]
     IN IF WindowMinutes(page) # WindowMinutes(scores) THEN Asks(page)
        ELSE scores' = page /\ UNCHANGED detail
  /\ UNCHANGED board

SelectConfidence(confidence) ==
  /\ Click
  /\ confidence # scores.confidence
  /\ Asks([scores EXCEPT !.confidence = confidence])
  /\ UNCHANGED board

ToggleChangedSince ==
  /\ Click
  /\ Asks([scores EXCEPT !.since = ~@])
  /\ UNCHANGED board

ReloadScores ==
  /\ Click
  /\ ~scores.loading
  /\ scores' = Fetching(scores)
  /\ UNCHANGED <<board, detail>>

(* Only another classification asks again; every filter patches again.     *)
ChangeFilters(filters) ==
  /\ Click
  /\ filters # scores.filters
  /\ LET page == [scores EXCEPT !.filters = filters]
         patched == IF scores.update = NoUpdate THEN page ELSE Patched(page)
     IN IF filters.classes # scores.filters.classes THEN Asks(patched)
        ELSE scores' = patched /\ UNCHANGED detail
  /\ UNCHANGED board

(* Promise.all: the lists are shown when the last of them is answered.     *)
ScoresAnswered(request, kind) ==
  /\ request \in scores.requests /\ kind \notin DOMAIN request.answers
  /\ LET answers == [k \in DOMAIN request.answers \cup {kind} |->
                       IF k = kind THEN ScoreAnswer(kind, request.query) ELSE request.answers[k]]
         others == scores.requests \ {request}
     IN scores' = IF DOMAIN answers = Boards
                  THEN [scores EXCEPT !.lists = answers, !.requests = others,
                                      !.loading = FALSE, !.error = FALSE]
                  ELSE [scores EXCEPT !.requests =
                          others \cup {[request EXCEPT !.answers = answers]}]
  /\ UNCHANGED <<board, detail, clicks>>

ScoresFail(request) ==
  /\ request \in scores.requests
  /\ scores' = [scores EXCEPT !.requests = @ \ {request}, !.loading = FALSE, !.error = TRUE]
  /\ UNCHANGED <<board, detail, clicks>>

-----------------------------------------------------------------------------
(* ScoreDetailPanel: mounted while a coin is selected *)

NoDetail == [coin |-> {}, shown |-> {}, loading |-> FALSE, error |-> FALSE, requests |-> {}]

SelectCoin(coin) ==
  /\ Click
  /\ detail.coin = {}
  /\ detail' = DetailOf([NoDetail EXCEPT !.coin = {coin}], scores)
  /\ UNCHANGED <<board, scores>>

CloseDetail ==
  /\ detail.coin # {}
  /\ detail' = [NoDetail EXCEPT !.requests = Aborted(detail.requests)]
  /\ UNCHANGED <<board, scores, clicks>>

DetailAnswered(request) ==
  /\ request \in detail.requests
  /\ detail' = [detail EXCEPT !.shown = {request}, !.loading = FALSE, !.error = FALSE,
                              !.requests = @ \ {request}]
  /\ UNCHANGED <<board, scores, clicks>>

DetailFails(request) ==
  /\ request \in detail.requests
  /\ detail' = [detail EXCEPT !.loading = FALSE, !.error = TRUE, !.requests = @ \ {request}]
  /\ UNCHANGED <<board, scores, clicks>>

-----------------------------------------------------------------------------
ScoresAtMount ==
  LET page == [configured |-> FALSE, selected |-> NoWindow, confidence |-> 0, since |-> FALSE,
               filters |-> NoFilters, update |-> NoUpdate, pending |-> FALSE, lists |-> <<>>,
               requests |-> {}, loading |-> FALSE, error |-> FALSE]
  IN Fetching(page)

ScorePageInit ==
  /\ board = [version |-> 1, changes |-> 0, net |-> NetsAtMount,
              delta |-> [c \in ScoredCoins |-> 0]]
  /\ scores = ScoresAtMount
  /\ detail = NoDetail

ListsNext ==
  \/ ScoreUpdate \/ UpdateEffect \/ ServerReconfigured
  \/ \E request \in scores.requests :
       ScoresFail(request) \/ \E kind \in Boards : ScoresAnswered(request, kind)

(* Thresholds do no more than ask again; windows and filters do.           *)
ThresholdNext ==
  \/ ToggleChangedSince
  \/ \E confidence \in ConfidenceOptions : SelectConfidence(confidence)

ViewNext ==
  \/ WindowsConfigured \/ ReloadScores
  \/ \E window \in DefaultScoreWindows \cup ServerScoreWindows : SelectWindow(window)
  \/ \E filters \in FilterChoices : ChangeFilters(filters)

DetailNext ==
  \/ \E coin \in ScoredCoins : SelectCoin(coin)
  \/ CloseDetail
  \/ \E request \in detail.requests : DetailAnswered(request) \/ DetailFails(request)

(* The pages share nothing but the clicks: here they may all be open at    *)
(* once.                                                                   *)
ScorePageNext ==
  \/ /\ ListsNext \/ ThresholdNext \/ ViewNext \/ DetailNext
     /\ UNCHANGED <<performance, live, coinsPage>>
  \/ (PerformanceNext \/ CoinsNext) /\ UNCHANGED scoreVars

PagesSpec == DataPagesInit /\ ScorePageInit /\ [][ScorePageNext]_<<pageDataVars, scoreVars>>

-----------------------------------------------------------------------------
(* Which rows of a list are on the page, under the page's filters.         *)
RowsShown(kind) ==
  LET rows == scores.lists[kind].rows
  IN {i \in DOMAIN rows : /\ Directional(kind, rows[i])
                          /\ ScoreVisible(rows[i], scores.filters.classes,
                                          scores.filters.exchanges, scores.filters.markets)}

(* A page that has settled shows lists, and a detail, that answer what is  *)
(* selected, in whatever order clicks, answers, failures and updates came; *)
(* while it loads, a request for that is under way.                        *)
AnswersFollowSelection ==
  /\ scores.loading => \E r \in scores.requests : r.query = BaseQuery(scores)
  /\ PageSettled(scores) => \A k \in Boards : scores.lists[k].query = BaseQuery(scores)
  /\ detail.coin # {} /\ PageSettled(detail) =>
       detail.shown = {[coin |-> detail.coin, query |-> BaseQuery(scores)]}

(* A list is never mixed: its rows, patched by live updates or not, are of *)
(* one window and one configuration, one per coin, and the tops in order.  *)
ListsAreNotMixed ==
  \A k \in DOMAIN scores.lists :
    LET rows == scores.lists[k].rows
    IN \A i \in RowsShown(k) :
         /\ rows[i].window = scores.lists[k].window
         /\ rows[i].version = scores.lists[k].version
         /\ \A j \in RowsShown(k) :
              i < j => /\ rows[i].coin # rows[j].coin
                       /\ k # "current" => ~Lower(SortKey(k, rows[j]), SortKey(k, rows[i]))

ScoresShowSelection == AnswersFollowSelection /\ ListsAreNotMixed

(* What formatScoreFilterNote() tells the reader: a coin stays visible when *)
(* it is available on the selected exchange and market.                    *)
VisibleWhenListed ==
  \A k \in DOMAIN scores.lists : \A r \in ToSet(scores.lists[k].rows) :
    LET filters == scores.filters
        selected == {m \in Markets : MarketFilterAllows(m, filters.markets)}
    IN (\E m \in selected : MatchesExchangeFilterByCoin(r.coin, m, filters.exchanges)) =>
         \/ ScoreVisible(r, filters.classes, filters.exchanges, filters.markets)
         \/ ~MatchesCoinClassificationFilter(r.coin, filters.classes)
=============================================================================
