------------------------------- MODULE DataPages -------------------------------
(***************************************************************************)
(* Two pages of the dashboard that ask for data of their own               *)
(* (apps/web/src/components): PerformancePage, whose answers race live     *)
(* updates, and ExchangeCoinsPage, whose refresh asks as well.  Choosing   *)
(* something else aborts the request under way.  One step is a click, an   *)
(* answer or a message with the render and the effects it causes.          *)
(***************************************************************************)
EXTENDS PageFilters

CONSTANTS
  Exchanges,     \* of PerformancePage, in the order of its buttons
  ExchangeFilters,
  Queries,       \* what ExchangeCoinsPage may ask for: status and search
  MaxClicks      \* bound of the model

VARIABLES
  performance,   \* PerformancePage: its state, and requests under way
  live,          \* livePerformanceByExchange: the exchanges that have one
  coinsPage,     \* ExchangeCoinsPage
  clicks

pageDataVars == <<performance, live, coinsPage, clicks>>

Click == clicks < MaxClicks /\ clicks' = clicks + 1

(* abort(): a request aborted never answers.                               *)
NotAborted(requests) == requests
Aborted(requests) == {}

NoResponse == "none"

-----------------------------------------------------------------------------
(* PerformancePage *)

PerformanceAtMount ==
  [selected |-> Exchanges[1], response |-> NoResponse, loading |-> TRUE, error |-> FALSE,
   filter |-> {}, requests |-> {Exchanges[1]}]

VisibleButtons(filter) == SelectSeq(Exchanges, LAMBDA x : filter = {} \/ x \in filter)

(* The effects of a new selection, in their order: what is live is shown   *)
(* at once, and asked for all the same.                                    *)
ShownLive(x) == IF x \in live THEN x ELSE performance.response
Selected(x, filter) ==
  IF x = performance.selected THEN [performance EXCEPT !.filter = filter]
  ELSE [performance EXCEPT !.selected = x, !.filter = filter, !.response = ShownLive(x),
                           !.loading = TRUE, !.requests = Aborted(@) \cup {x}]

SelectExchange(x) ==
  /\ Click
  /\ x \in ToSet(VisibleButtons(performance.filter))
  /\ performance' = Selected(x, performance.filter)
  /\ UNCHANGED <<live, coinsPage>>

(* A filter without the selection selects the first one it has.            *)
SelectionUnder(filter) ==
  IF filter = {} \/ performance.selected \in filter \/ VisibleButtons(filter) = <<>>
  THEN performance.selected ELSE VisibleButtons(filter)[1]
ChangeExchangeFilter(filter) ==
  /\ Click
  /\ performance' = Selected(SelectionUnder(filter), filter)
  /\ UNCHANGED <<live, coinsPage>>

ReloadPerformance ==
  /\ Click
  /\ ~performance.loading
  /\ performance' = [performance EXCEPT !.loading = TRUE,
                                        !.requests = Aborted(@) \cup {performance.selected}]
  /\ UNCHANGED <<live, coinsPage>>

PerformanceAnswered(x) ==
  /\ x \in performance.requests
  /\ performance' = [performance EXCEPT !.response = x, !.error = FALSE, !.loading = FALSE,
                                        !.requests = @ \ {x}]
  /\ UNCHANGED <<live, coinsPage, clicks>>

PerformanceFails(x) ==
  /\ x \in performance.requests
  /\ performance' = [performance EXCEPT !.error = TRUE, !.loading = FALSE, !.requests = @ \ {x}]
  /\ UNCHANGED <<live, coinsPage, clicks>>

(* onSpotPerformance, of any exchange, shows the live one of the selected. *)
LivePerformance(x) ==
  /\ live' = live \cup {x}
  /\ performance' = IF performance.selected \in live'
                    THEN [performance EXCEPT !.response = performance.selected, !.loading = FALSE]
                    ELSE performance
  /\ UNCHANGED <<coinsPage, clicks>>

-----------------------------------------------------------------------------
(* ExchangeCoinsPage *)

CoinsAtMount(q) ==
  [query |-> q, response |-> NoResponse, loading |-> TRUE, error |-> FALSE, requests |-> {q},
   refresh |-> "no", refreshQuery |-> q, crossed |-> FALSE]

ChangeQuery(q) ==
  /\ Click
  /\ q # coinsPage.query
  /\ coinsPage' = [coinsPage EXCEPT !.query = q, !.loading = TRUE,
                                    !.requests = Aborted(@) \cup {q}]
  /\ UNCHANGED <<performance, live>>

CoinsAnswered(q) ==
  /\ q \in coinsPage.requests
  /\ coinsPage' = [coinsPage EXCEPT !.response = q, !.error = FALSE, !.loading = FALSE,
                                    !.requests = @ \ {q}, !.crossed = FALSE]
  /\ UNCHANGED <<performance, live, clicks>>

CoinsFail(q) ==
  /\ q \in coinsPage.requests
  /\ coinsPage' = [coinsPage EXCEPT !.error = TRUE, !.loading = FALSE, !.requests = @ \ {q}]
  /\ UNCHANGED <<performance, live, clicks>>

(* triggerRefresh(): the query is that of the click, and nobody aborts it. *)
TriggerRefresh ==
  /\ Click
  /\ coinsPage.refresh = "no"
  /\ coinsPage' = [coinsPage EXCEPT !.refresh = "posted", !.refreshQuery = coinsPage.query]
  /\ UNCHANGED <<performance, live>>

RefreshDone ==
  /\ coinsPage.refresh = "posted"
  /\ coinsPage' = [coinsPage EXCEPT !.refresh = "asked"]
  /\ UNCHANGED <<performance, live, clicks>>

RefreshAnswered ==
  /\ coinsPage.refresh = "asked"
  /\ coinsPage' = [coinsPage EXCEPT !.response = coinsPage.refreshQuery, !.error = FALSE,
                                    !.refresh = "no",
                                    !.crossed = coinsPage.refreshQuery # coinsPage.query]
  /\ UNCHANGED <<performance, live, clicks>>

RefreshFails ==
  /\ coinsPage.refresh # "no"
  /\ coinsPage' = [coinsPage EXCEPT !.error = TRUE, !.refresh = "no"]
  /\ UNCHANGED <<performance, live, clicks>>

-----------------------------------------------------------------------------
DataPagesInit ==
  /\ performance = PerformanceAtMount
  /\ live = {}
  /\ coinsPage \in {CoinsAtMount(q) : q \in Queries}
  /\ clicks = 0

PerformanceNext ==
  \/ \E x \in ToSet(Exchanges) :
       SelectExchange(x) \/ PerformanceAnswered(x) \/ PerformanceFails(x) \/ LivePerformance(x)
  \/ \E filter \in ExchangeFilters : ChangeExchangeFilter(filter)
  \/ ReloadPerformance

CoinsNext ==
  \/ \E q \in Queries : ChangeQuery(q) \/ CoinsAnswered(q) \/ CoinsFail(q)
  \/ TriggerRefresh \/ RefreshDone \/ RefreshAnswered \/ RefreshFails

-----------------------------------------------------------------------------
(* A page that is not loading and shows no warning shows the answer to     *)
(* what is selected on it, whatever was clicked, and in which order        *)
(* answers and live updates came; and it never waits with no request under *)
(* way.  One exception: the answer of a refresh asked before the selection *)
(* changed replaces that of the new selection (ExchangeCoinsPage).         *)
PageSettled(page) == ~page.loading /\ ~page.error
PerformanceShowsSelection ==
  /\ PageSettled(performance) => performance.response = performance.selected
  /\ performance.loading => performance.selected \in performance.requests
CoinsShowSelection ==
  /\ PageSettled(coinsPage) /\ ~coinsPage.crossed => coinsPage.response = coinsPage.query
  /\ coinsPage.loading => coinsPage.query \in coinsPage.requests
=============================================================================
