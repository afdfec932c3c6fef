------------------------------- MODULE Dashboard -------------------------------
(***************************************************************************)
(* The dashboard: its feeds, and the pages that ask for data of their own. *)
(* A behaviour follows one of them, its subject; of the scores page either *)
(* its lists, or the detail, whose clicks also change the thresholds.      *)
(***************************************************************************)
EXTENDS LiveFeed, ScorePage

VARIABLE subject
Subjects == {"feed", "performance", "coins", "scores", "detail"}
feedVars == vars
allVars == <<feedVars, pageDataVars, scoreVars, subject>>

Start ==
  /\ Init /\ DataPagesInit /\ ScorePageInit
  /\ subject \in Subjects
  /\ subject # "coins" => coinsPage = CoinsAtMount(CHOOSE q \in Queries : TRUE)

Step ==
  /\ \/ subject = "feed" /\ Next /\ UNCHANGED <<pageDataVars, scoreVars>>
     \/ subject = "performance" /\ PerformanceNext /\ UNCHANGED <<feedVars, scoreVars>>
     \/ subject = "coins" /\ CoinsNext /\ UNCHANGED <<feedVars, scoreVars>>
     \/ /\ \/ subject = "scores" /\ (ListsNext \/ ViewNext)
           \/ subject = "detail" /\ (ThresholdNext \/ ViewNext \/ DetailNext)
        /\ UNCHANGED <<feedVars, performance, live, coinsPage>>
  /\ UNCHANGED subject

DashboardSpec == Start /\ [][Step]_allVars

(* Every page shows what is selected on it once it has settled, and the    *)
(* header's filter never adds to an event (see the pages' modules).        *)
PagesShowTheirSelection ==
  /\ subject = "coins" => CoinsShowSelection
  /\ subject \in {"scores", "detail"} => ScoresShowSelection
  /\ subject = "performance" =>
       /\ PerformanceShowsSelection
       /\ \A event \in PageEvents, more \in ExchangeFilters, markets \in SUBSET Markets :
            FiltersHideTheRest(event, performance.filter, more, markets)
=============================================================================
