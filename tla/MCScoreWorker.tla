---------------------------- MODULE MCScoreWorker ----------------------------
(* Three coins of which an event may name two, queued two at most and      *)
(* scored one at a time.                                                   *)
EXTENDS ScoreWorker
CONSTANTS btc, eth, sol
MCCoins == {btc, eth, sol}
MCEventCoins == {{btc, eth}, {sol}}
=============================================================================
