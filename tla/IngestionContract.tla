-------------------------- MODULE IngestionContract -------------------------
(***************************************************************************)
(* What the durable write queue promises its callers, without loops,       *)
(* retries, counters or states: a ledger of accepted jobs in which the     *)
(* oldest open job alone is served, each job gets one final outcome, the   *)
(* backlog is bounded, and a shutdown gives up every open job except the   *)
(* one that may already be on its way to Postgres.                         *)
(***************************************************************************)
EXTENDS Naturals, Sequences, FiniteSets

CONSTANT Backlog  \* the number of open jobs that leaves room for one more

VARIABLES
  ledger,  \* the outcome of each accepted job: open, written, failed or dropped
  durable  \* the jobs Postgres has committed

Open == {j \in DOMAIN ledger : ledger[j] = "open"}
Oldest(j) == \A k \in Open : j <= k

Init == ledger = <<>> /\ durable = {}

Accept ==
  /\ Cardinality(Open) <= Backlog
  /\ ledger' = Append(ledger, "open")
  /\ UNCHANGED durable

(* A commit may outlive the attempt that was given up. *)
Commit(j) ==
  /\ ledger[j] \in {"open", "failed"}
  /\ Oldest(j)
  /\ durable' = durable \cup {j}
  /\ UNCHANGED ledger

Settle(j, outcome) ==
  /\ j \in Open /\ Oldest(j)
  /\ outcome = "written" => j \in durable
  /\ ledger' = [ledger EXCEPT ![j] = outcome]
  /\ UNCHANGED durable

GiveUp(kept) ==
  /\ Open \ kept # {}
  /\ kept \subseteq {j \in Open : Oldest(j)}
  /\ ledger' = [j \in DOMAIN ledger |-> IF j \in Open \ kept THEN "dropped" ELSE ledger[j]]
  /\ UNCHANGED durable

Next ==
  \/ Accept
  \/ \E j \in DOMAIN ledger : Commit(j)
  \/ \E j \in Open : \E outcome \in {"written", "failed"} : Settle(j, outcome)
  \/ \E kept \in SUBSET Open : GiveUp(kept)

Spec == Init /\ [][Next]_<<ledger, durable>>
=============================================================================
