-------------------------- MODULE MCEventRepository --------------------------
(* Instances of EventRepository for TLC.  "post" and "edit" are two         *)
(* versions the provider sent under one id, with two entries and with one;  *)
(* "cross" has the same provider id in another category and the same feed;  *)
(* "quiet" is filtered out by the normalizer.  Writers are interchangeable. *)
EXTENDS EventRepository, TLC

MCKeyOf(r) == IF r = "edit" THEN "post" ELSE r
MCProviderId(r) ==
  IF r \in {"post", "edit", "cross"} THEN "p" ELSE IF r = "quiet" THEN "q" ELSE "noid"
MCEventsOf(r, t) ==
  IF r = "quiet" THEN {} ELSE {<<"event", 0>>}
MCEntryCount(r) == IF r = "post" THEN 2 ELSE IF r \in {"edit", "cross"} THEN 1 ELSE 0

Interchangeable == Permutations(Writer)
=============================================================================
