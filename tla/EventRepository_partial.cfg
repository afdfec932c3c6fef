CONSTANTS
  Writer = {live}
  Raw = {"post", "quiet"}
  Time = {1}
  KeyOf <- MCKeyOf
  ProviderId <- MCProviderId
  EventsOf <- MCEventsOf
  EntryCount <- MCEntryCount
  NoId = "noid"
  Stalling = {"post", "quiet"}
  MaxCalls = 2
SPECIFICATION Spec
INVARIANT OnlyWholeTransactions
CHECK_DEADLOCK FALSE
