CONSTANTS
  Writer = {live, backfill}
  Raw = {"post", "edit", "cross", "quiet"}
  Time = {1, 2}
  KeyOf <- MCKeyOf
  ProviderId <- MCProviderId
  EventsOf <- MCEventsOf
  EntryCount <- MCEntryCount
  NoId = "noid"
  Stalling = {"post"}
  MaxCalls = 3
SPECIFICATION Spec
SYMMETRY Interchangeable
INVARIANT WholeUnlessDirty
INVARIANT ResolvedIsStored
INVARIANT OneRowPerIdentity
INVARIANT LatestVersionOfEach
PROPERTY IdentitiesAreStable
CHECK_DEADLOCK FALSE
