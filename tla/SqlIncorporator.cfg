SPECIFICATION Spec
CONSTANTS
  None = None
  Placeholder = Placeholder
  Tables <- MCTables
  Views <- MCViews
  Caches = {"c", "d"}
  Types = {"ty", "tz"}
  Unqualified <- MCUnqualified
  Sorted <- MCSorted
  MaxCopies = 2
  Scopes <- MCScopes
INVARIANTS AliasesResolve NoneOutlivesItsTables ReadsWhatNamesMean
PROPERTIES AlteredTypeDropsReaders
