\* Two names, two processes, each surface; commands and edits at any moment.
SPECIFICATION MCSpec
CONSTANTS
  Names = {a, b}
  Procs = {p, q}
  Tools = {"claude", "deny", "codex", "agy"}
  Fragile = {"claude", "deny", "agy"}
  MaxRuns = 3
  MaxEdits = 2
SYMMETRY Symmetric
INVARIANT ClaimsOnlyOwn EveryEntryOwned
PROPERTY UserEntriesSurvive SecondRunIsIdle ClearReverts
