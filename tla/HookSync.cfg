\* Hooks of three pairs of tools; g may have been there before, h and the others
\* come by an edit.  Three syncs show the wizard come to rest.
SPECIFICATION Spec
CONSTANTS
  Guards = {g, h}
  Stops = {s}
  Notes = {n}
  Groups = {{"claude","cursor"},{"cursor","agy"},{"codex","copilot"}}
  Early = {g}
  Scopes = {{}, {"?"}, {"Edit"}, {"Bash"}}
  MaxRuns = 3
  MaxEdits = 1
INVARIANT GuardEverywhere
PROPERTY HandScopeStands SyncSettles
