\* Two setups and an uninstall at once.
SPECIFICATION Spec
CONSTANTS
  setup = setup
  again = again
  remove = remove
  codex = codex
  claude = claude
  users = users
  Ours = Ours
  Missing = Missing
  Broken = Broken
  Agents = {codex, claude}
  Commands = {setup, again, remove}
  Command <- Overlapping
  InitialFiles <- UsualFiles
  Hooks = {users}
  MaxEdits = 1
INVARIANTS
  UsersContentKept
  HookedOnce
\* The commands end.
CHECK_DEADLOCK FALSE
