\* Set up for one agent and uninstalled.
SPECIFICATION Spec
CONSTANTS
  setup = setup
  again = again
  remove = remove
  codex = codex
  claude = claude
  users = users
  Ours = Ours
  Missing = Missing
  Broken = Broken
  Agents = {codex, claude}
  Commands = {again, remove}
  Command <- Overlapping
  InitialFiles <- NoHooks
  Hooks = {users}
  MaxEdits = 0
INVARIANT EnabledWereChosen
\* The commands end.
CHECK_DEADLOCK FALSE
