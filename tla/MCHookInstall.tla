--------------------------- MODULE MCHookInstall ---------------------------
(***************************************************************************)
(* HookInstall for setups and uninstalls that overlap.                     *)
(***************************************************************************)
EXTENDS HookInstall

CONSTANTS setup, again, remove, codex, claude, users

Asked(op, agents, mode, confirmed) ==
  [op |-> op, agents |-> agents, mode |-> mode, confirmRemote |-> confirmed,
   dryRun |-> FALSE]

\* Two setups and an uninstall that have one agent in common.
Overlapping ==
  (setup  :> Asked("install", <<codex, claude>>, "off", FALSE)) @@
  (again  :> Asked("install", <<claude>>, "remote", TRUE)) @@
  (remove :> Asked("uninstall", <<claude>>, "off", FALSE))

\* What session ends a user already has; the second shares an entry with ours.
UsualFiles ==
  { Missing, Broken,
    [entries |-> <<<<users>>, <<>>>>, rest |-> 0],
    [entries |-> <<<<Ours, users>>>>, rest |-> 0] }

NoHooks == { [entries |-> <<>>, rest |-> 0] }
=============================================================================
