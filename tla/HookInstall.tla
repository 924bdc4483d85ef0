---------------------------- MODULE HookInstall ----------------------------
(***************************************************************************)
(* ctx setup and ctx uninstall (packages/local/src/install.ts, hooks,      *)
(* config.ts): add our session-end hook to the agents' own settings files  *)
(* or take it out again, one agent after the other, and then note in       *)
(* config.json which agents are enabled.                                   *)
(*                                                                         *)
(* Commands are processes that may overlap and may be killed; the files    *)
(* belong to the user, who (or whose agent) edits them meanwhile.  A step  *)
(* is what happens between two awaits; a file is emptied when it is opened *)
(* for writing and whole again only after the write.                       *)
(***************************************************************************)
EXTENDS Naturals, SequencesExt, Selection

CONSTANTS
  Agents,
  Commands,           \* processes
  Command,            \* process -> what it was started with
  InitialFiles,       \* settings files an agent may have at first
  Hooks,              \* hooks a user may add
  MaxEdits,           \* bound on the user's edits
  Ours,               \* the hook with our marker
  Missing,            \* no such file
  Broken              \* a file that is no JSON object: cut short, or so written

ASSUME MaxEditsAssumption == MaxEdits \in Nat
ASSUME CommandAssumption == \A p \in Commands :
  /\ Command[p].op \in {"install", "uninstall"}
  /\ Command[p].agents \in Seq(Agents)
  /\ Command[p].mode \in {"off", "local", "remote"}
  /\ {Command[p].confirmRemote, Command[p].dryRun} \subseteq BOOLEAN

\* A document: the session-end entries, each with its hooks, and the rest of the
\* settings.  (An entry of Cursor is a single hook.)
Document == [entries : Seq(Seq(Hooks \cup {Ours})), rest : {0, 1}]

\* At most one of the hooks is ours.
HookedAtMostOnce(doc) ==
  \A j, k \in DOMAIN doc.entries :
    \A m \in DOMAIN doc.entries[j], n \in DOMAIN doc.entries[k] :
      doc.entries[j][m] = Ours /\ doc.entries[k][n] = Ours => j = k /\ m = n

\* A file without JSON is no document; a hook with our marker is ours, not one a
\* user adds; and the marker is nobody else's.
ASSUME ContentAssumption ==
  Missing # Broken /\ {Missing, Broken} \cap Document = {} /\ Ours \notin Hooks
ASSUME InitialAssumption ==
  \A content \in InitialFiles \ {Missing, Broken} :
    content \in Document /\ HookedAtMostOnce(content)

VARIABLES
  pc,        \* process -> where it stands
  left,      \* process -> agents still to be edited
  read,      \* process -> the document it goes by, or the configuration
  file,      \* agent -> its settings file
  backups,   \* the backup files, as <<agent, document>>
  config,    \* config.json
  edits,     \* number of edits by the user so far
  owned,     \* history: agent -> what the user last put in the file
  raced,     \* history: agents whose file the user edited between a command's
             \* read and its write
  chosen     \* history: agents some install was started for

vars == <<pc, left, read, file, backups, config, edits, owned,
          raced, chosen>>
history == <<edits, owned, raced, chosen>>

-----------------------------------------------------------------------------
(* Documents.                                                              *)

HasOurs(doc) ==
  \E k \in DOMAIN doc.entries : \E n \in DOMAIN doc.entries[k] : doc.entries[k][n] = Ours

Empty == [entries |-> <<>>, rest |-> 0]

\* Our hook gets an entry of its own.
ApplyHook(doc) == [doc EXCEPT !.entries = Append(@, <<Ours>>)]

\* The hooks of an entry without ours.
Others(entry) == Kept(entry, [n \in DOMAIN entry |-> entry[n] # Ours])
OthersOf(entries) == [k \in DOMAIN entries |-> Others(entries[k])]

\* Our hook leaves its entry; an entry without hooks leaves the document.
RemoveHook(doc) ==
  LET rest == OthersOf(doc.entries)
  IN  [doc EXCEPT !.entries = Kept(rest, [k \in DOMAIN rest |-> rest[k] # <<>>])]

\* Mutant: an installed hook is not looked for.
ChangesAlways(p, doc) == Command[p].op = "install" \/ HasOurs(doc)

\* Is there anything to add or to remove?
Changes(p, doc) == (Command[p].op = "install") # HasOurs(doc)

Edited(p, doc) ==
  IF Command[p].op = "install" THEN ApplyHook(doc) ELSE RemoveHook(doc)

DefaultConfig == [enabledAgents |-> Agents, semanticMode |-> "off"]

\* loadConfig and parseConfig: what cannot be read is the default, and no agents
\* are all agents.
LoadedConfig(content) ==
  IF content \in {Missing, Broken} THEN DefaultConfig
  ELSE [content EXCEPT !.enabledAgents = IF @ = {} THEN Agents ELSE @]

-----------------------------------------------------------------------------
Init ==
  /\ pc = [p \in Commands |-> "start"]
  /\ left = [p \in Commands |-> Command[p].agents]
  /\ read = [p \in Commands |-> Missing]
  /\ file \in [Agents -> InitialFiles]
  /\ backups = {}
  /\ config = Missing
  /\ edits = 0
  /\ owned = file
  /\ raced = {}
  /\ chosen = {}

\* An unconfirmed remote mode is refused; a dry run of install does no more
\* than show its plan.
Start(p) ==
  /\ pc[p] = "start"
  /\ LET c == Command[p]  install == c.op = "install" IN
     /\ pc' = [pc EXCEPT ![p] =
          IF \/ install /\ c.mode = "remote" /\ ~c.confirmRemote
             \/ install /\ c.dryRun
          THEN "done" ELSE "read"]
     /\ chosen' = IF install THEN chosen \cup ToSet(c.agents) ELSE chosen
  /\ UNCHANGED <<left, read, file, backups, config, edits, owned,
                 raced>>

Agent(p) == Head(left[p])

\* Go on with the next agent.
NextAgent(p) ==
  /\ pc' = [pc EXCEPT ![p] = "read"]
  /\ left' = [left EXCEPT ![p] = Tail(@)]

\* Read the agent's file.  A file that is no JSON object is not touched, nor is
\* one with nothing to change; uninstall has nothing to do without a file.
ReadFile(p) ==
  /\ pc[p] = "read"
  /\ left[p] # <<>>
  /\ LET content == file[Agent(p)]
         doc == IF content = Missing THEN Empty ELSE content
         skips == \/ content = Broken
                  \/ content = Missing /\ Command[p].op = "uninstall"
                  \/ ~Changes(p, doc)
     IN  IF skips \/ Command[p].dryRun
         THEN NextAgent(p) /\ UNCHANGED read
         ELSE /\ read' = [read EXCEPT ![p] = content]
              /\ pc' = [pc EXCEPT
                          ![p] = IF content = Missing THEN "open" ELSE "backup"]
              /\ UNCHANGED left
  /\ UNCHANGED <<file, backups, config, history>>

\* Any failure with a file is caught, and the next agent has its turn.
GiveUp(p) ==
  /\ pc[p] \in {"backup", "open", "write"}
  /\ NextAgent(p)
  /\ UNCHANGED <<read, file, backups, config, history>>

\* Mutant: no backup is made.
BackupForgotten(p) ==
  /\ pc[p] = "backup"
  /\ pc' = [pc EXCEPT ![p] = "open"]
  /\ UNCHANGED <<left, read, file, backups, config, history>>

Backup(p) ==
  /\ pc[p] = "backup"
  /\ backups' = backups \cup {<<Agent(p), read[p]>>}
  /\ pc' = [pc EXCEPT ![p] = "open"]
  /\ UNCHANGED <<left, read, file, config, history>>

Open(p) ==
  /\ pc[p] = "open"
  /\ file' = [file EXCEPT ![Agent(p)] = Broken]
  /\ pc' = [pc EXCEPT ![p] = "write"]
  /\ UNCHANGED <<left, read, backups, config, history>>

\* Another command has the agent's file open.
SharesFile(p) ==
  \E q \in Commands \ {p} : /\ pc[q] = "write" /\ left[q] # <<>>
                            /\ Agent(q) = Agent(p)

\* The document is written; over a file another command has open or has
\* written, one text may end up on the rest of the other.
WriteFile(p) ==
  /\ pc[p] = "write"
  /\ LET doc == IF read[p] = Missing THEN Empty ELSE read[p] IN
     file' \in {[file EXCEPT ![Agent(p)] = Edited(p, doc)]} \cup
               (IF SharesFile(p) \/ file[Agent(p)] # Broken
                THEN {[file EXCEPT ![Agent(p)] = Broken]} ELSE {})
  /\ NextAgent(p)
  /\ UNCHANGED <<read, backups, config, history>>

\* All agents had their turn: read the configuration.  Uninstall leaves one
\* alone that is missing or cannot be read.
ReadConfig(p) ==
  /\ pc[p] = "read"
  /\ left[p] = <<>>
  /\ IF Command[p].op = "uninstall"
        /\ (Command[p].dryRun \/ config \in {Missing, Broken})
     THEN pc' = [pc EXCEPT ![p] = "done"] /\ UNCHANGED read
     ELSE /\ read' = [read EXCEPT ![p] = LoadedConfig(config)]
          /\ pc' = [pc EXCEPT ![p] = "openConfig"]
  /\ UNCHANGED <<left, file, backups, config, history>>

OpenConfig(p) ==
  /\ pc[p] = "openConfig"
  /\ config' = Broken
  /\ pc' = [pc EXCEPT ![p] = "writeConfig"]
  /\ UNCHANGED <<left, read, file, backups, history>>

\* What the commands note: the agents and the mode asked for, or the agents that
\* are left.
NotedByInstall(p) ==
  [read[p] EXCEPT !.enabledAgents = ToSet(Command[p].agents),
                  !.semanticMode = Command[p].mode]
NotedByUninstall(p) ==
  [read[p] EXCEPT !.enabledAgents = @ \ ToSet(Command[p].agents)]

\* Another command has the configuration open, or has written it meanwhile.
SharesConfig(p) ==
  \/ config # Broken
  \/ \E q \in Commands \ {p} : pc[q] = "writeConfig"

WriteConfig(p) ==
  /\ pc[p] = "writeConfig"
  /\ config' \in {IF Command[p].op = "install" THEN NotedByInstall(p)
                  ELSE NotedByUninstall(p)} \cup
                 (IF SharesConfig(p) THEN {Broken} ELSE {})
  /\ pc' = [pc EXCEPT ![p] = "done"]
  /\ UNCHANGED <<left, read, file, backups, history>>

\* The process is killed, or an error with the configuration ends it.
Crash(p) ==
  /\ pc[p] \notin {"start", "done"}
  /\ pc' = [pc EXCEPT ![p] = "done"]
  /\ UNCHANGED <<left, read, file, backups, config, history>>

-----------------------------------------------------------------------------
\* A command has read the agent's file and will write it.
InHand(a) == \E p \in Commands : pc[p] \in {"backup", "open", "write"}
                                 /\ Agent(p) = a

\* What the user may make of a file: change a setting, add a hook, write it
\* anew, break it, delete it.
Rewrites(content) ==
  {Missing, Broken} \cup
  (IF content \in {Missing, Broken} THEN {[Empty EXCEPT !.rest = 1]}
   ELSE {[content EXCEPT !.rest = 1 - @]} \cup
        {[content EXCEPT !.entries = Append(@, <<hook>>)] : hook \in Hooks})

Edit(a) ==
  /\ edits < MaxEdits
  /\ \E content \in Rewrites(file[a]) :
       /\ file' = [file EXCEPT ![a] = content]
       /\ owned' = [owned EXCEPT ![a] = content]
  /\ raced' = IF InHand(a) THEN raced \cup {a} ELSE raced
  /\ edits' = edits + 1
  /\ UNCHANGED <<pc, left, read, backups, config, chosen>>

CommandStep(p) ==
  \/ Start(p) \/ ReadFile(p) \/ GiveUp(p) \/ Backup(p) \/ Open(p)
  \/ WriteFile(p) \/ ReadConfig(p) \/ OpenConfig(p) \/ WriteConfig(p)

Next == \/ \E p \in Commands : CommandStep(p) \/ Crash(p)
        \/ \E a \in Agents : Edit(a)

Spec == Init /\ [][Next]_vars

-----------------------------------------------------------------------------
\* The elements of the sequences of ss, in order.
Flat(ss) ==
  LET flat[n \in 0 .. Len(ss)] == IF n = 0 THEN <<>> ELSE flat[n - 1] \o ss[n]
  IN  flat[Len(ss)]

\* What the user put into a document: every hook but ours, and the settings.
UsersOwn(doc) == [hooks |-> Flat(OthersOf(doc.entries)), rest |-> doc.rest]

IsDocument(content) == content \notin {Missing, Broken}

\* SETUP.md: "Unrelated hooks are preserved."  Whatever commands run, overlap,
\* fail or are killed, a file that can be read holds what the user last put into
\* it, and while it cannot be read a backup does; a file the user broke stays as
\* it is.  (Not so a file edited between a command's read and its write, raced:
\* the edit is lost, though docs/SAFETY.md:28 says that setup never removes
\* unrelated hooks.)  hooks/claude.ts:122-142, 150-167, io.ts:24-38.
UsersContentKept ==
  \A a \in Agents \ raced :
    CASE owned[a] = Broken  -> file[a] = Broken
      [] owned[a] = Missing -> IsDocument(file[a]) =>
                                 UsersOwn(file[a]) = UsersOwn(Empty)
      [] OTHER -> IF IsDocument(file[a])
                  THEN UsersOwn(file[a]) = UsersOwn(owned[a])
                  ELSE \E b \in backups : /\ b[1] = a
                                         /\ UsersOwn(b[2]) = UsersOwn(owned[a])

\* SETUP.md: "Installation is idempotent."  Installed twice, or by two commands
\* at once, our hook is in a file once (hooks/claude.ts:12-20).
HookedOnce ==
  \A a \in Agents : IsDocument(file[a]) => HookedAtMostOnce(file[a])

\* Violated.  docs/CONFIGURATION.md:38: enabledAgents are the "Agents chosen
\* during `ctx setup`".  Once the last one is uninstalled, the empty list is
\* read back as all agents (config.ts:44).
EnabledWereChosen ==
  IsDocument(config) => LoadedConfig(config).enabledAgents \subseteq chosen
=============================================================================
