--------------------------- MODULE AdapterParser ---------------------------
(***************************************************************************)
(* What the parsers of the three adapters (packages/adapter-*/src) share:  *)
(* the state of a parser, the messages it emits, the names of files and    *)
(* the classification of tools.                                            *)
(*                                                                         *)
(* Tool names, commands and paths are sequences of words: a path begins    *)
(* with "/" if it is absolute.  A text is a word with what the rules find  *)
(* in it; the word of a blank text is None.  Of a record only the fields   *)
(* are kept that a parser reads, under one name where it tries several.    *)
(***************************************************************************)
EXTENDS ContextItems, SequencesExt

\* A parser that has read nothing, with what its caller told it.
NewParser(sessionId, cwd) ==
  [sessionId |-> sessionId, cwd |-> cwd, compaction |-> FALSE,
   messages |-> <<>>,        \* emitted so far
   callNames |-> <<>>,       \* pendingCallNames: call id -> tool name
   seq |-> 0,                \* ids made up so far
   warnings |-> {},          \* <<line, kind>>
   unknown |-> 0, parsed |-> 0, malformed |-> 0]

Emit(p, message) == [p EXCEPT !.messages = Append(@, message)]
Warn(p, line, kind) == [p EXCEPT !.warnings = @ \cup {<<line, kind>>}]
PushUnknown(p, line) == [Warn(p, line, "unknown_event") EXCEPT !.unknown = @ + 1]
Malformed(p, line) == [Warn(p, line, "malformed_line") EXCEPT !.malformed = @ + 1]

\* nextId: the preferred id, or one no other message has.
NextId(p, prefix) == <<prefix, p.seq + 1>>
Numbered(p, preferred) == IF preferred = None THEN [p EXCEPT !.seq = @ + 1] ELSE p

-----------------------------------------------------------------------------
(* Messages                                                                *)

MapRole(role) ==
  CASE role \in {"user", "assistant", "tool"} -> role
    [] role \in {"system", "developer"}       -> "system"
    [] OTHER                                  -> "assistant"

MessageOrigin(role) ==
  CASE role \in {"user", "developer", "system", "tool"} -> role
    [] role = "assistant"                               -> "agent"
    [] OTHER                                            -> "unknown"

IsBlank(texts) == \A k \in DOMAIN texts : texts[k].word = None

\* The text of a message, joined from several; a blank one is no text to the
\* engine.
Joined(role, texts) ==
  IF IsBlank(texts) THEN None
  ELSE [origin |-> MessageOrigin(role),
        ack |-> \A k \in DOMAIN texts : texts[k].ack,
        constraint |-> \E k \in DOMAIN texts : texts[k].constraint,
        words |-> [k \in DOMAIN SelectSeq(texts, LAMBDA t : t.word # None) |->
                     SelectSeq(texts, LAMBDA t : t.word # None)[k].word]]

TextMessage(role, texts) ==
  [role |-> MapRole(role), toolCallId |-> None, name |-> None,
   text |-> Joined(role, texts), calls |-> <<>>, results |-> <<>>,
   result |-> None, cwd |-> None]
CallMessage(id, tool, cwd) ==
  [role |-> "assistant", toolCallId |-> None, name |-> None, text |-> None,
   calls |-> <<[id |-> id, tool |-> tool]>>, results |-> <<>>, result |-> None,
   cwd |-> cwd]
ResultMessage(id, name, result) ==
  [role |-> "tool", toolCallId |-> id, name |-> name, text |-> None,
   calls |-> <<>>, results |-> <<>>, result |-> result, cwd |-> None]

\* The name a result goes by: its own, that of the call it names, or none.
ResultName(p, id, name) ==
  Or(name, IF id \in DOMAIN p.callNames THEN p.callNames[id] ELSE <<"unknown">>)

ToolOutcome(output, isError, exit) ==
  [output |-> output.output, isError |-> isError = TRUE, exit |-> exit,
   says |-> output.says, large |-> output.large]

NoOutput == [output |-> "", says |-> {}, large |-> FALSE]

-----------------------------------------------------------------------------
(* Paths                                                                   *)

IsAbsolute(path) == path # <<>> /\ Head(path) = "/"

\* posix.normalize: "." goes, and ".." takes the word before it along.
NormalizePath(path) ==
  LET step(done, word) ==
        CASE word = "." \/ (word = ".." /\ done = <<"/">>) -> done
          [] word = ".." /\ done \notin {<<>>, <<"/">>} /\ Last(done) # ".." ->
               Front(done)
          [] OTHER -> Append(done, word)
      normal == FoldLeft(step, <<>>, path)
  IN  IF normal = <<>> THEN <<".">> ELSE normal

\* A directory above, seen from an unknown one.
Climbs(path) == Len(path) > 1 /\ Head(path) = ".."

StripWorkspacePlaceholder(path) ==
  IF Head(path) # "<workspace>" THEN path
  ELSE IF Len(path) = 1 THEN <<".">>
  ELSE Tail(path)

\* Mutant: the working directory is cut off even if the path is elsewhere.
RelativeToAnyCwd(original, path, cwd) ==
  LET normal == NormalizePath(path) IN
  IF cwd = None \/ ~IsAbsolute(normal) THEN normal
  ELSE SubSeq(normal, Len(cwd) + 1, Len(normal))

\* normalizeProjectPath and preferCanonicalPath, for an original spelling and what
\* it is without its placeholder: the path relative to the working directory if
\* it is inside, or else the original.
RelativeToCwd(original, path, cwd) ==
  LET normal == NormalizePath(path) IN
  IF cwd = None
    THEN IF IsAbsolute(normal) \/ Climbs(normal) THEN original ELSE normal
  ELSE LET root == NormalizePath(cwd)
           absolute == IF IsAbsolute(path) THEN normal ELSE NormalizePath(root \o path)
       IN  IF absolute = root THEN <<".">>
           ELSE IF IsPrefix(root, absolute)
             THEN SubSeq(absolute, Len(root) + 1, Len(absolute))
           ELSE original

\* The words without the longest of the tails they end in.
WithoutTail(words, tails) ==
  LET kept == {n \in 1 .. Len(words) : SubSeq(words, n + 1, Len(words)) \in tails}
  IN  SubSeq(words, 1, Min(kept \cup {Len(words)}))

Wildcards == {"*", "**", "*.ts"}

\* The directory a glob lists; one that begins with its wildcard is left as it is.
DirectoryFromGlob(pattern) ==
  LET deep == {<<"**">>, <<"**", "**">>, <<"**", "*">>, <<"**", "**", "*">>}
      stripped == WithoutTail(WithoutTail(pattern, deep), {<<"*">>})
  IN  IF stripped # pattern /\ stripped # <<"/">> THEN stripped
      ELSE IF /\ Len(pattern) > 1 /\ Last(pattern) \in Wildcards
              /\ Front(pattern) # <<"/">> THEN Front(pattern)
      ELSE pattern

-----------------------------------------------------------------------------
(* Tools: classify.ts, for the names and commands of the vendors' docs.    *)

FileReadNames  == {<<"Read">>, <<"read_file">>}
FileWriteNames == {<<"Write">>, <<"Edit">>, <<"apply_patch">>}
DirNames       == {<<"Glob">>, <<"ls">>}
SearchNames    == {<<"Grep">>}

Begins(command, words) == command # None /\ IsPrefix(words, command)
BeginsWithOne(command, words) == command # None /\ Head(command) \in words

OptionWords == {"-l", "-n", "-r"}
Wrappers == {"rtk", "sudo", "time", "nice", "command", "env"}

\* pathFromCommand: the last word that is no option.
PathFromCommand(command) ==
  IF command = None THEN None
  ELSE LET named == {k \in 2 .. Len(command) : command[k] \notin OptionWords}
       IN  IF named = {} THEN None ELSE <<command[Max(named)]>>

\* unwrapCommand: up to four wrappers are taken off, never the last word.
UnwrapCommand(command) ==
  LET wrapped == {n \in 0 .. Min({4, Len(command) - 1}) :
                    \A k \in 1 .. n : command[k] \in Wrappers}
  IN  SubSeq(command, Max(wrapped) + 1, Len(command))

Classified(kind, path, command, testTarget) ==
  [kind |-> kind, path |-> path, command |-> command, testTarget |-> testTarget]

\* classifyTool: the arguments' path (a pattern counts as one), their command
\* and their pattern.
ClassifyTool(name, path, command, pattern) ==
  IF Begins(command, <<"git", "status">>)
    THEN Classified("git_status", path, command, None)
  ELSE IF Begins(command, <<"git", "diff">>)
    THEN Classified("git_diff", path, command, None)
  ELSE IF name \in FileWriteNames
    THEN Classified("file_write", path, command, None)
  ELSE IF name \in FileReadNames \/ BeginsWithOne(command, {"cat", "head", "tail"})
    THEN Classified("file_read", Or(path, PathFromCommand(command)), command, None)
  ELSE IF name \in DirNames \/ BeginsWithOne(command, {"ls", "find", "tree"})
    THEN Classified("directory_list",
                    Or(Or(path, PathFromCommand(command)), <<".">>), command, None)
  ELSE IF Begins(command, <<"npm", "test">>)
    THEN Classified("test_run", path, command, Or(path, command))
  ELSE IF Begins(command, <<"npm", "run", "build">>)
    THEN Classified("build_run", path, command, None)
  ELSE IF name \in SearchNames
    THEN Classified("command", path, Or(command, <<"rg">> \o pattern \o path), None)
  ELSE IF command # None THEN Classified("command", path, command, None)
  ELSE Classified("other", path, None, None)

\* normalizeClaudeTool and its like: the command is unwrapped, and the file named
\* relative to the working directory, before the core sees the arguments.
\* templates: whether a path may begin with a placeholder for that directory, and a
\* listing name its own by a glob, as Claude's and Cursor's may.
NormalizedArguments(part, cwd, templates) ==
  LET command == IF part.command = None THEN None ELSE UnwrapCommand(part.command)
      classified == ClassifyTool(part.name, Or(part.path, part.pattern), command,
                                 part.pattern)
      globbed == templates /\ classified.kind = "directory_list"
                 /\ part.path = None /\ part.pattern # None
      raw == IF globbed THEN DirectoryFromGlob(part.pattern) ELSE classified.path
      path == IF templates THEN StripWorkspacePlaceholder(raw) ELSE raw
  IN  [command |-> command, pattern |-> part.pattern,
       path |-> IF raw = None THEN None ELSE RelativeToCwd(raw, path, cwd)]

\* buildToolMeta: the core classifies what the adapter made of the arguments.
BuildToolMeta(name, arguments) ==
  LET classified == ClassifyTool(name, Or(arguments.path, arguments.pattern),
                                 arguments.command, arguments.pattern)
  IN  [name |-> name, kind |-> classified.kind, path |-> classified.path,
       normalizedPath |-> IF classified.path = None THEN None
                          ELSE NormalizePath(classified.path),
       command |-> classified.command, testTarget |-> classified.testTarget,
       glob |-> None, pattern |-> arguments.pattern, args |-> arguments]
=============================================================================
