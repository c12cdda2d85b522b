-------------------------- MODULE CommandLineParser --------------------------
(***************************************************************************)
(* ParseCommandLineFlags, ReparseCommandLineNonHelpFlags and the recursive *)
(* processing of --flagfile, --fromenv and --tryfromenv (class             *)
(* CommandLineFlagParser, src/gflags.cc).  The mutual recursion of the     *)
(* ProcessXxxLocked functions is an explicit stack of frames, so that one  *)
(* step handles one argument, one line of a flag file or one name of an    *)
(* environment list.  argv[0] is left out: element i of a sequence here is *)
(* argv[i] of the program.                                                 *)
(***************************************************************************)
EXTENDS CommandLineFlag, SequencesExt

CONSTANTS
  Bool,          \* the boolean flags
  Positive,      \* Positive[k]: k without a leading "no", NULL if it has none
  Reporting,     \* --help, --version, ...
  Entries,       \* Entries[v]: v split at the commas, NULL if that is an error
  Contents,      \* Contents[f]: the lines of file f, NULL if it cannot be read
  Commands,      \* command lines
  Environments,  \* environments: Environments[k] is the text of FLAGS_k or NULL
  Starts,        \* flags as they may be when main() starts
  Late,          \* flags a library may register later
  Calls,         \* the calls of SetCommandLineOptionWithMode it makes
  MaxParses,     \* bound: calls of the parsing functions
  MaxCalls,      \* bound: calls of SetCommandLineOptionWithMode
  MaxDepth       \* bound: frames on the stack

Recursive == {"flagfile", "fromenv", "tryfromenv"}

(* An argument is a word, the "--" that ends the options, or a flag with   *)
(* its value, if it has one.  An option that takes its value from the next *)
(* argument takes the text of that one, whatever it looks like.            *)
FlagArgument == [kind : {"flag"}, key : Name, value : Text \cup {NULL}, text : Text]
Argument == [kind : {"word", "end"}, text : Text] \cup FlagArgument

(* A line of a flag file: blank or a comment, names of programs, or a flag. *)
Line == [kind : {"comment"}] \cup [kind : {"filenames"}, matches : BOOLEAN] \cup FlagArgument

(* The flags that --flagfile and the others are parsed into are there from *)
(* the start: the library itself defines them.                             *)
ASSUME ParserAssumption ==
  /\ Recursive \cup {"undefok"} \cup Bool \cup Reporting \cup Late \subseteq Name
  /\ {"0", "1"} \subseteq Text /\ Text \subseteq Name
  /\ Positive \in [Name -> Name \cup {NULL}]
  /\ Entries \in [Value -> Seq(Text) \cup {NULL}]
  /\ Contents \in [Text -> Seq(Line) \cup {NULL}]
  /\ \A c \in Commands : c \in Seq(Argument)
  /\ \A e \in Environments : e \in [Name -> Text \cup {NULL}]
  /\ \A s \in Starts : /\ s \in [Name -> Flag \cup {NULL}]
                       /\ \A n \in Recursive \cup {"undefok"} : s[n] # NULL
  /\ \A c \in Calls : c \in [name : Name, text : Text, mode : SettingMode]
  /\ MaxParses \in Nat /\ MaxCalls \in Nat /\ MaxDepth \in Nat

VARIABLES
  flags,         \* the registry: the flag under each name, or NULL
  env,           \* the environment of the process
  command,       \* argv as SetArgv saved it
  order,         \* argv as it is being permuted, by positions in command
  cursor,        \* i of ParseNewCommandLineFlags
  first_nonopt,
  stack,         \* ProcessXxxLocked calls in progress, innermost first
  mode,          \* the FlagSettingMode they were called with
  error_flags,   \* names with a nonempty message in error_flags_
  undefined_names,
  reparsing,     \* allow_command_line_reparsing
  pc, exited,
  parses, calls  \* how often the program called the library

parserVars == <<order, cursor, first_nonopt, error_flags, undefined_names>>
fixedVars  == <<env, command, reparsing>>
vars == <<flags, parserVars, stack, mode, pc, parses, calls, exited, fixedVars>>

-----------------------------------------------------------------------------
Registered(n) == flags[n] # NULL

(* FlagRegistry::FindFlagLocked                                            *)
FindFlagLocked(name) ==
  CASE Registered(name)                                          -> name
    [] ~Registered(name) /\ Registered(Underscored[name])        -> Underscored[name]
    [] OTHER                                                     -> NULL

(* FlagRegistry::SplitArgumentLocked, on an argument already cut at '='.   *)
SplitArgumentLocked(key, value) ==
  LET n == FindFlagLocked(key)
      x == IF Positive[key] = NULL THEN NULL ELSE FindFlagLocked(Positive[key])
  IN  CASE n # NULL ->
             [flag |-> n, key |-> key, value |-> IF value = NULL /\ n \in Bool THEN "1" ELSE value]
        [] n = NULL /\ x \in Bool -> [flag |-> x, key |-> Positive[key], value |-> "0"]
        [] OTHER -> [flag |-> NULL, key |-> key, value |-> value]

(* ProcessFlagfileLocked, ProcessFromenvLocked: a list to work through.    *)
(* ParseFlagList dies on an empty entry and on one that begins with '-'.   *)
Call(n, v, callers) ==
  /\ Len(callers) < MaxDepth
  /\ exited' = (Entries[v] = NULL)
  /\ stack' = IF Entries[v] \in {NULL, <<>>} THEN callers
              ELSE <<[kind |-> n, todo |-> Entries[v], list |-> v]>> \o callers

(* The loop of ProcessOptionsFromStringLocked over the lines of a file.    *)
LinesOf(f) ==
  [kind |-> "lines", todo |-> Contents[f], relevant |-> TRUE, in_filename_section |-> FALSE]

(* Seeded faults: a nested file or list is not read; a value that is       *)
(* refused is not recorded as an error; the caller's mode is forgotten.    *)
ProcessWithoutRecursion(n, text, set_mode, callers) ==
  /\ flags' = [flags EXCEPT ![n] = SetFlagLocked(n, @, text, set_mode)]
  /\ error_flags' = error_flags \cup
       (IF SetFlagSucceeds(n, flags[n], text, set_mode) THEN {} ELSE {n})
  /\ stack' = callers /\ UNCHANGED exited

ProcessSilently(n, text, set_mode, callers) ==
  /\ flags' = [flags EXCEPT ![n] = SetFlagLocked(n, @, text, set_mode)]
  /\ UNCHANGED error_flags
  /\ IF n \in Recursive /\ SetFlagSucceeds(n, flags[n], text, set_mode)
     THEN Call(n, flags'[n].current, callers)
     ELSE stack' = callers /\ UNCHANGED exited

ProcessForgettingMode(n, text, set_mode, callers) ==
  /\ flags' = [flags EXCEPT ![n] = SetFlagLocked(n, @, text, "SET_FLAGS_VALUE")]
  /\ IF n \in Recursive
     THEN Call(n, flags'[n].current, callers)
     ELSE stack' = callers /\ UNCHANGED exited
  /\ UNCHANGED error_flags

(* The recursive flags are processed with the value they have now, which   *)
(* set_mode may have kept from becoming text.                              *)
ProcessSingleOptionLocked(n, text, set_mode, callers) ==
  LET ok == SetFlagSucceeds(n, flags[n], text, set_mode)
  IN  /\ flags' = [flags EXCEPT ![n] = SetFlagLocked(n, @, text, set_mode)]
      /\ error_flags' = IF ok THEN error_flags ELSE error_flags \cup {n}
      /\ IF ok /\ n \in Recursive
         THEN Call(n, flags'[n].current, callers)
         ELSE stack' = callers /\ UNCHANGED exited

-----------------------------------------------------------------------------
(* Steps of the innermost call.                                            *)
Top     == Head(stack)
Advance == <<[Top EXCEPT !.todo = Tail(@)]>> \o Tail(stack)
Skip    == stack' = Advance /\ UNCHANGED <<flags, error_flags, exited>>
Calling(kind) == stack # <<>> /\ Top.kind = kind /\ Top.todo # <<>>
Unmoved == UNCHANGED <<order, cursor, first_nonopt, mode, pc, parses, calls, fixedVars>>

Return ==
  /\ stack # <<>>
  /\ Top.todo = <<>>
  /\ stack' = Tail(stack)
  /\ Unmoved
  /\ UNCHANGED <<flags, error_flags, undefined_names, exited>>

(* One file of a --flagfile list; ReadFileIntoString exits if it cannot.   *)
NextFile ==
  /\ Calling("flagfile")
  /\ Len(stack) < MaxDepth
  /\ LET f == Head(Top.todo)
     IN  IF Contents[f] = NULL
         THEN exited' = TRUE /\ UNCHANGED stack
         ELSE stack' = <<LinesOf(f)>> \o Advance /\ UNCHANGED exited
  /\ Unmoved
  /\ UNCHANGED <<flags, error_flags, undefined_names>>

(* One line of a flag file: a comment or blank line, a line of program     *)
(* names, or a flag, whose own errors of spelling are ignored.             *)
CommentLine ==
  /\ Calling("lines")
  /\ Head(Top.todo).kind = "comment"
  /\ Skip
  /\ Unmoved /\ UNCHANGED undefined_names

(* Seeded fault: a second line of names closes the section the first made. *)
FilenameLineResets ==
  /\ Calling("lines")
  /\ Head(Top.todo).kind = "filenames"
  /\ stack' = <<[Top EXCEPT !.todo = Tail(@), !.in_filename_section = TRUE,
                            !.relevant = Head(Top.todo).matches]>> \o Tail(stack)
  /\ Unmoved /\ UNCHANGED <<flags, error_flags, undefined_names, exited>>

FilenameLine ==
  /\ Calling("lines")
  /\ Head(Top.todo).kind = "filenames"
  /\ stack' = <<[Top EXCEPT
                   !.todo = Tail(@),
                   !.in_filename_section = TRUE,
                   !.relevant = \/ Head(Top.todo).matches
                                \/ @ /\ Top.in_filename_section]>> \o Tail(stack)
  /\ Unmoved /\ UNCHANGED <<flags, error_flags, undefined_names, exited>>

FlagLine ==
  /\ Calling("lines")
  /\ Head(Top.todo).kind = "flag"
  /\ LET line  == Head(Top.todo)
         after == <<[Top EXCEPT !.todo = Tail(@), !.in_filename_section = FALSE]>> \o Tail(stack)
         arg   == SplitArgumentLocked(line.key, line.value)
     IN  IF Top.relevant /\ arg.flag # NULL /\ arg.value # NULL
         THEN ProcessSingleOptionLocked(arg.flag, arg.value, mode, after)
         ELSE stack' = after /\ UNCHANGED <<flags, error_flags, exited>>
  /\ Unmoved /\ UNCHANGED undefined_names

(* Seeded fault: the guard against FLAGS_fromenv=fromenv is missing.       *)
NextEnvUnguarded ==
  /\ Calling("fromenv") \/ Calling("tryfromenv")
  /\ LET name    == Head(Top.todo)
         n       == FindFlagLocked(name)
         envval  == env[name]
         fail    == error_flags' = error_flags \cup {name}
                      /\ stack' = Advance /\ UNCHANGED <<flags, exited>>
     IN  \/ n = NULL /\ fail /\ undefined_names' = undefined_names \cup {name}
         \/ n # NULL /\ UNCHANGED undefined_names /\
              \/ envval = NULL /\ (IF Top.kind = "fromenv" THEN fail ELSE Skip)
              \/ envval # NULL /\ ProcessSingleOptionLocked(n, envval, mode, Advance)
  /\ Unmoved

(* One name of a --fromenv or --tryfromenv list.                           *)
NextEnv ==
  /\ Calling("fromenv") \/ Calling("tryfromenv")
  /\ LET name    == Head(Top.todo)
         n       == FindFlagLocked(name)
         envval  == env[name]
         fail    == error_flags' = error_flags \cup {name}
                      /\ stack' = Advance /\ UNCHANGED <<flags, exited>>
     IN  \/ n = NULL /\ fail /\ undefined_names' = undefined_names \cup {name}
         \/ n # NULL /\ UNCHANGED undefined_names /\
              \/ envval = NULL /\ (IF Top.kind = "fromenv" THEN fail ELSE Skip)
              \/ envval \in {"fromenv", "tryfromenv"} /\ fail
              \/ /\ envval \notin {NULL, "fromenv", "tryfromenv"}
                 /\ ProcessSingleOptionLocked(n, envval, mode, Advance)
  /\ Unmoved

-----------------------------------------------------------------------------
(* ParseCommandLineFlagsInternal.                                          *)
Idle == pc \in {"ready", "done"} /\ stack = <<>>

Begin ==
  /\ Idle
  /\ parses > 0 => reparsing
  /\ parses < MaxParses
  /\ parses' = parses + 1
  /\ pc' = "flagfile"
  /\ mode' = "SET_FLAGS_VALUE"
  /\ order' = [j \in DOMAIN command |-> j]
  /\ cursor' = 1
  /\ first_nonopt' = Len(command) + 1
  /\ error_flags' = {} /\ undefined_names' = {}
  /\ UNCHANGED <<flags, stack, calls, exited, fixedVars>>

(* FLAGS_flagfile, FLAGS_fromenv and FLAGS_tryfromenv as the program, or   *)
(* what was processed just before, left them.                              *)
Stage == [flagfile |-> "fromenv", fromenv |-> "tryfromenv", tryfromenv |-> "argv"]

ProcessStage ==
  /\ stack = <<>>
  /\ pc \in Recursive
  /\ Call(pc, flags[pc].current, <<>>)
  /\ pc' = Stage[pc]
  /\ UNCHANGED <<flags, parserVars, mode, parses, calls, fixedVars>>

(* Seeded faults: the scan does not stay where the argument was taken out; *)
(* the arguments behind it are not moved up; first_nonopt stays.           *)
PermuteSkips ==
  /\ order' = Append(RemoveAt(order, cursor), order[cursor])
  /\ first_nonopt' = first_nonopt - 1
  /\ cursor' = cursor + 1

PermuteInPlace ==
  /\ order' = [order EXCEPT ![Len(order)] = order[cursor]]
  /\ first_nonopt' = first_nonopt - 1
  /\ UNCHANGED cursor

PermuteForever ==
  /\ order' = Append(RemoveAt(order, cursor), order[cursor])
  /\ UNCHANGED <<cursor, first_nonopt>>

Permute ==
  /\ order' = Append(RemoveAt(order, cursor), order[cursor])
  /\ first_nonopt' = first_nonopt - 1
  /\ UNCHANGED cursor

(* One round of the loop of ParseNewCommandLineFlags.                      *)
Parsing == stack = <<>> /\ pc = "argv" /\ cursor < first_nonopt
Arg     == command[order[cursor]]
Settled == UNCHANGED <<mode, parses, calls, fixedVars>>

ProgramArgument ==
  /\ Parsing
  /\ Arg.kind = "word"
  /\ Permute
  /\ Settled /\ UNCHANGED <<flags, error_flags, undefined_names, stack, pc, exited>>

EndOfOptions ==
  /\ Parsing
  /\ Arg.kind = "end"
  /\ first_nonopt' = cursor + 1
  /\ cursor' = cursor + 1
  /\ Settled
  /\ UNCHANGED <<flags, error_flags, undefined_names, stack, pc, exited, order>>

UnknownOption ==
  /\ Parsing
  /\ Arg.kind = "flag"
  /\ LET arg == SplitArgumentLocked(Arg.key, Arg.value)
     IN  /\ arg.flag = NULL
         /\ undefined_names' = undefined_names \cup {arg.key}
         /\ error_flags' = error_flags \cup {arg.key}
  /\ cursor' = cursor + 1
  /\ Settled /\ UNCHANGED <<flags, stack, pc, exited, order, first_nonopt>>

(* The value is the next argument, whatever that looks like; without one   *)
(* the loop is left.                                                       *)
MissingArgument ==
  /\ Parsing
  /\ Arg.kind = "flag"
  /\ LET arg == SplitArgumentLocked(Arg.key, Arg.value)
     IN  /\ arg.flag # NULL /\ arg.value = NULL
         /\ cursor + 1 >= first_nonopt
         /\ error_flags' = error_flags \cup {arg.key}
  /\ cursor' = first_nonopt
  /\ Settled /\ UNCHANGED <<flags, undefined_names, stack, pc, exited, order, first_nonopt>>

KnownOption ==
  /\ Parsing
  /\ Arg.kind = "flag"
  /\ LET arg    == SplitArgumentLocked(Arg.key, Arg.value)
         inline == arg.value # NULL
     IN  /\ arg.flag # NULL
         /\ inline \/ cursor + 1 < first_nonopt
         /\ ProcessSingleOptionLocked(arg.flag,
              IF inline THEN arg.value ELSE command[order[cursor + 1]].text, mode, <<>>)
         /\ cursor' = IF inline THEN cursor + 1 ELSE cursor + 2
  /\ Settled /\ UNCHANGED <<undefined_names, pc, order, first_nonopt>>

(* remove_flags cuts the options off argv; else argv stays as permuted.    *)
(* Only the first parse can be asked for that, or to handle --help.        *)
ArgumentsDone(remove_flags) ==
  /\ stack = <<>> /\ pc = "argv" /\ cursor >= first_nonopt
  /\ remove_flags => parses = 1
  /\ order' = IF remove_flags THEN SubSeq(order, first_nonopt, Len(order)) ELSE order
  /\ first_nonopt' = IF remove_flags THEN 1 ELSE first_nonopt
  /\ pc' = "help"
  /\ Settled /\ UNCHANGED <<flags, stack, cursor, error_flags, undefined_names, exited>>

HandleCommandLineHelpFlags(do_report) ==
  /\ pc = "help"
  /\ do_report => parses = 1
  /\ exited' = (do_report /\ \E n \in Reporting : Registered(n) /\ flags[n].current # Fresh[n])
  /\ pc' = "validate"
  /\ Settled /\ UNCHANGED <<flags, stack, parserVars>>

(* Seeded fault: flags that were set are the ones that are validated.      *)
ValidateModifiedFlags ==
  /\ pc = "validate"
  /\ error_flags' = error_flags \cup
       {n \in Name : /\ Registered(n) /\ flags[n].modified
                     /\ ~Validate(n, flags[n], flags[n].current)}
  /\ pc' = "report"
  /\ Settled /\ UNCHANGED <<flags, stack, exited, order, cursor, first_nonopt, undefined_names>>

ValidateUnmodifiedFlags ==
  /\ pc = "validate"
  /\ error_flags' = error_flags \cup
       {n \in Name : /\ Registered(n) /\ ~flags[n].modified
                     /\ ~Validate(n, flags[n], flags[n].current)}
  /\ pc' = "report"
  /\ Settled /\ UNCHANGED <<flags, stack, exited, order, cursor, first_nonopt, undefined_names>>

(* Seeded fault: --undefok=x clears x's error whatever the error is.       *)
ExcusedWhateverTheError(list) ==
  ToSet(list) \cup {m \in undefined_names : Positive[m] \in ToSet(list)}

(* The names --undefok clears: an entry, or else the entry with "no".      *)
Excused(list) ==
  LET listed == ToSet(list) \cap undefined_names
  IN  listed \cup {m \in undefined_names : Positive[m] \in ToSet(list) \ listed}

ReportErrors ==
  /\ pc = "report"
  /\ LET undefok == Entries[flags["undefok"].current]
     IN  IF undefok = NULL
         THEN exited' = TRUE /\ UNCHANGED error_flags
         ELSE /\ error_flags' = (error_flags \ Excused(undefok))
                                  \ (IF reparsing THEN undefined_names ELSE {})
              /\ exited' = (error_flags' # {})
  /\ pc' = "done"
  /\ Settled /\ UNCHANGED <<flags, stack, order, cursor, first_nonopt, undefined_names>>

-----------------------------------------------------------------------------
(* Outside the parses a library is loaded, or the program sets a flag. The *)
(* latter has a parser of its own, whose errors nobody reads.              *)
RegisterLate(n) ==
  /\ Idle /\ reparsing
  /\ n \in Late /\ ~Registered(n)
  /\ flags' = [flags EXCEPT ![n] = NewFlag(Fresh[n])]
  /\ pc' = "ready"
  /\ UNCHANGED <<parserVars, stack, mode, parses, calls, exited, fixedVars>>

SetCommandLineOptionWithMode(name, text, set_mode) ==
  /\ Idle
  /\ calls < MaxCalls
  /\ calls' = calls + 1
  /\ FindFlagLocked(name) # NULL
  /\ mode' = set_mode
  /\ ProcessSingleOptionLocked(FindFlagLocked(name), text, set_mode, <<>>)
  /\ pc' = "ready"
  /\ UNCHANGED <<order, cursor, first_nonopt, undefined_names, parses, fixedVars>>

CallStep == Return \/ NextFile \/ CommentLine \/ FilenameLine \/ FlagLine \/ NextEnv

ParseStep ==
  \/ CallStep
  \/ ProcessStage
  \/ ProgramArgument \/ EndOfOptions \/ UnknownOption \/ MissingArgument \/ KnownOption
  \/ \E remove_flags \in BOOLEAN : ArgumentsDone(remove_flags)
  \/ \E do_report \in BOOLEAN : HandleCommandLineHelpFlags(do_report)
  \/ ValidateUnmodifiedFlags
  \/ ReportErrors

Init ==
  /\ flags \in Starts
  /\ env \in Environments
  /\ command \in Commands
  /\ order = <<>> /\ cursor = 1 /\ first_nonopt = 1
  /\ stack = <<>> /\ mode = "SET_FLAGS_VALUE"
  /\ error_flags = {} /\ undefined_names = {}
  /\ reparsing \in BOOLEAN
  /\ pc = "ready" /\ parses = 0 /\ calls = 0 /\ exited = FALSE

(* The program goes on to other things, or is gone.                        *)
Finished == (exited \/ Idle) /\ UNCHANGED vars

Next ==
  \/ /\ ~exited
     /\ \/ Begin
        \/ ParseStep
        \/ \E n \in Late : RegisterLate(n)
        \/ \E c \in Calls : SetCommandLineOptionWithMode(c.name, c.text, c.mode)
  \/ Finished

(* The parsing thread keeps running.                                       *)
Spec == Init /\ [][Next]_vars /\ WF_vars(~exited /\ ParseStep)
-----------------------------------------------------------------------------
Frame ==
  [kind : Recursive, todo : Seq(Text), list : Value] \cup
  [kind : {"lines"}, todo : Seq(Line), relevant : BOOLEAN, in_filename_section : BOOLEAN]

(* The variables have their types, and argv is never longer than it was:   *)
(* the positions in it stay distinct and cursor and first_nonopt stay in.  *)
TypeOK ==
  /\ flags \in [Name -> Flag \cup {NULL}]
  /\ command \in Commands /\ env \in Environments
  /\ order \in Seq(DOMAIN command) /\ IsInjective(order)
  /\ cursor \in 1 .. Len(command) + 1 /\ first_nonopt \in 1 .. Len(command) + 1
  /\ stack \in Seq(Frame) /\ Len(stack) <= MaxDepth
  /\ mode \in SettingMode
  /\ error_flags \subseteq Name /\ undefined_names \subseteq Name
  /\ reparsing \in BOOLEAN /\ exited \in BOOLEAN
  /\ pc \in Recursive \cup {"ready", "argv", "help", "validate", "report", "done"}
  /\ parses \in 0 .. MaxParses /\ calls \in 0 .. MaxCalls

-----------------------------------------------------------------------------
(* What an argument of the command line is, by the arguments before it.    *)
NeedsNext ==
  [k \in DOMAIN command |->
     /\ command[k].kind = "flag"
     /\ LET arg == SplitArgumentLocked(command[k].key, command[k].value)
        IN  arg.flag # NULL /\ arg.value = NULL]

(* The value of the option before it, which is not itself such a value.    *)
ValuesAfter(needs) ==
  LET taken[k \in 0 .. Len(needs)] == k > 1 /\ needs[k - 1] /\ ~taken[k - 1]
  IN  taken

IsValue(k)     == ValuesAfter(NeedsNext)[k]
IsEndMark(k)   == command[k].kind = "end" /\ ~IsValue(k)
AfterOptions(k) == \E m \in 1 .. k - 1 : IsEndMark(m)
IsOperand(k)   == AfterOptions(k) \/ (command[k].kind = "word" /\ ~IsValue(k))

Precedes(j, k) == \/ AfterOptions(j) /\ ~AfterOptions(k)
                  \/ (AfterOptions(j) <=> AfterOptions(k)) /\ j < k

(* The rearranged argv keeps every argument that is not an option or an     *)
(* option's value, and the index returned is that of the first of them;     *)
(* options stay in order in front.  Arguments after "--" come before those  *)
(* that stood in front of it (ParseNewCommandLineFlags).                    *)
OperandsAreKept ==
  pc = "done" =>
    LET front == 1 .. first_nonopt - 1
        rest  == first_nonopt .. Len(order)
    IN  /\ {order[i] : i \in rest} = {k \in DOMAIN command : IsOperand(k)}
        /\ \A i, j \in rest : i < j => Precedes(order[i], order[j])
        /\ \A i, j \in front : i < j => order[i] < order[j]
        /\ front # {} => Len(order) = Len(command)

(* gflags.cc:1168, "Avoid infinite recursion.": no list of names is worked *)
(* through inside the processing of the same list by the same flag, since  *)
(* that would go on for ever (ProcessFromenvLocked).                       *)
RecursionIsGuarded ==
  \A i, j \in DOMAIN stack :
    i # j /\ stack[i].kind # "lines" => 
      \/ stack[i].kind # stack[j].kind
      \/ stack[i].list # stack[j].list

(* Options that SetCommandLineOptionWithMode reaches through a flag file   *)
(* or the environment are set with the mode it was called with: unless     *)
(* that is SET_FLAGS_VALUE, a flag that is modified, or was assigned to    *)
(* directly, keeps its value (ProcessSingleOptionLocked).                  *)
ModeReachesEveryOption ==
  [][mode' # "SET_FLAGS_VALUE" =>
       \A n \in Name : Registered(n) /\ UpdateModifiedBit(flags[n]).modified
          => flags'[n].current = flags[n].current]_vars

(* Every parse comes to an end: it returns, or it ends the program. The    *)
(* loop over argv takes back its i++ whenever it moves an argument to the  *)
(* end, and the recursion has to run out (ParseNewCommandLineFlags).       *)
Terminates == pc = "flagfile" ~> pc = "done" \/ exited
=============================================================================
