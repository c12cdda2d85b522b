-------------------------- MODULE FlagsIntoString --------------------------
(***************************************************************************)
(* Flags as text (gflags.cc): a flag's default from the environment, all   *)
(* flags written into a string or appended to a file, letter by letter,    *)
(* and read back line by line.                                             *)
(*                                                                         *)
(* One thread; locks, savers and the setting of a flag are in FlagRegistry *)
(* and RegistryLock.  A value is refused here only because it does not     *)
(* parse.  A name is one letter, so that another spelling of it is another *)
(* letter.                                                                 *)
(***************************************************************************)
EXTENDS FlagValue

CONSTANTS
    Name,      \* the flags, in the order of GetAllFlags
    TypeOf,    \* the type of each
    Settings,  \* the values the flags may have when they are written
    Others,    \* and those the program may change them to
    Prog,      \* ProgramInvocationShortName(), a letter
    Foreign,   \* what a file may hold before anything is appended
    Nested,    \* the files --flagfile may name, and their contents
    FlagsEnv,  \* the variables FLAGS_x that are set, under x
    EnvTexts,  \* the texts an environment variable may hold
    Underscored,  \* the flags that are also found under a name with dashes
    Reporting     \* --help, --version and their like

Names == Range(Name)
Recursive == {"flagfile", "fromenv", "tryfromenv"}

\* Each flag has a value of its type.
Typed(values) ==
    /\ values = [n \in Names |-> values[n]]
    /\ \A n \in Names : HasType(values[n], TypeOf[n])

ASSUME FlagsIntoStringAssumption ==
    /\ Name \in Seq(Letter) /\ IsInjective(Name)
    /\ TypeOf \in [Names -> Type]
    /\ \A n \in Recursive \cup {"undefok"} : n \in Names /\ TypeOf[n] = "string"
    /\ Reporting \subseteq Names
    /\ \A n \in DOMAIN Underscored : Underscored[n] \in Names
    /\ Settings # {} /\ \A f \in Settings \cup Others : Typed(f)
    /\ {Prog, "=", "\n"} \subseteq Letter
    /\ \A t \in Foreign \cup EnvTexts : t \in Seq(Letter)
    /\ \A f \in DOMAIN Nested : Nested[f] \in Seq(Letter)
    /\ \A n \in DOMAIN FlagsEnv : FlagsEnv[n] \in Seq(Letter)

LineBreaks == {"\r", "\n"}

\* Flags have the names of C variables, the program's name is none that a
\* line of a file would be cut or taken for something else at, and "%.17g"
\* prints no line break.
ASSUME TextAssumption ==
    /\ Names \cap (LineBreaks \cup {"="}) = {}
    /\ Prog \notin IsSpace \cup {"#", "-"}
    /\ \A d \in Double : \A k \in 1..Len(DoubleText[d]) :
            DoubleText[d][k] \notin LineBreaks

VARIABLES
    pc,
    asked,    \* the type and the text of the environment variable read
    answer,   \* what GetFromEnv made of it
    flags,    \* the current value of each flag
    written,  \* the flags when they were written, how, and which of them
    text,     \* the string, or the contents of the file
    frames,   \* the texts and lists being read, the innermost last
    backup,   \* saved_states
    errors,   \* the keys of error_flags_
    undefined,  \* and of undefined_names_
    returned    \* by ReadFlagsFromString

vars == <<pc, asked, answer, flags, written, text, frames, backup, errors,
          undefined, returned>>

environment == <<asked, answer>>
writing == <<written, text>>
reading == <<frames, backup, errors, undefined, returned>>

None == [how |-> "not", names |-> {}, flags |-> <<>>, named |-> FALSE,
         before |-> <<>>]

Init ==
    /\ \/ /\ pc = "start"
          /\ asked \in [type : Type, text : EnvTexts]
          /\ flags = CHOOSE f \in Settings : TRUE
       \/ /\ pc = "running"
          /\ asked = [type |-> "string", text |-> <<>>]
          /\ flags \in Settings
    /\ answer = Failed(asked.type)
    /\ written = None /\ text \in (IF pc = "start" THEN {<<>>} ELSE Foreign)
    /\ frames = <<>> /\ backup = flags /\ returned = FALSE
    /\ errors = {} /\ undefined = {}

---------------------------------------------------------------------------
(* GetFromEnv: the variable is set; a text that does not parse is fatal.   *)

GetFromEnv ==
    /\ pc = "start"
    /\ answer' = ParseFrom(asked.type, asked.text)
    /\ pc' = IF answer'.ok THEN "parsed" ELSE "refused"
    /\ UNCHANGED <<asked, flags, writing, reading>>

---------------------------------------------------------------------------
(* Writing.                                                                *)

Line(n) == <<"-", "-", n, "=">> \o ValueToString(TypeOf[n], flags[n]) \o <<"\n">>

TheseCommandlineFlagsIntoString(names) ==
    FlattenSeq([k \in DOMAIN Name |->
                    IF Name[k] \in names THEN Line(Name[k]) ELSE <<>>])

CommandlineFlagsIntoString ==
    /\ pc = "running" /\ text = <<>>
    /\ text' = TheseCommandlineFlagsIntoString(Names)
    /\ written' = [how |-> "string", names |-> Names, flags |-> flags,
                   named |-> FALSE, before |-> <<>>]
    /\ pc' = "written"
    /\ UNCHANGED <<environment, flags, reading>>

\* Opening the file may fail.
AppendFlagsIntoFile ==
    /\ pc = "running"
    /\ \E named \in BOOLEAN :
          LET names == Names \ {"flagfile"}
          IN  /\ text' = text \o (IF named THEN <<Prog, "\n">> ELSE <<>>)
                              \o TheseCommandlineFlagsIntoString(names)
              /\ written' = [how |-> "file", names |-> names,
                             flags |-> flags, named |-> named,
                             before |-> text]
    /\ pc' = "written"
    /\ UNCHANGED <<environment, flags, reading>>

AppendFails ==
    /\ pc = "running" /\ pc' = "exit"
    /\ UNCHANGED <<environment, flags, writing, reading>>

\* The program sets its flags to something else in the meantime.
SetFlags ==
    /\ pc = "written" /\ pc' = "changed"
    /\ flags' \in Others
    /\ UNCHANGED <<environment, writing, reading>>

---------------------------------------------------------------------------
(* Reading: ReadFlagsFromString, with ProcessOptionsFromStringLocked a     *)
(* line at a time.  What a line names is read before the next line is, so  *)
(* it goes on top: a file, or a list of files or variables, whose entries  *)
(* are read one at a time.                                                 *)

Frame(contents) ==
    [kind |-> "lines", rest |-> contents, relevant |-> TRUE, inSection |-> FALSE]

ReadFlagsFromString ==
    /\ pc = "changed" /\ pc' = "reading"
    /\ backup' = flags
    /\ frames' = <<Frame(text)>>
    /\ UNCHANGED <<environment, flags, writing, errors, undefined, returned>>

Reading(kinds) == pc = "reading" /\ frames # <<>> /\ Last(frames).kind \in kinds

\* The first carriage return in what is left, or else the first newline.
LineEnd(contents) ==
    LET at(c) == { k \in 1..Len(contents) : contents[k] = c }
        ends == IF at("\r") # {} THEN at("\r") ELSE at("\n")
    IN  IF ends = {} THEN Len(contents) + 1 ELSE Min(ends)

Contents == Without(Last(frames).rest, Lead(Last(frames).rest, IsSpace))
CurrentLine == SubSeq(Contents, 1, LineEnd(Contents) - 1)

\* The frames once the line is read: the text ends with its last line.
Advance(relevant, inSection) ==
    IF LineEnd(Contents) > Len(Contents) THEN Front(frames)
    ELSE Append(Front(frames),
                [kind |-> "lines", rest |-> Without(Contents, LineEnd(Contents)),
                 relevant |-> relevant, inSection |-> inSection])

LineStarts(c) == CurrentLine # <<>> /\ CurrentLine[1] = c

ReadNothing ==
    /\ Reading({"lines"})
    /\ CurrentLine = <<>> \/ LineStarts("#")
    /\ frames' = Advance(Last(frames).relevant, Last(frames).inSection)
    /\ UNCHANGED <<pc, environment, flags, writing, backup, errors, undefined, returned>>

\* A line of file names, split at its spaces, of which one may be ours.
NamesUs(line) ==
    \E k \in 1..Len(line) : /\ line[k] = Prog
                            /\ k = 1 \/ line[k - 1] = " "
                            /\ k = Len(line) \/ line[k + 1] = " "

\* Seeded fault: whichever program a section names, it is read.
ReadEverySection ==
    /\ Reading({"lines"})
    /\ CurrentLine # <<>> /\ ~LineStarts("#") /\ ~LineStarts("-")
    /\ frames' = Advance(TRUE, TRUE)
    /\ UNCHANGED <<pc, environment, flags, writing, backup, errors, undefined, returned>>

ReadFilenames ==
    /\ Reading({"lines"})
    /\ CurrentLine # <<>> /\ ~LineStarts("#") /\ ~LineStarts("-")
    /\ LET before == Last(frames).inSection /\ Last(frames).relevant
       IN  frames' = Advance(before \/ NamesUs(CurrentLine), TRUE)
    /\ UNCHANGED <<pc, environment, flags, writing, backup, errors, undefined, returned>>

IgnoreFlagLine ==
    /\ Reading({"lines"})
    /\ LineStarts("-") /\ ~Last(frames).relevant
    /\ frames' = Advance(FALSE, FALSE)
    /\ UNCHANGED <<pc, environment, flags, writing, backup, errors, undefined, returned>>

---------------------------------------------------------------------------
(* Lists: the flags or files between the commas.                           *)

\* ParseFlagList dies of an empty entry and of one that begins with '-'.
BadList(list) ==
    \E k \in DOMAIN list : /\ k > 1 => list[k - 1] = ","
                           /\ list[k] \in {",", "-"}

Entry(list) == SubSeq(list, 1, Lead(list, Letter \ {","}))
Behind(list) == Without(list, Min({Len(Entry(list)) + 1, Len(list)}))
Entries(list) == { Entry(Without(list, k)) :
                     k \in { k \in 0..Len(list) - 1 : k > 0 => list[k] = "," } }

\* Seeded fault: what a line names is read when the text has been.
ProcessListLater(name, list, callers) ==
    /\ frames' = IF list = <<>> \/ BadList(list) THEN callers
                 ELSE <<[Frame(list) EXCEPT !.kind = name]>> \o callers
    /\ pc' = IF BadList(list) THEN "exit" ELSE pc

\* ProcessFlagfileLocked and ProcessFromenvLocked.
ProcessListLocked(name, list, callers) ==
    /\ frames' = IF list = <<>> \/ BadList(list) THEN callers
                 ELSE Append(callers, [Frame(list) EXCEPT !.kind = name])
    /\ pc' = IF BadList(list) THEN "exit" ELSE pc

\* The value is set, and what a recursive flag names is read at once.
ProcessSingleOptionLocked(name, value, callers) ==
    \E parsed \in {ParseFrom(TypeOf[name], value)} :
       \/ /\ ~parsed.ok
          /\ errors' = errors \cup {<<name>>} /\ frames' = callers
          /\ UNCHANGED <<pc, flags>>
       \/ /\ parsed.ok
          /\ flags' = [flags EXCEPT ![name] = parsed.value]
          /\ IF name \in Recursive THEN ProcessListLocked(name, value, callers)
             ELSE frames' = callers /\ UNCHANGED pc
          /\ UNCHANGED errors

\* The entry at hand is done with.
NextEntry ==
    Append(Front(frames), [Last(frames) EXCEPT !.rest = Behind(@)])

ListEnds ==
    /\ Reading(Recursive) /\ Last(frames).rest = <<>>
    /\ frames' = Front(frames)
    /\ UNCHANGED <<pc, environment, flags, writing, backup, errors, undefined, returned>>

\* ReadFileIntoString: a file that cannot be opened ends the program.
ReadFile ==
    /\ Reading({"flagfile"}) /\ Last(frames).rest # <<>>
    /\ LET file == Entry(Last(frames).rest)
       IN  \/ /\ file \in DOMAIN Nested
              /\ frames' = Append(NextEntry, Frame(Nested[file])) /\ UNCHANGED pc
           \/ /\ file \notin DOMAIN Nested
              /\ frames' = NextEntry /\ pc' = "exit"
    /\ UNCHANGED <<environment, flags, writing, backup, errors, undefined, returned>>

\* FlagRegistry::FindFlagLocked, as a set of at most one flag.
FindFlagLocked(key) ==
    { n \in Names :
        /\ Len(key) = 1
        /\ \/ key[1] = n
           \/ /\ key[1] \in DOMAIN Underscored \ Names
              /\ Underscored[key[1]] = n }

\* The variable of a flag is named as the list names the flag.
SafeGetEnv(flagname) == { FlagsEnv[x] : x \in {flagname[1]} \cap DOMAIN FlagsEnv }

ReadVariable ==
    /\ Reading({"fromenv", "tryfromenv"}) /\ Last(frames).rest # <<>>
    /\ LET flagname == Entry(Last(frames).rest)
           found == FindFlagLocked(flagname)
           fail == /\ errors' = errors \cup {flagname} /\ frames' = NextEntry
                   /\ UNCHANGED <<pc, flags>>
       IN  /\ undefined' = IF found = {} THEN undefined \cup {flagname} ELSE undefined
           /\ \/ found = {} /\ fail
              \/ /\ found # {} /\ SafeGetEnv(flagname) = {}
                 /\ IF Last(frames).kind = "fromenv" THEN fail
                    ELSE frames' = NextEntry /\ UNCHANGED <<pc, flags, errors>>
              \/ \E n \in found, envval \in SafeGetEnv(flagname) :
                    IF envval \in {<<"fromenv">>, <<"tryfromenv">>} THEN fail
                    ELSE ProcessSingleOptionLocked(n, envval, NextEntry)
    /\ UNCHANGED <<environment, writing, backup, returned>>

---------------------------------------------------------------------------
(* A line that sets a flag.                                                *)

Argument ==
    Without(CurrentLine, IF Len(CurrentLine) > 1 /\ CurrentLine[2] = "-"
                         THEN 2 ELSE 1)

\* The flag and the value of an argument, as a set of at most one: flags
\* that nobody knows and values that are missing are silently ignored.
SplitArgumentLocked(argument) ==
    LET length == Lead(argument, Letter \ {"="})
        key == SubSeq(argument, 1, length)
        flag == FindFlagLocked(key)
        positive == IF flag = {} /\ key # <<>> /\ key[1] = "no"
                    THEN FindFlagLocked(Tail(key)) ELSE {}
        isBool(n) == TypeOf[n] = "bool"
    IN  { [flag |-> n, value |-> IF length < Len(argument)
                                 THEN Without(argument, length + 1) ELSE <<"1">>] :
            n \in { m \in flag : length < Len(argument) \/ isBool(m) } }
        \cup { [flag |-> n, value |-> <<"0">>] : n \in { m \in positive : isBool(m) } }

ReadFlagLine ==
    /\ Reading({"lines"})
    /\ LineStarts("-") /\ Last(frames).relevant
    /\ LET split == SplitArgumentLocked(Argument)
           after == Advance(TRUE, FALSE)
       IN  \/ /\ split = {}
              /\ frames' = after /\ UNCHANGED <<pc, flags, errors>>
           \/ \E s \in split : ProcessSingleOptionLocked(s.flag, s.value, after)
    /\ UNCHANGED <<environment, writing, backup, undefined, returned>>

---------------------------------------------------------------------------
(* HandleCommandLineHelpFlags, ReportErrors, and the values as they were   *)
(* if there were any.                                                      *)

HandleCommandLineHelpFlags ==
    /\ pc = "reading" /\ frames = <<>>
    /\ pc' = IF \E n \in Reporting : flags[n] # New(TypeOf[n])
             THEN "exit" ELSE "reporting"
    /\ UNCHANGED <<environment, flags, writing, reading>>

\* The names --undefok clears: an entry, or else the entry with "no".
Excused ==
    LET listed == Entries(flags["undefok"])
    IN  { m \in undefined :
            \/ m \in listed
            \/ m # <<>> /\ m[1] = "no" /\ Tail(m) \in listed \ undefined }

FinishReading ==
    /\ pc = "reporting" /\ ~BadList(flags["undefok"])
    /\ \E allow_command_line_reparsing, errors_are_fatal \in BOOLEAN :
          /\ errors' = (errors \ Excused)
                          \ (IF allow_command_line_reparsing THEN undefined ELSE {})
          /\ returned' = (errors' = {})
          /\ IF errors' # {} /\ errors_are_fatal
             THEN pc' = "exit" /\ UNCHANGED flags
             ELSE pc' = "read" /\ flags' = IF errors' = {} THEN flags ELSE backup
    /\ UNCHANGED <<environment, writing, frames, backup, undefined>>

ReportDies ==
    /\ pc = "reporting" /\ BadList(flags["undefok"]) /\ pc' = "exit"
    /\ UNCHANGED <<environment, flags, writing, reading>>

Done == pc \in {"parsed", "refused", "exit", "read"} /\ UNCHANGED vars

Step ==
    \/ GetFromEnv
    \/ CommandlineFlagsIntoString \/ AppendFlagsIntoFile \/ AppendFails
    \/ SetFlags
    \/ ReadFlagsFromString \/ ReadNothing \/ ReadFilenames \/ IgnoreFlagLine
    \/ ReadFlagLine \/ ListEnds \/ ReadFile \/ ReadVariable
    \/ HandleCommandLineHelpFlags \/ FinishReading \/ ReportDies

Next == Step \/ Done

Spec == Init /\ [][Next]_vars

---------------------------------------------------------------------------
(* Properties.                                                             *)

\* The type invariant: what is stored in a flag fits it, wherever the text
\* came from (FlagValue::ParseFrom, gflags.cc:292).
TypeOK ==
    /\ pc \in {"start", "parsed", "refused", "exit", "running", "written",
               "changed", "reading", "reporting", "read"}
    /\ asked \in [type : Type, text : EnvTexts \cup {<<>>}]
    /\ answer.ok \in BOOLEAN /\ HasType(answer.value, asked.type)
    /\ Typed(flags) /\ Typed(backup)
    /\ text \in Seq(Letter)
    /\ frames \in Seq([kind : {"lines"} \cup Recursive, rest : Seq(Letter),
                       relevant : BOOLEAN, inSection : BOOLEAN])
    /\ \A key \in errors \cup undefined : key \in Seq(Letter)
    /\ returned \in BOOLEAN

\* A numeric text is accepted exactly when it is a number of the flag's type,
\* and as that number: no value wraps around (FlagValue::ParseFrom,
\* gflags.cc:292-370), except for the two mistakes of Mistaken.
ParsesWhatItMeans ==
    pc \in {"parsed", "refused"} /\ asked.type \in Signed \cup Unsigned
            /\ ~Mistaken(asked.type, asked.text) =>
        LET meanings == Meanings(asked.type, asked.text)
        IN  IF answer.ok THEN meanings = {answer.value} ELSE meanings = {}

\* What was written can be read back: no string value holds a line break,
\* and the library takes the doubles it prints.
Readable(values) ==
    \A n \in Names :
        /\ TypeOf[n] = "string" =>
              \A k \in 1..Len(values[n]) : values[n][k] \notin LineBreaks
        /\ TypeOf[n] = "double" => DoubleText[values[n]] \in DOMAIN Strtod

\* The flags are written where they are read as ours: at the front, or
\* under the program's name in a file that ends its last line.
Ours ==
    CASE written.how = "string" -> TRUE
      [] written.how = "file" ->
            \/ written.before = <<>>
            \/ written.named /\ Last(written.before) = "\n"
      [] written.how = "not" -> FALSE

\* What a flag names is read again when its line is, and may set the flags
\* that were written up to there to something else.  A file never has
\* --flagfile; that a string has it, and both the other two, is against the
\* comment at gflags.cc:1749.
ReadAgain(n) == n \in written.names \cap Recursive /\ written.flags[n] # <<>>
Exposed(i) == \E j \in i..Len(Name) : ReadAgain(Name[j])

\* Flags written into a string or a file and read back have the values they
\* had, whatever they were set to in between and whatever the file held
\* before, if everything is read without an error: all of them that no list
\* of files or variables is written behind.  If there is no such list and
\* nothing in front of the flags, there is no error, and no other flag is
\* touched (gflags.cc:1739-1833).
RoundTrip ==
    pc = "read" /\ Readable(written.flags) /\ Ours =>
        /\ returned =>
              \A i \in DOMAIN Name : Name[i] \in written.names /\ ~Exposed(i) =>
                  flags[Name[i]] = written.flags[Name[i]]
        /\ written.before = <<>> /\ ~Exposed(1) =>
              /\ returned
              /\ \A n \in Names \ written.names : flags[n] = backup[n]
=============================================================================
