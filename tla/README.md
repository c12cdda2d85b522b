# Verification of gflags

TLA+ models of the gflags library (`src/src/gflags.cc` and its headers), checked
with TLC, and proofs about them checked with TLAPS. Line numbers are those of
`src/src/gflags.cc` unless another file is named; C stands for
`src/src/gflags_completions.cc`.

## Inventory

gflags keeps one global registry of flags. A program defines flags with macros,
parses its command line once at the start of `main()`, and afterwards reads and
writes flags directly (`FLAGS_x`) or through an API that takes the registry lock.

| Component | State | Operations | What makes it correct |
|---|---|---|---|
| `FlagValue` (191-485) | a typed buffer | ParseFrom, ToString, Equal, New, CopyFrom, Validate | takes a text exactly when it is a value of the type; printing and parsing are inverse |
| `CommandLineFlag` (498-612) | current value, default value, `modified_`, validate function | UpdateModifiedBit, CopyFrom, Validate | an unmodified flag has its default; its values are valid |
| `FlagRegistry` (632-897) | map from name to flag, a mutex | RegisterFlag, FindFlagLocked, SplitArgumentLocked, SetFlagLocked | a refused value changes nothing a caller can see; modes respect what was set |
| Validators (1380-1404, 1895-1922) | one function per flag | AddFlagValidator; called back by every setter | every value stored by the library passed the function |
| `FlagSaver` (1672-1735) | a backup of every flag | constructor, destructor | what is restored is exactly what was saved |
| `ReadFlagsFromString` (1781-1802) | a backup, an error list | save, apply, report, restore | all or nothing |
| `CommandLineFlagParser` (926-1356, 1936-1967) | `error_flags_`, `undefined_names_`, the position in argv, the C++ stack | ParseNewCommandLineFlags, ProcessXxxLocked, ValidateUnmodifiedFlags, ReportErrors | terminates; the last accepted value wins; exits exactly on error; no operand is lost |
| Argv storage and reparsing (1513-1539, 1991-2008) | the first argv | SetArgv, ReparseCommandLineNonHelpFlags | a second parse only adds |
| Serialisation (1753-1834) | none | CommandlineFlagsIntoString, AppendFlagsIntoFile, ReadFromFlagsFile | reading back what was written restores the values |
| FromEnv helpers (1836-1877) | none | Int32FromEnv and the others | a text that is no value is fatal |
| Mutex (`mutex.h`) | a lock word, `is_safe_` | Lock, Unlock | exclusion; the library never waits for itself |
| Reporting (`gflags_reporting.cc`) | the help flags | HandleCommandLineHelpFlags | exits before errors are reported |
| Completions (C) | the completion flags | HandleCommandLineCompletions | says what the word asked for; stays within the line limit; hides the least relevant first; bash's sorting keeps the groups |
| Rest of `util.h`, Windows port, shell script, build files | - | - | not modelled, see the end |

Interactions: the macros' constructors and `AddFlagValidator` write the registry
before `main()`; the parser, the setters, the savers and the file readers write
it later, each under the lock for part of its work; direct assignments write the
same memory without it. Validate functions are called back with the lock held,
and exit handlers wherever the library exits, at some places with the lock held
too; both may call the library. Help and completions look at all flags and exit.
The parser calls itself through `--flagfile`, `--fromenv` and `--tryfromenv`.

Hard behaviours: the lazily maintained `modified_`; values on which `==` is not
the identity; operations that release the lock between their steps; recursion
through files and environment variables; permuting argv in place; errors that
are recorded, cleared by `--undefok` and reported in the end; callbacks under a
lock that is not recursive; numbers whose width and sign the C library does not
check; line breaks, sections and files inside what is read back; a line limit
that one function estimates and another enforces.
`PROJECT.json` lists each hazard at its line.

## Modules

**CommandLineFlag** - one flag as a record and the operations on it as
operators, for opaque values: `Equals` is C++ `==` (a symmetric and transitive
relation that need not be reflexive), `Parse` is `FlagValue::ParseFrom`,
`Accepts` the validate functions. Assumed in `FlagAssumption`: `==` is symmetric
and transitive on a type's values, and a validate function answers alike on
values that compare equal. Operators commented as seeded faults are plausible
bugs, used only to show that each property can fail.

**FlagRegistry** - the registry in use. A call that holds the lock throughout is
one action. ReadFlagsFromString is one action per stretch between lock
operations and one per line (`ReadSave`, `ReadLock`, `ReadLine`, `ReadUnlock`,
`ReadReport`, `ReadRestore`), because direct assignments do not wait for the
lock and other threads run in between. Two history variables say which flags
the program changed behind the library's back: `unsynced` (assigned directly
since `modified_` was last brought up to date) and `unvetted` (given a value
that its validate function refuses, by assignment or by installing the function
afterwards). Data races on the variables themselves are not modelled: an
assignment is atomic.

**CommandLineParser** - ParseCommandLineFlags and reparsing. The C++ call stack
of the mutually recursive `ProcessXxxLocked` functions is the variable `stack`:
a frame is a list of files or variables still to be processed, or the remaining
lines of a file with the two flags of its loop. `pc` is the position in
ParseCommandLineFlagsInternal; `order` is argv as positions in `command`, so
that permuting and cutting it is visible. `SetCommandLineOptionWithMode` appears
here too because it runs the same recursion with another mode. Arguments are
already cut at `=`; names, values, files and environments are functions given
as constants. argv[0] is left out, so element i is `argv[i]`.

**CommandLineHistory** - CommandLineParser with three history variables, and the
properties that compare a parse with them: the flags when a parse began
(`before`) and when the one before it ended (`settled`), and whether something
other than the command line has said what to process (`disturbed`): a recursive
flag that the program set by hand when a parse began (`SetByHand`), or a library
whose new flag takes its value from the next argument or has a name that another
flag, whose spelling it is, answered to so far (`TakesOver`).

**CommandLineMeaning** - what a command line means, independently of the parser's
steps and of its stack: `Events` flattens it, with the files and variables it
names, into one list of assignments and errors in the order in which they count.
`World` is what that depends on and a parse leaves alone: how arguments split,
which names are flags, which texts each flag accepts, the environment. `Meaning`
says what each file and each list of a recursive flag leads to when at most d of
them can still be opened inside each other (`OneMoreCall`), so that files which
name each other need no special treatment; without an end they are a `Die`, as
the process that runs out of stack. LastAcceptedValueWins and ExitsExactlyOnError
compare the outcome of a parse with this list.

**RegistryLock** - who waits for whom. Each API function is a script, the list
of what it does that matters to the lock (`lock`, `ask` a validate function,
`store`, `report`, ...), in the order the code does it; a thread is a stack of
such calls. A call that is about to `ask`, or that runs exit handlers, may have
another call of `CallBacks` pushed on top of it. `reentry` is the build: a lock
that aborts when its owner asks again (the rwlock behind SAFE_PTHREAD, the assert
of NO_THREADS), one that waits (a plain pthread mutex) and one that lets it in (a
Windows critical section, NO_THREADS without asserts). Every place where the
library exits runs the exit handlers where it stands, with or without the lock.
The flag is reduced to who set it last.

**FlagValue** - ParseFrom and ToString letter by letter, with the C library's
integer scanner as FlagValue uses it (white space, sign, `0x`, where it stops,
what it does on overflow and with a minus sign on unsigned numbers). `Meanings`
says, without any of this machinery, which number a text is. `strtod` is a table.
A text is a sequence over the constant `Letter`, an integer has `Narrow` or
`Wide` bits.

**FlagsIntoString** - GetFromEnv; CommandlineFlagsIntoString and
AppendFlagsIntoFile, behind whatever the file already held; and the way back
through ReadFlagsFromString, one line of text an action: where a line ends,
comments, lines of program names, how a flag is found and spelled
(`SplitArgumentLocked`, with `--x`, `--nox` and dashes for underscores). A line
that sets `--flagfile`, `--fromenv` or `--tryfromenv` puts its list on the stack
`frames`, and the entries are read, one an action (`ReadFile`, `ReadVariable`),
before the next line is. Then come the exit on `--help`, the errors that
`--undefok` excuses, and the values as they were if any are left. Which flags
change in between is the program's choice. A list that names itself recurses here
as in the code, and is never at its end. `TextAssumption` says what keeps the
text of a line in its line: no flag's name and no printed double holds a line
break, and the program's name does not begin like a comment or an option.

**Completions** - HandleCommandLineCompletions, one function or turn of a loop
an action: the quote, dashes and search marks of the word, the matches and their
common prefix, the categories of flags by file, the groups chosen by the
estimate of `SizeInLines`, and the lines printed under `remaining_lines`. A line
is its kind, its indentation and its width. `Limits` stands for the 98 of the
code so that the limit is met at each of its tests.

**Settings** - what the registry promises to a program that does not look
inside: a value, a default that moves the value until one was chosen, snapshots
to go back to. No modified bit, no copies, no lock; looking changes nothing.

**FlagRegistryRefinement** - FlagRegistry as an implementation of Settings. A
value counts as chosen when `modified_` says so or would say so at the next look
(`SettingOf`); a snapshot is the registry when it was taken, not the copy
(`SnapshotOf`), so that a restore from an inexact copy would be no step of
Settings. Only a reader may drop a snapshot without going back to it, and
Settings does not know whether its read failed: that a failing read does go
back is `RollbackIsExact`.

**CommandLineFlagProofs, FlagRegistryProofs, RegistryLockProofs,
CommandLineParserProofs, CommandLineMeaningProofs, CompletionsProofs,
FlagsIntoStringProofs, Induction** - the proofs, each about the module it is
named for; FlagRegistryProofs ends with FlagRegistryRefinement,
CommandLineParserProofs is about CommandLineHistory and FlagsIntoStringProofs
about FlagValue too. Induction holds what several of them need: least and
greatest numbers, strong induction, functions defined by recursion, slices of
sequences and what FlattenSeq does.

**MCFlagRegistry, MCDirectWrites, MCCommandLineParser, MCRegistryLock,
MCFlagsIntoString, MCCompletions** - instances for TLC. MCFlagsIntoString adds
SectionsAreSkipped, which says of its foreign files what RoundTrip leaves open
for files in general.

What composes what: CommandLineFlag is extended by FlagRegistry and
CommandLineParser, that by CommandLineHistory and that by CommandLineMeaning;
FlagValue by FlagsIntoString; FlagRegistryRefinement extends FlagRegistry and
instantiates Settings. Calls that FlagRegistry takes as atomic
are the scripts of RegistryLock, which shows when their lock can be had.

## Runs

The passing runs:

| Run | Question | Bounds |
|---|---|---|
| `savers` | do overlapping FlagSavers restore exactly, and does the registry implement Settings? | 1 flag, 2 savers (symmetric), values 0.0, -0.0 and 1, one validate function |
| `setters` | do the modes and the modified bit agree, and with Settings? | 2 flags, one with a second spelling, values 0, 1 and NaN |
| `reads` | is ReadFlagsFromString all or nothing under interleaving, and is the lock released? Does it implement Settings? | 2 threads, 1 flag, two files of two lines, one of them failing after it took effect |
| `argv` | is every short command line permuted, applied and reported as it means? | all sequences of up to 3 out of 13 arguments, 3 initial registries, reparsing allowed or not |
| `recursion` | do files, variables, the API and a second parse combine as they mean? | all sequences of up to 2 out of 10 arguments and one of 3, 3 environments, 3 initial registries, a late flag, 2 parses, 1 API call |
| `lock` | who can wait for the lock for ever, exit with it, or slip in between a look and a store? | 2 threads, 3 calls between them, callbacks that get and set, three builds |
| `completions` | does the list of completions mean what was typed, fit, and hide the right flags? | 5 programs, words of 4 beginnings, 6 middles and 9 ends, 11 limits from 0 to 20, 10 columns |
| `texts` | is a text taken exactly as what it means, and does what is written come back? | 3- and 5-bit integers, all texts of up to 3 of 9 letters, of 4 of 5 letters, and three more as each of 7 types; 12 flags in 37 settings, among them 11 with lists of files, variables or excused names; 14 files written behind, 2 files and 8 variables to be named |

The bounds are enough for each pair of mechanisms to meet: two savers give every
order of overlap, two readers give a rollback over another's write, three
arguments give an option with a separate value on either side of a displaced
operand or of `--`. In `lock` a call may be called back below a call while the
other thread waits, which takes three. In `texts` 3 and 5 bits put numbers on
both sides of both ends of every range within three letters, with room for a
sign or white space, and within four behind a `0x`; the scanner treats more
digits alike. In `completions` the limits stop the printing at every line of
every group.
`MaxParses`, `MaxCalls` and `MaxDepth` bound the parser; a run that reached
`MaxDepth` would deadlock, so its passing shows that the depth suffices.
Deadlock is checked in every run; the last disjunct of each next-state relation
is the program that exited or does something else.

In the files of `recursion` no file includes itself, the environment has no
list that names fromenv, and the API calls with a mode other than
SET_FLAGS_VALUE use a file without `--flagfile`: outside these limits the code
recurses for ever, as the runs `loop` and `include` show.

Four runs end in a violation and record where the code and what is written about
it differ:

- `direct_writes`: a direct assignment that is taken back before the library
  looks is forgotten (592; `gflags.h.in:229`).
- `loop`: the guard at 1169 stops only the exact values `fromenv` and
  `tryfromenv`.
- `include`: with SET_FLAG_IF_DEFAULT a flag file that includes another is read
  again in place of the other, without end (1193).
- `byhand`: FLAGS_flagfile set by the program differs from `--flagfile` in front
  of the command line when the file uses `--fromenv` (1951, comment at 1946).

Where a passing property exempts what the code gets wrong or cannot do, the
exemption has a name of its own or stands in the property, and is one of these:

- `Mistaken`: unsigned flags also take a text of spaces only, as 0, and a tab in
  front of a minus sign hides it, so that the number's two's complement is taken
  (334, 350: only the character ' ' is skipped; the comment says "negative number").
- `Readable`: a string value with a line break, and a double that strtod calls
  out of range (a subnormal one), do not come back.
- `Ours`: flags appended behind an unfinished line, or under another program's
  section, are not read as ours.
- `Exposed`: CommandlineFlagsIntoString writes `--flagfile`, `--fromenv` and
  `--tryfromenv`, AppendFlagsIntoFile the last two, and what they name is read
  again with their line (1192-1200; the comment at 1749 says of `--flagfile`
  that it is not saved). A flag written in front of such a list may be set to
  something else by it, and what the list names may be an error that undoes the
  read. A flag with no nonempty list written at it or behind it is not exposed
  and has its value back whenever the read succeeds.
- `Strays`: the package's directory is searched for anywhere in a file name.
- In LinesFitColumns a line with one or two columns left for the description,
  which is printed with all of it (C 706: the length wraps around), and a detail after one that
  ends just where a row does, which starts one column early (C 744-754).
- `Stuck` in CallsReturn: a thread that asks for its own lock in a build that
  waits, and one that exits with the lock while another thread is in exit().
  `gflags.h.in:169` warns of the first, and the unit test for it
  (`test/gflags_unittest.cc:146`) is disabled. LibraryNeverReenters says that it
  takes the program's own code to get there.
- `CompletionsAssumption`: `--tab_completion_columns=0` divides by zero (C 751).

The documentation also says that of a repeated flag "only the last specification
is used" (`doc/index.html:452`); `ExitsExactlyOnError` records that a refused
value is an error although a later one is good. `ReparseCommandLineNonHelpFlags`
is documented to recognise only flags registered since the last parse
(`gflags.h.in:375`); the code applies the whole command line again (2003), over
what the program has changed since, which `ReparseIsIdempotent` shows to be
harmless to a program that changed nothing. Its conditions are those of
`disturbed`. A library flag written without `=`, which `gflags.h.in:377` forbids,
takes away the argument behind it (a command line of `recursion` does so), and
what a program puts into FLAGS_flagfile by hand is read by one parse and, if the
file names another, not by the next.

## Fairness

`FlagRegistry`: weak fairness of each thread's steps inside ReadFlagsFromString
- a thread that is scheduled keeps executing - and of nothing else: a program
need not call the library. It gives `LockIsReleased`. `CommandLineParser`: weak
fairness of the steps of a parse that has begun, one thread executing straight
line code. It gives `Terminates`. `Completions`: weak fairness of its steps, for
the same reason; it gives `Finishes`. `RegistryLock`: weak fairness of each
thread's next step while the process lives - inside the library, a validate
function or an exit handler a thread that is scheduled goes on - and none of
calls, which the program need not make. Weak is enough because the
calls are bounded by MaxCalls; whether a mutex under endless traffic starves a
waiter is up to its implementation and not modelled. It gives `CallsReturn`.

## Proofs

The proofs hold for all values of the constants that satisfy the assumptions
beside their declarations: `FlagAssumption`, `RegistryAssumption`,
`ParserAssumption`, `CompletionsAssumption`, `FlagValueAssumption`,
`FlagsIntoStringAssumption`, `TextAssumption`, `RefinementAssumption` and
`LockAssumption`. The runs evaluate each of them.

**Induction.** The theorems of the library about induction take an operator as a
parameter, which the provers cannot instantiate. `Induction` therefore states
induction over sets: a set of numbers that holds k whenever it holds every
smaller number holds them all, and a function over 0..n can be built value by
value. With these, what `Decimal`, `Number`, `FlattenSeq` and the other
recursive functions of the models compute is proved from their definitions:
some function satisfies the equations (RecursionExists, DescentExists), no two
do, so the CHOOSE behind a recursive function yields it.

**FlagRegistry.** The state predicates are inductive together:

    Inv == TypeOK /\ DefaultFollows /\ AlwaysValid /\ BackupsAreFaithful

None of them is inductive alone. A restore copies a backup into the registry, so
DefaultFollows and AlwaysValid need BackupsAreFaithful to know that the backup's
parts belong together and are valid; a backup is made from the registry, so
BackupsAreFaithful needs the other two. The crux is CopyFrom, which keeps a value
that compares equal: lemmas about `Agree` (identical or `==`), in
CommandLineFlagProofs, show from symmetry and transitivity that copying an
agreeing value preserves agreement, and from the assumption on validate functions
that it preserves validity. `RestoreIsExact` and `RollbackIsExact` follow from
the invariant, `DefaultModesYield` from the definition of SetFlagLocked in its
three modes.

**FlagRegistryRefinement.** `RegistryImplementsSettings`: every behaviour of
FlagRegistry is one of Settings. The initial states map to initial states, and
each action, under the invariant above, to a step of Settings or a stutter;
UpdateModifiedBit, wherever it is called, changes no setting, because a value
that differs from its default counts as chosen already. The assumption added is
that savers and threads are different things and NULL is no snapshot or setting.

**CommandLineParser.** `TypeCorrect` needs that argv is complete while it is
scanned and cursor stays in front of first_nonopt (`Positions`), and that nobody
unregisters the library's own flags. `ModeReachesEveryOption` is an action
property: every step sets at most one flag, with `mode` (`CallEffect`), and
SetFlagLocked yields in the other modes. `ReturnMeansValid` is a property of
CommandLineHistory: `ParseInv` says of each registered flag that it is valid, or
as it was before the parse, or named in error_flags (`Fate`), and that no
registered name is in undefined_names, so that --undefok cannot excuse an invalid
value. `OperandsAreKept` rests on `MidScan`: in the
middle of the loop argv is the options and values scanned so far, the arguments
not looked at yet, and the operands moved to the end, each part in its order,
and the arguments from cursor on are the ones the meaning of a command line
would look at next.

**CommandLineMeaning.** The meaning is defined by going down into files and
lists, the parser by pushing and popping frames, and neither follows the other's
structure. What relates them is what is still to be done: `RestOf` says which
events the rest of a frame stands for, `Pending` those of the whole stack,
innermost frame first, `Rest` adds the rest of argv. The invariant says that some
list `past` of events lies behind the parser such that

    MeaningInv == Origin  - a parse has registered no flag and installed no
                            validate function, so that World is what it was
              and past \o Rest(World) = Whole(World)
                          - nothing was forgotten, done twice or out of order
              and Reflects(past)
                          - every flag has the last accepted value in past, the
                            undefined names are those of its unknown events, and
                            the error flags its refused, failed and unknown ones

`Whole` grows with pc, since what FLAGS_fromenv leads to is known only when
FLAGS_flagfile is done. Each step of a parse takes the first event off what is
left and does it, or takes off none and changes no flag (`Advances`); where a
step opens a file or a list, the events that this stands for are those of the
frame it pushes (`CallStepAdvances`). That `Die` never lies behind the parser is
because the code exits there at once. `Leaves` keeps
apart the names that no flag has, which is what --undefok may excuse; ReportErrors
is then followed case by case (`ReportIsFaulty`). Without `past` the invariant
would not be inductive: which value of several is the last accepted one depends
on all events so far. LastAcceptedValueWins and ExitsExactlyOnError are what is
left of it when nothing is pending. They hold for files and lists nested up to
MaxDepth, whatever this is; CallStep pushes no frame beyond it.

That a reparse changes nothing (`ReparseIsIdempotentHolds`) is read off the
meaning of the command line rather than off the parser. `Wanted(n)` is the last
text that the arguments, with all the files and lists they lead to, give to flag
n of those it accepts. Three facts carry it:

- `ScanFollowed`: what the arguments do is closed under following recursive flags
  (`Followed`): an accepted value of one has been processed among the events. It
  is proved from level to level of `Meaning`, which is the same at every depth
  as long as nothing ends the program (`Complete`). So a parse that begins with recursive
  flags that name nothing, or only what the arguments want of them, gives every
  flag what is wanted, or leaves it alone (`DoneAsWanted`): what FLAGS_flagfile
  and the others lead to in front of the arguments, the arguments lead to again.
- `LikeScan`: two worlds whose arguments split alike, except between flags that
  are new (`LikeWorlds`, `SameArguments`), want the same of the old flags; again
  level by level.
- `LateWorlds`: registering a flag leaves such a world, unless it `TakesOver`.

With them

    ReparseInv == disturbed, or between parses the flags are, or were when the last
                  parse ended, as wanted, and all that it knew are still there with
                  their validate functions; and the recursive flags a parse begins
                  with name nothing, or are as the parse before left them

is inductive together with MeaningInv. The recursive flags are in it because the
next parse reads them before anything else, and the validate functions because
what is wanted depends on what is accepted. The two lemmas about levels have one
scheme, `CallRelated`: a relation between events that holds of nothing, of parts
put behind each other and of what one call does if it holds of the calls inside,
holds of files and lists at any depth.

**RegistryLock.** For any set of threads, any number of calls and any
`CallBacks`. Scripts are shown to fit together (`Chained`: what leaves the lock
held is followed by what is done under it; `Refusable`: a refusal finds an unlock
to go to), and so does whatever is left of a call after any step. Then

    Inv == types, owner = NULL <=> depth = 0, and for each thread
           Stacked  - each call but the innermost waits at something that calls:
                      a callback, --help or an exit
           Guarded  - while a SET_FLAG_IF_DEFAULT has looked and not yet stored,
                      the flag is unset or set by its own thread, and no call
                      above it will bring back anything else
           Holds    - as many of its calls have the lock as depth says if it is
                      the owner, and none otherwise

is inductive. Stacked says what can lie below a call that reports or wants the
lock; Holds says that two threads are never both under the lock, so that nobody
but the validate function of the call comes between a look and a store.
`OnlyCallbacksReenter`, `ReportsUnlocked` and `SetIfDefaultYields` follow.
`LockTypeCorrect` adds `Budgeted`: no more calls are in progress than were made,
so the lock is never deeper. Threads are not assumed finite.

**Completions.** `CompletionFits`: the lines printed and `remaining_lines` add up
to the limit until the last line. `SortingKeepsGroups`: every line so far is
indented at least as much as the group at hand, and within a group the kinds
come in the order bash sorts them. `HidesOnlyWhenFull` and `RelevantFirst` follow
the two phases of the code, through four invariants: `Choice`, what the estimate
took and what it left out; `Printing`, which flags the lines so far list and in
which order, and that the lines left are the limit less what the chosen groups
have printed; `Ended`, what the notice of hidden flags says. That the kind of a
flag is its rank (`RankIsKind`) takes the search for the package's directory
apart: a file is below the directory exactly when the slash at which the code
looks follows it. `LinesFitColumns` reads it off the lines of Printing.
`SearchMeansWhatWasTyped` has two more, `Typing` (the quote, dashes and marks
taken off the word so far, and the word that is left) and `Common` (the prefix so
far is the longest that all matches so far have).

**FlagValue and FlagsIntoString.** `TypeCorrect`: what is stored in a flag fits
it. `ParsesWhatItMeans`: the state says no more than that the answer is what the
text parses into; the work is in the lemmas that the scanner finds white space,
sign, prefix and digits of a text where `Meanings` does, and overflows exactly
when the number is out of range (powers of two come from the sets of numbers up
to n, which are 2^n many). `PrintedValuesParse`: the decimal digits of a number
mean this number, so every value of every type is printed as a text that parses
into it, doubles that strtod refuses excepted. `RoundTrip` puts the lines behind
each other (`Place(k)`: where the text of the k-th flag ends) and follows the
reading through them:

    Transferred == what is in the text is what was written, and while it is read
           InBefore - what is left begins within what the file held before, in
                      the outermost frame; files and lists may be on top of it
        or Among    - what is left begins at a flag's place, is read as ours, and
                      all flags before it that are not exposed have their values
                      back; on top of it there is something only behind the line
                      of a list
        or AtEnd    - nothing is left, and all flags that are not exposed have
                      their values back

and if the file was empty and no list is written, there is no error and no other
flag is touched. A step above the outermost frame leaves that frame alone
(`NestedStep`), and may set flags: in front of the flags this says nothing of them,
and behind the line of a list all flags up to there are exposed (`Interrupted`). So
it holds for every file written behind, with whatever sections, line ends, lists
and variables, as long as `Readable` and `Ours` hold.

Left to TLC: liveness (LockIsReleased, Terminates, Finishes, CallsReturn),
because fairness and ENABLED are outside the prover's reach; RecursionIsGuarded,
which depends on the environment the run gives it (the run `loop` shows one in
which it fails); SectionsAreSkipped, a property of the files of its run.

## Plan

Done: every module above, and the proofs of all state invariants and action
properties but the two just named.

Left: the line breaking of DescribeOneFlag.

## Not modelled

The text of help and XML output (line breaking, quoting of XML), of which only
whether it is printed and which locks it takes is modelled; the initialisation
order of translation units and `is_safe_`, which turns the lock off until it is
constructed; ShutDownCommandLineFlags, documented as safe only when nothing else
uses flags; the readers' side of the lock, which nothing uses; data races on the
flag variables themselves; fnmatch, which is equality of names here; strtod
beyond a table; the shell script, the build files, the Windows port and what is in `util.h` but
SafeGetEnv and the integer scanners (string formatting, opening files).
