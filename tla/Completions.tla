---------------------------- MODULE Completions ----------------------------
(***************************************************************************)
(* Bash completion of flag names (gflags_completions.cc): from the word    *)
(* under the cursor and the registered flags to the lines printed for      *)
(* bash.  The program hijacked by --tab_completion_word is single-threaded *)
(* and exits afterwards; one action is one function, or one turn of its    *)
(* loop.                                                                   *)
(*                                                                         *)
(* A name, a file name, a description and the word are sequences of        *)
(* letters (a letter may stand for a run of characters that the searches   *)
(* never split).  The text of a line is abstracted to what it is, how far  *)
(* it is indented and how wide it is.                                      *)
(***************************************************************************)
EXTENDS Integers, Sequences, FiniteSets, SequencesExt

CONSTANTS
    Programs,    \* the flag lists GetAllFlags may return
    Words,       \* the words that may stand under the cursor
    ShortName,   \* ProgramInvocationShortName()
    Limits,      \* what 98, the number of desired lines, may be
    Everything,  \* 999999, the number of desired lines after a '+'
    Columns      \* FLAGS_tab_completion_columns

\* HandleCommandLineCompletions returns at once on an empty word, and a
\* line is laid out modulo the number of columns, which must not be zero.
ASSUME CompletionsAssumption ==
    /\ Words \subseteq Seq(STRING) \ {<<>>}
    /\ Programs \subseteq Seq([name : Seq(STRING), filename : Seq(STRING),
                               description : Seq(STRING), rest : Nat,
                               details : Seq(Nat)])
    /\ Limits \subseteq Nat /\ Everything \in Nat
    /\ Columns \in Nat \ {0}

VARIABLES
    pc,               \* the function being run
    all_flags,        \* GetAllFlags(), sorted by file name, then by name
    cursor_word,      \* FLAGS_tab_completion_word
    token,            \* canonical_token
    marks, pluses,    \* found_question_marks, found_plusses
    next,             \* the iterator of the loop being run
    matching_flags,   \* indices into all_flags
    common,           \* longest_common_prefix
    module, package_dir,
    notable_flags,    \* the kind of each matching flag
    output_groups,    \* the kinds of the chosen groups, the best first
    lines_so_far,     \* their estimated number of lines
    max_desired_lines, remaining_lines,
    todo,             \* flags of the group being printed, not printed yet
    completions       \* the lines produced

input == <<all_flags, cursor_word>>
search == <<token, marks, pluses>>
searching == <<matching_flags, common, next>>
choosing == <<output_groups, lines_so_far, max_desired_lines>>
placing == <<module, package_dir, notable_flags>>
printing == <<remaining_lines, todo, completions>>

vars == <<pc, input, search, searching, placing, choosing, printing>>

Init ==
    /\ pc = "quote"
    /\ all_flags \in Programs
    /\ cursor_word \in Words /\ token = cursor_word
    /\ marks = 0 /\ pluses = 0
    /\ next = 1 /\ matching_flags = {} /\ common = <<>>
    /\ module = <<>> /\ package_dir = <<>> /\ notable_flags = <<>>
    /\ output_groups = <<>> /\ lines_so_far = 0
    /\ max_desired_lines = 0 /\ remaining_lines = 0
    /\ todo = {} /\ completions = <<>>

---------------------------------------------------------------------------
(* 1) The search word: a quote and dashes go from its front, up to three   *)
(* '?' and up to one '+' from its back, in whatever order they stand.      *)

Quote == "\""

StripQuote ==
    /\ pc = "quote"
    /\ token' = IF token # <<>> /\ token[1] = Quote THEN Tail(token) ELSE token
    /\ pc' = "dashes"
    /\ UNCHANGED <<input, marks, pluses, searching, placing, choosing, printing>>

StripDash ==
    /\ pc = "dashes"
    /\ IF token # <<>> /\ token[1] = "-"
       THEN token' = Tail(token) /\ UNCHANGED pc
       ELSE pc' = "options" /\ UNCHANGED token
    /\ UNCHANGED <<input, marks, pluses, searching, placing, choosing, printing>>

RemoveTrailingChar(c) ==
    /\ token # <<>> /\ Last(token) = c
    /\ token' = Front(token)

CanTake(c) ==
    /\ token # <<>> /\ Last(token) = c
    /\ \/ c = "?" /\ marks < 3
       \/ c = "+" /\ pluses < 1

TakeQuestionMark ==
    /\ pc = "options" /\ CanTake("?")
    /\ RemoveTrailingChar("?")
    /\ marks' = marks + 1
    /\ UNCHANGED <<pc, input, pluses, searching, placing, choosing, printing>>

\* Seeded fault: a '+' is looked for only in front of the '?'.
PlusEndsTheMarks ==
    /\ pc = "options" /\ CanTake("+")
    /\ RemoveTrailingChar("+")
    /\ pluses' = pluses + 1 /\ pc' = "match"
    /\ UNCHANGED <<input, marks, searching, placing, choosing, printing>>

TakePlus ==
    /\ pc = "options" /\ CanTake("+")
    /\ RemoveTrailingChar("+")
    /\ pluses' = pluses + 1
    /\ UNCHANGED <<pc, input, marks, searching, placing, choosing, printing>>

OptionsTaken ==
    /\ pc = "options" /\ ~CanTake("?") /\ ~CanTake("+")
    /\ pc' = "match"
    /\ UNCHANGED <<input, search, searching, placing, choosing,
                   printing>>

---------------------------------------------------------------------------
(* 2) The flags that match, and the prefix all their names share.          *)

\* string::find: where s stands in t, and whether it does.
Places(s, t) ==
    { k \in 1..(Len(t) - Len(s) + 1) : SubSeq(t, k, k + Len(s) - 1) = s }
Occurs(s, t) == Places(s, t) # {}

DoesSingleFlagMatch(flag) ==
    \/ IsPrefix(token, flag.name)
    \/ marks > 0 /\ Occurs(token, flag.name)
    \/ marks > 1 /\ Occurs(token, flag.filename)
    \/ marks > 2 /\ Occurs(token, flag.description)

FindMatchingFlags ==
    /\ pc = "match" /\ next <= Len(all_flags)
    /\ LET name == all_flags[next].name
       IN  IF DoesSingleFlagMatch(all_flags[next])
           THEN /\ common' = IF matching_flags = {} THEN name
                             ELSE LongestCommonPrefix({common, name})
                /\ matching_flags' = matching_flags \cup {next}
           ELSE UNCHANGED <<common, matching_flags>>
    /\ next' = next + 1
    /\ UNCHANGED <<pc, input, search, placing, choosing, printing>>

\* PrintFlagCompletionInfo after the search: a longer prefix is all bash
\* gets, and no match is nothing.
PrintCommonPrefix ==
    /\ pc = "match" /\ next > Len(all_flags)
    /\ Len(common) > Len(token)
    /\ completions' = <<[what |-> "prefix", indent |-> 0]>>
    /\ pc' = "exit"
    /\ UNCHANGED <<input, search, searching, placing, choosing,
                   remaining_lines, todo>>

PrintNothing ==
    /\ pc = "match" /\ next > Len(all_flags)
    /\ Len(common) <= Len(token) /\ matching_flags = {}
    /\ pc' = "exit"
    /\ UNCHANGED <<input, search, searching, placing, choosing, printing>>

---------------------------------------------------------------------------
(* 3) How close a flag is to the program being completed.                  *)

ModuleSuffixes ==
    { <<"/", ShortName>> \o end : end \in
        {<<".">>, <<"-main", ".">>, <<"_main", ".">>, <<"-test", ".">>,
         <<"_test", ".">>, <<"-unittest", ".">>, <<"_unittest", ".">>} }

\* The file of the first flag whose file name looks like the program's,
\* <<>> when there is none, and the directory of a file.
FindModule ==
    LET candidates == { f \in 1..Len(all_flags) : \E s \in ModuleSuffixes :
                            Occurs(s, all_flags[f].filename) }
    IN  IF candidates = {} THEN <<>> ELSE all_flags[Min(candidates)].filename

DirectoryOf(file) ==
    LET slashes == { k \in 1..Len(file) : file[k] = "/" }
    IN  IF slashes = {} THEN <<>> ELSE SubSeq(file, 1, Max(slashes) - 1)

TryFindModuleAndPackageDir ==
    /\ pc = "match" /\ next > Len(all_flags)
    /\ Len(common) <= Len(token) /\ matching_flags # {}
    /\ module' = FindModule /\ package_dir' = DirectoryOf(FindModule)
    /\ pc' = "categorize"
    /\ UNCHANGED <<input, search, searching, notable_flags, choosing,
                   printing>>

InPackage(file) == package_dir # <<>> /\ Occurs(package_dir, file)

\* Seeded fault: the slash that ends the package's own directory counts.
SlashOfPackage(file) ==
    \E k \in (Min(Places(package_dir, file)) + Len(package_dir))
                .. Len(file) : file[k] = "/"

SlashAfterPackage(file) ==
    \E k \in (Min(Places(package_dir, file)) + Len(package_dir) + 1)
                .. Len(file) : file[k] = "/"

\* The four sets of NotableFlags that are ever filled (most_common_flags is
\* not), and "other" for what RetrieveUnusedFlags leaves.
Kinds == <<"perfect", "module", "package", "subpackage", "other">>

Category(f) ==
    LET file == all_flags[f].filename
    IN  IF all_flags[f].name = token THEN "perfect"
        ELSE IF module # <<>> /\ file = module THEN "module"
        ELSE IF ~InPackage(file) THEN "other"
        ELSE IF SlashAfterPackage(file) THEN "subpackage" ELSE "package"

CategorizeAllMatchingFlags ==
    /\ pc = "categorize"
    /\ notable_flags' = [f \in matching_flags |-> Category(f)]
    /\ max_desired_lines' \in IF pluses > 0 THEN {Everything} ELSE Limits
    /\ next' = 1 /\ pc' = "choose"
    /\ UNCHANGED <<input, search, matching_flags, common, module,
                   package_dir, output_groups, lines_so_far, printing>>

Group(kind) == { f \in matching_flags : notable_flags[f] = kind }

---------------------------------------------------------------------------
(* 4) The groups to print, while their estimated size allows.              *)

Headed(kind) == kind # "perfect"
Footed(kind) == kind # "other"

\* Seeded fault: the line under the header is counted with the header too.
SizeInMoreLines(kind) ==
    Cardinality(Group(kind)) + 1 + (IF Headed(kind) THEN 2 ELSE 0)
                                 + (IF Footed(kind) THEN 1 ELSE 0)

SizeInLines(kind) ==
    Cardinality(Group(kind)) + 1 + (IF Headed(kind) THEN 1 ELSE 0)
                                 + (IF Footed(kind) THEN 1 ELSE 0)

Chosen(kind) ==
    /\ kind = "perfect" \/ lines_so_far < max_desired_lines
    /\ Group(kind) # {}

ChooseGroup ==
    /\ pc = "choose" /\ next <= Len(Kinds)
    /\ IF Chosen(Kinds[next])
       THEN /\ output_groups' = Append(output_groups, Kinds[next])
            /\ lines_so_far' = lines_so_far + SizeInLines(Kinds[next])
       ELSE UNCHANGED <<output_groups, lines_so_far>>
    /\ next' = next + 1
    /\ UNCHANGED <<pc, input, search, matching_flags,
                   common, placing, max_desired_lines, printing>>

GroupsChosen ==
    /\ pc = "choose" /\ next > Len(Kinds)
    /\ remaining_lines' = max_desired_lines
    /\ next' = 1 /\ pc' = "group"
    /\ UNCHANGED <<input, search, matching_flags, common, placing,
                   choosing, todo, completions>>

---------------------------------------------------------------------------
(* 5) OutputSingleGroupWithLimit, the groups one after the other, each     *)
(* indented one column less than the one before.                           *)

\* Seeded fault: the indentation grows from one group to the next.
IndentGrows == next - 1

Indent == Len(output_groups) - next

\* Seeded fault: the limit is not told of the line under the header.
HeaderIsOneLine ==
    /\ pc = "group" /\ next <= Len(output_groups)
    /\ LET kind == output_groups[next]
           line(what) == [what |-> what, indent |-> Indent]
       IN  \/ /\ Headed(kind) /\ remaining_lines >= 2
              /\ remaining_lines' = remaining_lines - 1
              /\ completions' = completions \o <<line("header"),
                                                 line("underline")>>
              /\ todo' = Group(kind) /\ pc' = "flags" /\ UNCHANGED next
           \/ /\ Headed(kind) /\ remaining_lines < 2 /\ next' = next + 1
              /\ UNCHANGED <<pc, remaining_lines, completions, todo>>
           \/ /\ ~Headed(kind) /\ todo' = Group(kind) /\ pc' = "flags"
              /\ UNCHANGED <<remaining_lines, completions, next>>
    /\ UNCHANGED <<input, search, matching_flags, common, placing, choosing>>

OutputHeader ==
    /\ pc = "group" /\ next <= Len(output_groups)
    /\ LET kind == output_groups[next]
           line(what) == [what |-> what, indent |-> Indent]
       IN  IF ~Headed(kind)
           THEN /\ todo' = Group(kind) /\ pc' = "flags"
                /\ UNCHANGED <<remaining_lines, completions, next>>
           ELSE IF remaining_lines < 2
           THEN next' = next + 1
                /\ UNCHANGED <<pc, remaining_lines, completions, todo>>
           ELSE /\ remaining_lines' = remaining_lines - 2
                /\ completions' = completions \o <<line("header"),
                                                   line("underline")>>
                /\ todo' = Group(kind) /\ pc' = "flags" /\ UNCHANGED next
    /\ UNCHANGED <<input, search, matching_flags, common, placing, choosing>>

\* Seeded fault: the indentation is left out of the room that is taken.
LineOfUnindented(flag, indent) ==
    LET taken == Len(flag.name) + flag.rest
    IN  indent + (IF Columns - taken > Len(flag.description)
                  THEN taken + Len(flag.description) ELSE Columns)

\* GetShortFlagLine: the columns a line fills, its description cut to what
\* the rest of the line leaves of them.  substr(0, n) with n < 0 is the
\* whole string, n being converted to an unsigned number.
GetShortFlagLine(flag, indent) ==
    LET prefix == indent + Len(flag.name) + flag.rest
        remainder == Columns - prefix
        size == Len(flag.description)
    IN  CASE remainder <= 0 -> prefix
          [] remainder > 0 /\ size <= remainder -> prefix + size
          [] remainder \in 1..2 /\ size > remainder -> prefix + size + 3
          [] remainder > 2 /\ size > remainder -> prefix + (remainder - 3) + 3

\* GetLongFlagLine: the line is the flag's details, a newline in front of
\* each but the first; every newline becomes spaces, up to the next row of
\* the screen but never more than one less than a row.  This is where each
\* detail starts.
GetLongFlagLine(flag) ==
    LET fill(end) == IF end % Columns = 0 THEN Columns - 1
                     ELSE Columns - (end % Columns)
        start[k \in 1..Len(flag.details)] ==
            IF k = 1 THEN 0
            ELSE LET end == start[k - 1] + flag.details[k - 1]
                 IN  end + fill(end)
    IN  start

OutputFlag ==
    /\ pc = "flags" /\ todo # {} /\ remaining_lines > 0
    /\ \E f \in todo :
         /\ \A g \in todo : f <= g
         /\ todo' = todo \ {f}
         /\ completions' = Append(completions,
                [what |-> IF next = 1 /\ output_groups[1] = "perfect"
                          THEN "details" ELSE "flag",
                 indent |-> Indent, flag |-> f])
    /\ remaining_lines' = remaining_lines - 1
    /\ UNCHANGED <<pc, input, search, searching, placing, choosing>>

\* Seeded faults: the footer is printed whatever is left, or the next
\* group is gone to only after the footer.
FooterUncounted ==
    /\ pc = "flags" /\ (todo = {} \/ remaining_lines = 0)
    /\ IF Footed(output_groups[next])
       THEN /\ remaining_lines' = remaining_lines - 1
            /\ completions' = Append(completions,
                                     [what |-> "footer", indent |-> Indent])
       ELSE UNCHANGED <<remaining_lines, completions>>
    /\ todo' = {} /\ next' = next + 1 /\ pc' = "group"
    /\ UNCHANGED <<input, search, matching_flags, common, placing, choosing>>

NoFooterNoAdvance ==
    /\ pc = "flags" /\ (todo = {} \/ remaining_lines = 0)
    /\ IF Footed(output_groups[next]) /\ remaining_lines >= 1
       THEN /\ remaining_lines' = remaining_lines - 1
            /\ completions' = Append(completions,
                                     [what |-> "footer", indent |-> Indent])
            /\ next' = next + 1
       ELSE /\ next' = IF Footed(output_groups[next]) THEN next ELSE next + 1
            /\ UNCHANGED <<remaining_lines, completions>>
    /\ todo' = {} /\ pc' = "group"
    /\ UNCHANGED <<input, search, matching_flags, common, placing, choosing>>

OutputFooter ==
    /\ pc = "flags" /\ (todo = {} \/ remaining_lines = 0)
    /\ IF Footed(output_groups[next]) /\ remaining_lines >= 1
       THEN /\ remaining_lines' = remaining_lines - 1
            /\ completions' = Append(completions,
                                     [what |-> "footer", indent |-> Indent])
       ELSE UNCHANGED <<remaining_lines, completions>>
    /\ todo' = {} /\ next' = next + 1 /\ pc' = "group"
    /\ UNCHANGED <<input, search, matching_flags, common, placing, choosing>>

IsFlag(line) == line.what \in {"flag", "details"}
FlagLines == { k \in 1..Len(completions) : IsFlag(completions[k]) }

\* The last line: "~ (Remaining flags hidden) ~", or the "~" of
\* force_no_update, which keeps bash from typing a prefix the lines share.
LastLine ==
    /\ pc = "group" /\ next > Len(output_groups)
    /\ completions' = Append(completions,
            [what |-> IF Cardinality(FlagLines) # Cardinality(matching_flags)
                      THEN "hidden" ELSE "no_update",
             indent |-> 0])
    /\ pc' = "exit"
    /\ UNCHANGED <<input, search, searching, placing, choosing,
                   remaining_lines, todo>>

\* gflags_exitfunc(0), as HandleCommandLineCompletions ends.
Exited == pc = "exit" /\ UNCHANGED vars

Step ==
    \/ StripQuote \/ StripDash \/ TakeQuestionMark \/ TakePlus \/ OptionsTaken
    \/ FindMatchingFlags \/ PrintCommonPrefix \/ PrintNothing
    \/ TryFindModuleAndPackageDir \/ CategorizeAllMatchingFlags
    \/ ChooseGroup \/ GroupsChosen
    \/ OutputHeader \/ OutputFlag \/ OutputFooter \/ LastLine

Next == Step \/ Exited

Spec == Init /\ [][Next]_vars /\ WF_vars(Step)

---------------------------------------------------------------------------
(* Properties.                                                             *)

Line == [what : {"prefix", "header", "underline", "footer", "hidden",
                 "no_update"}, indent : Int]
        \cup [what : {"flag", "details"}, indent : Int, flag : Nat]

Kind == {"perfect", "module", "package", "subpackage", "other"}

\* The type invariant of the completion (gflags_completions.cc:207): an
\* index stays in its list, a count of lines never goes below zero.
TypeOK ==
    /\ pc \in {"quote", "dashes", "options", "match", "categorize",
               "choose", "group", "flags", "exit"}
    /\ all_flags \in Programs /\ cursor_word \in Words
    /\ token \in Seq(STRING) /\ marks \in 0..3 /\ pluses \in 0..1
    /\ next \in Nat \ {0}
    /\ matching_flags \subseteq 1..Len(all_flags)
    /\ todo \subseteq matching_flags
    /\ common \in Seq(STRING)
    /\ module \in Seq(STRING) /\ package_dir \in Seq(STRING)
    /\ \/ notable_flags = <<>>
       \/ /\ notable_flags \in [matching_flags -> Kind]
          /\ pc \in {"choose", "group", "flags", "exit"}
    /\ output_groups \in Seq(Kind)
    /\ lines_so_far \in Nat
    /\ max_desired_lines \in {0, Everything} \cup Limits
    /\ remaining_lines \in Nat
    /\ completions \in Seq(Line)

\* What was typed: the word without a leading quote and dashes, then
\* without the longest end made of at most three '?' and one '+'.
Typed ==
    LET w == cursor_word
        lead == Max({ k \in 0..Len(w) : \A i \in 1..k :
                          w[i] = "-" \/ (i = 1 /\ w[i] = Quote) })
        count(k, c) == Cardinality({ i \in k..Len(w) : w[i] = c })
        tail == Min({ k \in (lead + 1)..(Len(w) + 1) :
                    /\ \A i \in k..Len(w) : w[i] \in {"?", "+"}
                    /\ count(k, "?") <= 3 /\ count(k, "+") <= 1 })
    IN  [token |-> SubSeq(w, lead + 1, tail - 1),
         marks |-> count(tail, "?"), pluses |-> count(tail, "+")]

Names(flags) == { all_flags[f].name : f \in flags }

\* What the word typed asks for is what is looked for, however its marks
\* are mixed, and the prefix offered is the longest that the names of all
\* the matching flags have (gflags_completions.cc:290 and :348).
SearchMeansWhatWasTyped ==
    /\ pc \notin {"quote", "dashes", "options"} =>
          /\ token = Typed.token
          /\ marks = Typed.marks /\ pluses = Typed.pluses
    /\ matching_flags # {} =>
          /\ \A name \in Names(matching_flags) : IsPrefix(common, name)
          /\ \E m, n \in Names(matching_flags) :
                \/ common \in {m, n}
                \/ m[Len(common) + 1] # n[Len(common) + 1]

\* Bash gets one line more than desired at most, so that it never asks
\* "Display all possibilities?" (gflags_completions.cc:535: "only 99 lines
\* should be output to prevent bash from harassing the user").
FitsScreen == Len(completions) <= max_desired_lines + 1

Shown == { completions[k].flag : k \in FlagLines }

\* A flag is listed once, the notice that flags are hidden is there exactly
\* when one is, and none is hidden while there are lines left for a header
\* and a flag: the estimate that drops groups (SizeInLines) agrees with
\* what printing them takes (gflags_completions.cc:560-632).
HidesOnlyWhenFull ==
    pc = "exit" /\ notable_flags # <<>> =>
        /\ Cardinality(Shown) = Cardinality(FlagLines)
        /\ Shown \subseteq matching_flags
        /\ (Last(completions).what = "hidden") <=> (Shown # matching_flags)
        /\ Shown # matching_flags => remaining_lines <= 1

\* Files in which the package's directory occurs without being a directory
\* above them: the search for it is by find(), not by path component, and
\* what it makes of such a file is not what the comments on NotableFlags say.
Strays ==
    { f \in matching_flags :
        /\ package_dir # <<>> /\ Occurs(package_dir, all_flags[f].filename)
        /\ ~IsPrefix(Append(package_dir, "/"), all_flags[f].filename) }

\* The order of relevance the comments give (gflags_completions.cc:195-202).
\* A program in the root directory, or one that was not found, has no package.
Rank(f) ==
    LET file == all_flags[f].filename
    IN  IF all_flags[f].name = token THEN 1
        ELSE IF module # <<>> /\ file = module THEN 2
        ELSE IF package_dir = <<>> THEN 5
        ELSE IF DirectoryOf(file) = package_dir THEN 3
        ELSE IF IsPrefix(Append(package_dir, "/"), DirectoryOf(file)) THEN 4
        ELSE 5

\* A flag is never listed, or listed earlier, at the expense of a more
\* relevant one (gflags_completions.cc:189-202, 560-632).
RelevantFirst ==
    pc = "exit" => \A k \in FlagLines, f \in matching_flags \ Strays :
        LET g == completions[k].flag
        IN  g \notin Strays /\ Rank(f) < Rank(g) =>
                \E j \in FlagLines : j < k /\ completions[j].flag = f

\* Where bash puts a line among those equally indented: it sorts them, and
\* the letters they begin with are, in this order, " D", "-*", "---",
\* "--name", "=" and "~".
SortKey(what) ==
    CASE what = "details" -> 0   [] what = "header" -> 1
      [] what = "underline" -> 2 [] what \in {"prefix", "flag"} -> 3
      [] what = "footer" -> 4    [] what \in {"hidden", "no_update"} -> 5

\* Bash sorts the lines, spaces first, and the groups come out whole and in
\* the same order, because each is indented less than the one before; no
\* indentation is negative (gflags_completions.cc:532: "Each group needs to
\* be indented the same to keep its lines together").
SurvivesSorting ==
    \A j, k \in 1..Len(completions) :
        LET a == completions[j]
            b == completions[k]
        IN  /\ a.indent >= 0
            /\ j < k => \/ a.indent > b.indent
                        \/ /\ a.indent = b.indent
                           /\ SortKey(a.what) <= SortKey(b.what)

\* A short line is no wider than the screen, unless its flag's name and
\* default are or leave but a column or two for the description; a detail
\* of a long line starts a row of the screen, except after one that ends
\* just where a row does (gflags_completions.cc:699-706, 744-754).
LinesFitColumns ==
    \A k \in FlagLines :
        LET flag == all_flags[completions[k].flag]
            indent == completions[k].indent
            start == GetLongFlagLine(flag)
        IN  /\ completions[k].what = "flag" =>
                  \/ GetShortFlagLine(flag, indent) <= Columns
                  \/ Columns - (indent + Len(flag.name) + flag.rest) <= 2
            /\ completions[k].what = "details" =>
                  \A d \in 2..Len(flag.details) :
                      \/ start[d] % Columns = 0
                      \/ (start[d - 1] + flag.details[d - 1]) % Columns = 0

\* The program always comes to its end (gflags_completions.cc:759): the
\* loops that eat the word and those that print both make progress.
Finishes == <>(pc = "exit")

=============================================================================
