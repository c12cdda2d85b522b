------------------------ MODULE MCCommandLineParser ------------------------
(* Small instances of CommandLineParser for TLC.                            *)
EXTENDS CommandLineMeaning

CONSTANT refuse

(* The flags of the program: x is checked by a validate function, b and     *)
(* help are boolean, lib_y is in a library.                                 *)
MCBool == {"b", "help"}
MCReporting == {"help"}
MCLate == {"lib_y"}
MCValidator == {refuse}

MCText == {"", "0", "1", "good", "other", "refused", "-", "--", "x", "u", "u,nou", "x,u",
           "fromenv", "tryfromenv", "x,tryfromenv", "tryfromenv,x", "nou", ",", "f", "g", "h", "g,h", "gone"}
MCName == MCText \cup {"b", "nob", "nox", "nou", "help", "lib-y", "lib_y", "undefok", "flagfile"}

MCUnderscored == [n \in MCName |-> IF n = "lib-y" THEN "lib_y" ELSE n]
MCPositive == [n \in MCName |-> CASE n = "nob" -> "b" [] n = "nox" -> "x" [] n = "nou" -> "u"
                                  [] OTHER -> NULL]
MCParse == [n \in MCName |-> [text \in MCText |->
              IF n \in MCBool /\ text \notin {"0", "1"} THEN Illegal ELSE text]]
MCEquals == [v \in MCText |-> {v}]
MCFresh == [n \in MCName |-> IF n \in MCBool THEN "0" ELSE ""]
MCAccepts == [f \in MCValidator |-> {<<n, v>> \in MCName \X MCText : v # "refused"}]

MCEntries == [v \in MCText |->
  CASE v = ""             -> <<>>
    [] v = "u,nou"        -> <<"u", "nou">>
    [] v = "x,u"          -> <<"x", "u">>
    [] v = "x,tryfromenv" -> <<"x", "tryfromenv">>
    [] v = "tryfromenv,x" -> <<"tryfromenv", "x">>
    [] v = "g,h"          -> <<"g", "h">>
    [] v \in {",", "-", "--"} -> NULL
    [] OTHER              -> <<v>>]

-----------------------------------------------------------------------------
Option(key, value) == [kind |-> "flag", key |-> key, value |-> value, text |-> "--"]
Word == [kind |-> "word", text |-> "good"]
End  == [kind |-> "end", text |-> "--"]

Comment          == [kind |-> "comment"]
Names(matching)  == [kind |-> "filenames", matches |-> matching]

(* f has sections for other programs and for this one, and includes g; h    *)
(* reads the environment and then sets the same flag.                       *)
MCContents == [t \in MCText |->
  CASE t = "f" -> <<Option("x", "refused"), Names(FALSE), Option("x", "other"),
                    Names(TRUE), Comment, Names(FALSE), Option("flagfile", "g"),
                    Option("b", NULL)>>
    [] t = "g" -> <<Option("x", "good"), Option("x", NULL), Option("u", "1"), Option("nob", NULL)>>
    [] t = "h" -> <<Option("fromenv", "x"), Option("x", "other")>>
    [] OTHER   -> NULL]

Set(f, v) == [f EXCEPT !.current = v]
Checked(v) == [NewFlag(v) EXCEPT !.validate_fn = refuse]
MCStart == [n \in MCName |->
  CASE n = "x" -> Checked("")
    [] n \in MCBool \cup Recursive \cup {"undefok"} -> NewFlag(MCFresh[n])
    [] OTHER   -> NULL]

-----------------------------------------------------------------------------
(* argv: every command line of up to MaxWords arguments.                    *)
CONSTANT MaxWords
MCArguments == {Word, End, Option("x", "good"), Option("x", "refused"), Option("x", NULL),
              Option("b", NULL), Option("nob", NULL), Option("nox", NULL),
              Option("u", "1"), Option("nou", NULL), Option("undefok", "u"),
              Option("undefok", "u,nou"), Option("help", NULL)}
AllCommands == UNION {[1 .. k -> MCArguments] : k \in 0 .. MaxWords}
NoEnvironment == {[n \in MCName |-> NULL]}
NoLate == {}
NoCalls == {}

(* x is fine; its default is not; it was set before the validate function   *)
(* was registered.                                                          *)
ArgvStarts == {MCStart, [MCStart EXCEPT !["x"] = Checked("refused")],
               [MCStart EXCEPT !["x"].current = "refused", !["x"].modified = TRUE]}

(* recursion: flag files, environments, a library, calls of the API.        *)
RecursionArguments ==
  {Option("flagfile", "f"), Option("flagfile", "h"), Option("flagfile", "g,h"),
   Option("flagfile", "gone"), Option("flagfile", ","), Option("fromenv", "x,u"),
   Option("tryfromenv", "x,tryfromenv"), Option("x", "good"), Option("undefok", "u"),
   Option("lib-y", "other")}
(* Once the library is there, its flag takes the last argument as its value. *)
TakingOver == <<Option("x", "good"), Option("lib-y", NULL), Option("x", "other")>>
RecursionCommands == UNION {[1 .. k -> RecursionArguments] : k \in 0 .. 2} \cup {TakingOver}
EnvOf(x, try) == [n \in MCName |-> CASE n = "x" -> x [] n = "tryfromenv" -> try [] OTHER -> NULL]
RecursionEnvironments ==
  {EnvOf(NULL, NULL), EnvOf("other", "fromenv"), EnvOf("refused", "tryfromenv")}
RecursionStarts == {MCStart, [MCStart EXCEPT !["flagfile"].current = "h"],
                    [MCStart EXCEPT !["x"].current = "other"]}
MCCalls == {[name |-> "flagfile", text |-> "h", mode |-> "SET_FLAG_IF_DEFAULT"],
            [name |-> "flagfile", text |-> "h", mode |-> "SET_FLAGS_DEFAULT"],
            [name |-> "x", text |-> "good", mode |-> "SET_FLAGS_VALUE"]}
-----------------------------------------------------------------------------
(* What comments and the documentation say and the code does not do.        *)
LoopCommands == {<<Option("tryfromenv", "tryfromenv")>>}
LoopEnvironments == {EnvOf("good", "x,tryfromenv")}

IncludeCommands == {<<>>}
IncludeCalls == {[name |-> "flagfile", text |-> "f", mode |-> "SET_FLAG_IF_DEFAULT"]}

ByHandEnvironments == {EnvOf("good", NULL)}

(* doc/index.html:626: "It is possible for a flagfile to use the --flagfile *)
(* flag to include another flagfile." The file that is read next is the     *)
(* one the line names (ProcessSingleOptionLocked).                          *)
IncludedFileIsRead ==
  [][Calling("lines") /\ Len(stack') > Len(stack) /\ Head(stack').kind = "flagfile"
       => Head(stack').list = Head(Top.todo).value]_vars

(* gflags.cc:1947: FLAGS_flagfile, FLAGS_fromenv and FLAGS_tryfromenv set   *)
(* by the program are evaluated "as if they were the first flags on the     *)
(* commandline" (ParseCommandLineFlagsInternal).                            *)
SetByHandComesFirst ==
  pc = "done" =>
    LET byHand(n) == Nested(World)[n][before[n].current]
        asIf      == byHand("flagfile") \o byHand("fromenv") \o byHand("tryfromenv")
                       \o Scan(World)[1]
    IN  \A n \in Name : Registered(n) => flags[n].current = ValueAfter(asIf, n)
=============================================================================
