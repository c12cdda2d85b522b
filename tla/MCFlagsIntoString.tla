------------------------- MODULE MCFlagsIntoString -------------------------
(***************************************************************************)
(* Instances of FlagsIntoString: a flag of every type on both sides of     *)
(* --flagfile, --fromenv and --tryfromenv, integers of 3 and 5 bits,       *)
(* strings that look like lines, lists that are empty, good, bad or name   *)
(* what is not there, files that hold comments, lists and the sections of  *)
(* other programs, and every environment text of up to three letters, or   *)
(* of four out of fewer.                                                   *)
(***************************************************************************)
EXTENDS FlagsIntoString

MCDouble == {"half", "tiny"}
MCDoubleText == [d \in MCDouble |-> IF d = "half" THEN <<"0", ".5">>
                                    ELSE <<"4.9", "e-324">>]
\* strtod reports ERANGE for the subnormal number "tiny".
MCStrtod == [t \in {<<"0", ".5">>} |-> "half"]

MCName == <<"bold", "delta", "count", "flagfile", "fromenv", "tryfromenv",
            "undefok", "help", "ratio", "title", "serial_no", "mask">>
MCTypeOf == [bold |-> "bool", delta |-> "int32", count |-> "uint32",
             flagfile |-> "string", fromenv |-> "string", tryfromenv |-> "string",
             undefok |-> "string", help |-> "bool", ratio |-> "double",
             title |-> "string", serial_no |-> "int64", mask |-> "uint64"]
MCUnderscored == [n \in {"serial-no"} |-> "serial_no"]
MCReporting == {"help"}

\* The flags that name other things to read, and --undefok.
Lists(f, e, t, u) == [flagfile |-> f, fromenv |-> e, tryfromenv |-> t, undefok |-> u]
NoLists == Lists(<<>>, <<>>, <<>>, <<>>)

Setting(b, d, c, l, r, t, s, m) ==
    [bold |-> b, delta |-> d, count |-> c, help |-> FALSE, ratio |-> r,
     title |-> t, serial_no |-> s, mask |-> m] @@ l

Titles == {<<>>, <<" ", "#", " ">>, <<"-", "-", "count", "=", "5">>,
           <<"a", "\n", "-", "count", "=", "9">>, <<"p", "\r">>}

\* Lists of files; of variables that are set, in each spelling, set to what
\* is refused, name more of them, or are not set; lists that are none; names
\* nobody knows, excused by --undefok or not.
MCLists ==
    { Lists(<<"f", ",", "h", ",">>, <<>>, <<>>, <<>>),
      Lists(<<>>, <<"count", ",", "mask", ",", "serial-no">>, <<>>, <<>>),
      Lists(<<>>, <<"flagfile">>, <<"delta">>, <<>>),
      Lists(<<>>, <<"title">>, <<>>, <<>>),
      Lists(<<>>, <<"fromenv">>, <<>>, <<>>),
      Lists(<<>>, <<>>, <<"title", ",", "tryfromenv">>, <<>>),
      Lists(<<>>, <<"count", ",", ",">>, <<>>, <<>>),
      Lists(<<>>, <<>>, <<>>, <<"-">>),
      Lists(<<>>, <<"nosuch">>, <<>>, <<>>),
      Lists(<<>>, <<"nosuch">>, <<"no", "z">>, <<"z", ",", "nosuch">>),
      Lists(<<>>, <<"z">>, <<"no", "z">>, <<"z">>) }

MCSettings ==
    { Setting(b, IF b THEN 3 ELSE -4, 7, l, "half", t, -16, 31) :
        b \in BOOLEAN, l \in {NoLists, Lists(<<"f">>, <<>>, <<>>, <<>>)}, t \in Titles }
    \cup { Setting(TRUE, 0, 0, NoLists, "tiny", t, 15, 0) : t \in Titles }
    \cup { Setting(TRUE, 2, 6, l, "half", <<"z">>, 4, 0) : l \in MCLists }
    \cup { [Setting(TRUE, 0, 0, NoLists, "half", <<>>, 0, 0) EXCEPT !.help = TRUE] }

MCOthers == { Setting(FALSE, 1, 1, NoLists, "tiny", <<"z">>, 1, 1),
              Setting(TRUE, -1, 2, Lists(<<"f">>, <<"z">>, <<>>, <<"z">>),
                      "half", <<>>, 12, 20) }

MCForeign ==
    { <<>>,
      <<"#", "c", "\n">>, <<"#", "c">>, <<"#", "c", "\r", "\n">>,
      <<"q", " ", "r", "\n", "-", "-", "flagfile", "=", "f", "\n">>,
      <<"q", "\n">>, <<"q", " ", "p">>,
      <<"\n", " ", "-", "-", "nosuch", "\n", "-", "delta", "=", "2", "\n">>,
      <<"-", "-", "flagfile", "=", "g", "\n">>,
      <<"q", "\n", "-", "delta", "=", "9", "\r", "\n">>,
      <<"q", "\n", "-", "-", "fromenv", "=", "nosuch", "\n">>,
      <<"-", "-", "fromenv", "=", "count", ",", "serial-no", "\n">>,
      <<"-", "-", "tryfromenv", "=", "title", ",", "tryfromenv", "\n">>,
      <<"-", "-", "no", "bold", "\n", "-", "serial-no", "=", "3", "\n",
        "-", "-", "no", "delta", "\n", "-", "bold", "\n", "-", "-", "\n">> }

MCNested == [f \in {<<"f">>, <<"h">>} |->
                IF f = <<"f">>
                THEN <<"-", "-", "bold", "=", "no", "\n",
                       "-", "-", "mask", "=", "0", "x", "a">>
                ELSE <<"-", "tryfromenv", "=", "count">>]

MCFlagsEnv ==
    [count |-> <<"5">>, mask |-> <<"1">>, delta |-> <<"x">>, bold |-> <<"no">>,
     flagfile |-> <<"f">>, fromenv |-> <<"fromenv">>, tryfromenv |-> <<"bold">>]
    @@ [n \in {"serial-no"} |-> <<"2">>]

Scanned == {" ", "\t", "-", "+", "0", "1", "7", "x", "a"}
MCEnvTexts == UNION { [1..n -> Scanned] : n \in 0..3 }
              \cup [1..4 -> {" ", "-", "0", "1", "x"}]
              \cup {<<"true">>, <<"NO">>, <<"0", ".5">>}

MCLetter == Scanned \cup kTrue \cup kFalse \cup Range(MCName)
            \cup DOMAIN MCUnderscored
            \cup {"2", "3", "4", "5", "6", "7", "8", "9", ".5", "4.9", "e-324",
                  "\n", "\r", "=", "#", ",", "c", "g", "h", "nosuch", "p", "q", "r", "z"}

\* What the foreign files say to other programs is skipped, and comments and
\* unknown flags are: everything is read, and no other flag is touched
\* (gflags.cc:1293-1353).
SectionsAreSkipped ==
    pc = "read" /\ Readable(written.flags) /\ Ours /\ ~Exposed(1) =>
        returned /\ \A n \in Names \ written.names : flags[n] = backup[n]
=============================================================================
