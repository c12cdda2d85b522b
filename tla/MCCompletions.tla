--------------------------- MODULE MCCompletions ---------------------------
(***************************************************************************)
(* Instances of Completions: a program "p" whose flags are registered from *)
(* its own file, its package, a sub-package and files elsewhere, and the   *)
(* words that tell the cases apart.                                        *)
(***************************************************************************)
EXTENDS Completions

Flag(name, filename, description, rest, details) ==
    [name |-> name, filename |-> filename, description |-> description,
     rest |-> rest, details |-> details]

max_len == Flag(<<"m", "a", "x">>, <<"d", "/", "p", ".">>, <<"u">>, 4, <<3, 2>>)
max_lenient ==
    Flag(<<"m", "a", "x", "y">>, <<"d", "/", "p", ".">>, <<"l", "o", "t">>, 4,
         <<2, 2>>)
mode == Flag(<<"m", "o">>, <<"d", "/", "q", ".">>, <<"m", "a", "x", "u">>, 1,
             <<8, 3, 1>>)
level == Flag(<<"a", "x">>, <<"d", "/", "e", "/", "r", ".">>,
              <<"m", "o", "t", "o", "r", "s", "u">>, 2, <<1, 1>>)
map == Flag(<<"m", "a", "p">>, <<"f", "/", "p", "s", ".">>, <<>>, 6, <<4>>)
axis == Flag(<<"a">>, <<"f", "/", "m", "o", ".">>, <<"t">>, 3, <<9, 9>>)
stray == Flag(<<"m">>, <<"g", "/", "d", "/", "s", ".">>, <<"u">>, 0, <<1>>)

\* In the order of FilenameFlagnameCmp.
MCPrograms ==
    { <<level, max_len, max_lenient, mode, map>>,
      <<max_len, mode, axis>>,
      <<level, max_len, mode, axis, map, stray>>,
      <<mode, axis, map>>,
      <<max_len>> }

Bases == {<<>>, <<"m">>, <<"m", "a", "x">>, <<"a">>, <<"o">>, <<"z">>}
Leads == {<<>>, <<"\"">>, <<"-">>, <<"\"", "-", "-">>}
Ends == {<<>>, <<"?">>, <<"?", "?">>, <<"?", "?", "?">>, <<"+">>,
         <<"?", "+", "?">>, <<"+", "+">>, <<"?", "?", "+", "?", "?">>,
         <<"+", "?", "?", "?">>}
MCWords == { l \o b \o e : l \in Leads, b \in Bases, e \in Ends } \ {<<>>}
MCLimits == {0, 1, 2, 3, 4, 6, 7, 8, 9, 12, 20}
=============================================================================
