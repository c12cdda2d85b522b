------------------------- MODULE CompletionsProofs -------------------------
(***************************************************************************)
(* Proofs about Completions for every list of flags, every word, every     *)
(* number of desired lines and every width of the screen.                  *)
(***************************************************************************)
EXTENDS Completions, Induction, FiniteSetTheorems, TLAPS

-----------------------------------------------------------------------------
(* What the helpers return.                                                *)

LEMMA CategoryType == \A f : Category(f) \in Kind
BY DEF Category, Kind

LEMMA KindsType == \A k \in 1..Len(Kinds) : Kinds[k] \in Kind
BY DEF Kinds, Kind

LEMMA DesiredLinesType == TypeOK => max_desired_lines \in Nat
BY CompletionsAssumption DEF TypeOK

LEMMA Appended ==
  ASSUME NEW S, NEW s \in Seq(S), NEW e \in S
  PROVE  /\ Append(s, e) \in Seq(S)
         /\ Len(Append(s, e)) = Len(s) + 1
OBVIOUS

LEMMA AppendedTwice ==
  ASSUME NEW S, NEW s \in Seq(S), NEW d \in S, NEW e \in S
  PROVE  /\ s \o <<d, e>> \in Seq(S)
         /\ Len(s \o <<d, e>>) = Len(s) + 2
<1>1. <<d, e>> \in Seq(S) /\ Len(<<d, e>>) = 2
  OBVIOUS
<1>. QED
  BY <1>1

LEMMA EndsOfWords ==
  ASSUME NEW S, NEW s \in Seq(S), s # <<>>
  PROVE  Tail(s) \in Seq(S) /\ Front(s) \in Seq(S)
<1>1. Tail(s) \in Seq(S)
  OBVIOUS
<1>2. Len(s) \in Nat /\ Len(s) # 0
  OBVIOUS
<1>3. SubSeq(s, 1, Len(s) - 1) \in Seq(S)
  BY <1>2
<1>. QED
  BY <1>1, <1>3 DEF Front

LEMMA SizeType ==
  ASSUME TypeOK, NEW kind PROVE SizeInLines(kind) \in Nat
<1>1. Len(all_flags) \in Nat
  BY CompletionsAssumption DEF TypeOK
<1>2. IsFiniteSet(1..Len(all_flags))
  BY <1>1, FS_Interval
<1>3. Group(kind) \subseteq 1..Len(all_flags)
  BY DEF TypeOK, Group
<1>4. Cardinality(Group(kind)) \in Nat
  BY <1>2, <1>3, FS_Subset, FS_CardinalityType
<1>. QED
  BY <1>4 DEF SizeInLines

LEMMA PrefixMeans ==
  ASSUME NEW S, NEW s \in Seq(S), NEW t \in Seq(S)
  PROVE  IsPrefix(s, t) <=> Len(s) <= Len(t) /\ \A i \in 1..Len(s) : s[i] = t[i]
<1>1. SubSeq(s, 1, Len(s)) = s
  BY FrontOf, SameElements
<1>2. ASSUME Len(s) <= Len(t)
      PROVE  SubSeq(s, 1, Len(s)) = SubSeq(t, 1, Len(s)) <=> \A i \in 1..Len(s) : s[i] = t[i]
  <2>1. PICK u : u = SubSeq(t, 1, Len(s))
    OBVIOUS
  <2>2. Len(s) \in 0..Len(t)
    BY <1>2
  <2>3. u \in Seq(S) /\ Len(u) = Len(s) /\ \A i \in 1..Len(s) : u[i] = t[i]
    BY <2>1, <2>2, FrontOf
  <2>4. (\A i \in 1..Len(s) : s[i] = t[i]) => s = u
    BY <2>3, SameElements
  <2>5. s = u => \A i \in 1..Len(s) : s[i] = t[i]
    BY <2>3
  <2>. QED
    BY <1>1, <2>1, <2>4, <2>5
<1>. QED
  BY <1>2 DEF IsPrefix

LEMMA PrefixesOfTwo ==
  ASSUME NEW a \in Seq(STRING), NEW b \in Seq(STRING)
  PROVE  /\ \A x \in CommonPrefixes({a, b}) :
              x \in Seq(STRING) /\ IsPrefix(x, a) /\ IsPrefix(x, b)
         /\ \A l \in 0..Len(a) : (\A i \in 1..l : a[i] = b[i]) /\ l <= Len(b) =>
              SubSeq(a, 1, l) \in CommonPrefixes({a, b})
<1>1. ASSUME NEW x \in CommonPrefixes({a, b})
      PROVE  x \in Seq(STRING) /\ IsPrefix(x, a) /\ IsPrefix(x, b)
  <2>1. /\ x \in UNION {Prefixes(s) : s \in {a, b}}
        /\ IsPrefix(x, a) /\ IsPrefix(x, b)
    BY DEF CommonPrefixes
  <2>2. PICK s \in {a, b} : x \in Prefixes(s)
    BY <2>1
  <2>3. PICK l \in 0..Len(s) : x = SubSeq(s, 1, l)
    BY <2>2 DEF Prefixes
  <2>. QED
    BY <2>1, <2>2, <2>3, FrontOf
<1>2. ASSUME NEW l \in 0..Len(a), \A i \in 1..l : a[i] = b[i], l <= Len(b)
      PROVE  SubSeq(a, 1, l) \in CommonPrefixes({a, b})
  <2>1. PICK x : x = SubSeq(a, 1, l)
    OBVIOUS
  <2>2. x \in Seq(STRING) /\ Len(x) = l /\ \A i \in 1..l : x[i] = a[i]
    BY <2>1, FrontOf
  <2>3. IsPrefix(x, a) /\ IsPrefix(x, b)
    <3>1. Len(x) <= Len(a) /\ Len(x) <= Len(b)
      BY <2>2, <1>2
    <3>2. \A i \in 1..Len(x) : x[i] = a[i] /\ x[i] = b[i]
      BY <2>2, <1>2
    <3>. QED
      BY <3>1, <3>2, <2>2, PrefixMeans
  <2>4. x \in Prefixes(a)
    BY <2>1 DEF Prefixes
  <2>5. \A s \in {a, b} : IsPrefix(x, s)
    BY <2>3
  <2>. QED
    BY <2>1, <2>4, <2>5 DEF CommonPrefixes
<1>. QED
  BY <1>1, <1>2

(* p is a prefix of a and of b, and they go on differently.                *)
Diverge(p, a, b) ==
  /\ p \in Seq(STRING) /\ IsPrefix(p, a) /\ IsPrefix(p, b)
  /\ p = a \/ p = b \/ a[Len(p) + 1] # b[Len(p) + 1]

LEMMA LongestPrefix ==
  ASSUME NEW a \in Seq(STRING), NEW b \in Seq(STRING)
  PROVE  Diverge(LongestCommonPrefix({a, b}), a, b)
<1>1. PICK C : C = CommonPrefixes({a, b})
  OBVIOUS
<1>2. \A x \in C : x \in Seq(STRING) /\ IsPrefix(x, a) /\ IsPrefix(x, b)
  BY <1>1, PrefixesOfTwo
<1>3. \A l \in 0..Len(a) : (\A i \in 1..l : a[i] = b[i]) /\ l <= Len(b) => SubSeq(a, 1, l) \in C
  BY <1>1, PrefixesOfTwo
<1>4. Len(a) \in Nat /\ Len(b) \in Nat
  OBVIOUS
<1>5. \A x \in C : Len(x) \in 0..Len(a) /\ Len(x) <= Len(b)
  BY <1>2, <1>4, PrefixMeans
<1> DEFINE T == {Len(x) : x \in C}
<1>6. T \in SUBSET (0..Len(a)) /\ T # {}
  <2>1. SubSeq(a, 1, 0) \in C
    <3>1. 0 \in 0..Len(a) /\ 0 <= Len(b) /\ \A i \in 1..0 : FALSE
      BY <1>4
    <3>. QED
      BY <3>1, <1>3
  <2>. QED
    BY <2>1, <1>5
<1>7. \E m \in T : \A k \in T : m >= k
  BY <1>4, <1>6, GreatestNumber
<1>8. \E x \in C : \A y \in C : Len(y) <= Len(x)
  <2>1. PICK m \in T : \A k \in T : m >= k
    BY <1>7
  <2>2. PICK x \in C : m = Len(x)
    OBVIOUS
  <2>3. ASSUME NEW y \in C PROVE Len(y) <= Len(x)
    <3>1. m >= Len(y)
      BY <2>1
    <3>2. Len(y) \in Nat /\ Len(x) \in Nat
      BY <1>5
    <3>. QED
      BY <3>1, <3>2, <2>2
  <2>. QED
    BY <2>3
<1>9. PICK p : p = LongestCommonPrefix({a, b})
  OBVIOUS
<1>10. p \in C /\ \A y \in C : Len(y) <= Len(p)
  BY <1>1, <1>8, <1>9 DEF LongestCommonPrefix
<1>11. p \in Seq(STRING) /\ IsPrefix(p, a) /\ IsPrefix(p, b)
  BY <1>2, <1>10
<1>12. /\ Len(p) <= Len(a) /\ Len(p) <= Len(b)
       /\ \A i \in 1..Len(p) : p[i] = a[i] /\ p[i] = b[i]
  BY <1>11, PrefixMeans
<1>13. ASSUME p # a, p # b, a[Len(p) + 1] = b[Len(p) + 1] PROVE FALSE
  <2>1. Len(p) # Len(a) /\ Len(p) # Len(b)
    BY <1>11, <1>12, <1>13, SameElements
  <2>2. PICK l : l = Len(p) + 1
    OBVIOUS
  <2>3. l \in 0..Len(a) /\ l <= Len(b) /\ Len(p) \in Nat
    BY <2>1, <2>2, <1>4, <1>11, <1>12
  <2>4. \A i \in 1..l : i \in 1..Len(p) \/ i = l
    BY <2>2, <2>3
  <2>5. \A i \in 1..l : a[i] = b[i]
    BY <2>2, <2>4, <1>12, <1>13
  <2>6. SubSeq(a, 1, l) \in C
    BY <2>3, <2>5, <1>3
  <2>7. Len(SubSeq(a, 1, l)) = l
    BY <2>3, FrontOf
  <2>8. l <= Len(p)
    BY <2>6, <2>7, <1>10
  <2>. QED
    BY <2>2, <2>3, <2>8
<1>. QED
  BY <1>9, <1>11, <1>13 DEF Diverge

LEMMA FlagType ==
  ASSUME TypeOK
  PROVE  /\ Len(all_flags) \in Nat
         /\ \A f \in 1..Len(all_flags) :
                /\ all_flags[f].name \in Seq(STRING)
                /\ all_flags[f].filename \in Seq(STRING)
                /\ all_flags[f].description \in Seq(STRING)
                /\ all_flags[f].rest \in Nat /\ all_flags[f].details \in Seq(Nat)
<1>1. all_flags \in Seq([name : Seq(STRING), filename : Seq(STRING),
                          description : Seq(STRING), rest : Nat, details : Seq(Nat)])
  BY CompletionsAssumption DEF TypeOK
<1>2. PICK F : F = [name : Seq(STRING), filename : Seq(STRING),
                    description : Seq(STRING), rest : Nat, details : Seq(Nat)]
  OBVIOUS
<1>3. Len(all_flags) \in Nat /\ \A f \in 1..Len(all_flags) : all_flags[f] \in F
  <2>1. all_flags \in Seq(F)
    BY <1>1, <1>2, Zenon
  <2>. QED
    BY ONLY <2>1
<1>. QED
  BY <1>2, <1>3

LEMMA DirectoryType ==
  ASSUME NEW file \in Seq(STRING) PROVE DirectoryOf(file) \in Seq(STRING)
<1> DEFINE slashes == {k \in 1..Len(file) : file[k] = "/"}
<1>1. CASE slashes = {}
  BY <1>1 DEF DirectoryOf
<1>2. CASE slashes # {}
  <2>1. Len(file) \in Nat /\ slashes \in SUBSET (0..Len(file))
    OBVIOUS
  <2>2. Max(slashes) \in 1..Len(file)
    <3>1. Max(slashes) \in slashes
      BY <1>2, <2>1, GreatestMember
    <3>. QED
      BY <3>1
  <2>3. SubSeq(file, 1, Max(slashes) - 1) \in Seq(STRING)
    <3>1. PICK last : last = Max(slashes)
      OBVIOUS
    <3>2. last - 1 \in 0..Len(file)
      BY <2>1, <2>2, <3>1
    <3>3. \A i \in 1..last - 1 : i \in 1..Len(file)
      BY <2>1, <3>2
    <3>4. SubSeq(file, 1, last - 1) \in Seq(STRING)
      BY <3>2, <3>3
    <3>. QED
      BY <3>1, <3>4
  <2>. QED
    BY <1>2, <2>3 DEF DirectoryOf
<1>. QED
  BY <1>1, <1>2

LEMMA ModuleType == TypeOK => FindModule \in Seq(STRING)
<1> SUFFICES ASSUME TypeOK PROVE FindModule \in Seq(STRING)
  OBVIOUS
<1> DEFINE candidates == {f \in 1..Len(all_flags) : \E s \in ModuleSuffixes :
                              Occurs(s, all_flags[f].filename)}
<1>1. CASE candidates = {}
  BY <1>1 DEF FindModule
<1>2. CASE candidates # {}
  <2>1. candidates \in SUBSET Nat
    BY FlagType
  <2>2. Min(candidates) \in candidates
    BY <1>2, <2>1, LeastMember
  <2>3. Min(candidates) \in 1..Len(all_flags)
    BY <2>2
  <2>4. FindModule = all_flags[Min(candidates)].filename
    BY <1>2 DEF FindModule
  <2>. QED
    BY <2>3, <2>4, FlagType
<1>. QED
  BY <1>1, <1>2

LEMMA GroupType ==
  ASSUME NEW kind PROVE Group(kind) \subseteq matching_flags
BY DEF Group

-----------------------------------------------------------------------------
(* The type invariant.                                                     *)

LEMMA TypeInit == Init => TypeOK
BY CompletionsAssumption DEF Init, TypeOK, Kind, Line

LEMMA TypeStep == TypeOK /\ [Next]_vars => TypeOK'
<1> SUFFICES ASSUME TypeOK, [Next]_vars PROVE TypeOK'
  OBVIOUS
<1>. USE DEF TypeOK
<1>1. CASE StripQuote
  BY <1>1, EndsOfWords DEF StripQuote, input, searching, placing, choosing, printing
<1>2. CASE StripDash
  BY <1>2, EndsOfWords DEF StripDash, input, searching, placing, choosing, printing
<1>3. CASE TakeQuestionMark
  <2>1. token' \in Seq(STRING)
    BY <1>3, EndsOfWords DEF TakeQuestionMark, RemoveTrailingChar
  <2>2. marks' \in 0..3
    BY <1>3 DEF TakeQuestionMark, CanTake
  <2>. QED
    BY <1>3, <2>1, <2>2
    DEF TakeQuestionMark, input, searching, placing, choosing, printing
<1>4. CASE TakePlus
  <2>1. token' \in Seq(STRING)
    BY <1>4, EndsOfWords DEF TakePlus, RemoveTrailingChar
  <2>2. pluses' \in 0..1
    BY <1>4 DEF TakePlus, CanTake
  <2>. QED
    BY <1>4, <2>1, <2>2
    DEF TakePlus, input, searching, placing, choosing, printing
<1>5. CASE OptionsTaken
  BY <1>5 DEF OptionsTaken, input, search, searching, placing, choosing, printing
<1>6. CASE FindMatchingFlags
  <2>1. Len(all_flags) \in Nat
    BY CompletionsAssumption
  <2>2. matching_flags' \subseteq 1..Len(all_flags)'
    <3>1. all_flags' = all_flags /\ next \in 1..Len(all_flags)
      BY <1>6, <2>1 DEF FindMatchingFlags, input
    <3>2. matching_flags' \subseteq matching_flags \cup {next}
      BY <1>6 DEF FindMatchingFlags
    <3>. QED
      BY <3>1, <3>2
  <2>3. todo' \subseteq matching_flags'
    <3>1. matching_flags \subseteq matching_flags'
      BY <1>6 DEF FindMatchingFlags
    <3>. QED
      BY <3>1, <1>6 DEF FindMatchingFlags, printing
  <2>4. notable_flags' = <<>>
    BY <1>6 DEF FindMatchingFlags, placing
  <2>5. common' \in Seq(STRING)
    <3>1. PICK name : name = all_flags[next].name
      OBVIOUS
    <3>2. name \in Seq(STRING)
      BY <1>6, <3>1, FlagType DEF FindMatchingFlags
    <3>3. common' \in {name, LongestCommonPrefix({common, name}), common}
      BY <1>6, <3>1 DEF FindMatchingFlags
    <3>4. LongestCommonPrefix({common, name}) \in Seq(STRING)
      BY <3>2, LongestPrefix DEF Diverge
    <3>. QED
      BY <3>2, <3>3, <3>4
  <2>. QED
    BY <1>6, <2>2, <2>3, <2>4, <2>5
    DEF FindMatchingFlags, input, search, placing, choosing, printing
<1>7. CASE PrintCommonPrefix
  BY <1>7 DEF PrintCommonPrefix, Line, input, search, searching, placing,
              choosing, printing
<1>8. CASE PrintNothing
  BY <1>8 DEF PrintNothing, input, search, searching, placing, choosing, printing
<1>9. CASE TryFindModuleAndPackageDir
  <2>1. module' \in Seq(STRING) /\ package_dir' \in Seq(STRING)
    BY <1>9, ModuleType, DirectoryType DEF TryFindModuleAndPackageDir
  <2>. QED
    BY <1>9, <2>1 DEF TryFindModuleAndPackageDir, input, search, searching, choosing, printing
<1>10. CASE CategorizeAllMatchingFlags
  <2>1. notable_flags' \in [matching_flags' -> Kind]
    BY <1>10, CategoryType DEF CategorizeAllMatchingFlags
  <2>2. max_desired_lines' \in {0, Everything} \cup Limits
    BY <1>10 DEF CategorizeAllMatchingFlags
  <2>. QED
    BY <1>10, <2>1, <2>2 DEF CategorizeAllMatchingFlags, input, search, printing
<1>11. CASE ChooseGroup
  <2>1. Kinds[next] \in Kind
    BY <1>11, KindsType DEF ChooseGroup, Kinds
  <2>2. output_groups' \in Seq(Kind)
    <3>1. output_groups' \in {output_groups,
                              Append(output_groups, Kinds[next])}
      BY <1>11 DEF ChooseGroup
    <3>. QED
      BY <3>1, <2>1, Appended
  <2>3. lines_so_far' \in Nat
    BY <1>11, SizeType DEF ChooseGroup
  <2>. QED
    BY <1>11, <2>2, <2>3 DEF ChooseGroup, input, search, placing, printing
<1>12. CASE GroupsChosen
  BY <1>12, DesiredLinesType
  DEF GroupsChosen, input, search, placing, choosing
<1>13. CASE OutputHeader
  <2>1. Indent \in Int
    BY DEF Indent
  <2>2. \A what \in {"header", "underline"} :
            [what |-> what, indent |-> Indent] \in Line
    BY <2>1 DEF Line
  <2>3. completions' \in Seq(Line)
    <3> DEFINE line(what) == [what |-> what, indent |-> Indent]
    <3>1. \/ completions' = completions
          \/ completions' = completions \o <<line("header"),
                                             line("underline")>>
      BY <1>13 DEF OutputHeader
    <3>2. line("header") \in Line /\ line("underline") \in Line
      BY <2>2
    <3>. HIDE DEF line
    <3>. QED
      BY <3>1, <3>2, AppendedTwice
  <2>4. todo' \subseteq matching_flags'
    BY <1>13, GroupType DEF OutputHeader
  <2>5. remaining_lines' \in Nat /\ next' \in Nat \ {0}
    BY <1>13 DEF OutputHeader
  <2>6. pc' \in {"group", "flags"}
    BY <1>13 DEF OutputHeader
  <2>. QED
    BY <1>13, <2>3, <2>4, <2>5, <2>6
    DEF OutputHeader, input, search, placing, choosing
<1>14. CASE OutputFlag
  <2>1. PICK f \in todo : completions' = Append(completions,
            [what |-> IF next = 1 /\ output_groups[1] = "perfect"
                      THEN "details" ELSE "flag",
             indent |-> Indent, flag |-> f])
    BY <1>14 DEF OutputFlag
  <2>2. f \in Nat /\ Indent \in Int
    BY CompletionsAssumption DEF Indent
  <2>3. completions' \in Seq(Line)
    BY <2>1, <2>2 DEF Line
  <2>4. todo' \subseteq matching_flags'
    BY <1>14 DEF OutputFlag, searching
  <2>5. remaining_lines' \in Nat
    BY <1>14 DEF OutputFlag
  <2>. QED
    BY <1>14, <2>3, <2>4, <2>5
    DEF OutputFlag, input, search, searching, placing, choosing
<1>15. CASE OutputFooter
  <2>1. [what |-> "footer", indent |-> Indent] \in Line
    BY DEF Line, Indent
  <2>2. completions' \in Seq(Line) /\ remaining_lines' \in Nat
    <3> DEFINE line == [what |-> "footer", indent |-> Indent]
    <3>1. completions' \in {completions, Append(completions, line)}
      BY <1>15 DEF OutputFooter
    <3>2. remaining_lines' \in Nat
      BY <1>15 DEF OutputFooter
    <3>. HIDE DEF line
    <3>3. line \in Line
      BY <2>1 DEF line
    <3>. QED
      BY <3>1, <3>2, <3>3, Appended
  <2>. QED
    BY <1>15, <2>2 DEF OutputFooter, input, search, placing, choosing
<1>16. CASE LastLine
  <2>1. completions' \in Seq(Line)
    BY <1>16 DEF LastLine, Line
  <2>. QED
    BY <1>16, <2>1 DEF LastLine, input, search, searching, placing, choosing
<1>17. CASE UNCHANGED vars
  BY <1>17 DEF vars, input, search, searching, placing, choosing, printing
<1>. QED
  BY <1>1, <1>2, <1>3, <1>4, <1>5, <1>6, <1>7, <1>8, <1>9, <1>10, <1>11, <1>12,
     <1>13, <1>14, <1>15, <1>16, <1>17 DEF Next, Step, Exited

(* Type correctness of the completion, for all its parameters.             *)
THEOREM TypeCorrect == Spec => []TypeOK
BY TypeInit, TypeStep, PTL DEF Spec

-----------------------------------------------------------------------------
(* The lines printed and the lines that remain make up the limit while the *)
(* groups are printed, and the last line is the only one beyond it.        *)

Budget ==
  /\ pc \in {"quote", "dashes", "options", "match", "categorize", "choose"} =>
        completions = <<>>
  /\ pc \in {"group", "flags"} =>
        Len(completions) + remaining_lines = max_desired_lines
  /\ pc = "exit" => Len(completions) <= max_desired_lines + 1

LEMMA BudgetInit == Init => Budget
BY DEF Init, Budget

LEMMA BudgetStep == TypeOK /\ Budget /\ [Next]_vars => Budget'
<1> SUFFICES ASSUME TypeOK, Budget, [Next]_vars PROVE Budget'
  OBVIOUS
<1>a. max_desired_lines \in Nat /\ remaining_lines \in Nat
      /\ completions \in Seq(Line)
  BY DesiredLinesType DEF TypeOK
<1>. USE DEF Budget
<1>1. CASE StripQuote \/ StripDash \/ TakeQuestionMark \/ TakePlus
            \/ OptionsTaken \/ FindMatchingFlags
  BY <1>1 DEF StripQuote, StripDash, TakeQuestionMark, TakePlus, OptionsTaken,
              FindMatchingFlags, printing
<1>2. CASE PrintCommonPrefix
  BY <1>2, <1>a DEF PrintCommonPrefix, choosing
<1>3. CASE PrintNothing
  BY <1>3, <1>a DEF PrintNothing, choosing, printing
<1>4. CASE TryFindModuleAndPackageDir \/ CategorizeAllMatchingFlags
           \/ ChooseGroup
  BY <1>4 DEF TryFindModuleAndPackageDir, CategorizeAllMatchingFlags,
              ChooseGroup, printing
<1>5. CASE GroupsChosen
  BY <1>5, <1>a DEF GroupsChosen, choosing
<1>6. CASE OutputHeader
  <2> DEFINE line(what) == [what |-> what, indent |-> Indent]
             d == line("header")
             e == line("underline")
  <2>1. d \in Line /\ e \in Line
    BY DEF Line, Indent, TypeOK
  <2>2. \/ /\ completions' = completions \o <<d, e>>
           /\ remaining_lines' = remaining_lines - 2
        \/ UNCHANGED <<completions, remaining_lines>>
    BY <1>6 DEF OutputHeader
  <2>3. pc \in {"group", "flags"} /\ pc' \in {"group", "flags"}
        /\ max_desired_lines' = max_desired_lines
    BY <1>6 DEF OutputHeader, choosing
  <2>. HIDE DEF d, e
  <2>4. Len(completions \o <<d, e>>) = Len(completions) + 2
    BY <2>1, <1>a, AppendedTwice
  <2>. QED
    BY <2>2, <2>3, <2>4, <1>a
<1>7. CASE OutputFlag
  <2>1. PICK f \in todo : completions' = Append(completions,
            [what |-> IF next = 1 /\ output_groups[1] = "perfect"
                      THEN "details" ELSE "flag",
             indent |-> Indent, flag |-> f])
    BY <1>7 DEF OutputFlag
  <2>2. Len(completions') = Len(completions) + 1
    BY <2>1, <1>a
  <2>. QED
    BY <1>7, <1>a, <2>2 DEF OutputFlag, choosing
<1>8. CASE OutputFooter
  <2>1. \/ /\ Len(completions') = Len(completions) + 1
           /\ remaining_lines' = remaining_lines - 1
        \/ UNCHANGED <<completions, remaining_lines>>
    BY <1>8, <1>a DEF OutputFooter
  <2>. QED
    BY <1>8, <1>a, <2>1 DEF OutputFooter, choosing
<1>9. CASE LastLine
  <2>1. Len(completions') = Len(completions) + 1
    BY <1>9, <1>a DEF LastLine
  <2>. QED
    BY <1>9, <1>a, <2>1 DEF LastLine, choosing
<1>10. CASE UNCHANGED vars
  BY <1>10 DEF vars, input, search, searching, placing, choosing, printing
<1>. QED
  BY <1>1, <1>2, <1>3, <1>4, <1>5, <1>6, <1>7, <1>8, <1>9, <1>10
  DEF Next, Step, Exited

LEMMA BudgetFits == TypeOK /\ Budget => FitsScreen
BY DesiredLinesType DEF TypeOK, Budget, FitsScreen

(* Bash never gets more than one line beyond the number desired, whatever  *)
(* the groups and however many flags they have                             *)
(* (gflags_completions.cc:527-688).                                        *)
THEOREM CompletionFits == Spec => []FitsScreen
BY TypeInit, TypeStep, BudgetInit, BudgetStep, BudgetFits, PTL DEF Spec

-----------------------------------------------------------------------------
(* Bash's sorting: the lines of the groups printed are indented further    *)
(* than those of the group being printed, whose lines so far are in order. *)

KeyRoom(line) ==
  IF next = 1 /\ output_groups[1] = "perfect" THEN line.what = "details"
  ELSE line.what \in {"header", "underline", "flag"}

Sorted ==
  /\ SurvivesSorting
  /\ pc = "group" =>
        /\ next <= Len(output_groups) + 1
        /\ \A k \in 1..Len(completions) : completions[k].indent > Indent
  /\ pc = "flags" =>
        /\ next <= Len(output_groups)
        /\ \A k \in 1..Len(completions) :
              \/ completions[k].indent > Indent
              \/ completions[k].indent = Indent /\ KeyRoom(completions[k])

InOrder(s) ==
  \A j, k \in 1..Len(s) :
    /\ s[j].indent >= 0
    /\ j < k => \/ s[j].indent > s[k].indent
                \/ /\ s[j].indent = s[k].indent
                   /\ SortKey(s[j].what) <= SortKey(s[k].what)

(* Line b may come after the lines of s.                                   *)
LastAmong(b, s) ==
  /\ b.indent >= 0
  /\ \A k \in 1..Len(s) :
        \/ s[k].indent > b.indent
        \/ s[k].indent = b.indent /\ SortKey(s[k].what) <= SortKey(b.what)

LEMMA OrderSurvives == SurvivesSorting <=> InOrder(completions)
BY DEF SurvivesSorting, InOrder

LEMMA KeyType == \A line \in Line : SortKey(line.what) \in 0..5
BY DEF Line, SortKey

LEMMA LineAfterLines ==
  ASSUME NEW s \in Seq(Line), NEW b \in Line, InOrder(s), LastAmong(b, s)
  PROVE  InOrder(Append(s, b))
<1> DEFINE t == Append(s, b)
<1>1. Len(s) \in Nat /\ Len(t) = Len(s) + 1
  OBVIOUS
<1>2. \A k \in 1..Len(s) : t[k] = s[k]
  OBVIOUS
<1>3. t[Len(s) + 1] = b
  OBVIOUS
<1>. HIDE DEF t
<1>4. SUFFICES ASSUME NEW j \in 1..Len(t), NEW k \in 1..Len(t)
               PROVE  /\ t[j].indent >= 0
                      /\ j < k =>
                          \/ t[j].indent > t[k].indent
                          \/ /\ t[j].indent = t[k].indent
                             /\ SortKey(t[j].what) <= SortKey(t[k].what)
  BY DEF InOrder, t
<1>5. CASE j \in 1..Len(s) /\ k \in 1..Len(s)
  BY <1>2, <1>5 DEF InOrder
<1>6. CASE j \in 1..Len(s) /\ k = Len(s) + 1
  BY <1>2, <1>3, <1>6 DEF InOrder, LastAmong
<1>7. CASE j = Len(s) + 1
  BY <1>1, <1>3, <1>7 DEF LastAmong
<1>. QED
  BY <1>1, <1>5, <1>6, <1>7

LEMMA SortedInit == Init => Sorted
BY DEF Init, Sorted, SurvivesSorting

LEMMA SortedStep == TypeOK /\ Budget /\ Sorted /\ [Next]_vars => Sorted'
<1> SUFFICES ASSUME TypeOK, Budget, Sorted, [Next]_vars PROVE Sorted'
  OBVIOUS
<1>a. completions \in Seq(Line) /\ Len(completions) \in Nat /\ next \in Nat
      /\ Len(output_groups) \in Nat /\ Indent \in Int
  BY DEF TypeOK, Indent
<1>b. InOrder(completions)
  BY OrderSurvives DEF Sorted
<1>c. InOrder(completions') => SurvivesSorting'
  BY DEF InOrder, SurvivesSorting
<1>d. \A k \in 1..Len(completions) :
        completions[k] \in Line /\ completions[k].indent \in Int
  BY <1>a DEF Line
<1>1. CASE StripQuote \/ StripDash \/ TakeQuestionMark \/ TakePlus
            \/ OptionsTaken \/ FindMatchingFlags \/ PrintNothing
            \/ TryFindModuleAndPackageDir \/ CategorizeAllMatchingFlags
            \/ ChooseGroup
  <2>1. completions' = completions /\ pc' \notin {"group", "flags"}
    BY <1>1 DEF StripQuote, StripDash, TakeQuestionMark, TakePlus, OptionsTaken,
      FindMatchingFlags, PrintNothing, TryFindModuleAndPackageDir,
      CategorizeAllMatchingFlags, ChooseGroup, printing
  <2>. QED
    BY <2>1, <1>b, <1>c DEF Sorted
<1>2. CASE PrintCommonPrefix
  <2>1. InOrder(<<[what |-> "prefix", indent |-> 0]>>)
    BY DEF InOrder
  <2>. QED
    BY <1>2, <1>c, <2>1 DEF PrintCommonPrefix, Sorted
<1>3. CASE GroupsChosen
  <2>1. completions = <<>> /\ completions' = completions
    BY <1>3 DEF GroupsChosen, Budget
  <2>2. next' = 1 /\ output_groups' = output_groups /\ pc' = "group"
    BY <1>3 DEF GroupsChosen, choosing
  <2>. QED
    BY <2>1, <2>2, <1>a, <1>b, <1>c DEF Sorted
<1>4. CASE OutputHeader
  <2> DEFINE kind == output_groups[next]
             line(what) == [what |-> what, indent |-> Indent]
             d == line("header")
             e == line("underline")
  <2>1. /\ pc = "group" /\ next <= Len(output_groups)
        /\ output_groups' = output_groups
    BY <1>4 DEF OutputHeader, choosing
  <2>2. \A k \in 1..Len(completions) : completions[k].indent > Indent
    BY <2>1 DEF Sorted
  <2>3. CASE ~Headed(kind)
    <3>1. pc' = "flags" /\ UNCHANGED <<completions, next>>
      BY <1>4, <2>3 DEF OutputHeader
    <3>. QED
      BY <3>1, <2>1, <2>2, <1>b, <1>c DEF Sorted, Indent
  <2>4. CASE Headed(kind) /\ remaining_lines < 2
    <3>1. pc' = "group" /\ completions' = completions /\ next' = next + 1
      BY <1>4, <2>4 DEF OutputHeader
    <3>2. Indent' = Indent - 1
      BY <3>1, <2>1, <1>a DEF Indent
    <3>3. \A k \in 1..Len(completions) : completions[k].indent > Indent'
      BY <3>2, <2>2, <1>a, <1>d
    <3>. QED
      BY <3>1, <3>3, <2>1, <1>a, <1>b, <1>c DEF Sorted
  <2>5. CASE Headed(kind) /\ ~(remaining_lines < 2)
    <3>1. /\ pc' = "flags" /\ next' = next
          /\ completions' = completions \o <<d, e>>
      BY <1>4, <2>5 DEF OutputHeader
    <3>2. /\ d \in Line /\ d.indent = Indent /\ d.what = "header"
          /\ e \in Line /\ e.indent = Indent /\ e.what = "underline"
      BY <1>a DEF Line
    <3>3. Indent >= 0 /\ Indent' = Indent
      BY <2>1, <3>1, <1>a DEF Indent
    <3>. HIDE DEF d, e
    <3> DEFINE s == Append(completions, d)
    <3>4. s \in Seq(Line) /\ InOrder(s)
      <4>1. LastAmong(d, completions)
        BY <2>2, <3>2, <3>3 DEF LastAmong
      <4>. QED
        BY <4>1, <3>2, <1>a, <1>b, LineAfterLines
    <3>5. Len(s) = Len(completions) + 1 /\ s[Len(completions) + 1] = d
          /\ \A k \in 1..Len(completions) : s[k] = completions[k]
      BY <1>a, <3>2
    <3>6. completions' = Append(s, e)
      BY <3>1, <3>2, <1>a
    <3>. HIDE DEF s
    <3>7. \A k \in 1..Len(s) : s[k].indent > Indent \/ s[k] = d
      BY <3>5, <2>2, <1>a
    <3>8. InOrder(completions')
      <4>1. SortKey("header") <= SortKey("underline")
        BY DEF SortKey
      <4>2. LastAmong(e, s)
        BY <3>2, <3>3, <3>7, <4>1 DEF LastAmong
      <4>. QED
        BY <4>2, <3>2, <3>4, <3>6, LineAfterLines
    <3>9. \A k \in 1..Len(completions') :
            \/ completions'[k].indent > Indent
            \/ completions'[k] \in {d, e}
      <4>1. Len(s) \in Nat
        BY <3>4
      <4>2. Len(completions') = Len(s) + 1 /\ completions'[Len(s) + 1] = e
            /\ \A k \in 1..Len(s) : completions'[k] = s[k]
        BY <3>4, <3>6, <3>2
      <4>. QED
        BY <4>1, <4>2, <3>7
    <3>10. \A l : l.what \in {"header", "underline"} => KeyRoom(l)'
      <4>1. ~(next = 1 /\ output_groups[1] = "perfect")
        BY <2>5 DEF Headed
      <4>2. ~(next' = 1 /\ output_groups'[1] = "perfect")
        BY <4>1, <2>1, <3>1
      <4>. QED
        BY <4>2 DEF KeyRoom
    <3>11. \A k \in 1..Len(completions') :
            \/ completions'[k].indent > Indent'
            \/ completions'[k].indent = Indent' /\ KeyRoom(completions[k])'
      <4> SUFFICES ASSUME NEW k \in 1..Len(completions'),
                          completions'[k] \in {d, e}
                   PROVE  /\ completions'[k].indent = Indent'
                          /\ KeyRoom(completions[k])'
        BY <3>3, <3>9
      <4>1. /\ completions'[k].indent = Indent'
            /\ completions'[k].what \in {"header", "underline"}
        BY <3>2, <3>3
      <4>. QED
        BY <4>1, <3>10
    <3>. QED
      BY <3>1, <3>8, <3>11, <2>1, <1>c DEF Sorted
  <2>. QED
    BY <2>3, <2>4, <2>5
<1>5. CASE OutputFlag
  <2> DEFINE long == next = 1 /\ output_groups[1] = "perfect"
             what == IF long THEN "details" ELSE "flag"
  <2>1. PICK f \in todo : completions' = Append(completions,
            [what |-> what, indent |-> Indent, flag |-> f])
    BY <1>5 DEF OutputFlag
  <2> DEFINE b == [what |-> what, indent |-> Indent, flag |-> f]
  <2>2. b \in Line /\ b.indent = Indent /\ b.what = what
    BY <1>a, CompletionsAssumption DEF Line, TypeOK
  <2>3. pc = "flags" /\ pc' = "flags" /\ next' = next
        /\ output_groups' = output_groups
    BY <1>5 DEF OutputFlag, searching, choosing
  <2>4. next <= Len(output_groups)
        /\ \A k \in 1..Len(completions) :
              \/ completions[k].indent > Indent
              \/ completions[k].indent = Indent /\ KeyRoom(completions[k])
    BY <2>3 DEF Sorted
  <2>5. Indent >= 0 /\ Indent' = Indent
    BY <2>3, <2>4, <1>a DEF Indent
  <2>6. KeyRoom(b) /\ \A line : KeyRoom(line)' <=> KeyRoom(line)
    BY <2>2, <2>3 DEF KeyRoom
  <2>7. \A line : KeyRoom(line) => SortKey(line.what) <= SortKey(b.what)
    BY <2>2 DEF KeyRoom, SortKey
  <2>. HIDE DEF b
  <2>8. InOrder(Append(completions, b))
    <3>1. LastAmong(b, completions)
      BY <2>2, <2>4, <2>5, <2>7 DEF LastAmong
    <3>. QED
      BY <3>1, <2>2, <1>a, <1>b, LineAfterLines
  <2>9. completions' = Append(completions, b)
    BY <2>1 DEF b
  <2>10. \A k \in 1..Len(completions') :
            \/ completions'[k].indent > Indent
            \/ completions'[k].indent = Indent /\ KeyRoom(completions'[k])
    <3>1. Len(completions') = Len(completions) + 1
          /\ completions'[Len(completions) + 1] = b
          /\ \A k \in 1..Len(completions) : completions'[k] = completions[k]
      BY <2>2, <2>9, <1>a
    <3>. QED
      BY <3>1, <2>2, <2>4, <2>6, <1>a
  <2>11. pc' # "group" /\ next' <= Len(output_groups')
    BY <2>3, <2>4
  <2>12. \A k \in 1..Len(completions') :
            \/ completions'[k].indent > Indent'
            \/ completions'[k].indent = Indent' /\ KeyRoom(completions[k])'
    BY <2>3, <2>5, <2>10 DEF KeyRoom
  <2>. QED
    BY <2>8, <2>9, <2>11, <2>12, <1>c DEF Sorted
<1>6. CASE OutputFooter
  <2> DEFINE b == [what |-> "footer", indent |-> Indent]
  <2>1. b \in Line /\ b.indent = Indent /\ b.what = "footer"
    BY <1>a DEF Line
  <2>2. pc = "flags" /\ pc' = "group" /\ next' = next + 1
        /\ output_groups' = output_groups
    BY <1>6 DEF OutputFooter, choosing
  <2>3. next <= Len(output_groups)
        /\ \A k \in 1..Len(completions) :
              \/ completions[k].indent > Indent
              \/ completions[k].indent = Indent /\ KeyRoom(completions[k])
    BY <2>2 DEF Sorted
  <2>4. Indent >= 0 /\ Indent' = Indent - 1
    BY <2>2, <2>3, <1>a DEF Indent
  <2>5. completions' \in {completions, Append(completions, b)}
    BY <1>6 DEF OutputFooter
  <2>6. \A line : KeyRoom(line) => SortKey(line.what) <= SortKey(b.what)
    BY <2>1 DEF KeyRoom, SortKey
  <2>. HIDE DEF b
  <2>7. InOrder(Append(completions, b))
    <3>1. LastAmong(b, completions)
      BY <2>1, <2>3, <2>4, <2>6 DEF LastAmong
    <3>. QED
      BY <3>1, <2>1, <1>a, <1>b, LineAfterLines
  <2>8. \A k \in 1..Len(completions') : completions'[k].indent > Indent'
    <3>1. CASE completions' = completions
      BY <3>1, <2>3, <2>4, <1>a, <1>d
    <3>2. CASE completions' = Append(completions, b)
      <4>1. Len(completions') = Len(completions) + 1
            /\ completions'[Len(completions) + 1] = b
            /\ \A k \in 1..Len(completions) : completions'[k] = completions[k]
        BY <3>2, <2>1, <1>a
      <4>. QED
        BY <4>1, <2>1, <2>3, <2>4, <1>a, <1>d
    <3>. QED
      BY <3>1, <3>2, <2>5
  <2>. QED
    <3>1. InOrder(completions')
      BY <2>5, <2>7, <1>b
    <3>2. next' <= Len(output_groups') + 1
      BY <2>2, <2>3, <1>a
    <3>. QED
      BY <3>1, <3>2, <2>2, <2>8, <1>c DEF Sorted
<1>7. CASE LastLine
  <2>1. PICK what \in {"hidden", "no_update"} :
          completions' = Append(completions, [what |-> what, indent |-> 0])
    BY <1>7 DEF LastLine
  <2> DEFINE b == [what |-> what, indent |-> 0]
  <2>2. b \in Line /\ b.indent = 0 /\ SortKey(b.what) = 5
    BY DEF Line, SortKey
  <2>3. Indent = -1 /\ pc' = "exit"
        /\ \A k \in 1..Len(completions) : completions[k].indent > Indent
    BY <1>7, <1>a DEF LastLine, Sorted, Indent
  <2>. HIDE DEF b
  <2>4. LastAmong(b, completions)
    BY <2>2, <2>3, <1>d, KeyType DEF LastAmong
  <2>5. InOrder(Append(completions, b))
    BY <2>2, <2>4, <1>a, <1>b, LineAfterLines
  <2>. QED
    BY <2>1, <2>3, <2>5, <1>c DEF Sorted, b
<1>8. CASE UNCHANGED vars
  BY <1>8 DEF vars, input, search, searching, placing, choosing, printing,
              Sorted, SurvivesSorting, Indent, KeyRoom
<1>. QED
  BY <1>1, <1>2, <1>3, <1>4, <1>5, <1>6, <1>7, <1>8 DEF Next, Step, Exited

(* The lines stay in their groups, and the groups in their order, when     *)
(* bash sorts what it is given (gflags_completions.cc:527-626), whatever   *)
(* groups the limit leaves out.                                            *)
THEOREM SortingKeepsGroups == Spec => []SurvivesSorting
<1>1. Sorted => SurvivesSorting
  BY DEF Sorted
<1>. QED
  BY <1>1, TypeInit, TypeStep, BudgetInit, BudgetStep, SortedInit, SortedStep,
     PTL DEF Spec

-----------------------------------------------------------------------------
(* The flags listed.                                                       *)

Lists(s) == {k \in 1..Len(s) : IsFlag(s[k])}

Flags(s) == {s[k].flag : k \in Lists(s)}

(* Those listed before line k.                                             *)
Earlier(s, k) == {s[j].flag : j \in {i \in Lists(s) : i < k}}

LEMMA OtherLine ==
  ASSUME NEW s \in Seq(Line), NEW e \in Line, ~IsFlag(e), NEW t, t = Append(s, e)
  PROVE  /\ t \in Seq(Line) /\ Len(t) = Len(s) + 1 /\ Lists(t) = Lists(s) /\ Flags(t) = Flags(s)
         /\ \A k \in Lists(s) : t[k] = s[k] /\ Earlier(t, k) = Earlier(s, k)
<1>1. t \in Seq(Line) /\ Len(t) = Len(s) + 1 /\ t[Len(s) + 1] = e /\ Len(s) \in Nat
  OBVIOUS
<1>2. \A k \in 1..Len(s) : t[k] = s[k] /\ k \in 1..Len(t)
  OBVIOUS
<1>3. \A k \in 1..Len(t) : k \in 1..Len(s) \/ k = Len(s) + 1
  BY <1>1
<1>4. Lists(t) = Lists(s)
  BY <1>1, <1>2, <1>3 DEF Lists
<1>5. \A k \in Lists(s) : t[k] = s[k]
  BY <1>2 DEF Lists
<1>6. Flags(t) = Flags(s)
  BY <1>4, <1>5 DEF Flags
<1>7. \A k \in Lists(s) : Earlier(t, k) = Earlier(s, k)
  BY <1>4, <1>5 DEF Earlier
<1>. QED
  BY <1>1, <1>4, <1>5, <1>6, <1>7

(* Lines t are lines s and line n, which is e and lists a flag.            *)
ListsOneMore(s, e, n, t) ==
  /\ t \in Seq(Line) /\ Len(t) = n
  /\ n \notin Lists(s) /\ Lists(t) = Lists(s) \cup {n}
  /\ t[n] = e /\ Earlier(t, n) = Flags(s) /\ Flags(t) = Flags(s) \cup {e.flag}
  /\ \A k \in Lists(s) : t[k] = s[k] /\ Earlier(t, k) = Earlier(s, k)

LEMMA FlagLine ==
  ASSUME NEW s \in Seq(Line), NEW e \in Line, IsFlag(e)
  PROVE  ListsOneMore(s, e, Len(s) + 1, Append(s, e))
<1> DEFINE t == Append(s, e)
           n == Len(s) + 1
<1>1. t \in Seq(Line) /\ Len(t) = n /\ t[n] = e /\ Len(s) \in Nat /\ n = Len(s) + 1
  OBVIOUS
<1>2. \A k \in 1..Len(s) : t[k] = s[k] /\ k \in 1..Len(t) /\ k < n
  OBVIOUS
<1> HIDE DEF t, n
<1>3. (\A k \in 1..Len(t) : k \in 1..Len(s) \/ k = n) /\ n \in 1..Len(t) /\ n \notin 1..Len(s)
  BY <1>1
<1>4. Lists(t) = Lists(s) \cup {n} /\ n \notin Lists(s)
  BY <1>1, <1>2, <1>3 DEF Lists
<1>5. \A k \in Lists(s) : t[k] = s[k] /\ k < n /\ ~(n < k)
  <2>1. \A k \in 1..Len(s) : ~(n < k)
    BY <1>1
  <2>. QED
    BY <2>1, <1>2 DEF Lists
<1>6. Flags(t) = Flags(s) \cup {e.flag}
  <2>1. ASSUME NEW x \in Flags(t) PROVE x \in Flags(s) \cup {e.flag}
    <3>1. PICK k \in Lists(t) : x = t[k].flag
      BY DEF Flags
    <3>. QED
      BY <3>1, <1>1, <1>4, <1>5 DEF Flags
  <2>2. ASSUME NEW x \in Flags(s) PROVE x \in Flags(t)
    <3>1. PICK k \in Lists(s) : x = s[k].flag
      BY DEF Flags
    <3>. QED
      BY <3>1, <1>4, <1>5 DEF Flags
  <2>3. e.flag \in Flags(t)
    BY <1>1, <1>4 DEF Flags
  <2>. QED
    BY <2>1, <2>2, <2>3
<1>7. \A k \in Lists(s) : Earlier(t, k) = Earlier(s, k)
  BY <1>4, <1>5 DEF Earlier
<1>8. Earlier(t, n) = Flags(s)
  <2>1. {i \in Lists(t) : i < n} = Lists(s)
    <3>1. ~(n < n)
      BY <1>1
    <3>. QED
      BY <3>1, <1>4, <1>5
  <2>. QED
    BY <2>1, <1>5 DEF Earlier, Flags
<1>. QED
  BY <1>1, <1>4, <1>5, <1>6, <1>7, <1>8 DEF ListsOneMore, t, n

(* No flag is listed twice, and when one is, those of the groups before    *)
(* its own have been.                                                      *)
Listing(s) ==
  /\ \A k \in Lists(s) : s[k].flag \in matching_flags
  /\ \A j, k \in Lists(s) : s[j].flag = s[k].flag => j = k
  /\ \A k \in Lists(s) : \A h, i \in 1..Len(output_groups) :
        notable_flags[s[k].flag] = output_groups[i] /\ h < i =>
            Group(output_groups[h]) \subseteq Earlier(s, k)

LEMMA ListingGoesOn ==
  ASSUME NEW s \in Seq(Line), NEW e \in Line, ~IsFlag(e), Listing(s)
  PROVE  Listing(Append(s, e))
<1> DEFINE t == Append(s, e)
<1>1. Lists(t) = Lists(s) /\ \A k \in Lists(s) : t[k] = s[k] /\ Earlier(t, k) = Earlier(s, k)
  BY OtherLine
<1> HIDE DEF t
<1>2. Listing(t)
  BY <1>1 DEF Listing
<1>. QED
  BY <1>2 DEF t

LEMMA FlagIsListed ==
  ASSUME NEW s \in Seq(Line), NEW e \in Line, IsFlag(e), Listing(s),
         e.flag \in matching_flags, e.flag \notin Flags(s),
         \A h, i \in 1..Len(output_groups) :
            notable_flags[e.flag] = output_groups[i] /\ h < i =>
                Group(output_groups[h]) \subseteq Flags(s)
  PROVE  Listing(Append(s, e))
<1> DEFINE t == Append(s, e)
           n == Len(s) + 1
<1>0. ListsOneMore(s, e, n, t)
  BY FlagLine
<1> HIDE DEF t, n
<1>1. /\ n \notin Lists(s) /\ Lists(t) = Lists(s) \cup {n}
      /\ t[n] = e /\ Earlier(t, n) = Flags(s)
      /\ \A k \in Lists(s) : t[k] = s[k] /\ Earlier(t, k) = Earlier(s, k)
  BY <1>0 DEF ListsOneMore
<1>2. \A k \in Lists(s) : s[k].flag # e.flag
  BY DEF Flags
<1>3. \A k \in Lists(t) : t[k].flag \in matching_flags
  BY <1>1 DEF Listing
<1>4. \A j, k \in Lists(t) : t[j].flag = t[k].flag => j = k
  BY <1>1, <1>2 DEF Listing
<1>5. ASSUME NEW k \in Lists(t), NEW h \in 1..Len(output_groups), NEW i \in 1..Len(output_groups),
             notable_flags[t[k].flag] = output_groups[i], h < i
      PROVE  Group(output_groups[h]) \subseteq Earlier(t, k)
  <2>1. CASE k = n
    BY <1>1, <1>5, <2>1
  <2>2. CASE k # n
    <3>1. k \in Lists(s) /\ t[k] = s[k] /\ Earlier(t, k) = Earlier(s, k)
      BY <1>1, <2>2
    <3>. QED
      BY <3>1, <1>5 DEF Listing
  <2>. QED
    BY <2>1, <2>2
<1>6. Listing(t)
  BY <1>3, <1>4, <1>5 DEF Listing
<1>. QED
  BY <1>6 DEF t

-----------------------------------------------------------------------------
(* The groups chosen.                                                      *)

LEMMA KindsDiffer ==
  /\ Len(Kinds) = 5
  /\ \A p, q \in 1..5 : Kinds[p] = Kinds[q] => p = q
  /\ \A kind \in Kind : \E p \in 1..5 : kind = Kinds[p]
  /\ \A p \in 1..5 : Kinds[p] \in Kind /\ (Kinds[p] = "perfect" <=> p = 1)
BY DEF Kinds, Kind

Taken(n) == {output_groups[i] : i \in 1..n}

(* The lines that printing the whole of a group takes.                     *)
LinesOf(kind) == Cardinality(Group(kind)) + (IF Headed(kind) THEN 2 ELSE 0)
                                          + (IF Footed(kind) THEN 1 ELSE 0)

Share(K, kind, size) == IF kind \in K THEN size ELSE 0

(* What a set of groups is estimated to take, and what it takes.           *)
Estimate(K) ==
  Share(K, "perfect", SizeInLines("perfect")) + Share(K, "module", SizeInLines("module"))
    + Share(K, "package", SizeInLines("package"))
    + Share(K, "subpackage", SizeInLines("subpackage")) + Share(K, "other", SizeInLines("other"))

Actual(K) ==
  Share(K, "perfect", LinesOf("perfect")) + Share(K, "module", LinesOf("module"))
    + Share(K, "package", LinesOf("package"))
    + Share(K, "subpackage", LinesOf("subpackage")) + Share(K, "other", LinesOf("other"))

LEMMA GroupIsFinite ==
  ASSUME TypeOK, NEW kind PROVE IsFiniteSet(Group(kind)) /\ Cardinality(Group(kind)) \in Nat
<1>1. Len(all_flags) \in Nat
  BY CompletionsAssumption DEF TypeOK
<1>2. IsFiniteSet(1..Len(all_flags))
  BY <1>1, FS_Interval
<1>3. Group(kind) \subseteq 1..Len(all_flags)
  BY DEF TypeOK, Group
<1>. QED
  BY <1>2, <1>3, FS_Subset, FS_CardinalityType

LEMMA SizeTypes ==
  ASSUME TypeOK
  PROVE  /\ \A kind : SizeInLines(kind) \in Nat /\ LinesOf(kind) \in Nat
         /\ \A kind : kind # "perfect" => SizeInLines(kind) <= LinesOf(kind)
         /\ SizeInLines("perfect") <= LinesOf("perfect") + 1
<1>1. ASSUME NEW kind PROVE Cardinality(Group(kind)) \in Nat
  BY GroupIsFinite
<1>. QED
  BY <1>1 DEF SizeInLines, LinesOf, Headed, Footed

LEMMA SumTypes ==
  ASSUME TypeOK, NEW K PROVE Estimate(K) \in Nat /\ Actual(K) \in Nat /\ Estimate(K) <= Actual(K) + 1
BY SizeTypes DEF Estimate, Actual, Share

LEMMA SumsGrow ==
  ASSUME TypeOK, NEW K, NEW kind \in Kind, kind \notin K
  PROVE  /\ Estimate(K \cup {kind}) = Estimate(K) + SizeInLines(kind)
         /\ Actual(K \cup {kind}) = Actual(K) + LinesOf(kind)
<1>1. \A k : k \in K \cup {kind} <=> k \in K \/ k = kind
  OBVIOUS
<1> DEFINE L == K \cup {kind}
<1> HIDE DEF L
<1>2. \A k, size : Share(L, k, size) = IF k = kind THEN size ELSE Share(K, k, size)
  BY <1>1 DEF Share, L
<1>3. \A size : Share(K, kind, size) = 0
  BY DEF Share
<1>4. \A k : SizeInLines(k) \in Nat /\ LinesOf(k) \in Nat
  BY SizeTypes
<1>5. \A k : Share(K, k, SizeInLines(k)) \in Nat /\ Share(K, k, LinesOf(k)) \in Nat
  BY <1>4 DEF Share
<1>6. kind \in {"perfect", "module", "package", "subpackage", "other"}
  BY DEF Kind
<1>7. ASSUME NEW k \in Kind, NEW size \in Nat, k = kind => size = SizeInLines(kind)
      PROVE  Share(L, k, size) = Share(K, k, size) + IF k = kind THEN SizeInLines(kind) ELSE 0
  BY <1>2, <1>3, <1>4, <1>7 DEF Share
<1>8. ASSUME NEW k \in Kind, NEW size \in Nat, k = kind => size = LinesOf(kind)
      PROVE  Share(L, k, size) = Share(K, k, size) + IF k = kind THEN LinesOf(kind) ELSE 0
  BY <1>2, <1>3, <1>4, <1>8 DEF Share
<1>9. Estimate(L) = Estimate(K) + SizeInLines(kind)
  <2>1. CASE kind = "perfect"
    BY <2>1, <1>4, <1>5, <1>7 DEF Estimate, Kind
  <2>2. CASE kind = "module"
    BY <2>2, <1>4, <1>5, <1>7 DEF Estimate, Kind
  <2>3. CASE kind = "package"
    BY <2>3, <1>4, <1>5, <1>7 DEF Estimate, Kind
  <2>4. CASE kind = "subpackage"
    BY <2>4, <1>4, <1>5, <1>7 DEF Estimate, Kind
  <2>5. CASE kind = "other"
    BY <2>5, <1>4, <1>5, <1>7 DEF Estimate, Kind
  <2>. QED
    BY <1>6, <2>1, <2>2, <2>3, <2>4, <2>5
<1>10. Actual(L) = Actual(K) + LinesOf(kind)
  <2>1. CASE kind = "perfect"
    BY <2>1, <1>4, <1>5, <1>8 DEF Actual, Kind
  <2>2. CASE kind = "module"
    BY <2>2, <1>4, <1>5, <1>8 DEF Actual, Kind
  <2>3. CASE kind = "package"
    BY <2>3, <1>4, <1>5, <1>8 DEF Actual, Kind
  <2>4. CASE kind = "subpackage"
    BY <2>4, <1>4, <1>5, <1>8 DEF Actual, Kind
  <2>5. CASE kind = "other"
    BY <2>5, <1>4, <1>5, <1>8 DEF Actual, Kind
  <2>. QED
    BY <1>6, <2>1, <2>2, <2>3, <2>4, <2>5
<1>. QED
  BY <1>9, <1>10 DEF L

LEMMA NothingTaken == Taken(0) = {} /\ Estimate({}) = 0 /\ Actual({}) = 0
<1>1. Taken(0) = {}
  BY DEF Taken
<1>. QED
  BY <1>1 DEF Estimate, Actual, Share

(* Groups F, estimated to take e lines, are what the choice among the      *)
(* first n kinds makes: one that has flags and was not taken was one too   *)
(* many, and none was taken after it.                                      *)
PickedFrom(n, F, e) ==
  /\ \A i \in 1..Len(F) : \E p \in 1..n : F[i] = Kinds[p]
  /\ \A h, i \in 1..Len(F) : h < i =>
        \E p, q \in 1..n : p < q /\ F[h] = Kinds[p] /\ F[i] = Kinds[q]
  /\ LET taken == {F[i] : i \in 1..Len(F)}
     IN  /\ \A p \in 1..n :
              \/ Kinds[p] \in taken
              \/ Group(Kinds[p]) = {}
              \/ e >= max_desired_lines /\ \A q \in p..n : Kinds[q] \notin taken
         /\ e = Estimate(taken)

Picked(n) == PickedFrom(n, output_groups, lines_so_far)

Choice ==
  /\ pc \in {"quote", "dashes", "options", "match", "categorize"} =>
        output_groups = <<>> /\ lines_so_far = 0
  /\ pc = "choose" => next \in 1..6 /\ Picked(next - 1)
  /\ pc \in {"group", "flags"} => Picked(5)
  /\ pc \in {"choose", "group", "flags"} =>
        notable_flags = [f \in matching_flags |-> Category(f)]

LEMMA ChoiceInit == Init => Choice
BY DEF Init, Choice

LEMMA ChooseKeepsChoice == TypeOK /\ Choice /\ ChooseGroup => Choice'
<1> SUFFICES ASSUME TypeOK, Choice, ChooseGroup PROVE Choice'
  OBVIOUS
<1>0. PICK n : n = next
  OBVIOUS
<1> DEFINE K == Kinds[n]
           out == output_groups
           m == Len(out)
<1>1. /\ pc = "choose" /\ pc' = pc /\ n \in 1..5 /\ next' = n + 1 /\ (n + 1) - 1 = n
      /\ max_desired_lines' = max_desired_lines
      /\ Picked(n - 1) /\ notable_flags = [f \in matching_flags |-> Category(f)]
  BY <1>0, KindsDiffer DEF ChooseGroup, Choice, TypeOK
<1>2. /\ matching_flags' = matching_flags /\ notable_flags' = notable_flags
      /\ module' = module /\ package_dir' = package_dir /\ token' = token /\ all_flags' = all_flags
  BY DEF ChooseGroup, placing, input, search
<1>3. out \in Seq(Kind) /\ m \in Nat /\ K \in Kind /\ max_desired_lines \in Nat /\ lines_so_far \in Nat
  BY <1>1, KindsDiffer, DesiredLinesType DEF TypeOK
<1>4. (\A kind : Group(kind)' = Group(kind)) /\ (\A set : Estimate(set)' = Estimate(set))
  BY <1>2 DEF Group, Estimate, SizeInLines
<1>5. notable_flags' = [f \in matching_flags' |-> Category(f)']
  BY <1>1, <1>2 DEF Category, InPackage, SlashAfterPackage
<1>d. Taken(m) = {out[i] : i \in 1..m}
  BY DEF Taken
<1>6. /\ \A i \in 1..m : \E p \in 1..n - 1 : out[i] = Kinds[p]
      /\ \A h, i \in 1..m : h < i =>
            \E p, q \in 1..n - 1 : p < q /\ out[h] = Kinds[p] /\ out[i] = Kinds[q]
      /\ \A p \in 1..n - 1 :
            \/ Kinds[p] \in Taken(m) \/ Group(Kinds[p]) = {}
            \/ /\ lines_so_far >= max_desired_lines
               /\ \A q \in p..n - 1 : Kinds[q] \notin Taken(m)
      /\ lines_so_far = Estimate(Taken(m))
  BY <1>1, <1>d DEF Picked, PickedFrom
<1>7. K \notin Taken(m)
  <2>1. \A p \in 1..n - 1 : p \in 1..5 /\ p # n
    BY <1>1
  <2>. QED
    BY <1>6, <2>1, <1>1, KindsDiffer DEF Taken
<1>8. \A p \in 1..n - 1 : p \in 1..n /\ p < n
  BY <1>1
<1>9. ASSUME NEW p \in 1..n PROVE p \in 1..n - 1 \/ p = n
  BY <1>1
<1>p. ASSUME NEW F, NEW e, PickedFrom(n, F, e), output_groups' = F, lines_so_far' = e
      PROVE  Picked(next - 1)'
  <2>1. (next - 1)' = n
    BY <1>1
  <2>2. PickedFrom(n, F, e)' <=> PickedFrom(n, F, e)
    BY <1>1, <1>4, Zenon DEF PickedFrom
  <2>. QED
    BY <1>p, <2>1, <2>2, Zenon DEF Picked
<1> HIDE DEF K
<1>10. CASE Chosen(K)
  <2> DEFINE new == Append(out, K)
  <2>1. out' = new /\ lines_so_far' = lines_so_far + SizeInLines(K)
    BY <1>0, <1>10 DEF ChooseGroup, K
  <2>2. /\ Len(new) = m + 1 /\ new[m + 1] = K /\ \A i \in 1..m : new[i] = out[i]
        /\ \A i \in 1..m + 1 : i \in 1..m \/ i = m + 1
        /\ \A i \in 1..m : i < m + 1 /\ i \in 1..m + 1
    BY <1>3
  <2>3. (K = "perfect" \/ lines_so_far < max_desired_lines) /\ Group(K) # {}
    BY <1>10 DEF Chosen
  <2> HIDE DEF new
  <2>4. {new[i] : i \in 1..m + 1} = Taken(m) \cup {K}
    <3>2. {new[i] : i \in 1..m + 1} \subseteq Taken(m) \cup {K}
      BY <2>2 DEF Taken
    <3>3. ASSUME NEW x \in Taken(m) \cup {K} PROVE x \in {new[i] : i \in 1..m + 1}
      <4>1. CASE x = K
        <5>1. m + 1 \in 1..m + 1
          BY <1>3
        <5>. QED
          BY <4>1, <5>1, <2>2
      <4>2. CASE x \in Taken(m)
        <5>1. PICK i \in 1..m : x = out[i]
          BY <4>2 DEF Taken
        <5>. QED
          BY <5>1, <2>2
      <4>. QED
        BY <4>1, <4>2
    <3>. QED
      BY <3>2, <3>3
  <2>5. ASSUME NEW i \in 1..m + 1 PROVE \E p \in 1..n : new[i] = Kinds[p]
    <3>1. CASE i \in 1..m
      BY <3>1, <1>6, <1>8, <2>2
    <3>2. CASE i = m + 1
      <4>1. n \in 1..n
        BY <1>1
      <4>. QED
        BY <4>1, <3>2, <2>2 DEF K
    <3>. QED
      BY <3>1, <3>2, <2>2
  <2>6. ASSUME NEW h \in 1..Len(new), NEW i \in 1..Len(new), h < i
        PROVE  \E p, q \in 1..n : p < q /\ new[h] = Kinds[p] /\ new[i] = Kinds[q]
    <3>a. h \in 1..m + 1 /\ i \in 1..m + 1
      BY <2>2
    <3>1. CASE i \in 1..m
      <4>1. h \in 1..m
        BY <3>a, <2>6, <3>1, <1>3
      <4>2. PICK p \in 1..n - 1, q \in 1..n - 1 : p < q /\ out[h] = Kinds[p] /\ out[i] = Kinds[q]
        BY <4>1, <3>1, <2>6, <1>6
      <4>. QED
        BY <4>1, <4>2, <3>1, <1>8, <2>2
    <3>2. CASE i = m + 1
      <4>1. h \in 1..m
        BY <3>a, <2>6, <3>2, <1>3
      <4>2. PICK p \in 1..n - 1 : out[h] = Kinds[p]
        BY <4>1, <1>6
      <4>3. n \in 1..n
        BY <1>1
      <4>. QED
        BY <4>1, <4>2, <4>3, <3>2, <1>8, <2>2 DEF K
    <3>. QED
      BY <2>2, <3>a, <3>1, <3>2
  <2>7. ASSUME NEW p \in 1..n PROVE Kinds[p] \in Taken(m) \cup {K} \/ Group(Kinds[p]) = {}
    <3>1. CASE p = n
      BY <3>1 DEF K
    <3>2. CASE p \in 1..n - 1
      <4>1. n # 1
        BY <3>2
      <4>2. lines_so_far < max_desired_lines
        BY <4>1, <2>3, <1>1, KindsDiffer DEF K
      <4>. QED
        BY <4>2, <3>2, <1>3, <1>6
    <3>. QED
      BY <3>1, <3>2, <1>9
  <2>8. lines_so_far + SizeInLines(K) = Estimate(Taken(m) \cup {K})
    BY <1>3, <1>6, <1>7, SumsGrow
  <2>9. PickedFrom(n, new, lines_so_far + SizeInLines(K))
    <3>1. {new[i] : i \in 1..Len(new)} = Taken(m) \cup {K}
      BY <2>2, <2>4
    <3>2. \A i \in 1..Len(new) : \E p \in 1..n : new[i] = Kinds[p]
      BY <2>2, <2>5
    <3>3. \A h, i \in 1..Len(new) : h < i =>
            \E p, q \in 1..n : p < q /\ new[h] = Kinds[p] /\ new[i] = Kinds[q]
      BY <2>6
    <3>. QED
      BY <3>1, <3>2, <3>3, <2>7, <2>8, Zenon DEF PickedFrom
  <2>10. Picked(next - 1)'
    BY <1>1, <2>1, <2>9, <1>p
  <2>. QED
    BY <2>10, <1>1, <1>5 DEF Choice
<1>11. CASE ~Chosen(K)
  <2>1. out' = out /\ lines_so_far' = lines_so_far
    BY <1>0, <1>11 DEF ChooseGroup, K
  <2>3. Group(K) = {} \/ (K # "perfect" /\ lines_so_far >= max_desired_lines)
    BY <1>3, <1>11 DEF Chosen
  <2>4. ASSUME NEW p \in 1..n
        PROVE  \/ Kinds[p] \in Taken(m) \/ Group(Kinds[p]) = {}
               \/ /\ lines_so_far >= max_desired_lines
                  /\ \A q \in p..n : Kinds[q] \notin Taken(m)
    <3>1. CASE p = n
      <4>1. \A q \in n..n : q = n
        BY <1>1
      <4>. QED
        BY <4>1, <3>1, <2>3, <1>7 DEF K
    <3>2. CASE p \in 1..n - 1
      <4>1. \A q \in p..n : q \in p..n - 1 \/ q = n
        BY <1>1
      <4>. QED
        BY <4>1, <3>2, <1>6, <1>7 DEF K
    <3>. QED
      BY <3>1, <3>2, <1>9
  <2>5. \A i \in 1..m : \E p \in 1..n : out[i] = Kinds[p]
    BY <1>6, <1>8
  <2>6. ASSUME NEW h \in 1..m, NEW i \in 1..m, h < i
        PROVE  \E p, q \in 1..n : p < q /\ out[h] = Kinds[p] /\ out[i] = Kinds[q]
    <3>1. PICK p \in 1..n - 1, q \in 1..n - 1 : p < q /\ out[h] = Kinds[p] /\ out[i] = Kinds[q]
      BY <2>6, <1>6
    <3>. QED
      BY <3>1, <1>8
  <2>7. PickedFrom(n, out, lines_so_far)
    BY <1>6, <1>d, <2>4, <2>5, <2>6 DEF PickedFrom
  <2>8. Picked(next - 1)'
    BY <1>1, <2>1, <2>7, <1>p
  <2>. QED
    BY <2>8, <1>1, <1>5 DEF Choice
<1>. QED
  BY <1>10, <1>11

LEMMA SamePick ==
  ASSUME UNCHANGED <<matching_flags, notable_flags, output_groups, lines_so_far, max_desired_lines>>,
         NEW n, Picked(n)
  PROVE  Picked(n)'
<1>1. \A kind : Group(kind)' = Group(kind)
  BY DEF Group
<1>2. \A K : Estimate(K)' = Estimate(K)
  BY <1>1 DEF Estimate, SizeInLines
<1>3. PICK F, e : F = output_groups /\ e = lines_so_far
  OBVIOUS
<1>4. PickedFrom(n, F, e)' <=> PickedFrom(n, F, e)
  BY <1>1, <1>2, Zenon DEF PickedFrom
<1>. QED
  BY <1>3, <1>4, Zenon DEF Picked

LEMMA SameCategories ==
  ASSUME UNCHANGED <<matching_flags, notable_flags, module, package_dir, token, all_flags>>,
         notable_flags = [f \in matching_flags |-> Category(f)]
  PROVE  (notable_flags = [f \in matching_flags |-> Category(f)])'
BY DEF Category, InPackage, SlashAfterPackage

LEMMA ChoiceStep == TypeOK /\ Choice /\ [Next]_vars => Choice'
<1> SUFFICES ASSUME TypeOK, Choice, [Next]_vars PROVE Choice'
  OBVIOUS
<1>1. CASE StripQuote \/ StripDash \/ TakeQuestionMark \/ TakePlus
            \/ OptionsTaken \/ FindMatchingFlags
  <2>1. output_groups' = output_groups /\ lines_so_far' = lines_so_far
    BY <1>1 DEF StripQuote, StripDash, TakeQuestionMark, TakePlus, OptionsTaken,
                FindMatchingFlags, choosing
  <2>2. /\ pc \in {"quote", "dashes", "options", "match"}
        /\ pc' \in {"quote", "dashes", "options", "match"}
    BY <1>1 DEF StripQuote, StripDash, TakeQuestionMark, TakePlus, OptionsTaken,
                FindMatchingFlags
  <2>. QED
    BY <2>1, <2>2 DEF Choice
<1>2. CASE PrintCommonPrefix \/ PrintNothing \/ LastLine
  <2>1. pc' = "exit"
    BY <1>2 DEF PrintCommonPrefix, PrintNothing, LastLine
  <2>. QED
    BY <2>1 DEF Choice
<1>3. CASE TryFindModuleAndPackageDir
  BY <1>3 DEF TryFindModuleAndPackageDir, Choice, choosing
<1>4. CASE CategorizeAllMatchingFlags
  <2>1. output_groups = <<>> /\ lines_so_far = 0
    BY <1>4 DEF CategorizeAllMatchingFlags, Choice
  <2>2. /\ output_groups' = <<>> /\ lines_so_far' = 0 /\ next' = 1 /\ pc' = "choose"
        /\ notable_flags' = [f \in matching_flags |-> Category(f)]
    BY <1>4, <2>1 DEF CategorizeAllMatchingFlags
  <2>3. notable_flags' = [f \in matching_flags' |-> Category(f)']
    <3>1. /\ matching_flags' = matching_flags /\ module' = module /\ package_dir' = package_dir
          /\ token' = token /\ all_flags' = all_flags
      BY <1>4 DEF CategorizeAllMatchingFlags, input, search
    <3>. QED
      BY <2>2, <3>1 DEF Category, InPackage, SlashAfterPackage
  <2>4. PickedFrom(0, <<>>, 0)'
    <3>1. Len(<<>>) = 0 /\ {<<>>[i] : i \in 1..Len(<<>>)} = {}
      OBVIOUS
    <3>2. Estimate({})' = 0
      BY DEF Estimate, Share
    <3>. QED
      BY <3>1, <3>2 DEF PickedFrom
  <2>5. Picked(next - 1)'
    <3>1. (next - 1)' = 0
      BY <2>2
    <3>. QED
      BY <3>1, <2>2, <2>4, Zenon DEF Picked
  <2>. QED
    BY <2>2, <2>3, <2>5 DEF Choice
<1>5. CASE ChooseGroup
  BY <1>5, ChooseKeepsChoice
<1>6. CASE GroupsChosen \/ OutputHeader \/ OutputFlag \/ OutputFooter
  <2>1. /\ UNCHANGED <<matching_flags, notable_flags, output_groups, lines_so_far,
                       max_desired_lines>>
        /\ UNCHANGED <<matching_flags, notable_flags, module, package_dir, token, all_flags>>
    BY <1>6 DEF GroupsChosen, OutputHeader, OutputFlag, OutputFooter, input, search, searching,
                placing, choosing
  <2>2. /\ notable_flags = [f \in matching_flags |-> Category(f)]
        /\ pc' \in {"group", "flags"}
    BY <1>6 DEF GroupsChosen, OutputHeader, OutputFlag, OutputFooter, Choice
  <2>3. Picked(5)
    <3>1. CASE GroupsChosen
      <4>1. next \in 1..6 /\ next > 5 /\ Picked(next - 1)
        BY <3>1, KindsDiffer DEF GroupsChosen, Choice
      <4>2. next = 6 /\ 6 - 1 = 5
        BY <4>1
      <4>. QED
        BY <4>1, <4>2
    <3>2. CASE OutputHeader \/ OutputFlag \/ OutputFooter
      BY <3>2 DEF OutputHeader, OutputFlag, OutputFooter, Choice
    <3>. QED
      BY <1>6, <3>1, <3>2
  <2>4. Picked(5)'
    BY <2>1, <2>3, SamePick
  <2>5. (notable_flags = [f \in matching_flags |-> Category(f)])'
    BY <2>1, <2>2, SameCategories
  <2>. QED
    BY <2>2, <2>4, <2>5 DEF Choice
<1>7. CASE UNCHANGED vars
  <2>1. /\ UNCHANGED <<matching_flags, notable_flags, output_groups, lines_so_far,
                       max_desired_lines>>
        /\ UNCHANGED <<matching_flags, notable_flags, module, package_dir, token, all_flags>>
        /\ UNCHANGED <<pc, next>>
    BY <1>7 DEF vars, input, search, searching, placing, choosing
  <2>2. pc \in {"group", "flags"} => Picked(5)'
    BY <2>1, SamePick DEF Choice
  <2>3. pc = "choose" => Picked(next - 1)'
    <3>1. PICK n : n = next - 1
      OBVIOUS
    <3>2. pc = "choose" => Picked(n)'
      BY <2>1, <3>1, SamePick DEF Choice
    <3>3. (next - 1)' = n
      BY <2>1, <3>1
    <3>. QED
      BY <3>2, <3>3
  <2>4. pc \in {"choose", "group", "flags"} =>
          (notable_flags = [f \in matching_flags |-> Category(f)])'
    BY <2>1, SameCategories DEF Choice
  <2>. QED
    BY <2>1, <2>2, <2>3, <2>4 DEF Choice
<1>. QED
  BY <1>1, <1>2, <1>3, <1>4, <1>5, <1>6, <1>7 DEF Next, Step, Exited

-----------------------------------------------------------------------------
(* The groups printed.                                                     *)

LEMMA DistinctGroups ==
  ASSUME TypeOK, Picked(5)
  PROVE  /\ \A i \in 1..Len(output_groups) :
              output_groups[i] \in Kind /\ (output_groups[i] = "perfect" => i = 1)
         /\ \A h, i \in 1..Len(output_groups) : output_groups[h] = output_groups[i] => h = i
<1> DEFINE m == Len(output_groups)
<1>1. m \in Nat /\ \A i \in 1..m : output_groups[i] \in Kind
  BY DEF TypeOK
<1>2. /\ \A i \in 1..m : \E p \in 1..5 : output_groups[i] = Kinds[p]
      /\ \A h, i \in 1..m : h < i =>
            \E p, q \in 1..5 : p < q /\ output_groups[h] = Kinds[p] /\ output_groups[i] = Kinds[q]
  BY DEF Picked, PickedFrom
<1>3. \A h, i \in 1..m : h < i => output_groups[h] # output_groups[i]
  BY <1>2, KindsDiffer
<1>4. ASSUME NEW i \in 1..m, output_groups[i] = "perfect" PROVE i = 1
  <2> SUFFICES ASSUME i # 1 PROVE FALSE
    OBVIOUS
  <2>1. 1 \in 1..m /\ 1 < i
    BY <1>1
  <2>2. PICK p \in 1..5, q \in 1..5 : p < q /\ output_groups[i] = Kinds[q]
    BY <2>1, <1>2
  <2>3. q = 1
    BY <2>2, <1>4, KindsDiffer
  <2>. QED
    BY <2>2, <2>3
<1>5. ASSUME NEW h \in 1..m, NEW i \in 1..m, output_groups[h] = output_groups[i] PROVE h = i
  <2>1. ~(h < i) /\ ~(i < h)
    BY <1>3, <1>5
  <2>. QED
    BY <2>1
<1>. QED
  BY <1>1, <1>4, <1>5

(* Before a group: lines s, group n next, room for r more.  What came      *)
(* before is all there, or there is no room for another group.             *)
InGroup(s, n, r) ==
  /\ \A k \in Lists(s) : \E i \in 1..Len(output_groups) :
        i < n /\ notable_flags[s[k].flag] = output_groups[i]
  /\ \/ \A i \in 1..Len(output_groups) : i < n => Group(output_groups[i]) \subseteq Flags(s)
     \/ r < 2 /\ n > 1
  /\ r >= 2 \/ n = 1 => Len(s) = Actual(Taken(n - 1))

(* Inside group n, with the flags T of it to be printed yet.               *)
InFlags(s, n, T) ==
  /\ T \subseteq Group(output_groups[n]) /\ T \cap Flags(s) = {}
  /\ \A k \in Lists(s) : \E i \in 1..Len(output_groups) :
        i <= n /\ notable_flags[s[k].flag] = output_groups[i]
  /\ \A i \in 1..Len(output_groups) : i < n => Group(output_groups[i]) \subseteq Flags(s)
  /\ Group(output_groups[n]) \subseteq Flags(s) \cup T
  /\ Len(s) = Actual(Taken(n - 1)) + (IF Headed(output_groups[n]) THEN 2 ELSE 0)
                + Cardinality(Group(output_groups[n]) \ T)

Printing ==
  /\ Listing(completions)
  /\ pc = "group" => InGroup(completions, next, remaining_lines)
  /\ pc = "flags" => InFlags(completions, next, todo)

LEMMA PrintingInit == Init => Printing
<1>1. Listing(<<>>)
  BY DEF Listing, Lists
<1>. QED
  BY <1>1 DEF Init, Printing

LEMMA SamePrint ==
  ASSUME UNCHANGED <<matching_flags, notable_flags, output_groups>>, NEW s, NEW n, NEW r
  PROVE  /\ Listing(s)' <=> Listing(s)
         /\ InGroup(s, n, r)' <=> InGroup(s, n, r)
         /\ InFlags(s, n, r)' <=> InFlags(s, n, r)
<1>1. /\ \A kind : Group(kind)' = Group(kind)
      /\ output_groups' = output_groups /\ notable_flags' = notable_flags
      /\ matching_flags' = matching_flags
  BY DEF Group
<1>2. \A K : Actual(K)' = Actual(K)
  BY <1>1 DEF Actual, LinesOf
<1>3. \A k : Taken(k)' = Taken(k)
  BY <1>1 DEF Taken
<1>4. Listing(s)' <=> Listing(s)
  BY <1>1, Zenon DEF Listing
<1>5. InGroup(s, n, r)' <=> InGroup(s, n, r)
  BY <1>1, <1>2, <1>3, Zenon DEF InGroup
<1>6. InFlags(s, n, r)' <=> InFlags(s, n, r)
  BY <1>1, <1>2, <1>3, Zenon DEF InFlags
<1>. QED
  BY <1>4, <1>5, <1>6

(* What printing has to keep.                                              *)
LEMMA Printed ==
  ASSUME UNCHANGED <<matching_flags, notable_flags, output_groups>>,
         NEW s, NEW n, NEW r, NEW T,
         completions' = s, next' = n, remaining_lines' = r, todo' = T,
         Listing(s),
         pc' = "group" => InGroup(s, n, r), pc' = "flags" => InFlags(s, n, T)
  PROVE  Printing'
<1>1. Listing(s)' /\ (pc' = "group" => InGroup(s, n, r)') /\ (pc' = "flags" => InFlags(s, n, T)')
  BY SamePrint
<1>. QED
  BY <1>1, Zenon DEF Printing

LEMMA TakenOneMore ==
  ASSUME TypeOK, Picked(5), NEW n \in 1..Len(output_groups)
  PROVE  Actual(Taken(n)) = Actual(Taken(n - 1)) + LinesOf(output_groups[n])
<1> DEFINE m == Len(output_groups)
<1>1. m \in Nat /\ n \in Nat /\ n \in 1..n /\ \A i \in 1..n : (i \in 1..n - 1 \/ i = n) /\ i \in 1..m
  BY DEF TypeOK
<1>2. \A i \in 1..n - 1 : i \in 1..n /\ i # n
  BY <1>1
<1>3. Taken(n) = Taken(n - 1) \cup {output_groups[n]}
  BY <1>1, <1>2 DEF Taken
<1>4. output_groups[n] \notin Taken(n - 1)
  BY <1>1, <1>2, DistinctGroups DEF Taken
<1>5. output_groups[n] \in Kind
  BY DistinctGroups
<1>. QED
  BY <1>3, <1>4, <1>5, SumsGrow

LEMMA HeaderPrints ==
  ASSUME TypeOK, Budget, Sorted, Choice, Printing, OutputHeader PROVE Printing'
<1>0. PICK s, n, r : s = completions /\ n = next /\ r = remaining_lines
  OBVIOUS
<1> DEFINE out == output_groups
           K == out[n]
           G == Group(K)
<1>1. /\ pc = "group" /\ n \in 1..Len(out) /\ n <= Len(out) /\ Len(out) \in Nat /\ Picked(5)
      /\ s \in Seq(Line) /\ r \in Nat
  BY <1>0 DEF OutputHeader, Choice, TypeOK
<1>2. K \in Kind /\ (K = "perfect" => n = 1) /\ \A h, i \in 1..Len(out) : out[h] = out[i] => h = i
  BY <1>1, DistinctGroups
<1>3. Listing(s) /\ InGroup(s, n, r)
  BY <1>0, <1>1 DEF Printing
<1>4. /\ \A k \in Lists(s) : \E i \in 1..Len(out) : i < n /\ notable_flags[s[k].flag] = out[i]
      /\ \/ \A i \in 1..Len(out) : i < n => Group(out[i]) \subseteq Flags(s)
         \/ r < 2 /\ n > 1
      /\ r >= 2 \/ n = 1 => Len(s) = Actual(Taken(n - 1))
  BY <1>3 DEF InGroup
<1>5. UNCHANGED <<matching_flags, notable_flags, output_groups>>
  BY DEF OutputHeader, placing, choosing
<1>6. IsFiniteSet(G) /\ Cardinality(G \ G) = 0
  BY GroupIsFinite, FS_EmptySet
<1>7. Actual(Taken(n - 1)) \in Nat
  BY SumTypes
<1> DEFINE line(what) == [what |-> what, indent |-> Indent]
           d == line("header")
           e == line("underline")
<1>8. d \in Line /\ e \in Line /\ ~IsFlag(d) /\ ~IsFlag(e)
  BY DEF Line, Indent, TypeOK, IsFlag
<1>9. \/ /\ ~Headed(K) /\ todo' = G /\ pc' = "flags"
         /\ UNCHANGED <<remaining_lines, completions, next>>
      \/ /\ r < 2 /\ next' = n + 1 /\ pc' = "group"
         /\ UNCHANGED <<remaining_lines, completions, todo>>
      \/ /\ Headed(K) /\ r >= 2 /\ remaining_lines' = r - 2
         /\ completions' = s \o <<d, e>> /\ todo' = G /\ pc' = "flags" /\ UNCHANGED next
  BY <1>0, <1>1 DEF OutputHeader
<1> HIDE DEF G, d, e
<1>10. ASSUME NEW x \in Flags(s) PROVE x \notin G
  <2>1. PICK k \in Lists(s) : x = s[k].flag
    BY DEF Flags
  <2>2. PICK i \in 1..Len(out) : i < n /\ notable_flags[x] = out[i]
    BY <2>1, <1>4
  <2>3. out[i] # K
    BY <2>2, <1>1, <1>2
  <2>. QED
    BY <2>2, <2>3 DEF Group, G
<1>11. CASE ~Headed(K) /\ todo' = G /\ pc' = "flags"
            /\ UNCHANGED <<remaining_lines, completions, next>>
  <2>1. n = 1
    BY <1>2, <1>11 DEF Headed
  <2>2. Lists(s) = {}
    BY <2>1, <1>4
  <2>3. Flags(s) = {} /\ Len(s) = Actual(Taken(n - 1))
    BY <2>1, <2>2, <1>4 DEF Flags
  <2>4. Len(s) = Actual(Taken(n - 1)) + (IF Headed(K) THEN 2 ELSE 0) + Cardinality(G \ G)
    BY <2>3, <1>6, <1>7, <1>11
  <2>5. InFlags(s, n, G)
    BY <2>1, <2>2, <2>3, <2>4 DEF InFlags, G
  <2>. QED
    BY <2>5, <1>0, <1>3, <1>5, <1>11, Printed
<1>12. CASE r < 2 /\ next' = n + 1 /\ pc' = "group"
            /\ UNCHANGED <<remaining_lines, completions, todo>>
  <2>1. ~(r >= 2) /\ n + 1 # 1 /\ n + 1 > 1
    BY <1>1, <1>12
  <2>2. \A i \in 1..Len(out) : i < n => i < n + 1
    BY <1>1
  <2>3. InGroup(s, n + 1, r)
    BY <2>1, <2>2, <1>4, <1>12 DEF InGroup
  <2>. QED
    BY <2>3, <1>0, <1>3, <1>5, <1>12, Printed
<1>13. CASE Headed(K) /\ r >= 2 /\ remaining_lines' = r - 2
            /\ completions' = s \o <<d, e>> /\ todo' = G /\ pc' = "flags" /\ UNCHANGED next
  <2>a. PICK u : u = Append(s, d)
    OBVIOUS
  <2>b. PICK t : t = Append(u, e)
    OBVIOUS
  <2>1. /\ u \in Seq(Line) /\ Lists(u) = Lists(s) /\ Flags(u) = Flags(s)
        /\ (\A k \in Lists(s) : u[k] = s[k]) /\ Len(u) = Len(s) + 1
    BY <2>a, <1>1, <1>8, OtherLine
  <2>c. /\ Lists(t) = Lists(u) /\ Flags(t) = Flags(u) /\ (\A k \in Lists(u) : t[k] = u[k])
        /\ Len(t) = Len(u) + 1
    BY <2>b, <2>1, <1>8, OtherLine
  <2>2. /\ Lists(t) = Lists(s) /\ Flags(t) = Flags(s) /\ \A k \in Lists(s) : t[k] = s[k]
    BY <2>1, <2>c
  <2>d. Len(t) = Len(s) + 2 /\ Len(s) \in Nat
    BY <2>1, <2>c, <1>1
  <2>3. Listing(t)
    <3>1. Listing(u)
      BY <2>a, <1>1, <1>3, <1>8, ListingGoesOn
    <3>. QED
      BY <3>1, <2>b, <2>1, <1>8, ListingGoesOn
  <2>4. s \o <<d, e>> = t
    <3>1. t = Append(Append(s, d), e)
      BY <2>a, <2>b
    <3>. QED
      BY <3>1, <1>1, <1>8
  <2>5. Len(t) = Actual(Taken(n - 1)) + (IF Headed(K) THEN 2 ELSE 0) + Cardinality(G \ G)
    BY <2>d, <1>4, <1>6, <1>7, <1>13
  <2>6. \A i \in 1..Len(out) : i < n => i <= n /\ Group(out[i]) \subseteq Flags(t)
    BY <2>2, <1>1, <1>4, <1>13
  <2>7. InFlags(t, n, G)
    BY <2>2, <2>5, <2>6, <1>4, <1>10 DEF InFlags, G
  <2>. QED
    BY <2>3, <2>4, <2>7, <1>0, <1>5, <1>13, Printed
<1>. QED
  BY <1>9, <1>11, <1>12, <1>13

LEMMA FlagPrints ==
  ASSUME TypeOK, Budget, Sorted, Choice, Printing, OutputFlag PROVE Printing'
<1>0. PICK s, n, T : s = completions /\ n = next /\ T = todo
  OBVIOUS
<1> DEFINE out == output_groups
           K == out[n]
           G == Group(K)
<1>1. /\ pc = "flags" /\ pc' = "flags" /\ n \in 1..Len(out) /\ Len(out) \in Nat /\ Picked(5)
      /\ s \in Seq(Line) /\ T \subseteq matching_flags /\ next' = n
  BY <1>0 DEF OutputFlag, Choice, TypeOK, Sorted, searching
<1>2. \A h, i \in 1..Len(out) : out[h] = out[i] => h = i
  BY <1>1, DistinctGroups
<1>3. Listing(s) /\ InFlags(s, n, T)
  BY <1>0, <1>1 DEF Printing
<1>4. /\ T \subseteq G /\ T \cap Flags(s) = {}
      /\ \A k \in Lists(s) : \E i \in 1..Len(out) : i <= n /\ notable_flags[s[k].flag] = out[i]
      /\ \A i \in 1..Len(out) : i < n => Group(out[i]) \subseteq Flags(s)
      /\ G \subseteq Flags(s) \cup T
      /\ Len(s) = Actual(Taken(n - 1)) + (IF Headed(K) THEN 2 ELSE 0) + Cardinality(G \ T)
  BY <1>3 DEF InFlags
<1>5. UNCHANGED <<matching_flags, notable_flags, output_groups>>
  BY DEF OutputFlag, searching, placing, choosing
<1>6. PICK f \in T :
         /\ todo' = T \ {f}
         /\ completions' = Append(s, [what |-> IF next = 1 /\ output_groups[1] = "perfect"
                                               THEN "details" ELSE "flag",
                                      indent |-> Indent, flag |-> f])
  BY <1>0 DEF OutputFlag
<1>7. PICK e : /\ completions' = Append(s, e) /\ e \in Line /\ IsFlag(e) /\ e.flag = f
  <2>1. f \in Nat /\ Indent \in Int
    BY <1>1 DEF TypeOK, Indent
  <2>. QED
    BY <2>1, <1>6 DEF Line, IsFlag
<1> DEFINE t == Append(s, e)
           N == Len(s) + 1
<1>8. ListsOneMore(s, e, N, t)
  BY <1>1, <1>7, FlagLine
<1>9. Listing(t)
  <2>1. f \in matching_flags /\ f \notin Flags(s) /\ notable_flags[f] = K
    BY <1>1, <1>4 DEF Group
  <2>2. ASSUME NEW h \in 1..Len(out), NEW i \in 1..Len(out), notable_flags[f] = out[i], h < i
        PROVE  Group(out[h]) \subseteq Flags(s)
    <3>1. i = n
      BY <2>1, <2>2, <1>1, <1>2
    <3>. QED
      BY <3>1, <2>2, <1>4
  <2>. QED
    BY <2>1, <2>2, <1>1, <1>3, <1>7, FlagIsListed
<1> HIDE DEF t, N
<1>10. /\ Lists(t) = Lists(s) \cup {N} /\ t[N] = e /\ Flags(t) = Flags(s) \cup {f}
       /\ \A k \in Lists(s) : t[k] = s[k]
       /\ Len(t) = N
  BY <1>7, <1>8 DEF ListsOneMore
<1>11. Cardinality(G \ (T \ {f})) = Cardinality(G \ T) + 1
  <2>1. G \ (T \ {f}) = (G \ T) \cup {f} /\ f \notin G \ T
    BY <1>4
  <2>2. IsFiniteSet(G \ T)
    BY GroupIsFinite, FS_Subset
  <2>. QED
    BY <2>1, <2>2, FS_AddElement
<1>12. Cardinality(G \ T) \in Nat /\ Actual(Taken(n - 1)) \in Nat /\ N = Len(s) + 1
  <2>1. IsFiniteSet(G \ T)
    BY GroupIsFinite, FS_Subset
  <2>. QED
    BY <2>1, FS_CardinalityType, SumTypes DEF N
<1>13. InFlags(t, n, T \ {f})
  <2>1. T \ {f} \subseteq G /\ (T \ {f}) \cap Flags(t) = {}
    BY <1>4, <1>10
  <2>2. ASSUME NEW k \in Lists(t)
        PROVE  \E i \in 1..Len(out) : i <= n /\ notable_flags[t[k].flag] = out[i]
    <3>1. CASE k = N
      <4>1. notable_flags[f] = out[n] /\ n <= n
        BY <1>1, <1>4 DEF Group
      <4>. QED
        BY <3>1, <4>1, <1>1, <1>7, <1>10
    <3>2. CASE k \in Lists(s)
      BY <3>2, <1>4, <1>10
    <3>. QED
      BY <3>1, <3>2, <1>10
  <2>3. \A i \in 1..Len(out) : i < n => Group(out[i]) \subseteq Flags(t)
    BY <1>4, <1>10
  <2>4. G \subseteq Flags(t) \cup (T \ {f})
    BY <1>4, <1>10
  <2>5. Len(t) = Actual(Taken(n - 1)) + (IF Headed(K) THEN 2 ELSE 0) + Cardinality(G \ (T \ {f}))
    <3>1. PICK c, a, h : /\ c = Cardinality(G \ T) /\ a = Actual(Taken(n - 1))
                         /\ h = IF Headed(K) THEN 2 ELSE 0
      OBVIOUS
    <3>2. c \in Nat /\ a \in Nat /\ h \in Nat
      BY <3>1, <1>12
    <3>3. Len(s) = a + h + c
      BY <3>1, <1>4
    <3>4. Len(t) = a + h + (c + 1)
      BY <3>2, <3>3, <1>10, <1>12
    <3>. QED
      BY <3>1, <3>4, <1>11
  <2>. QED
    BY <2>1, <2>2, <2>3, <2>4, <2>5 DEF InFlags
<1>14. completions' = t /\ pc' = "flags"
  BY <1>1, <1>7 DEF t
<1>. QED
  BY <1>1, <1>5, <1>6, <1>9, <1>13, <1>14, Printed

LEMMA FooterPrints ==
  ASSUME TypeOK, Budget, Sorted, Choice, Printing, OutputFooter PROVE Printing'
<1>0. PICK s, n, r, T : s = completions /\ n = next /\ r = remaining_lines /\ T = todo
  OBVIOUS
<1> DEFINE out == output_groups
           K == out[n]
           G == Group(K)
<1>1. /\ pc = "flags" /\ pc' = "group" /\ n \in 1..Len(out) /\ Len(out) \in Nat /\ Picked(5)
      /\ s \in Seq(Line) /\ r \in Nat /\ next' = n + 1 /\ (T = {} \/ r = 0)
  BY <1>0 DEF OutputFooter, Choice, TypeOK, Sorted
<1>2. Actual(Taken(n)) = Actual(Taken(n - 1)) + LinesOf(K) /\ Actual(Taken(n - 1)) \in Nat
  BY <1>1, TakenOneMore, SumTypes
<1>3. Listing(s) /\ InFlags(s, n, T)
  BY <1>0, <1>1 DEF Printing
<1>4. /\ T \subseteq G
      /\ \A k \in Lists(s) : \E i \in 1..Len(out) : i <= n /\ notable_flags[s[k].flag] = out[i]
      /\ \A i \in 1..Len(out) : i < n => Group(out[i]) \subseteq Flags(s)
      /\ G \subseteq Flags(s) \cup T
      /\ Len(s) = Actual(Taken(n - 1)) + (IF Headed(K) THEN 2 ELSE 0) + Cardinality(G \ T)
  BY <1>3 DEF InFlags
<1>5. UNCHANGED <<matching_flags, notable_flags, output_groups>>
  BY DEF OutputFooter, searching, placing, choosing
<1>6. Cardinality(G) \in Nat /\ (T = {} => G \ T = G)
  BY GroupIsFinite
<1>7. PICK e : e \in Line /\ ~IsFlag(e) /\ e = [what |-> "footer", indent |-> Indent]
  <2>1. Indent \in Int
    BY DEF Indent, TypeOK
  <2>2. PICK d : d = [what |-> "footer", indent |-> Indent]
    OBVIOUS
  <2>3. d \in Line
    BY <2>1, <2>2 DEF Line
  <2>4. ~IsFlag(d)
    BY <2>2 DEF IsFlag
  <2>. QED
    BY <2>2, <2>3, <2>4
<1>8. \/ /\ Footed(K) /\ r >= 1 /\ completions' = Append(s, e) /\ remaining_lines' = r - 1
      \/ /\ ~Footed(K) \/ r = 0
         /\ completions' = s /\ remaining_lines' = r
  BY <1>0, <1>1, <1>7 DEF OutputFooter
<1>9. \A i \in 1..Len(out) : (i <= n => i < n + 1) /\ (i < n + 1 => i < n \/ i = n)
  BY <1>1
<1>10. n + 1 > 1 /\ n + 1 # 1 /\ (n + 1) - 1 = n
  BY <1>1
<1> HIDE DEF G
<1>11. CASE Footed(K) /\ r >= 1 /\ completions' = Append(s, e) /\ remaining_lines' = r - 1
  <2> DEFINE t == Append(s, e)
  <2>1. /\ Lists(t) = Lists(s) /\ Flags(t) = Flags(s) /\ Len(t) = Len(s) + 1
        /\ \A k \in Lists(s) : t[k] = s[k]
    BY <1>1, <1>7, OtherLine
  <2>2. Listing(t)
    BY <1>1, <1>3, <1>7, ListingGoesOn
  <2> HIDE DEF t
  <2>3. T = {}
    BY <1>1, <1>11
  <2>4. Len(t) = Actual(Taken((n + 1) - 1))
    BY <2>1, <2>3, <1>2, <1>4, <1>6, <1>10, <1>11 DEF LinesOf, G
  <2>5. \A i \in 1..Len(out) : i < n + 1 => Group(out[i]) \subseteq Flags(t)
    BY <2>1, <2>3, <1>4, <1>9 DEF G
  <2>6. InGroup(t, n + 1, r - 1)
    BY <2>1, <2>4, <2>5, <1>4, <1>9 DEF InGroup
  <2>7. completions' = t /\ pc' # "flags"
    BY <1>1, <1>11 DEF t
  <2>. QED
    BY <2>2, <2>6, <2>7, <1>1, <1>5, <1>11, Printed
<1>12. CASE (~Footed(K) \/ r = 0) /\ completions' = s /\ remaining_lines' = r
  <2>1. r >= 2 => Len(s) = Actual(Taken((n + 1) - 1))
    <3>1. r >= 2 => T = {} /\ ~Footed(K)
      BY <1>1, <1>12
    <3>2. ASSUME r >= 2 PROVE Len(s) = Actual(Taken((n + 1) - 1))
      <4>1. LinesOf(K) = Cardinality(G) + (IF Headed(K) THEN 2 ELSE 0) + 0
        BY <3>1, <3>2, <1>6 DEF LinesOf, G
      <4>2. PICK c, a, h : c = Cardinality(G) /\ a = Actual(Taken(n - 1))
                           /\ h = IF Headed(K) THEN 2 ELSE 0
        OBVIOUS
      <4>3. c \in Nat /\ a \in Nat /\ h \in Nat
        BY <4>2, <1>2, <1>6
      <4>4. Len(s) = a + h + c
        BY <4>2, <3>1, <3>2, <1>4, <1>6
      <4>5. Actual(Taken(n)) = a + (c + h + 0)
        BY <4>1, <4>2, <1>2
      <4>. QED
        BY <4>3, <4>4, <4>5, <1>10
    <3>. QED
      BY <3>2
  <2>2. \/ \A i \in 1..Len(out) : i < n + 1 => Group(out[i]) \subseteq Flags(s)
        \/ r < 2 /\ n + 1 > 1
    <3>1. CASE T = {}
      BY <3>1, <1>4, <1>9 DEF G
    <3>2. CASE r = 0
      BY <3>2, <1>10
    <3>. QED
      BY <3>1, <3>2, <1>1
  <2>3. InGroup(s, n + 1, r)
    BY <2>1, <2>2, <1>4, <1>9, <1>10 DEF InGroup
  <2>4. pc' # "flags"
    BY <1>1
  <2>. QED
    BY <2>3, <2>4, <1>1, <1>3, <1>5, <1>12, Printed
<1>. QED
  BY <1>8, <1>11, <1>12

LEMMA NoLinesListed == Listing(<<>>) /\ Lists(<<>>) = {}
BY DEF Listing, Lists

LEMMA PrintingStep ==
  TypeOK /\ Budget /\ Sorted /\ Choice /\ Printing /\ [Next]_vars => Printing'
<1> SUFFICES ASSUME TypeOK, Budget, Sorted, Choice, Printing, [Next]_vars PROVE Printing'
  OBVIOUS
<1>1. CASE StripQuote \/ StripDash \/ TakeQuestionMark \/ TakePlus \/ OptionsTaken
            \/ FindMatchingFlags \/ TryFindModuleAndPackageDir \/ CategorizeAllMatchingFlags
            \/ ChooseGroup \/ PrintNothing
  <2>1. completions' = <<>> /\ pc' \notin {"group", "flags"}
    BY <1>1 DEF StripQuote, StripDash, TakeQuestionMark, TakePlus, OptionsTaken,
                FindMatchingFlags, TryFindModuleAndPackageDir, CategorizeAllMatchingFlags,
                ChooseGroup, PrintNothing, printing, Budget
  <2>2. Listing(<<>>)'
    BY DEF Listing, Lists
  <2>. QED
    BY <2>1, <2>2, Zenon DEF Printing
<1>2. CASE PrintCommonPrefix
  <2>1. PICK s : s = <<[what |-> "prefix", indent |-> 0]>>
    OBVIOUS
  <2>2. completions' = s /\ pc' = "exit"
    BY <1>2, <2>1 DEF PrintCommonPrefix
  <2>3. Lists(s) = {}
    BY <2>1 DEF Lists, IsFlag
  <2>4. Listing(s)'
    BY <2>3 DEF Listing
  <2>. QED
    BY <2>2, <2>4, Zenon DEF Printing
<1>3. CASE GroupsChosen
  <2>1. PICK r : r = remaining_lines'
    OBVIOUS
  <2>2. /\ completions = <<>> /\ completions' = <<>> /\ pc' = "group" /\ next' = 1
        /\ UNCHANGED <<matching_flags, notable_flags, output_groups>>
    BY <1>3 DEF GroupsChosen, Budget, placing, choosing
  <2>3. Flags(<<>>) = {} /\ Lists(<<>>) = {} /\ 1 - 1 = 0 /\ Len(<<>>) = 0
    BY DEF Flags, Lists
  <2>4. InGroup(<<>>, 1, r)
    <3>1. \A i \in 1..Len(output_groups) : ~(i < 1)
      BY DEF TypeOK
    <3>. QED
      BY <2>3, <3>1, NothingTaken DEF InGroup
  <2>. QED
    BY <2>1, <2>2, <2>4, NoLinesListed, Printed
<1>4. CASE OutputHeader
  BY <1>4, HeaderPrints
<1>5. CASE OutputFlag
  BY <1>5, FlagPrints
<1>6. CASE OutputFooter
  BY <1>6, FooterPrints
<1>7. CASE LastLine
  <2>1. PICK s, e : /\ s = completions
                    /\ e = [what |-> IF Cardinality(FlagLines) # Cardinality(matching_flags)
                                     THEN "hidden" ELSE "no_update", indent |-> 0]
    OBVIOUS
  <2>2. /\ completions' = Append(s, e) /\ pc' = "exit"
        /\ UNCHANGED <<matching_flags, notable_flags, output_groups>>
    BY <1>7, <2>1 DEF LastLine, searching, placing, choosing
  <2>3. e \in Line /\ ~IsFlag(e) /\ s \in Seq(Line) /\ Listing(s)
    BY <2>1 DEF Line, IsFlag, Printing, TypeOK
  <2>4. Listing(Append(s, e))
    BY <2>3, ListingGoesOn
  <2>5. Listing(Append(s, e))'
    BY <2>2, <2>4, SamePrint
  <2>. QED
    BY <2>2, <2>5, Zenon DEF Printing
<1>8. CASE UNCHANGED vars
  <2>1. PICK s, n, r, T : s = completions /\ n = next /\ r = remaining_lines /\ T = todo
    OBVIOUS
  <2>2. /\ completions' = s /\ next' = n /\ remaining_lines' = r /\ todo' = T /\ pc' = pc
        /\ UNCHANGED <<matching_flags, notable_flags, output_groups>>
    BY <1>8, <2>1 DEF vars, searching, placing, choosing, printing
  <2>3. Listing(s) /\ (pc = "group" => InGroup(s, n, r)) /\ (pc = "flags" => InFlags(s, n, T))
    BY <2>1 DEF Printing
  <2>. QED
    BY <2>2, <2>3, Printed
<1>. QED
  BY <1>1, <1>2, <1>3, <1>4, <1>5, <1>6, <1>7, <1>8 DEF Next, Step, Exited

-----------------------------------------------------------------------------
(* The end of a completion that printed groups: lines s and, last, e.      *)

Notice(s) ==
  [what |-> IF Cardinality(Lists(s)) # Cardinality(matching_flags) THEN "hidden" ELSE "no_update",
   indent |-> 0]

EndsWith(s, r) ==
  /\ s \in Seq(Line) /\ Listing(s) /\ InGroup(s, Len(output_groups) + 1, r)
  /\ Len(s) + r = max_desired_lines

Ended ==
  pc = "exit" =>
    \/ notable_flags = <<>> /\ Lists(completions) = {}
    \/ /\ Picked(5) /\ notable_flags = [f \in matching_flags |-> Category(f)]
       /\ \E s, r : EndsWith(s, r) /\ r = remaining_lines /\ completions = Append(s, Notice(s))

LEMMA EndedInit == Init => Ended
BY DEF Init, Ended

LEMMA EndedStep ==
  TypeOK /\ Budget /\ Sorted /\ Choice /\ Printing /\ Ended /\ [Next]_vars => Ended'
<1> SUFFICES ASSUME TypeOK, Budget, Sorted, Choice, Printing, Ended, [Next]_vars, pc' = "exit"
             PROVE  Ended'
  BY DEF Ended
<1>1. CASE StripQuote \/ StripDash \/ TakeQuestionMark \/ TakePlus \/ OptionsTaken
            \/ FindMatchingFlags \/ TryFindModuleAndPackageDir \/ CategorizeAllMatchingFlags
            \/ ChooseGroup \/ GroupsChosen \/ OutputHeader \/ OutputFlag \/ OutputFooter
  <2>1. pc' # "exit"
    BY <1>1 DEF StripQuote, StripDash, TakeQuestionMark, TakePlus, OptionsTaken,
                FindMatchingFlags, TryFindModuleAndPackageDir, CategorizeAllMatchingFlags,
                ChooseGroup, GroupsChosen, OutputHeader, OutputFlag, OutputFooter
  <2>. QED
    BY <2>1
<1>2. CASE PrintNothing
  <2>1. notable_flags' = <<>> /\ completions' = <<>>
    BY <1>2 DEF PrintNothing, placing, printing, TypeOK, Budget
  <2>2. Lists(completions') = {}
    BY <2>1, NoLinesListed
  <2>. QED
    BY <2>1, <2>2 DEF Ended
<1>3. CASE PrintCommonPrefix
  <2>1. notable_flags' = <<>> /\ completions' = <<[what |-> "prefix", indent |-> 0]>>
    BY <1>3 DEF PrintCommonPrefix, placing, TypeOK
  <2>2. Lists(completions') = {}
    BY <2>1 DEF Lists, IsFlag
  <2>. QED
    BY <2>1, <2>2 DEF Ended
<1>a. ASSUME UNCHANGED <<notable_flags, output_groups, matching_flags, lines_so_far,
                         max_desired_lines, module, package_dir, token, all_flags>>,
             Picked(5), notable_flags = [f \in matching_flags |-> Category(f)],
             NEW s, NEW r, EndsWith(s, r), r = remaining_lines', completions' = Append(s, Notice(s))
      PROVE  Ended'
  <2>1. Picked(5)'
    BY <1>a, SamePick
  <2>2. (notable_flags = [f \in matching_flags |-> Category(f)])'
    BY <1>a, SameCategories
  <2>3. EndsWith(s, r)'
    <3>1. PICK n : n = Len(output_groups) + 1
      OBVIOUS
    <3>2. InGroup(s, n, r)' /\ Listing(s)'
      BY <3>1, <1>a, SamePrint DEF EndsWith
    <3>3. (Len(output_groups) + 1)' = n /\ max_desired_lines' = max_desired_lines
      BY <3>1, <1>a
    <3>. QED
      BY <3>2, <3>3, <1>a, Zenon DEF EndsWith
  <2>4. Notice(s)' = Notice(s)
    BY <1>a, Zenon DEF Notice
  <2>5. completions' = Append(s, Notice(s)')
    BY <2>4, <1>a
  <2>. QED
    BY <2>1, <2>2, <2>3, <2>5, <1>a, Zenon DEF Ended
<1>4. CASE LastLine
  <2>1. PICK s, r : s = completions /\ r = remaining_lines
    OBVIOUS
  <2>2. /\ UNCHANGED <<notable_flags, output_groups, matching_flags, lines_so_far,
                       max_desired_lines, module, package_dir, token, all_flags>>
        /\ r = remaining_lines' /\ pc = "group" /\ next > Len(output_groups)
    BY <1>4, <2>1 DEF LastLine, placing, choosing, searching, search, input
  <2>3. Picked(5) /\ notable_flags = [f \in matching_flags |-> Category(f)]
    BY <2>2 DEF Choice
  <2>4. Lists(s) = FlagLines
    BY <2>1 DEF Lists, FlagLines
  <2>5. completions' = Append(s, Notice(s))
    BY <1>4, <2>1, <2>4 DEF LastLine, Notice
  <2>6. next = Len(output_groups) + 1
    BY <2>2 DEF Sorted, TypeOK
  <2>7. EndsWith(s, r)
    <3>1. InGroup(s, Len(output_groups) + 1, r) /\ Listing(s)
      BY <2>1, <2>2, <2>6 DEF Printing
    <3>2. s \in Seq(Line) /\ Len(s) + r = max_desired_lines
      BY <2>1, <2>2 DEF TypeOK, Budget
    <3>. QED
      BY <3>1, <3>2 DEF EndsWith
  <2>. QED
    BY <2>2, <2>3, <2>5, <2>7, <1>a
<1>5. CASE UNCHANGED vars
  <2>1. /\ UNCHANGED <<notable_flags, output_groups, matching_flags, lines_so_far,
                       max_desired_lines, module, package_dir, token, all_flags>>
        /\ pc = "exit" /\ remaining_lines' = remaining_lines /\ completions' = completions
    BY <1>5 DEF vars, placing, choosing, searching, search, input, printing
  <2>2. CASE notable_flags = <<>> /\ Lists(completions) = {}
    BY <2>1, <2>2 DEF Ended
  <2>3. CASE /\ Picked(5) /\ notable_flags = [f \in matching_flags |-> Category(f)]
             /\ \E s, r : EndsWith(s, r) /\ r = remaining_lines /\ completions = Append(s, Notice(s))
    <3>1. PICK s, r : EndsWith(s, r) /\ r = remaining_lines /\ completions = Append(s, Notice(s))
      BY <2>3
    <3>. QED
      BY <3>1, <2>1, <2>3, <1>a
  <2>. QED
    BY <2>1, <2>2, <2>3 DEF Ended
<1>. QED
  BY <1>1, <1>2, <1>3, <1>4, <1>5 DEF Next, Step, Exited

LEMMA EverythingFits ==
  ASSUME TypeOK, Picked(5), notable_flags = [f \in matching_flags |-> Category(f)],
         NEW s, NEW r \in Nat, EndsWith(s, r), r >= 2
  PROVE  Flags(s) = matching_flags
<1> DEFINE out == output_groups
           m == Len(out)
<1>1. m \in Nat /\ m + 1 - 1 = m /\ \A i \in 1..m : i < m + 1
  BY DEF TypeOK
<1>2. /\ \A i \in 1..m : Group(out[i]) \subseteq Flags(s)
      /\ Len(s) = Actual(Taken(m)) /\ Len(s) + r = max_desired_lines
  <2>1. InGroup(s, m + 1, r) /\ Len(s) + r = max_desired_lines
    BY DEF EndsWith
  <2>2. ~(r < 2)
    OBVIOUS
  <2>. QED
    BY <2>1, <2>2, <1>1 DEF InGroup
<1>3. Flags(s) \subseteq matching_flags
  BY DEF EndsWith, Listing, Flags
<1>4. lines_so_far < max_desired_lines
  <2>1. lines_so_far = Estimate(Taken(m))
    BY DEF Picked, PickedFrom, Taken
  <2>2. PICK a, b : a = Estimate(Taken(m)) /\ b = Actual(Taken(m))
    OBVIOUS
  <2>3. a \in Nat /\ b \in Nat /\ a <= b + 1
    BY <2>2, SumTypes
  <2>4. b + r = max_desired_lines
    BY <2>2, <1>2
  <2>5. a < max_desired_lines
    BY <2>3, <2>4
  <2>. QED
    BY <2>1, <2>2, <2>5
<1>5. ASSUME NEW f \in matching_flags PROVE f \in Flags(s)
  <2>1. notable_flags[f] \in Kind
    BY CategoryType
  <2>2. PICK p \in 1..5 : notable_flags[f] = Kinds[p]
    BY <2>1, KindsDiffer
  <2>3. f \in Group(Kinds[p])
    BY <2>2 DEF Group
  <2>4. ~(lines_so_far >= max_desired_lines)
    BY <1>4, DesiredLinesType DEF TypeOK
  <2>5. Kinds[p] \in {out[i] : i \in 1..m}
    BY <2>3, <2>4 DEF Picked, PickedFrom
  <2>. QED
    BY <2>3, <2>5, <1>2
<1>. QED
  BY <1>3, <1>5

LEMMA OneLinePerFlag ==
  ASSUME NEW s \in Seq(Line), Listing(s)
  PROVE  IsFiniteSet(Flags(s)) /\ Cardinality(Flags(s)) = Cardinality(Lists(s))
<1>1. IsFiniteSet(1..Len(s))
  BY FS_Interval
<1>2. IsFiniteSet(Lists(s))
  BY <1>1, FS_Subset DEF Lists
<1> DEFINE F == [k \in Lists(s) |-> s[k].flag]
<1>3. \A j, k \in Lists(s) : s[j].flag = s[k].flag => j = k
  BY DEF Listing
<1>4. F \in Injection(Lists(s), Flags(s))
  BY <1>3 DEF Injection, IsInjective, Flags
<1>5. F \in Surjection(Lists(s), Flags(s))
  BY DEF Surjection, Flags
<1>. QED
  BY <1>2, <1>4, <1>5, FS_Surjection

LEMMA EndHides == TypeOK /\ Ended => HidesOnlyWhenFull
<1> SUFFICES ASSUME TypeOK, Ended, pc = "exit", notable_flags # <<>>
             PROVE  /\ Cardinality(Shown) = Cardinality(FlagLines)
                    /\ Shown \subseteq matching_flags
                    /\ (Last(completions).what = "hidden") <=> (Shown # matching_flags)
                    /\ Shown # matching_flags => remaining_lines <= 1
  BY DEF HidesOnlyWhenFull
<1>1. PICK s, r : EndsWith(s, r) /\ r = remaining_lines /\ completions = Append(s, Notice(s))
  BY DEF Ended
<1>2. Picked(5) /\ notable_flags = [f \in matching_flags |-> Category(f)]
  BY DEF Ended
<1>3. PICK t, e : t = completions /\ e = Notice(s)
  OBVIOUS
<1>4. s \in Seq(Line) /\ Listing(s) /\ r \in Nat /\ t = Append(s, e)
  BY <1>1, <1>3 DEF EndsWith, TypeOK
<1>5. e \in Line /\ ~IsFlag(e)
  BY <1>3 DEF Notice, Line, IsFlag
<1>6. t[Len(s) + 1] = e /\ Len(t) = Len(s) + 1
  BY <1>4, <1>5
<1>7. Lists(t) = Lists(s) /\ Flags(t) = Flags(s)
  BY <1>4, <1>5, OtherLine
<1>8. FlagLines = Lists(t) /\ Shown = Flags(t)
  BY <1>3 DEF FlagLines, Shown, Lists, Flags
<1>9. Flags(s) \subseteq matching_flags
  BY <1>4 DEF Listing, Flags
<1>10. IsFiniteSet(matching_flags)
  <2>1. Len(all_flags) \in Nat
    BY CompletionsAssumption DEF TypeOK
  <2>2. IsFiniteSet(1..Len(all_flags)) /\ matching_flags \subseteq 1..Len(all_flags)
    BY <2>1, FS_Interval DEF TypeOK
  <2>. QED
    BY <2>2, FS_Subset
<1>11. Cardinality(Flags(s)) = Cardinality(Lists(s))
  BY <1>4, OneLinePerFlag
<1>12. (e.what = "hidden") <=> Flags(s) # matching_flags
  <2>1. (e.what = "hidden") <=> Cardinality(Lists(s)) # Cardinality(matching_flags)
    BY <1>3 DEF Notice
  <2>2. Cardinality(Flags(s)) = Cardinality(matching_flags) => Flags(s) = matching_flags
    BY <1>9, <1>10, FS_Subset
  <2>. QED
    BY <2>1, <2>2, <1>11
<1>13. Last(t) = e
  BY <1>6 DEF Last
<1>14. Flags(s) # matching_flags => r <= 1
  <2>1. r >= 2 => Flags(s) = matching_flags
    BY <1>1, <1>2, <1>4, EverythingFits
  <2>. QED
    BY <2>1, <1>4
<1>. QED
  BY <1>1, <1>3, <1>7, <1>8, <1>9, <1>11, <1>12, <1>13, <1>14

-----------------------------------------------------------------------------
(* Directories.                                                            *)

(* The provers do not know that a string is in STRING.                     *)
Letter == STRING \cup {"/"}

LEMMA SlashAppended ==
  ASSUME NEW P \in Seq(STRING), NEW Q, Q = Append(P, "/")
  PROVE  /\ Q \in Seq(Letter) /\ Len(Q) = Len(P) + 1 /\ Q[Len(P) + 1] = "/"
         /\ \A i \in 1..Len(P) : Q[i] = P[i]
<1>1. PICK e : e = "/"
  OBVIOUS
<1>2. e \in Letter /\ P \in Seq(Letter)
  BY <1>1 DEF Letter
<1>3. Q = Append(P, e)
  BY <1>1
<1>4. /\ Q \in Seq(Letter) /\ Len(Q) = Len(P) + 1 /\ Q[Len(P) + 1] = e
      /\ \A i \in 1..Len(P) : Q[i] = P[i]
  BY <1>2, <1>3
<1>. QED
  BY <1>1, <1>4

LEMMA StringsAreLetters == ASSUME NEW s \in Seq(STRING) PROVE s \in Seq(Letter)
BY DEF Letter

(* A file's directory is what stands in front of its last slash.           *)
LEMMA DirectoryMeans ==
  ASSUME NEW F \in Seq(STRING)
  PROVE  \/ DirectoryOf(F) = <<>> /\ \A k \in 1..Len(F) : F[k] # "/"
         \/ \E m \in 1..Len(F) :
              /\ F[m] = "/" /\ (\A k \in 1..Len(F) : F[k] = "/" => k <= m)
              /\ DirectoryOf(F) \in Seq(STRING) /\ Len(DirectoryOf(F)) = m - 1
              /\ \A i \in 1..m - 1 : DirectoryOf(F)[i] = F[i]
<1> DEFINE slashes == {k \in 1..Len(F) : F[k] = "/"}
<1>1. CASE slashes = {}
  BY <1>1 DEF DirectoryOf
<1>2. CASE slashes # {}
  <2>1. Len(F) \in Nat /\ slashes \in SUBSET (0..Len(F))
    OBVIOUS
  <2>2. PICK m : m = Max(slashes)
    OBVIOUS
  <2>3. m \in slashes /\ \A k \in slashes : m >= k
    BY <1>2, <2>1, <2>2, GreatestMember
  <2>4. m \in 1..Len(F) /\ F[m] = "/" /\ \A k \in 1..Len(F) : F[k] = "/" => k <= m
    BY <2>3
  <2>5. DirectoryOf(F) = SubSeq(F, 1, m - 1)
    BY <1>2, <2>2 DEF DirectoryOf
  <2>6. m - 1 \in 0..Len(F)
    BY <2>1, <2>4
  <2>7. /\ DirectoryOf(F) \in Seq(STRING) /\ Len(DirectoryOf(F)) = m - 1
        /\ \A i \in 1..m - 1 : DirectoryOf(F)[i] = F[i]
    BY <2>5, <2>6, FrontOf
  <2>. QED
    BY <2>4, <2>7
<1>. QED
  BY <1>1, <1>2

(* A directory that starts with P is that of a file where P occurs.        *)
LEMMA DirectoryOccurs ==
  ASSUME NEW P \in Seq(STRING), NEW F \in Seq(STRING), P # <<>>,
         DirectoryOf(F) = P \/ IsPrefix(Append(P, "/"), DirectoryOf(F))
  PROVE  Occurs(P, F)
<1>1. PICK D : D = DirectoryOf(F)
  OBVIOUS
<1>2. PICK Q : Q = Append(P, "/")
  OBVIOUS
<1>3. Q \in Seq(Letter) /\ Len(Q) = Len(P) + 1 /\ \A i \in 1..Len(P) : Q[i] = P[i]
  BY <1>2, SlashAppended
<1>4. Len(P) \in Nat /\ Len(P) # 0 /\ Len(F) \in Nat /\ D \in Seq(STRING)
  BY <1>1, DirectoryType
<1>5. Len(P) <= Len(D) /\ \A i \in 1..Len(P) : P[i] = D[i]
  <2>1. CASE D = P
    BY <2>1, <1>4
  <2>2. CASE IsPrefix(Q, D)
    <3>1. Len(Q) <= Len(D) /\ \A i \in 1..Len(Q) : Q[i] = D[i]
      BY <2>2, <1>3, <1>4, PrefixMeans, StringsAreLetters
    <3>2. \A i \in 1..Len(P) : i \in 1..Len(Q)
      BY <1>3, <1>4
    <3>. QED
      BY <3>1, <3>2, <1>3, <1>4
  <2>. QED
    BY <2>1, <2>2, <1>1, <1>2
<1>6. Len(D) # 0
  BY <1>4, <1>5
<1>7. PICK m \in 1..Len(F) : Len(D) = m - 1 /\ \A i \in 1..m - 1 : D[i] = F[i]
  BY <1>1, <1>6, DirectoryMeans
<1>8. Len(P) \in 0..Len(F) /\ \A i \in 1..Len(P) : P[i] = F[i]
  BY <1>4, <1>5, <1>7
<1>9. SubSeq(F, 1, 1 + Len(P) - 1) = P
  <2>1. PICK u : u = SubSeq(F, 1, Len(P))
    OBVIOUS
  <2>2. u \in Seq(STRING) /\ Len(u) = Len(P) /\ \A i \in 1..Len(P) : u[i] = P[i]
    BY <2>1, <1>8, FrontOf
  <2>3. u = P /\ 1 + Len(P) - 1 = Len(P)
    BY <2>2, <1>4, SameElements
  <2>. QED
    BY <2>1, <2>3
<1>10. 1 \in 1..(Len(F) - Len(P) + 1)
  BY <1>4, <1>8
<1>. QED
  BY <1>9, <1>10 DEF Occurs, Places

(* What the search makes of a file below the directory it looks for.       *)
LEMMA BelowDirectory ==
  ASSUME NEW P \in Seq(STRING), NEW F \in Seq(STRING), P # <<>>, IsPrefix(Append(P, "/"), F)
  PROVE  /\ Occurs(P, F) /\ Min(Places(P, F)) = 1
         /\ (\E k \in 1 + Len(P) + 1..Len(F) : F[k] = "/") =>
              DirectoryOf(F) # P /\ IsPrefix(Append(P, "/"), DirectoryOf(F))
         /\ (\A k \in 1 + Len(P) + 1..Len(F) : F[k] # "/") => DirectoryOf(F) = P
<1>1. PICK D : D = DirectoryOf(F)
  OBVIOUS
<1>2. PICK Q : Q = Append(P, "/")
  OBVIOUS
<1>3. PICK l : l = Len(P)
  OBVIOUS
<1>4. /\ Q \in Seq(Letter) /\ Len(Q) = l + 1 /\ Q[l + 1] = "/" /\ \A i \in 1..l : Q[i] = P[i]
      /\ l \in Nat \ {0} /\ Len(F) \in Nat
  BY <1>2, <1>3, SlashAppended
<1>5. l + 1 <= Len(F) /\ \A i \in 1..l + 1 : Q[i] = F[i]
  <2>1. IsPrefix(Q, F)
    BY <1>2
  <2>2. Len(Q) <= Len(F) /\ \A i \in 1..Len(Q) : Q[i] = F[i]
    BY <2>1, <1>4, PrefixMeans, StringsAreLetters
  <2>. QED
    BY <2>2, <1>4
<1>6. F[l + 1] = "/" /\ l + 1 \in 1..Len(F)
  BY <1>4, <1>5
<1>7. \A i \in 1..l : P[i] = F[i]
  <2>1. \A i \in 1..l : i \in 1..l + 1
    BY <1>4
  <2>. QED
    BY <2>1, <1>4, <1>5
<1>8. SubSeq(F, 1, 1 + l - 1) = P
  <2>1. PICK u : u = SubSeq(F, 1, l)
    OBVIOUS
  <2>2. l \in 0..Len(F)
    BY <1>4, <1>5
  <2>3. u \in Seq(STRING) /\ Len(u) = l /\ \A i \in 1..l : u[i] = P[i]
    BY <2>1, <2>2, <1>7, FrontOf
  <2>4. u = P /\ 1 + l - 1 = l
    BY <2>3, <1>3, <1>4, SameElements
  <2>. QED
    BY <2>1, <2>4
<1>9. 1 \in Places(P, F)
  <2>1. 1 \in 1..(Len(F) - l + 1)
    BY <1>4, <1>5
  <2>. QED
    BY <2>1, <1>3, <1>8 DEF Places
<1>10. Min(Places(P, F)) = 1
  <2>1. PICK T : T = Places(P, F)
    OBVIOUS
  <2>2. T \in SUBSET Nat /\ (\A k \in T : k >= 1) /\ 1 \in T
    BY <2>1, <1>3, <1>4, <1>9 DEF Places
  <2>3. Min(T) \in T /\ Min(T) <= 1
    BY <2>2, LeastMember
  <2>4. Min(T) \in Nat /\ Min(T) >= 1
    BY <2>2, <2>3
  <2>5. Min(T) = 1
    BY <2>3, <2>4
  <2>. QED
    BY <2>1, <2>5
<1>11. PICK m \in 1..Len(F) :
         /\ F[m] = "/" /\ (\A k \in 1..Len(F) : F[k] = "/" => k <= m)
         /\ D \in Seq(STRING) /\ Len(D) = m - 1
         /\ \A i \in 1..m - 1 : D[i] = F[i]
  BY <1>1, <1>6, DirectoryMeans
<1>12. m >= l + 1
  BY <1>6, <1>11
<1>13. ASSUME NEW k \in 1 + l + 1..Len(F), F[k] = "/" PROVE D # P /\ IsPrefix(Q, D)
  <2>1. k \in 1..Len(F) /\ k >= l + 2
    BY <1>4
  <2>2. m >= l + 2
    BY <2>1, <1>4, <1>11, <1>13
  <2>3. Len(D) >= l + 1 /\ Len(D) # Len(P)
    BY <2>2, <1>3, <1>4, <1>11
  <2>4. ASSUME NEW i \in 1..l + 1 PROVE Q[i] = D[i]
    <3>1. i \in 1..m - 1
      BY <2>2, <1>4
    <3>. QED
      BY <3>1, <1>5, <1>11
  <2>. QED
    <3>1. D \in Seq(Letter)
      BY <1>11, StringsAreLetters
    <3>2. Len(Q) <= Len(D) /\ \A i \in 1..Len(Q) : Q[i] = D[i]
      BY <2>3, <2>4, <1>4
    <3>. QED
      BY <2>3, <3>1, <3>2, <1>4, PrefixMeans
<1>14. ASSUME \A k \in 1 + l + 1..Len(F) : F[k] # "/" PROVE D = P
  <2>1. ~(m >= l + 2)
    <3>1. m >= l + 2 => m \in 1 + l + 1..Len(F)
      BY <1>4
    <3>. QED
      BY <3>1, <1>11, <1>14
  <2>2. m = l + 1 /\ m - 1 = l
    BY <2>1, <1>4, <1>12
  <2>. QED
    BY <2>2, <1>3, <1>7, <1>11, SameElements
<1>. QED
  BY <1>1, <1>2, <1>3, <1>9, <1>10, <1>13, <1>14 DEF Occurs

(* The code's categories are the order of relevance of the comments, for   *)
(* all flags but the strays.                                               *)
LEMMA RankIsKind ==
  ASSUME TypeOK, NEW f \in matching_flags \ Strays
  PROVE  Rank(f) \in 1..5 /\ Kinds[Rank(f)] = Category(f)
<1>1. PICK P, F : P = package_dir /\ F = all_flags[f].filename
  OBVIOUS
<1>2. P \in Seq(STRING) /\ F \in Seq(STRING)
  BY <1>1, FlagType DEF TypeOK
<1>3. Rank(f) = IF all_flags[f].name = token THEN 1
                ELSE IF module # <<>> /\ F = module THEN 2
                ELSE IF P = <<>> THEN 5
                ELSE IF DirectoryOf(F) = P THEN 3
                ELSE IF IsPrefix(Append(P, "/"), DirectoryOf(F)) THEN 4 ELSE 5
  BY <1>1 DEF Rank
<1>4. Category(f) = IF all_flags[f].name = token THEN "perfect"
                    ELSE IF module # <<>> /\ F = module THEN "module"
                    ELSE IF ~(P # <<>> /\ Occurs(P, F)) THEN "other"
                    ELSE IF \E k \in Min(Places(P, F)) + Len(P) + 1..Len(F) : F[k] = "/"
                         THEN "subpackage" ELSE "package"
  BY <1>1 DEF Category, InPackage, SlashAfterPackage
<1>5. P # <<>> /\ Occurs(P, F) => IsPrefix(Append(P, "/"), F)
  BY <1>1 DEF Strays
<1>6. /\ Kinds[1] = "perfect" /\ Kinds[2] = "module" /\ Kinds[3] = "package"
      /\ Kinds[4] = "subpackage" /\ Kinds[5] = "other"
  BY DEF Kinds
<1>7. CASE P = <<>>
  BY <1>3, <1>4, <1>6, <1>7
<1>8. CASE P # <<>> /\ ~Occurs(P, F)
  <2>1. DirectoryOf(F) # P /\ ~IsPrefix(Append(P, "/"), DirectoryOf(F))
    BY <1>2, <1>8, DirectoryOccurs
  <2>. QED
    BY <2>1, <1>3, <1>4, <1>6, <1>8
<1>9. CASE P # <<>> /\ Occurs(P, F)
  <2>1. /\ Min(Places(P, F)) = 1
        /\ (\E k \in 1 + Len(P) + 1..Len(F) : F[k] = "/") =>
             DirectoryOf(F) # P /\ IsPrefix(Append(P, "/"), DirectoryOf(F))
        /\ (\A k \in 1 + Len(P) + 1..Len(F) : F[k] # "/") => DirectoryOf(F) = P
    BY <1>2, <1>5, <1>9, BelowDirectory
  <2>2. CASE \E k \in 1 + Len(P) + 1..Len(F) : F[k] = "/"
    <3>1. Category(f) = IF all_flags[f].name = token THEN "perfect"
                        ELSE IF module # <<>> /\ F = module THEN "module" ELSE "subpackage"
      BY <2>1, <2>2, <1>4, <1>9
    <3>2. Rank(f) = IF all_flags[f].name = token THEN 1
                    ELSE IF module # <<>> /\ F = module THEN 2 ELSE 4
      BY <2>1, <2>2, <1>3, <1>9
    <3>. QED
      BY <3>1, <3>2, <1>6
  <2>3. CASE \A k \in 1 + Len(P) + 1..Len(F) : F[k] # "/"
    <3>1. Category(f) = IF all_flags[f].name = token THEN "perfect"
                        ELSE IF module # <<>> /\ F = module THEN "module" ELSE "package"
      BY <2>1, <2>3, <1>4, <1>9
    <3>2. Rank(f) = IF all_flags[f].name = token THEN 1
                    ELSE IF module # <<>> /\ F = module THEN 2 ELSE 3
      BY <2>1, <2>3, <1>3, <1>9
    <3>. QED
      BY <3>1, <3>2, <1>6
  <2>. QED
    BY <2>2, <2>3
<1>. QED
  BY <1>7, <1>8, <1>9

LEMMA EndRelevant == TypeOK /\ Ended => RelevantFirst
<1> SUFFICES ASSUME TypeOK, Ended, pc = "exit",
                    NEW k \in FlagLines, NEW f \in matching_flags \ Strays,
                    NEW g, g = completions[k].flag, g \notin Strays, Rank(f) < Rank(g)
             PROVE  \E j \in FlagLines : j < k /\ completions[j].flag = f
  BY Zenon DEF RelevantFirst
<1>1. FlagLines = Lists(completions)
  BY DEF FlagLines, Lists
<1>2. PICK s, r : EndsWith(s, r) /\ r = remaining_lines /\ completions = Append(s, Notice(s))
  BY <1>1 DEF Ended
<1>3. Picked(5) /\ notable_flags = [h \in matching_flags |-> Category(h)]
  BY <1>1 DEF Ended
<1>4. PICK t, e : t = completions /\ e = Notice(s)
  OBVIOUS
<1>5. s \in Seq(Line) /\ Listing(s) /\ t = Append(s, e) /\ InGroup(s, Len(output_groups) + 1, r)
  BY <1>2, <1>4 DEF EndsWith
<1>6. e \in Line /\ ~IsFlag(e)
  BY <1>4 DEF Notice, Line, IsFlag
<1>7. Lists(t) = Lists(s) /\ \A j \in Lists(s) : t[j] = s[j]
  BY <1>5, <1>6, OtherLine
<1>8. k \in Lists(s) /\ s[k].flag = g /\ g \in matching_flags \ Strays
  BY <1>1, <1>4, <1>5, <1>7 DEF Listing
<1>9. PICK p, q : p = Rank(f) /\ q = Rank(g)
  OBVIOUS
<1>10. /\ p \in 1..5 /\ q \in 1..5 /\ p < q
       /\ notable_flags[f] = Kinds[p] /\ notable_flags[g] = Kinds[q]
  BY <1>3, <1>8, <1>9, RankIsKind
<1> DEFINE out == output_groups
<1>11. PICK i \in 1..Len(out) : out[i] = Kinds[q]
  BY <1>5, <1>8, <1>10 DEF InGroup
<1>12. PICK h \in 1..Len(out) : out[h] = Kinds[p]
  <2> DEFINE taken == {out[j] : j \in 1..Len(out)}
  <2>1. q \in p..5 /\ Kinds[q] \in taken
    BY <1>10, <1>11
  <2>2. Group(Kinds[p]) # {}
    BY <1>10 DEF Group
  <2>3. Kinds[p] \in taken
    BY <2>1, <2>2, <1>3, <1>10 DEF Picked, PickedFrom
  <2>. QED
    BY <2>3
<1>13. h < i
  <2>1. h # i
    BY <1>10, <1>11, <1>12, KindsDiffer
  <2>2. ASSUME i < h PROVE FALSE
    <3>1. PICK a \in 1..5, b \in 1..5 : a < b /\ out[i] = Kinds[a] /\ out[h] = Kinds[b]
      BY <2>2, <1>3 DEF Picked, PickedFrom
    <3>2. a = q /\ b = p
      <4>1. Kinds[a] = Kinds[q] /\ Kinds[b] = Kinds[p]
        BY <3>1, <1>11, <1>12
      <4>. QED
        BY <4>1, <1>10, KindsDiffer
    <3>. QED
      BY <3>1, <3>2, <1>10
  <2>. QED
    BY <2>1, <2>2
<1>14. Group(out[h]) \subseteq Earlier(s, k)
  BY <1>5, <1>8, <1>10, <1>11, <1>13 DEF Listing
<1>15. f \in Group(out[h])
  BY <1>10, <1>12 DEF Group
<1>16. PICK j \in Lists(s) : j < k /\ s[j].flag = f
  BY <1>14, <1>15 DEF Earlier
<1>. QED
  BY <1>1, <1>4, <1>7, <1>16

(* A flag is listed once, and the notice that flags are hidden is there    *)
(* exactly when one is, which is only when no header and flag would fit:   *)
(* what a group is estimated to take is at most one line more than what    *)
(* all that is printed takes (gflags_completions.cc:560-688).              *)
THEOREM HidesOnlyWhenFullHolds == Spec => []HidesOnlyWhenFull
BY TypeInit, TypeStep, BudgetInit, BudgetStep, SortedInit, SortedStep, ChoiceInit, ChoiceStep,
   PrintingInit, PrintingStep, EndedInit, EndedStep, EndHides, PTL DEF Spec

(* No flag is listed before, or instead of, one that is closer to the      *)
(* program (gflags_completions.cc:189-202, 560-632).                       *)
THEOREM RelevantFirstHolds == Spec => []RelevantFirst
BY TypeInit, TypeStep, BudgetInit, BudgetStep, SortedInit, SortedStep, ChoiceInit, ChoiceStep,
   PrintingInit, PrintingStep, EndedInit, EndedStep, EndRelevant, PTL DEF Spec

-----------------------------------------------------------------------------
(* The width of the lines.                                                 *)

Filled(end) == end + (IF end % Columns = 0 THEN Columns - 1 ELSE Columns - (end % Columns))

LEMMA NextMultiple ==
  ASSUME NEW a \in Int, NEW c \in Nat \ {0} PROVE (a + (c - (a % c))) % c = 0
OBVIOUS

LEMMA FilledType == \A end \in Int : Filled(end) \in Int
BY CompletionsAssumption DEF Filled

LEMMA FilledEndsRow ==
  ASSUME NEW end \in Int, end % Columns # 0 PROVE Filled(end) % Columns = 0
<1>1. Filled(end) = end + (Columns - (end % Columns))
  BY DEF Filled
<1>. QED
  BY <1>1, NextMultiple, CompletionsAssumption

Starts(details, start) ==
  start = [k \in 1..Len(details) |-> IF k = 1 THEN 0 ELSE Filled(start[k - 1] + details[k - 1])]

LEMMA StartsExist ==
  ASSUME NEW details \in Seq(Nat) PROVE \E start : Starts(details, start)
<1>1. CASE Len(details) = 0
  <2>1. \A v : 1..Len(details) = {}
    BY <1>1
  <2>2. PICK start : start = [k \in {} |-> 0]
    OBVIOUS
  <2>3. Starts(details, start)
    BY <2>1, <2>2 DEF Starts
  <2>. QED
    BY <2>3
<1>2. CASE Len(details) # 0
  <2> DEFINE n == Len(details) - 1
             G == [k \in 1..n |-> [x \in Int |-> Filled(x + details[k])]]
  <2>1. n \in Nat /\ Len(details) = n + 1 /\ \A k \in 1..n : details[k] \in Nat
    BY <1>2
  <2> HIDE DEF n
  <2>2. G \in [1..n -> [Int -> Int]]
    BY <2>1, FilledType
  <2>3. \A k \in 1..n, x \in Int : G[k][x] = Filled(x + details[k])
    OBVIOUS
  <2> HIDE DEF G
  <2>4. PICK f \in [0..n -> Int] : Follows(f, n, 0, G)
    <3>1. 0 \in Int
      OBVIOUS
    <3>. QED
      BY <3>1, <2>1, <2>2, RecursionExists
  <2>5. PICK start : start = [k \in 1..n + 1 |-> f[k - 1]]
    OBVIOUS
  <2>6. ASSUME NEW k \in 1..n + 1
        PROVE  f[k - 1] = IF k = 1 THEN 0 ELSE Filled(start[k - 1] + details[k - 1])
    <3>1. CASE k = 1
      BY <3>1, <2>4 DEF Follows
    <3>2. CASE k # 1
      <4>1. PICK j : j = k - 1
        OBVIOUS
      <4>2. j \in 1..n /\ j \in 1..n + 1 /\ j - 1 \in 0..n
        BY <4>1, <3>2, <2>1
      <4>3. f[j] = G[j][f[j - 1]] /\ start[j] = f[j - 1] /\ f[j - 1] \in Int
        BY <4>2, <2>4, <2>5 DEF Follows
      <4>4. f[j] = Filled(start[j] + details[j])
        BY <4>2, <4>3, <2>3
      <4>. QED
        BY <4>1, <4>4, <3>2
    <3>. QED
      BY <3>1, <3>2
  <2>7. Starts(details, start)
    BY <2>1, <2>5, <2>6 DEF Starts
  <2>. QED
    BY <2>7
<1>. QED
  BY <1>1, <1>2

LEMMA LongLineStarts ==
  ASSUME NEW flag, flag.details \in Seq(Nat) PROVE Starts(flag.details, GetLongFlagLine(flag))
<1>1. Starts(flag.details, CHOOSE start : Starts(flag.details, start))
  BY StartsExist
<1>2. GetLongFlagLine(flag) = CHOOSE start : Starts(flag.details, start)
  BY DEF GetLongFlagLine, Starts, Filled
<1>. QED
  BY <1>1, <1>2

LEMMA StartType ==
  ASSUME NEW details \in Seq(Nat), NEW start, Starts(details, start), NEW k \in 1..Len(details)
  PROVE  start[k] \in Int
<1> DEFINE n == Len(details)
           T == {m \in Nat : m + 1 <= n => start[m + 1] \in Int}
<1>0. n \in Nat /\ \A j \in 1..n : details[j] \in Nat
  OBVIOUS
<1>1. \A j \in 1..n : start[j] = IF j = 1 THEN 0 ELSE Filled(start[j - 1] + details[j - 1])
  BY DEF Starts
<1> HIDE DEF n
<1>2. 0 \in T
  <2>1. 1 <= n => start[1] = 0
    BY <1>0, <1>1
  <2>. QED
    BY <2>1
<1>3. ASSUME NEW m \in T PROVE m + 1 \in T
  <2>1. m \in Nat /\ m + 1 \in Nat
    OBVIOUS
  <2> SUFFICES ASSUME (m + 1) + 1 <= n PROVE start[(m + 1) + 1] \in Int
    BY <2>1
  <2>2. PICK j : j = m + 1
    OBVIOUS
  <2>3. j \in 1..n /\ j + 1 \in 1..n /\ j + 1 # 1 /\ (j + 1) - 1 = j
    BY <2>1, <2>2, <1>0
  <2>4. start[j] \in Int
    BY <2>1, <2>2, <2>3
  <2>5. start[j + 1] = Filled(start[j] + details[j])
    BY <2>3, <1>1
  <2>6. start[j] + details[j] \in Int
    BY <2>3, <2>4, <1>0
  <2>. QED
    BY <2>2, <2>5, <2>6, FilledType
<1>4. T = Nat
  BY <1>2, <1>3, NatInductionOnSets
<1>5. k - 1 \in Nat /\ (k - 1) + 1 = k /\ k <= n
  BY <1>0 DEF n
<1>6. k - 1 \in T
  <2> HIDE DEF T
  <2>. QED
    BY <1>4, <1>5
<1>. QED
  BY <1>5, <1>6

LEMMA LinesFit == TypeOK /\ Printing => LinesFitColumns
<1> SUFFICES ASSUME TypeOK, Printing, NEW k \in FlagLines,
                    NEW flag, flag = all_flags[completions[k].flag],
                    NEW indent, indent = completions[k].indent
             PROVE  /\ completions[k].what = "flag" =>
                          \/ GetShortFlagLine(flag, indent) <= Columns
                          \/ Columns - (indent + Len(flag.name) + flag.rest) <= 2
                    /\ completions[k].what = "details" =>
                          \A d \in 2..Len(flag.details) :
                              \/ GetLongFlagLine(flag)[d] % Columns = 0
                              \/ (GetLongFlagLine(flag)[d - 1] + flag.details[d - 1]) % Columns = 0
  BY Zenon DEF LinesFitColumns
<1>1. k \in Lists(completions) /\ k \in 1..Len(completions) /\ completions \in Seq(Line)
  BY DEF FlagLines, Lists, TypeOK
<1>2. completions[k].flag \in 1..Len(all_flags)
  BY <1>1 DEF Printing, Listing, TypeOK
<1>3. /\ flag.name \in Seq(STRING) /\ flag.description \in Seq(STRING)
      /\ flag.rest \in Nat /\ flag.details \in Seq(Nat)
  BY <1>2, FlagType
<1>4. indent \in Int
  <2>1. completions[k] \in Line
    BY <1>1
  <2>. QED
    BY <2>1 DEF Line
<1>5. \/ GetShortFlagLine(flag, indent) <= Columns
      \/ Columns - (indent + Len(flag.name) + flag.rest) <= 2
  <2>1. PICK prefix, size : prefix = indent + Len(flag.name) + flag.rest /\ size = Len(flag.description)
    OBVIOUS
  <2>2. prefix \in Int /\ size \in Nat /\ Columns \in Nat
    BY <2>1, <1>3, <1>4, CompletionsAssumption
  <2>3. CASE Columns - prefix <= 2
    BY <2>1, <2>3
  <2>4. CASE Columns - prefix > 2
    <3>1. GetShortFlagLine(flag, indent) =
            CASE Columns - prefix <= 0 -> prefix
              [] Columns - prefix > 0 /\ size <= Columns - prefix -> prefix + size
              [] Columns - prefix \in 1..2 /\ size > Columns - prefix -> prefix + size + 3
              [] Columns - prefix > 2 /\ size > Columns - prefix ->
                    prefix + ((Columns - prefix) - 3) + 3
      BY <2>1 DEF GetShortFlagLine
    <3>2. CASE size <= Columns - prefix
      <4>1. GetShortFlagLine(flag, indent) = prefix + size
        BY <3>1, <3>2, <2>2, <2>4
      <4>. QED
        BY <4>1, <3>2, <2>2
    <3>3. CASE size > Columns - prefix
      <4>1. GetShortFlagLine(flag, indent) = prefix + ((Columns - prefix) - 3) + 3
        BY <3>1, <3>3, <2>2, <2>4
      <4>. QED
        BY <4>1, <2>2
    <3>. QED
      BY <3>2, <3>3, <2>2
  <2>. QED
    BY <2>2, <2>3, <2>4
<1>6. ASSUME NEW d \in 2..Len(flag.details)
      PROVE  \/ GetLongFlagLine(flag)[d] % Columns = 0
             \/ (GetLongFlagLine(flag)[d - 1] + flag.details[d - 1]) % Columns = 0
  <2>1. PICK start, details : start = GetLongFlagLine(flag) /\ details = flag.details
    OBVIOUS
  <2>2. Starts(details, start) /\ details \in Seq(Nat)
    BY <2>1, <1>3, LongLineStarts
  <2>3. d \in 1..Len(details) /\ d # 1 /\ d - 1 \in 1..Len(details)
    BY <2>1, <2>2
  <2>4. start[d] = Filled(start[d - 1] + details[d - 1])
    BY <2>2, <2>3 DEF Starts
  <2>5. start[d - 1] + details[d - 1] \in Int
    <3>1. start[d - 1] \in Int
      BY <2>2, <2>3, StartType
    <3>. QED
      BY <3>1, <2>2, <2>3
  <2>6. start[d] % Columns = 0 \/ (start[d - 1] + details[d - 1]) % Columns = 0
    BY <2>4, <2>5, FilledEndsRow
  <2>. QED
    BY <2>1, <2>6
<1>. QED
  BY <1>5, <1>6

(* A short line is no wider than the screen, whatever the name, default    *)
(* and description, and a long line's details start rows of it             *)
(* (gflags_completions.cc:699-706, 744-754), for every width but none.     *)
THEOREM LinesFitColumnsHolds == Spec => []LinesFitColumns
BY TypeInit, TypeStep, BudgetInit, BudgetStep, SortedInit, SortedStep, ChoiceInit, ChoiceStep,
   PrintingInit, PrintingStep, LinesFit, PTL DEF Spec

-----------------------------------------------------------------------------
(* The word that was typed.                                                *)

(* How many signs a quote and dashes may be at the front of w.             *)
Leads(w) == {k \in 0..Len(w) : \A i \in 1..k : w[i] = "-" \/ (i = 1 /\ w[i] = Quote)}

Count(w, k, c) == Cardinality({i \in k..Len(w) : w[i] = c})

(* Where the options may begin, after lead signs.                          *)
Tails(w, lead) ==
  {k \in lead + 1..Len(w) + 1 :
     /\ \A i \in k..Len(w) : w[i] \in {"?", "+"}
     /\ Count(w, k, "?") <= 3 /\ Count(w, k, "+") <= 1}

(* The token, the marks and the pluses of w with the options from t on.    *)
Reads(w, lead, t, word, m, p) ==
  word = SubSeq(w, lead + 1, t - 1) /\ m = Count(w, t, "?") /\ p = Count(w, t, "+")

LEMMA TypedMeans ==
  LET w == cursor_word
      lead == Max(Leads(w))
      tail == Min(Tails(w, lead))
  IN  Reads(w, lead, tail, Typed.token, Typed.marks, Typed.pluses)
BY DEF Typed, Reads, Leads, Tails, Count

LEMMA LeadsAreNumbers ==
  ASSUME NEW w \in Seq(STRING)
  PROVE  /\ Leads(w) \in SUBSET (0..Len(w)) /\ 0 \in Leads(w) /\ Len(w) \in Nat
         /\ Max(Leads(w)) \in Leads(w) /\ \A k \in Leads(w) : Max(Leads(w)) >= k
<1>1. Leads(w) \in SUBSET (0..Len(w)) /\ 0 \in Leads(w) /\ Len(w) \in Nat
  BY DEF Leads
<1>. QED
  BY <1>1, GreatestMember

LEMMA CountType ==
  ASSUME NEW w \in Seq(STRING), NEW k \in 1..Len(w) + 1, NEW c
  PROVE  IsFiniteSet({i \in k..Len(w) : w[i] = c}) /\ Count(w, k, c) \in Nat
<1>1. IsFiniteSet(k..Len(w))
  BY FS_Interval
<1>2. IsFiniteSet({i \in k..Len(w) : w[i] = c})
  BY <1>1, FS_Subset
<1>. QED
  BY <1>2, FS_CardinalityType DEF Count

LEMMA CountOneMore ==
  ASSUME NEW w \in Seq(STRING), NEW k \in 1..Len(w), NEW c
  PROVE  Count(w, k, c) = Count(w, k + 1, c) + (IF w[k] = c THEN 1 ELSE 0)
<1> DEFINE A == {i \in k..Len(w) : w[i] = c}
           B == {i \in k + 1..Len(w) : w[i] = c}
<1>1. k + 1 \in 1..Len(w) + 1
  OBVIOUS
<1>2. IsFiniteSet(B) /\ Cardinality(B) \in Nat
  BY <1>1, CountType DEF Count
<1>3. k \notin B
  OBVIOUS
<1>4. \A i \in k..Len(w) : i = k \/ i \in k + 1..Len(w)
  OBVIOUS
<1>5. \A i \in k + 1..Len(w) : i \in k..Len(w)
  OBVIOUS
<1>6. k \in k..Len(w)
  OBVIOUS
<1>7. CASE w[k] = c
  <2>1. A = B \cup {k}
    BY <1>4, <1>5, <1>6, <1>7
  <2>2. Cardinality(A) = Cardinality(B) + 1
    BY <2>1, <1>2, <1>3, FS_AddElement
  <2>. QED
    BY <2>2, <1>7 DEF Count
<1>8. CASE w[k] # c
  <2>1. A = B
    BY <1>4, <1>5, <1>8
  <2> HIDE DEF A, B
  <2>2. Cardinality(A) = Cardinality(B) + 0
    BY <2>1, <1>2
  <2>. QED
    BY <2>2, <1>8 DEF Count, A, B
<1>. QED
  BY <1>7, <1>8

LEMMA CountGrows ==
  ASSUME NEW w \in Seq(STRING), NEW k \in 1..Len(w) + 1, NEW j \in 1..k, NEW c
  PROVE  Count(w, k, c) <= Count(w, j, c)
<1>1. j \in 1..Len(w) + 1
  OBVIOUS
<1>2. IsFiniteSet({i \in j..Len(w) : w[i] = c})
  BY <1>1, CountType
<1>3. {i \in k..Len(w) : w[i] = c} \subseteq {i \in j..Len(w) : w[i] = c}
  OBVIOUS
<1>. QED
  BY <1>2, <1>3, FS_Subset DEF Count

LEMMA CountNothing ==
  ASSUME NEW w \in Seq(STRING), NEW c PROVE Count(w, Len(w) + 1, c) = 0
<1>1. {i \in Len(w) + 1..Len(w) : w[i] = c} = {}
  OBVIOUS
<1>. QED
  BY <1>1, FS_EmptySet DEF Count

(* Dashes are taken from the front of a word that follows those taken.     *)
DashesTaken(w, k, word) ==
  /\ k \in Leads(w) /\ word = SubSeq(w, k + 1, Len(w))
  /\ k = 0 /\ word # <<>> => word[1] # Quote

LEMMA OneMoreDash ==
  ASSUME NEW w \in Seq(STRING), NEW word \in Seq(STRING), NEW k, DashesTaken(w, k, word),
         word # <<>>, word[1] = "-"
  PROVE  DashesTaken(w, k + 1, Tail(word))
<1>1. k \in 0..Len(w) /\ Len(w) \in Nat /\ word = SubSeq(w, k + 1, Len(w))
  BY DEF DashesTaken, Leads
<1>2. /\ Len(word) = Len(w) - (k + 1) + 1 /\ Len(word) # 0
      /\ \A i \in 1..Len(w) - (k + 1) + 1 : word[i] = w[i + (k + 1) - 1]
  BY <1>1, SliceOf
<1>3. k + 1 \in 1..Len(w) /\ w[k + 1] = "-"
  BY <1>1, <1>2
<1>4. k + 1 \in Leads(w)
  <2>1. \A i \in 1..k + 1 : i \in 1..k \/ i = k + 1
    BY <1>1
  <2>2. \A i \in 1..k : w[i] = "-" \/ (i = 1 /\ w[i] = Quote)
    BY DEF DashesTaken, Leads
  <2>3. k + 1 \in 0..Len(w)
    BY <1>3
  <2>. QED
    BY <2>1, <2>2, <2>3, <1>3 DEF Leads
<1>5. Tail(word) = SubSeq(w, (k + 1) + 1, Len(w))
  <2>0. PICK m : m = (k + 1) + 1
    OBVIOUS
  <2>1. PICK u : u = SubSeq(w, m, Len(w))
    OBVIOUS
  <2>2. m \in 1..Len(w) + 1 /\ Len(w) \in m - 1..Len(w)
    BY <2>0, <1>1, <1>3
  <2>3. /\ u \in Seq(STRING) /\ Len(u) = Len(w) - m + 1
        /\ \A i \in 1..Len(w) - m + 1 : u[i] = w[i + m - 1]
    BY <2>1, <2>2, SliceOf
  <2>4. PICK v : v = Tail(word)
    OBVIOUS
  <2>5. v \in Seq(STRING) /\ Len(v) = Len(word) - 1 /\ \A i \in 1..Len(word) - 1 : v[i] = word[i + 1]
    BY <2>4, <1>2
  <2>6. ASSUME NEW i \in 1..Len(v) PROVE v[i] = u[i]
    <3>1. i + 1 \in 1..Len(w) - (k + 1) + 1 /\ i \in 1..Len(word) - 1
          /\ i \in 1..Len(w) - m + 1
          /\ (i + 1) + (k + 1) - 1 = i + m - 1
      BY <2>0, <2>5, <1>1, <1>2
    <3>. QED
      BY <3>1, <2>3, <2>5, <1>2
  <2>7. Len(v) = Len(u)
    <3>1. Len(v) = Len(w) - k - 1
      BY <2>5, <1>1, <1>2
    <3>2. Len(u) = Len(w) - k - 1
      BY <2>0, <2>3, <1>1
    <3>. QED
      BY <3>1, <3>2
  <2>8. v = u
    BY <2>3, <2>5, <2>6, <2>7, SameElements
  <2>. QED
    BY <2>0, <2>1, <2>4, <2>8
<1>6. k + 1 # 0
  BY <1>1
<1>. QED
  BY <1>4, <1>5, <1>6 DEF DashesTaken

LEMMA AllDashesTaken ==
  ASSUME NEW w \in Seq(STRING), NEW word \in Seq(STRING), NEW k, DashesTaken(w, k, word),
         ~(word # <<>> /\ word[1] = "-")
  PROVE  k = Max(Leads(w))
<1>1. k \in 0..Len(w) /\ Len(w) \in Nat /\ word = SubSeq(w, k + 1, Len(w)) /\ k \in Leads(w)
  BY DEF DashesTaken, Leads
<1>2. PICK j : j = Max(Leads(w))
  OBVIOUS
<1>3. j \in Leads(w) /\ j >= k /\ j \in 0..Len(w)
  BY <1>1, <1>2, LeadsAreNumbers
<1>4. ASSUME j # k PROVE FALSE
  <2>1. k + 1 \in 1..j /\ Len(w) >= k + 1
    BY <1>1, <1>3, <1>4
  <2>2. w[k + 1] = "-" \/ (k + 1 = 1 /\ w[k + 1] = Quote)
    BY <2>1, <1>3 DEF Leads
  <2>3. word # <<>> /\ word[1] = w[k + 1]
    <3>1. Len(word) = Len(w) - (k + 1) + 1 /\ \A i \in 1..Len(w) - (k + 1) + 1 : word[i] = w[i + (k + 1) - 1]
      BY <1>1, SliceOf
    <3>2. Len(word) # 0 /\ 1 \in 1..Len(w) - (k + 1) + 1 /\ 1 + (k + 1) - 1 = k + 1
      BY <3>1, <2>1, <1>1
    <3>. QED
      BY <3>1, <3>2
  <2>4. k = 0 /\ word[1] = Quote
    BY <2>2, <2>3, <1>1
  <2>. QED
    BY <2>3, <2>4 DEF DashesTaken
<1>. QED
  BY <1>2, <1>4

(* Of the options of w those from t on have been taken.                    *)
OptionsRead(w, t, word, m, p) ==
  t \in Tails(w, Max(Leads(w))) /\ Reads(w, Max(Leads(w)), t, word, m, p)

LEMMA NoOptionYet ==
  ASSUME NEW w \in Seq(STRING), NEW word, word = SubSeq(w, Max(Leads(w)) + 1, Len(w))
  PROVE  OptionsRead(w, Len(w) + 1, word, 0, 0)
<1>1. PICK lead, t : lead = Max(Leads(w)) /\ t = Len(w) + 1
  OBVIOUS
<1>2. lead \in 0..Len(w) /\ Len(w) \in Nat
  BY <1>1, LeadsAreNumbers
<1>3. \A c : Count(w, t, c) = 0
  BY <1>1, CountNothing
<1>4. t \in Tails(w, lead)
  <2>1. t \in lead + 1..Len(w) + 1 /\ \A i \in t..Len(w) : FALSE
    BY <1>1, <1>2
  <2>. QED
    BY <2>1, <1>3 DEF Tails
<1>5. Reads(w, lead, t, word, 0, 0)
  <2>1. t - 1 = Len(w)
    BY <1>1, <1>2
  <2>. QED
    BY <2>1, <1>1, <1>3 DEF Reads
<1>. QED
  BY <1>1, <1>4, <1>5 DEF OptionsRead

(* The last of the word's letters is the one in front of the options.      *)
EndsAt(w, lead, s, word) ==
  /\ (word # <<>>) <=> (s # lead)
  /\ word # <<>> => /\ s \in lead + 1..Len(w) + 1 /\ s \in 1..Len(w)
                    /\ Last(word) = w[s] /\ Front(word) = SubSeq(w, lead + 1, s - 1)

LEMMA EndOfWord ==
  ASSUME NEW w \in Seq(STRING), NEW lead \in 0..Len(w), NEW s \in lead..Len(w),
         NEW word, word = SubSeq(w, lead + 1, s)
  PROVE  EndsAt(w, lead, s, word)
<1>0. Len(w) \in Nat /\ lead + 1 \in 1..Len(w) + 1 /\ s \in (lead + 1) - 1..Len(w)
  OBVIOUS
<1>1. /\ word \in Seq(STRING) /\ Len(word) = s - (lead + 1) + 1
      /\ \A i \in 1..s - (lead + 1) + 1 : word[i] = w[i + (lead + 1) - 1]
  BY <1>0, SliceOf
<1>2. PICK n : n = s - lead
  OBVIOUS
<1>3. n \in Nat /\ Len(word) = n /\ \A i \in 1..n : word[i] = w[i + lead]
  <2>1. s - (lead + 1) + 1 = n /\ n \in Nat
    BY <1>0, <1>2
  <2>2. \A i \in 1..n : i + (lead + 1) - 1 = i + lead
    BY <1>0
  <2>. QED
    BY <2>1, <2>2, <1>1
<1>4. (word # <<>>) <=> (n # 0)
  BY <1>1, <1>3
<1>5. ASSUME n # 0
      PROVE  /\ s \in lead + 1..Len(w) + 1 /\ s \in 1..Len(w)
             /\ Last(word) = w[s] /\ Front(word) = SubSeq(w, lead + 1, s - 1)
  <2>1. s \in lead + 1..Len(w) + 1 /\ s \in 1..Len(w)
    <3>1. s # lead
      BY <1>2, <1>5
    <3>. QED
      BY <3>1, <1>0
  <2>2. Last(word) = w[s]
    <3>0. s \in Int /\ lead \in Int
      BY <1>0
    <3>1. n \in 1..n /\ n + lead = s
      BY <3>0, <1>2, <1>3, <1>5
    <3>2. word[n] = w[s]
      BY <3>1, <1>3
    <3>. QED
      BY <3>2, <1>3 DEF Last
  <2>3. Front(word) = SubSeq(w, lead + 1, s - 1)
    <3>1. PICK b : b = s - 1
      OBVIOUS
    <3>2. PICK u, v : u = SubSeq(w, lead + 1, b) /\ v = SubSeq(word, 1, n - 1)
      OBVIOUS
    <3>3. b \in (lead + 1) - 1..Len(w) /\ n - 1 \in 0..Len(word) /\ b - (lead + 1) + 1 = n - 1
      BY <3>1, <1>0, <1>2, <1>3, <2>1
    <3>4. /\ u \in Seq(STRING) /\ Len(u) = n - 1
          /\ \A i \in 1..n - 1 : u[i] = w[i + (lead + 1) - 1]
      BY <3>2, <3>3, <1>0, SliceOf
    <3>5. v \in Seq(STRING) /\ Len(v) = n - 1 /\ \A i \in 1..n - 1 : v[i] = word[i]
      BY <3>2, <3>3, <1>1, FrontOf
    <3>6. \A i \in 1..n - 1 : i \in 1..n /\ i + (lead + 1) - 1 = i + lead
      BY <1>0, <1>3
    <3>7. \A i \in 1..n - 1 : u[i] = v[i]
      BY <3>4, <3>5, <3>6, <1>3
    <3>8. u = v
      BY <3>4, <3>5, <3>7, SameElements
    <3>. QED
      BY <3>1, <3>2, <3>8, <1>3 DEF Front
  <2>. QED
    BY <2>1, <2>2, <2>3
<1>6. (n # 0) <=> (s # lead)
  BY <1>0, <1>2
<1>. QED
  BY <1>4, <1>5, <1>6 DEF EndsAt

LEMMA OneMoreOption ==
  ASSUME NEW w \in Seq(STRING), NEW t, NEW word, NEW m, NEW p, OptionsRead(w, t, word, m, p),
         word # <<>>,
         NEW m1, NEW p1,
         \/ Last(word) = "?" /\ m < 3 /\ m1 = m + 1 /\ p1 = p
         \/ Last(word) = "+" /\ p < 1 /\ m1 = m /\ p1 = p + 1
  PROVE  OptionsRead(w, t - 1, Front(word), m1, p1)
<1>1. PICK lead, s : lead = Max(Leads(w)) /\ s = t - 1
  OBVIOUS
<1>2. lead \in 0..Len(w) /\ Len(w) \in Nat
  BY <1>1, LeadsAreNumbers
<1>3. /\ t \in lead + 1..Len(w) + 1 /\ (\A i \in t..Len(w) : w[i] \in {"?", "+"})
      /\ Count(w, t, "?") <= 3 /\ Count(w, t, "+") <= 1
      /\ word = SubSeq(w, lead + 1, t - 1) /\ m = Count(w, t, "?") /\ p = Count(w, t, "+")
  BY <1>1 DEF OptionsRead, Tails, Reads
<1>4. /\ s \in lead + 1..Len(w) + 1 /\ s \in 1..Len(w)
      /\ Last(word) = w[s] /\ Front(word) = SubSeq(w, lead + 1, s - 1)
  <2>1. s \in lead..Len(w) /\ word = SubSeq(w, lead + 1, s)
    BY <1>1, <1>2, <1>3
  <2>2. EndsAt(w, lead, s, word)
    BY <2>1, <1>2, EndOfWord
  <2>. QED
    BY <2>2 DEF EndsAt
<1>5. s + 1 = t /\ t \in 1..Len(w) + 1
  BY <1>1, <1>2, <1>3
<1>6. m \in Nat /\ p \in Nat
  BY <1>3, <1>5, CountType
<1>7. Count(w, s, "?") = m1 /\ Count(w, s, "+") = p1
  <2>1. /\ Count(w, s, "?") = m + (IF w[s] = "?" THEN 1 ELSE 0)
        /\ Count(w, s, "+") = p + (IF w[s] = "+" THEN 1 ELSE 0)
    BY <1>3, <1>4, <1>5, CountOneMore
  <2>2. CASE Last(word) = "?" /\ m < 3 /\ m1 = m + 1 /\ p1 = p
    BY <2>1, <2>2, <1>4, <1>6
  <2>3. CASE Last(word) = "+" /\ p < 1 /\ m1 = m /\ p1 = p + 1
    BY <2>1, <2>3, <1>4, <1>6
  <2>. QED
    BY <2>2, <2>3
<1>8. m1 <= 3 /\ p1 <= 1
  BY <1>3, <1>6
<1>9. \A i \in s..Len(w) : w[i] \in {"?", "+"}
  <2>1. \A i \in s..Len(w) : i = s \/ i \in t..Len(w)
    BY <1>2, <1>5, <1>4
  <2>. QED
    BY <2>1, <1>3, <1>4
<1>10. s \in Tails(w, lead)
  BY <1>4, <1>7, <1>8, <1>9 DEF Tails
<1>11. Reads(w, lead, s, Front(word), m1, p1)
  BY <1>4, <1>7 DEF Reads
<1>. QED
  BY <1>1, <1>10, <1>11 DEF OptionsRead

LEMMA AllOptionsRead ==
  ASSUME NEW w \in Seq(STRING), NEW t, NEW word, NEW m, NEW p, OptionsRead(w, t, word, m, p),
         ~(word # <<>> /\ Last(word) = "?" /\ m < 3),
         ~(word # <<>> /\ Last(word) = "+" /\ p < 1)
  PROVE  t = Min(Tails(w, Max(Leads(w))))
<1>1. PICK lead, T : lead = Max(Leads(w)) /\ T = Tails(w, lead)
  OBVIOUS
<1>2. lead \in 0..Len(w) /\ Len(w) \in Nat
  BY <1>1, LeadsAreNumbers
<1>3. /\ t \in lead + 1..Len(w) + 1 /\ t \in T
      /\ word = SubSeq(w, lead + 1, t - 1) /\ m = Count(w, t, "?") /\ p = Count(w, t, "+")
  BY <1>1 DEF OptionsRead, Tails, Reads
<1>4. T \in SUBSET Nat
  BY <1>1, <1>2 DEF Tails
<1>5. PICK u : u = Min(T)
  OBVIOUS
<1>6. u \in T /\ u <= t
  BY <1>3, <1>4, <1>5, LeastMember
<1>7. /\ u \in lead + 1..Len(w) + 1 /\ (\A i \in u..Len(w) : w[i] \in {"?", "+"})
      /\ Count(w, u, "?") <= 3 /\ Count(w, u, "+") <= 1
  BY <1>1, <1>6 DEF Tails
<1>8. ASSUME u # t PROVE FALSE
  <2>1. PICK s : s = t - 1
    OBVIOUS
  <2>2. s \in u..Len(w) /\ u \in 1..s /\ s + 1 = t /\ t # lead + 1
    BY <2>1, <1>2, <1>3, <1>6, <1>7, <1>8
  <2>3. word # <<>> /\ Last(word) = w[s] /\ s \in 1..Len(w) /\ s \in 1..Len(w) + 1
    <3>1. s \in lead..Len(w) /\ word = SubSeq(w, lead + 1, s) /\ s # lead
      BY <2>1, <2>2, <1>2, <1>3
    <3>a. EndsAt(w, lead, s, word)
      BY <3>1, <1>2, EndOfWord
    <3>2. word # <<>> /\ Last(word) = w[s] /\ s \in 1..Len(w)
      BY <3>1, <3>a DEF EndsAt
    <3>. QED
      BY <3>2, <1>2
  <2>4. w[s] \in {"?", "+"}
    BY <2>2, <1>7
  <2>5. \A c : Count(w, s, c) <= Count(w, u, c)
    BY <2>2, <2>3, CountGrows
  <2>6. \A c : Count(w, s, c) = Count(w, t, c) + (IF w[s] = c THEN 1 ELSE 0)
    BY <2>2, <2>3, CountOneMore
  <2>7. \A c : Count(w, t, c) \in Nat /\ Count(w, s, c) \in Nat /\ Count(w, u, c) \in Nat
    <3>1. t \in 1..Len(w) + 1 /\ u \in 1..Len(w) + 1
      BY <1>2, <1>3, <1>7
    <3>. QED
      BY <3>1, <2>3, CountType
  <2>8. CASE w[s] = "?"
    <3>1. Count(w, s, "?") = m + 1 /\ Count(w, s, "?") <= 3 /\ m \in Nat
      BY <2>5, <2>6, <2>7, <2>8, <1>3, <1>7
    <3>2. m < 3
      BY <3>1
    <3>. QED
      BY <3>2, <2>3, <2>8
  <2>9. CASE w[s] = "+"
    <3>1. Count(w, s, "+") = p + 1 /\ Count(w, s, "+") <= 1 /\ p \in Nat
      BY <2>5, <2>6, <2>7, <2>9, <1>3, <1>7
    <3>2. p < 1
      BY <3>1
    <3>. QED
      BY <3>2, <2>3, <2>9
  <2>. QED
    BY <2>4, <2>8, <2>9
<1>. QED
  BY <1>1, <1>5, <1>8

-----------------------------------------------------------------------------
(* What is looked for.                                                     *)

Typing ==
  /\ pc = "quote" => token = cursor_word
  /\ pc \in {"quote", "dashes"} => marks = 0 /\ pluses = 0
  /\ pc = "dashes" => \E k : DashesTaken(cursor_word, k, token)
  /\ pc = "options" => \E t : OptionsRead(cursor_word, t, token, marks, pluses)
  /\ pc \notin {"quote", "dashes", "options"} =>
        token = Typed.token /\ marks = Typed.marks /\ pluses = Typed.pluses

LEMMA WordType == TypeOK => cursor_word \in Seq(STRING) /\ token \in Seq(STRING)
BY CompletionsAssumption DEF TypeOK

LEMMA TypingInit == Init => Typing
BY DEF Init, Typing

LEMMA OneQuote ==
  ASSUME NEW w \in Seq(STRING), w # <<>>, w[1] = Quote PROVE DashesTaken(w, 1, Tail(w))
<1>1. Len(w) \in Nat /\ Len(w) # 0
  OBVIOUS
<1>2. 1 \in Leads(w)
  <2>1. 1 \in 0..Len(w) /\ \A i \in 1..1 : i = 1
    BY <1>1
  <2>. QED
    BY <2>1 DEF Leads
<1>3. Tail(w) = SubSeq(w, 1 + 1, Len(w))
  <2>1. PICK u, v : u = SubSeq(w, 2, Len(w)) /\ v = Tail(w)
    OBVIOUS
  <2>2. /\ 2 \in 1..Len(w) + 1 /\ Len(w) \in 2 - 1..Len(w)
        /\ \A i \in 1..Len(w) - 2 + 1 : i + 2 - 1 = i + 1
        /\ Len(w) - 2 + 1 = Len(w) - 1
    BY <1>1
  <2>3. /\ u \in Seq(STRING) /\ Len(u) = Len(w) - 2 + 1
        /\ \A i \in 1..Len(w) - 2 + 1 : u[i] = w[i + 2 - 1]
    BY <2>1, <2>2, SliceOf
  <2>4. v \in Seq(STRING) /\ Len(v) = Len(w) - 1 /\ \A i \in 1..Len(w) - 1 : v[i] = w[i + 1]
    BY <2>1, <1>1
  <2>5. u = v
    BY <2>2, <2>3, <2>4, SameElements
  <2>. QED
    BY <2>1, <2>5
<1>. QED
  BY <1>2, <1>3 DEF DashesTaken

LEMMA NoQuote ==
  ASSUME NEW w \in Seq(STRING), w # <<>> => w[1] # Quote PROVE DashesTaken(w, 0, w)
<1>1. 0 \in Leads(w)
  BY LeadsAreNumbers
<1>2. w = SubSeq(w, 0 + 1, Len(w))
  <2>1. SubSeq(w, 1, Len(w)) = w
    BY FrontOf, SameElements
  <2>. QED
    BY <2>1
<1>. QED
  BY <1>1, <1>2 DEF DashesTaken

LEMMA TypingStep == TypeOK /\ Typing /\ [Next]_vars => Typing'
<1> SUFFICES ASSUME TypeOK, Typing, [Next]_vars PROVE Typing'
  OBVIOUS
<1>0. PICK w, word, m, p : w = cursor_word /\ word = token /\ m = marks /\ p = pluses
  OBVIOUS
<1>a. w \in Seq(STRING) /\ word \in Seq(STRING) /\ m \in 0..3 /\ p \in 0..1
  BY <1>0, WordType DEF TypeOK
<1>1. CASE StripQuote
  <2>1. /\ pc' = "dashes" /\ cursor_word' = w /\ marks' = 0 /\ pluses' = 0 /\ word = w
        /\ token' = IF w # <<>> /\ w[1] = Quote THEN Tail(w) ELSE w
    BY <1>0, <1>1 DEF StripQuote, Typing, input
  <2>2. \E k : DashesTaken(w, k, token')
    <3>1. CASE w # <<>> /\ w[1] = Quote
      BY <3>1, <2>1, <1>a, OneQuote
    <3>2. CASE ~(w # <<>> /\ w[1] = Quote)
      <4>1. DashesTaken(w, 0, w)
        BY <3>2, <1>a, NoQuote
      <4>. QED
        BY <4>1, <3>2, <2>1
    <3>. QED
      BY <3>1, <3>2
  <2>. QED
    BY <2>1, <2>2 DEF Typing
<1>2. CASE StripDash
  <2>1. PICK k : DashesTaken(w, k, word)
    BY <1>0, <1>2 DEF StripDash, Typing
  <2>2. cursor_word' = w /\ marks' = 0 /\ pluses' = 0
    BY <1>0, <1>2 DEF StripDash, Typing, input
  <2>3. CASE word # <<>> /\ word[1] = "-"
    <3>1. token' = Tail(word) /\ pc' = "dashes"
      BY <1>0, <1>2, <2>3 DEF StripDash
    <3>2. DashesTaken(w, k + 1, Tail(word))
      BY <2>1, <2>3, <1>a, OneMoreDash
    <3>. QED
      BY <3>1, <3>2, <2>2 DEF Typing
  <2>4. CASE ~(word # <<>> /\ word[1] = "-")
    <3>1. token' = word /\ pc' = "options"
      BY <1>0, <1>2, <2>4 DEF StripDash
    <3>2. k = Max(Leads(w))
      BY <2>1, <2>4, <1>a, AllDashesTaken
    <3>3. word = SubSeq(w, Max(Leads(w)) + 1, Len(w))
      BY <2>1, <3>2 DEF DashesTaken
    <3>4. OptionsRead(w, Len(w) + 1, word, 0, 0)
      BY <3>3, <1>a, NoOptionYet
    <3>. QED
      BY <3>1, <3>4, <2>2 DEF Typing
  <2>. QED
    BY <2>3, <2>4
<1>3. CASE TakeQuestionMark \/ TakePlus
  <2>1. PICK t : OptionsRead(w, t, word, m, p)
    BY <1>0, <1>3 DEF TakeQuestionMark, TakePlus, Typing
  <2>2. /\ pc' = "options" /\ cursor_word' = w /\ word # <<>> /\ token' = Front(word)
        /\ \/ Last(word) = "?" /\ m < 3 /\ marks' = m + 1 /\ pluses' = p
           \/ Last(word) = "+" /\ p < 1 /\ marks' = m /\ pluses' = p + 1
    <3>1. CASE TakeQuestionMark
      BY <1>0, <3>1 DEF TakeQuestionMark, CanTake, RemoveTrailingChar, input
    <3>2. CASE TakePlus
      BY <1>0, <3>2 DEF TakePlus, CanTake, RemoveTrailingChar, input
    <3>. QED
      BY <1>3, <3>1, <3>2
  <2>3. PICK m1, p1 : m1 = marks' /\ p1 = pluses'
    OBVIOUS
  <2>4. OptionsRead(w, t - 1, Front(word), m1, p1)
    BY <2>1, <2>2, <2>3, <1>a, OneMoreOption
  <2>. QED
    BY <2>2, <2>3, <2>4 DEF Typing
<1>4. CASE OptionsTaken
  <2>1. PICK t : OptionsRead(w, t, word, m, p)
    BY <1>0, <1>4 DEF OptionsTaken, Typing
  <2>2. pc' = "match" /\ cursor_word' = w /\ token' = word /\ marks' = m /\ pluses' = p
    BY <1>0, <1>4 DEF OptionsTaken, input, search
  <2>3. /\ ~(word # <<>> /\ Last(word) = "?" /\ m < 3)
        /\ ~(word # <<>> /\ Last(word) = "+" /\ p < 1)
    BY <1>0, <1>4 DEF OptionsTaken, CanTake
  <2>4. t = Min(Tails(w, Max(Leads(w))))
    BY <2>1, <2>3, <1>a, AllOptionsRead
  <2>5. Reads(w, Max(Leads(w)), t, word, m, p)
    BY <2>1 DEF OptionsRead
  <2>6. Reads(w, Max(Leads(w)), t, Typed.token, Typed.marks, Typed.pluses)
    BY <2>4, <1>0, TypedMeans
  <2>7. word = Typed.token /\ m = Typed.marks /\ p = Typed.pluses
    BY <2>5, <2>6 DEF Reads
  <2>8. Typed' = Typed
    BY <2>2, <1>0 DEF Typed
  <2>. QED
    BY <2>2, <2>7, <2>8 DEF Typing
<1>5. CASE \/ FindMatchingFlags \/ PrintCommonPrefix \/ PrintNothing
           \/ TryFindModuleAndPackageDir \/ CategorizeAllMatchingFlags
           \/ ChooseGroup \/ GroupsChosen
           \/ OutputHeader \/ OutputFlag \/ OutputFooter \/ LastLine
  <2>1. /\ pc \notin {"quote", "dashes", "options"} /\ pc' \notin {"quote", "dashes", "options"}
        /\ cursor_word' = cursor_word /\ token' = token /\ marks' = marks /\ pluses' = pluses
    BY <1>5 DEF FindMatchingFlags, PrintCommonPrefix, PrintNothing, TryFindModuleAndPackageDir,
                CategorizeAllMatchingFlags, ChooseGroup, GroupsChosen, OutputHeader, OutputFlag,
                OutputFooter, LastLine, input, search
  <2>2. Typed' = Typed
    BY <2>1 DEF Typed
  <2>. QED
    BY <2>1, <2>2 DEF Typing
<1>6. CASE UNCHANGED vars
  <2>1. /\ cursor_word' = cursor_word /\ token' = token /\ marks' = marks /\ pluses' = pluses
        /\ pc' = pc
    BY <1>6 DEF vars, input, search
  <2>2. Typed' = Typed
    BY <2>1 DEF Typed
  <2>. QED
    BY <2>1, <2>2 DEF Typing
<1>. QED
  BY <1>1, <1>2, <1>3, <1>4, <1>5, <1>6 DEF Next, Step, Exited

(* The prefix offered is one of all the names, and no longer one is.       *)
Common(F, p) ==
  /\ \A f \in F : IsPrefix(p, all_flags[f].name)
  /\ F # {} => \E f, g \in F : Diverge(p, all_flags[f].name, all_flags[g].name)

LEMMA CommonMeans ==
  ASSUME matching_flags # {}, Common(matching_flags, common)
  PROVE  /\ \A name \in Names(matching_flags) : IsPrefix(common, name)
         /\ \E m, n \in Names(matching_flags) :
                \/ common \in {m, n}
                \/ m[Len(common) + 1] # n[Len(common) + 1]
<1>1. \A name \in Names(matching_flags) : IsPrefix(common, name)
  BY DEF Common, Names
<1>2. PICK f \in matching_flags, g \in matching_flags :
         Diverge(common, all_flags[f].name, all_flags[g].name)
  BY DEF Common
<1>3. all_flags[f].name \in Names(matching_flags) /\ all_flags[g].name \in Names(matching_flags)
  BY DEF Names
<1>. QED
  BY <1>1, <1>2, <1>3 DEF Diverge

LEMMA PrefixOfPrefix ==
  ASSUME NEW a \in Seq(STRING), NEW b \in Seq(STRING), NEW c \in Seq(STRING),
         IsPrefix(a, b), IsPrefix(b, c)
  PROVE  IsPrefix(a, c) /\ (Len(a) < Len(b) => b[Len(a) + 1] = c[Len(a) + 1])
<1>1. Len(a) \in Nat /\ Len(b) \in Nat /\ Len(c) \in Nat
  OBVIOUS
<1>2. /\ Len(a) <= Len(b) /\ (\A i \in 1..Len(a) : a[i] = b[i])
      /\ Len(b) <= Len(c) /\ (\A i \in 1..Len(b) : b[i] = c[i])
  BY PrefixMeans
<1>3. Len(a) <= Len(c) /\ \A i \in 1..Len(a) : i \in 1..Len(b)
  BY <1>1, <1>2
<1>4. IsPrefix(a, c)
  BY <1>2, <1>3, PrefixMeans
<1>5. Len(a) < Len(b) => Len(a) + 1 \in 1..Len(b)
  BY <1>1
<1>. QED
  BY <1>2, <1>4, <1>5

LEMMA OneMoreMatch ==
  ASSUME TypeOK, Common(matching_flags, common), NEW f \in 1..Len(all_flags),
         NEW name, name = all_flags[f].name
  PROVE  Common(matching_flags \cup {f}, IF matching_flags = {} THEN name
                                         ELSE LongestCommonPrefix({common, name}))
<1>0. name \in Seq(STRING) /\ common \in Seq(STRING)
  BY FlagType DEF TypeOK
<1> DEFINE Name(g) == all_flags[g].name
<1>1. \A g \in matching_flags : Name(g) \in Seq(STRING) /\ IsPrefix(common, Name(g))
  BY FlagType DEF TypeOK, Common
<1>a. IsPrefix(name, name)
  BY <1>0 DEF IsPrefix
<1>2. CASE matching_flags = {}
  <2>1. Diverge(name, name, name)
    BY <1>0, <1>a DEF Diverge
  <2>2. Common({f}, name)
    BY <2>1, <1>a DEF Common
  <2>. QED
    BY <2>2, <1>2
<1>3. CASE matching_flags # {}
  <2>1. PICK p : p = LongestCommonPrefix({common, name})
    OBVIOUS
  <2>2. /\ p \in Seq(STRING) /\ IsPrefix(p, common) /\ IsPrefix(p, name)
        /\ p = common \/ p = name \/ common[Len(p) + 1] # name[Len(p) + 1]
    BY <2>1, <1>0, LongestPrefix DEF Diverge
  <2>3. \A g \in matching_flags : IsPrefix(p, Name(g))
    BY <2>2, <1>0, <1>1, PrefixOfPrefix
  <2>4. \A g \in matching_flags \cup {f} : IsPrefix(p, Name(g))
    BY <2>2, <2>3
  <2>5. \E g, h \in matching_flags \cup {f} : Diverge(p, Name(g), Name(h))
    <3>1. CASE p = common
      BY <3>1, <1>3 DEF Common
    <3>2. CASE p = name
      <4>1. Diverge(p, Name(f), Name(f))
        BY <3>2, <2>2 DEF Diverge
      <4>. QED
        BY <4>1
    <3>3. CASE p # common /\ p # name
      <4>1. PICK g \in matching_flags : TRUE
        BY <1>3
      <4>2. Len(p) < Len(common)
        <5>1. Len(p) <= Len(common) /\ \A i \in 1..Len(p) : p[i] = common[i]
          BY <2>2, <1>0, PrefixMeans
        <5>2. Len(p) # Len(common)
          BY <5>1, <3>3, <2>2, <1>0, SameElements
        <5>3. Len(p) \in Nat /\ Len(common) \in Nat
          BY <2>2, <1>0
        <5>. QED
          BY <5>1, <5>2, <5>3
      <4>3. common[Len(p) + 1] = Name(g)[Len(p) + 1]
        BY <4>2, <2>2, <1>0, <1>1, PrefixOfPrefix
      <4>4. Diverge(p, Name(g), Name(f))
        BY <4>3, <3>3, <2>2, <2>3 DEF Diverge
      <4>. QED
        BY <4>4
    <3>. QED
      BY <3>1, <3>2, <3>3
  <2>6. Common(matching_flags \cup {f}, p)
    BY <2>4, <2>5 DEF Common
  <2>. QED
    BY <2>1, <2>6, <1>3
<1>. QED
  BY <1>2, <1>3

LEMMA CommonStep ==
  TypeOK /\ Common(matching_flags, common) /\ [Next]_vars => Common(matching_flags, common)'
<1> SUFFICES ASSUME TypeOK, Common(matching_flags, common), [Next]_vars
             PROVE  Common(matching_flags, common)'
  OBVIOUS
<1>1. all_flags' = all_flags
  BY DEF Next, Step, Exited, vars, StripQuote, StripDash, TakeQuestionMark, TakePlus, OptionsTaken,
     FindMatchingFlags, PrintCommonPrefix, PrintNothing, TryFindModuleAndPackageDir,
     CategorizeAllMatchingFlags, ChooseGroup, GroupsChosen, OutputHeader, OutputFlag,
     OutputFooter, LastLine, input
<1>2. \A F, p : Common(F, p)' <=> Common(F, p)
  BY <1>1, Zenon DEF Common
<1>3. PICK F, p : F = matching_flags' /\ p = common'
  OBVIOUS
<1>4. CASE FindMatchingFlags /\ DoesSingleFlagMatch(all_flags[next])
  <2>1. PICK f, name : f = next /\ name = all_flags[f].name
    OBVIOUS
  <2>2. f \in 1..Len(all_flags)
    BY <2>1, <1>4, FlagType DEF FindMatchingFlags, TypeOK
  <2>3. /\ F = matching_flags \cup {f}
        /\ p = IF matching_flags = {} THEN name ELSE LongestCommonPrefix({common, name})
    BY <2>1, <1>3, <1>4 DEF FindMatchingFlags
  <2>4. Common(F, p)
    BY <2>1, <2>2, <2>3, OneMoreMatch
  <2>. QED
    BY <2>4, <1>2, <1>3
<1>5. CASE UNCHANGED <<matching_flags, common>>
  BY <1>2, <1>5
<1>6. \/ UNCHANGED <<matching_flags, common>>
      \/ FindMatchingFlags /\ DoesSingleFlagMatch(all_flags[next])
  BY DEF Next, Step, Exited, vars, StripQuote, StripDash, TakeQuestionMark, TakePlus, OptionsTaken,
     FindMatchingFlags, PrintCommonPrefix, PrintNothing, TryFindModuleAndPackageDir,
     CategorizeAllMatchingFlags, ChooseGroup, GroupsChosen, OutputHeader, OutputFlag,
     OutputFooter, LastLine, searching
<1>. QED
  BY <1>4, <1>5, <1>6

LEMMA CommonInit == Init => Common(matching_flags, common)
BY DEF Init, Common

(* What the word typed asks for is what is looked for, in whatever order   *)
(* its marks stand, and the prefix offered is the longest that all the     *)
(* matching names have (gflags_completions.cc:235-290 and :348).           *)
THEOREM SearchMeansWhatWasTypedHolds == Spec => []SearchMeansWhatWasTyped
<1>1. Typing /\ Common(matching_flags, common) => SearchMeansWhatWasTyped
  BY CommonMeans DEF Typing, SearchMeansWhatWasTyped
<1>. QED
  BY <1>1, TypeInit, TypeStep, TypingInit, TypingStep, CommonInit, CommonStep, PTL DEF Spec

=============================================================================
