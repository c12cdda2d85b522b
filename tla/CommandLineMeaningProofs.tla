---------------------- MODULE CommandLineMeaningProofs ----------------------
(***************************************************************************)
(* Proofs that the parser does what a command line means, for every set of *)
(* flags, flag files, environments and command lines: what was done so far *)
(* followed by what the stack and the rest of argv still hold is what the   *)
(* whole command line means.  Then, from what a command line means, that   *)
(* parsing it again changes nothing.                                       *)
(***************************************************************************)
EXTENDS CommandLineMeaning, CommandLineParserProofs

-----------------------------------------------------------------------------
(* Events, and the world they depend on.                                   *)
Deed == [kind : {"set"}, name : Name, text : Text] \cup [kind : {"fail", "unknown"}, name : Name]

Event == Deed \cup {Die}

SplitResult == [flag : Name \cup {NULL}, key : Name, value : Text \cup {NULL}]

WorldOK(w) ==
  /\ w.split \in [Name -> [Text \cup {NULL} -> SplitResult]]
  /\ w.find \in [Name -> Name \cup {NULL}]
  /\ w.accepts \in [Name -> SUBSET Text]
  /\ \A n \in Name : \A text \in w.accepts[n] : Parse[n][text] \in Value
  /\ w.env \in [Name -> Text \cup {NULL}]

Levels == [file : [Text -> Seq(Event)], list : [Recursive -> [Value -> Seq(Event)]]]

LEMMA EventTypes ==
  /\ \A n \in Name, text \in Text : SetEvent(n, text) \in Deed /\ SetEvent(n, text) \in Event
  /\ \A n \in Name : Fail(n) \in Deed /\ Unknown(n) \in Deed
                     /\ Fail(n) \in Event /\ Unknown(n) \in Event
  /\ <<Die>> \in Seq(Event) /\ <<>> \in Seq(Event)
BY DEF SetEvent, Fail, Unknown, Die, Deed, Event

LEMMA WorldType ==
  ASSUME FlagsType, env \in [Name -> Text \cup {NULL}]
  PROVE  WorldOK(World)
<1>1. ASSUME NEW key \in Name, NEW value \in Text \cup {NULL}
      PROVE  SplitArgumentLocked(key, value) \in SplitResult
  <2>1. LET arg == SplitArgumentLocked(key, value)
        IN  /\ arg.key \in Name /\ arg.value \in Text \cup {NULL}
            /\ arg.flag # NULL => arg.flag \in Name /\ Registered(arg.flag)
            /\ arg.flag = NULL => ~Registered(arg.key)
    BY SplitType
  <2>2. \E f, k, v : SplitArgumentLocked(key, value) = [flag |-> f, key |-> k, value |-> v]
    BY DEF SplitArgumentLocked
  <2>3. PICK f, k, v : SplitArgumentLocked(key, value) = [flag |-> f, key |-> k, value |-> v]
    BY <2>2
  <2>. QED
    BY <2>1, <2>3 DEF SplitResult
<1>2. ASSUME NEW name \in Name PROVE FindFlagLocked(name) \in Name \cup {NULL}
  BY FindType
<1>3. ASSUME NEW n \in Name, NEW text \in Text, Acceptable(n, text)
      PROVE  Parse[n][text] \in Value
  BY <1>3, FlagAssumption DEF Acceptable, TryParseLocked
<1> HIDE DEF FlagsType
<1>. QED
  BY <1>1, <1>2, <1>3 DEF WorldOK, World

(* How the arguments and names of the world are resolved.                  *)
LEMMA WorldAt ==
  ASSUME NEW key \in Name, NEW value \in Text \cup {NULL}, NEW text \in Text
  PROVE  /\ World.split[key][value] = SplitArgumentLocked(key, value)
         /\ World.find[key] = FindFlagLocked(key)
         /\ text \in World.accepts[key] <=> Acceptable(key, text)
         /\ World.env = env
BY DEF World

-----------------------------------------------------------------------------
(* Meanings are sequences of events.                                       *)
LEMMA ProcessType ==
  ASSUME NEW w, WorldOK(w), NEW nested \in [Recursive -> [Value -> Seq(Event)]],
         NEW n \in Name, NEW text \in Text
  PROVE  Process(w, nested, n, text) \in Seq(Event)
<1>1. <<SetEvent(n, text)>> \in Seq(Event)
  BY EventTypes
<1>2. (IF n \in Recursive /\ text \in w.accepts[n] THEN nested[n][Parse[n][text]] ELSE <<>>)
        \in Seq(Event)
  BY EventTypes DEF WorldOK
<1>. QED
  BY <1>1, <1>2, ConcatProperties DEF Process

LEMMA OfLineType ==
  ASSUME NEW w, WorldOK(w), NEW nested \in [Recursive -> [Value -> Seq(Event)]],
         NEW line \in Line, NEW applies \in BOOLEAN
  PROVE  OfLine(w, nested, line, applies) \in Seq(Event)
<1>1. CASE line.kind # "flag" \/ ~applies
  BY <1>1, EventTypes DEF OfLine
<1>2. CASE line.kind = "flag" /\ applies
  <2>1. line.key \in Name /\ line.value \in Text \cup {NULL}
    BY <1>2 DEF Line, FlagArgument
  <2>2. w.split[line.key][line.value] \in SplitResult
    BY <2>1 DEF WorldOK
  <2>3. PICK arg \in SplitResult : arg = w.split[line.key][line.value]
    BY <2>2
  <2>4. OfLine(w, nested, line, applies)
          = IF arg.flag = NULL \/ arg.value = NULL THEN <<>>
            ELSE Process(w, nested, arg.flag, arg.value)
    BY <1>2, <2>3 DEF OfLine
  <2>5. CASE arg.flag = NULL \/ arg.value = NULL
    BY <2>4, <2>5, EventTypes
  <2>6. CASE ~(arg.flag = NULL \/ arg.value = NULL)
    <3>1. arg.flag \in Name /\ arg.value \in Text
      BY <2>6 DEF SplitResult
    <3>. QED
      BY <2>4, <2>6, <3>1, ProcessType
  <2>. QED
    BY <2>5, <2>6
<1>. QED
  BY <1>1, <1>2

LEMMA OfFileType ==
  ASSUME NEW w, WorldOK(w), NEW nested \in [Recursive -> [Value -> Seq(Event)]], NEW f \in Text
  PROVE  OfFile(w, nested, f) \in Seq(Event)
<1>1. CASE Contents[f] = NULL
  BY <1>1, EventTypes DEF OfFile
<1>2. CASE Contents[f] # NULL
  <2>1. Contents[f] \in Seq(Line)
    BY <1>2, ParserAssumption
  <2>2. PICK lines \in Seq(Line) : lines = Contents[f]
    BY <2>1
  <2> DEFINE s == [i \in DOMAIN lines |-> OfLine(w, nested, lines[i], Applies(lines, i))]
  <2>3. ASSUME NEW i \in DOMAIN lines
        PROVE  OfLine(w, nested, lines[i], Applies(lines, i)) \in Seq(Event)
    <3>1. lines[i] \in Line
      BY ElementOfSeq, LenProperties
    <3>2. Applies(lines, i) \in BOOLEAN
      BY DEF Applies
    <3>. QED
      BY <3>1, <3>2, OfLineType
  <2>4. s \in Seq(Seq(Event))
    <3>1. DOMAIN lines = 1 .. Len(lines) /\ Len(lines) \in Nat
      BY LenProperties
    <3>. QED
      BY <2>3, <3>1
  <2>5. OfFile(w, nested, f) = FlattenSeq(s)
    BY <1>2, <2>2 DEF OfFile
  <2> HIDE DEF s
  <2>. QED
    BY <2>4, <2>5, FlattenType
<1>. QED
  BY <1>1, <1>2

LEMMA OfVariableType ==
  ASSUME NEW w, WorldOK(w), NEW nested \in [Recursive -> [Value -> Seq(Event)]],
         NEW name \in Name, NEW required \in BOOLEAN
  PROVE  OfVariable(w, nested, name, required) \in Seq(Event)
<1> DEFINE n == w.find[name]
<1>1. n \in Name \cup {NULL} /\ w.env[name] \in Text \cup {NULL}
  BY DEF WorldOK
<1>2. <<Unknown(name)>> \in Seq(Event) /\ <<Fail(name)>> \in Seq(Event) /\ <<>> \in Seq(Event)
  BY EventTypes
<1>3. n # NULL /\ w.env[name] # NULL => Process(w, nested, n, w.env[name]) \in Seq(Event)
  <2> HIDE DEF n
  <2>. QED
    BY <1>1, ProcessType
<1>. QED
  BY <1>1, <1>2, <1>3 DEF OfVariable

LEMMA OfEntryType ==
  ASSUME NEW w, WorldOK(w), NEW inner \in Levels, NEW n \in Recursive, NEW entry \in Text
  PROVE  OfEntry(w, inner, n, entry) \in Seq(Event)
BY OfVariableType, ParserAssumption DEF OfEntry, Levels

LEMMA OfListType ==
  ASSUME NEW w, WorldOK(w), NEW inner \in Levels, NEW n \in Recursive, NEW v \in Value
  PROVE  OfList(w, inner, n, v) \in Seq(Event)
<1>1. CASE Entries[v] = NULL
  BY <1>1, EventTypes DEF OfList
<1>2. CASE Entries[v] # NULL
  <2>1. Entries[v] \in Seq(Text)
    BY <1>2, ParserAssumption
  <2>2. PICK entries \in Seq(Text) : entries = Entries[v]
    BY <2>1
  <2> DEFINE s == [i \in DOMAIN entries |-> OfEntry(w, inner, n, entries[i])]
  <2>3. ASSUME NEW i \in DOMAIN entries PROVE OfEntry(w, inner, n, entries[i]) \in Seq(Event)
    <3>1. entries[i] \in Text
      BY ElementOfSeq, LenProperties
    <3>. QED
      BY <3>1, OfEntryType
  <2>4. s \in Seq(Seq(Event))
    <3>1. DOMAIN entries = 1 .. Len(entries) /\ Len(entries) \in Nat
      BY LenProperties
    <3>. QED
      BY <2>3, <3>1
  <2>5. OfList(w, inner, n, v) = FlattenSeq(s)
    BY <1>2, <2>2 DEF OfList
  <2> HIDE DEF s
  <2>. QED
    BY <2>4, <2>5, FlattenType
<1>. QED
  BY <1>1, <1>2

LEMMA LevelTypes ==
  ASSUME NEW w, WorldOK(w)
  PROVE  /\ Overflow \in Levels
         /\ \A inner \in Levels : OneMoreCall(w, inner) \in Levels
<1>1. Overflow \in Levels
  BY EventTypes DEF Overflow, Levels
<1>2. ASSUME NEW inner \in Levels PROVE OneMoreCall(w, inner) \in Levels
  <2>1. \A f \in Text : OfFile(w, inner.list, f) \in Seq(Event)
    <3>1. inner.list \in [Recursive -> [Value -> Seq(Event)]]
      BY DEF Levels
    <3>. QED
      BY <3>1, OfFileType
  <2>2. \A n \in Recursive, v \in Value : OfList(w, inner, n, v) \in Seq(Event)
    BY OfListType
  <2>. QED
    BY <2>1, <2>2 DEF OneMoreCall, Levels
<1>. QED
  BY <1>1, <1>2

(* Meaning is the function its recursive definition describes.             *)
LEMMA MeaningIs ==
  ASSUME NEW w, WorldOK(w)
  PROVE  /\ Meaning(w) \in [0 .. MaxDepth -> Levels] /\ Meaning(w)[0] = Overflow
         /\ \A d \in 1 .. MaxDepth : Meaning(w)[d] = OneMoreCall(w, Meaning(w)[d - 1])
<1> DEFINE Def(t) == t = [d \in 0 .. MaxDepth |->
                            IF d = 0 THEN Overflow ELSE OneMoreCall(w, t[d - 1])]
           G == [d \in 1 .. MaxDepth |-> [inner \in Levels |-> OneMoreCall(w, inner)]]
<1>1. G \in [1 .. MaxDepth -> [Levels -> Levels]]
  BY LevelTypes
<1>2. \A d \in 1 .. MaxDepth, inner \in Levels : G[d][inner] = OneMoreCall(w, inner)
  OBVIOUS
<1> HIDE DEF G
<1>3. PICK f \in [0 .. MaxDepth -> Levels] : Follows(f, MaxDepth, Overflow, G)
  BY <1>1, LevelTypes, RecursionExists, ParserAssumption
<1>4. Def(f)
  <2>1. ASSUME NEW d \in 0 .. MaxDepth
        PROVE  f[d] = IF d = 0 THEN Overflow ELSE OneMoreCall(w, f[d - 1])
    <3>1. CASE d = 0
      BY <1>3, <3>1 DEF Follows
    <3>2. CASE d # 0
      <4>1. d \in 1 .. MaxDepth /\ d - 1 \in 0 .. MaxDepth
        BY <3>2, ParserAssumption
      <4>2. f[d] = G[d][f[d - 1]] /\ f[d - 1] \in Levels
        BY <1>3, <4>1 DEF Follows
      <4>. QED
        BY <1>2, <3>2, <4>1, <4>2
    <3>. QED
      BY <3>1, <3>2
  <2>. QED
    BY <2>1
<1>5. Meaning(w) = CHOOSE t : Def(t)
  BY DEF Meaning
<1>6. Def(Meaning(w))
  <2>1. \E t : Def(t)
    BY <1>4
  <2>2. Def(CHOOSE t : Def(t))
    BY <2>1, Zenon
  <2>. QED
    BY <1>5, <2>2, Zenon
<1>7. \A g : Def(g) => g = f
  <2> SUFFICES ASSUME NEW g, Def(g) PROVE g = f
    OBVIOUS
  <2> DEFINE T == {d \in 0 .. MaxDepth : g[d] = f[d]}
  <2>1. ASSUME NEW d \in 0 .. MaxDepth, \A j \in 0 .. d - 1 : j \in T PROVE d \in T
    <3>1. CASE d = 0
      BY <1>4, <3>1
    <3>2. CASE d # 0
      <4>1. d - 1 \in 0 .. d - 1
        BY <3>2
      <4>2. g[d - 1] = f[d - 1]
        BY <2>1, <4>1
      <4>3. \A t : Def(t) => t[d] = OneMoreCall(w, t[d - 1])
        BY <3>2
      <4>4. g[d] = OneMoreCall(w, g[d - 1]) /\ f[d] = OneMoreCall(w, f[d - 1])
        <5> HIDE DEF Def
        <5>. QED
          BY <1>4, <4>3
      <4>. QED
        BY <4>2, <4>4
    <3>. QED
      BY <3>1, <3>2
  <2>2. \A d \in 0 .. MaxDepth : d \in T
    <3> HIDE DEF T, Def
    <3>. QED
      BY <2>1, StrongInduction, ParserAssumption
  <2>. QED
    BY <1>4, <2>2
<1>8. Meaning(w) = f
  <2> HIDE DEF Def
  <2>. QED
    BY <1>6, <1>7
<1>9. ASSUME NEW d \in 1 .. MaxDepth PROVE f[d] = OneMoreCall(w, f[d - 1])
  <2>1. d \in 0 .. MaxDepth /\ d # 0
    OBVIOUS
  <2>2. \A t : Def(t) => t[d] = OneMoreCall(w, t[d - 1])
    BY <2>1
  <2> HIDE DEF Def
  <2>. QED
    BY <1>4, <2>2
<1>10. f[0] = Overflow
  BY <1>3 DEF Follows
<1>. QED
  BY <1>8, <1>9, <1>10

-----------------------------------------------------------------------------
(* Which of the lines left of a file apply, by what the loop over them      *)
(* remembers of the lines before: relevant and in_filename_section.        *)
Names(lines, k)      == lines[k].kind = "filenames"
NoFlag(lines, i, m)  == \A k \in i .. m : lines[k].kind # "flag"
LastNames(lines, m, j) == Names(lines, m) /\ \A k \in m + 1 .. j - 1 : ~Names(lines, k)
Matched(lines, m) ==
  \E k \in 1 .. m : Names(lines, k) /\ lines[k].matches /\ NoFlag(lines, k, m)

AppliesFrom(r, s, lines, j) ==
  \/ r /\ \A k \in 1 .. j - 1 : ~Names(lines, k)
  \/ \E m \in 1 .. j - 1 : /\ LastNames(lines, m, j)
                           /\ Matched(lines, m) \/ (r /\ s /\ NoFlag(lines, 1, m))

LEMMA NoNames ==
  ASSUME NEW r \in BOOLEAN, NEW s \in BOOLEAN, NEW lines, NEW j \in Nat,
         \A k \in 1 .. j - 1 : ~Names(lines, k)
  PROVE  AppliesFrom(r, s, lines, j) <=> r
BY DEF AppliesFrom, LastNames

LEMMA SomeNames ==
  ASSUME NEW r \in BOOLEAN, NEW s \in BOOLEAN, NEW lines, NEW j \in Nat,
         NEW m \in 1 .. j - 1, LastNames(lines, m, j)
  PROVE  AppliesFrom(r, s, lines, j) <=> Matched(lines, m) \/ (r /\ s /\ NoFlag(lines, 1, m))
<1>1. ASSUME NEW i \in 1 .. j - 1, LastNames(lines, i, j) PROVE i = m
  <2>1. ~(i < m) /\ ~(m < i)
    BY <1>1 DEF LastNames
  <2>. QED
    BY <2>1
<1>2. ~(\A k \in 1 .. j - 1 : ~Names(lines, k))
  BY DEF LastNames
<1>. QED
  BY <1>1, <1>2 DEF AppliesFrom

LEMMA LastNamesExists ==
  ASSUME NEW lines, NEW j \in Nat, ~(\A k \in 1 .. j - 1 : ~Names(lines, k))
  PROVE  LET named == {k \in 1 .. j - 1 : Names(lines, k)}
         IN  Max(named) \in 1 .. j - 1 /\ LastNames(lines, Max(named), j)
<1> DEFINE named == {k \in 1 .. j - 1 : Names(lines, k)}
<1>1. named \in SUBSET (0 .. j) /\ named # {}
  OBVIOUS
<1>2. Max(named) \in named /\ \A k \in named : Max(named) >= k
  <2> HIDE DEF named
  <2>. QED
    BY <1>1, GreatestMember
<1>3. PICK m : m = Max(named)
  OBVIOUS
<1>4. m \in 1 .. j - 1 /\ Names(lines, m) /\ \A k \in 1 .. j - 1 : Names(lines, k) => m >= k
  BY <1>2, <1>3
<1>5. ASSUME NEW k \in m + 1 .. j - 1 PROVE ~Names(lines, k)
  <2>1. k \in 1 .. j - 1 /\ ~(m >= k)
    BY <1>4
  <2>. QED
    BY <1>4, <2>1
<1>. QED
  BY <1>3, <1>4, <1>5 DEF LastNames

LEMMA AppliesIs ==
  ASSUME NEW lines, NEW i \in Nat
  PROVE  Applies(lines, i) <=> AppliesFrom(TRUE, FALSE, lines, i)
<1> DEFINE named == {j \in 1 .. i - 1 : lines[j].kind = "filenames"}
           block == {j \in named : \A k \in j .. Max(named) : lines[k].kind # "flag"}
<1>1. CASE \A k \in 1 .. i - 1 : ~Names(lines, k)
  <2>1. named = {}
    BY <1>1 DEF Names
  <2>. QED
    BY <1>1, <2>1, NoNames DEF Applies
<1>2. CASE ~(\A k \in 1 .. i - 1 : ~Names(lines, k))
  <2>1. named = {k \in 1 .. i - 1 : Names(lines, k)} /\ named # {}
    BY <1>2 DEF Names
  <2>2. PICK m \in 1 .. i - 1 : m = Max(named) /\ LastNames(lines, m, i)
    BY <1>2, <2>1, LastNamesExists
  <2>3. AppliesFrom(TRUE, FALSE, lines, i) <=> Matched(lines, m)
    BY <2>2, SomeNames
  <2>4. Applies(lines, i) <=> \E j \in block : lines[j].matches
    BY <2>1 DEF Applies
  <2>5. ASSUME NEW j \in block, lines[j].matches PROVE Matched(lines, m)
    <3>1. j \in 1 .. i - 1 /\ Names(lines, j) /\ NoFlag(lines, j, m)
      BY <2>2 DEF Names, NoFlag
    <3>2. ~(m < j)
      <4>1. ASSUME m < j PROVE FALSE
        <5>1. j \in m + 1 .. i - 1
          BY <3>1, <4>1
        <5>. QED
          BY <2>2, <3>1, <5>1 DEF LastNames
      <4>. QED
        BY <4>1
    <3>3. j \in 1 .. m
      BY <3>1, <3>2
    <3>. QED
      BY <2>5, <3>1, <3>3 DEF Matched
  <2>6. ASSUME Matched(lines, m) PROVE \E j \in block : lines[j].matches
    <3>1. PICK k \in 1 .. m : Names(lines, k) /\ lines[k].matches /\ NoFlag(lines, k, m)
      BY <2>6 DEF Matched
    <3>2. k \in named
      BY <3>1 DEF Names
    <3>3. k \in block
      BY <2>2, <3>1, <3>2 DEF NoFlag
    <3>. QED
      BY <3>1, <3>3
  <2>. QED
    BY <2>3, <2>4, <2>5, <2>6
<1>. QED
  BY <1>1, <1>2

(* The loop reads one line and remembers what it has to.                   *)
Remembers(line, r, s, r1, s1) ==
  \/ /\ line.kind = "filenames" /\ line.matches \in BOOLEAN
     /\ (r1 <=> line.matches \/ (r /\ s)) /\ s1
  \/ line.kind = "flag" /\ (r1 <=> r) /\ ~s1
  \/ line.kind = "comment" /\ (r1 <=> r) /\ (s1 <=> s)

LEMMA AppliesAfter ==
  ASSUME NEW r \in BOOLEAN, NEW s \in BOOLEAN, NEW lines, NEW rest, NEW n \in Nat,
         \A k \in 1 .. n : rest[k] = lines[k + 1], NEW j \in 1 .. n,
         NEW r1 \in BOOLEAN, NEW s1 \in BOOLEAN,
         Remembers(lines[1], r, s, r1, s1)
  PROVE  AppliesFrom(r, s, lines, j + 1) <=> AppliesFrom(r1, s1, rest, j)
<1>0. \/ Names(lines, 1) /\ lines[1].matches \in BOOLEAN
           /\ (r1 <=> lines[1].matches \/ (r /\ s)) /\ s1
      \/ lines[1].kind = "flag" /\ (r1 <=> r) /\ ~s1
      \/ lines[1].kind = "comment" /\ (r1 <=> r) /\ (s1 <=> s)
  BY DEF Remembers, Names
<1>1. CASE \A k \in 1 .. j - 1 : ~Names(rest, k)
  <2>1. AppliesFrom(r1, s1, rest, j) <=> r1
    BY <1>1, NoNames
  <2>2. ASSUME NEW k \in 2 .. j PROVE ~Names(lines, k)
    <3>1. k - 1 \in 1 .. j - 1 /\ k - 1 \in 1 .. n /\ (k - 1) + 1 = k
      OBVIOUS
    <3>2. rest[k - 1] = lines[k]
      BY <3>1
    <3>. QED
      BY <1>1, <3>1, <3>2 DEF Names
  <2>3. CASE Names(lines, 1)
    <3>1. 1 \in 1 .. (j + 1) - 1 /\ LastNames(lines, 1, j + 1)
      BY <2>2, <2>3 DEF LastNames
    <3>2. AppliesFrom(r, s, lines, j + 1)
            <=> Matched(lines, 1) \/ (r /\ s /\ NoFlag(lines, 1, 1))
      <4>1. j + 1 \in Nat
        OBVIOUS
      <4>. QED
        BY <3>1, <4>1, SomeNames
    <3>3. NoFlag(lines, 1, 1) /\ (Matched(lines, 1) <=> lines[1].matches)
      BY <2>3 DEF NoFlag, Matched, Names
    <3>4. r1 <=> lines[1].matches \/ (r /\ s)
      BY <1>0, <2>3 DEF Names
    <3>. QED
      BY <2>1, <3>2, <3>3, <3>4
  <2>4. CASE ~Names(lines, 1)
    <3>1. \A k \in 1 .. (j + 1) - 1 : ~Names(lines, k)
      BY <2>2, <2>4
    <3>2. AppliesFrom(r, s, lines, j + 1) <=> r
      <4>1. j + 1 \in Nat
        OBVIOUS
      <4>. QED
        BY <3>1, <4>1, NoNames
    <3>3. r1 <=> r
      BY <1>0, <2>4
    <3>. QED
      BY <2>1, <3>2, <3>3
  <2>. QED
    BY <2>3, <2>4
<1>2. CASE ~(\A k \in 1 .. j - 1 : ~Names(rest, k))
  <2>1. PICK m \in 1 .. j - 1 : LastNames(rest, m, j)
    <3>1. j \in Nat
      OBVIOUS
    <3>. QED
      BY <1>2, <3>1, LastNamesExists
  <2>2. AppliesFrom(r1, s1, rest, j) <=> Matched(rest, m) \/ (r1 /\ s1 /\ NoFlag(rest, 1, m))
    BY <2>1, SomeNames
  <2>3. m + 1 \in 1 .. (j + 1) - 1 /\ j + 1 \in Nat /\ m \in Nat
    OBVIOUS
  <2>4. LastNames(lines, m + 1, j + 1)
    <3>1. rest[m] = lines[m + 1]
      OBVIOUS
    <3>2. ASSUME NEW k \in (m + 1) + 1 .. (j + 1) - 1 PROVE ~Names(lines, k)
      <4>1. k - 1 \in m + 1 .. j - 1 /\ k - 1 \in 1 .. n /\ (k - 1) + 1 = k
        OBVIOUS
      <4>2. rest[k - 1] = lines[k]
        BY <4>1
      <4>. QED
        BY <2>1, <4>1, <4>2 DEF LastNames, Names
    <3>. QED
      BY <2>1, <3>1, <3>2 DEF LastNames, Names
  <2>5. AppliesFrom(r, s, lines, j + 1)
          <=> Matched(lines, m + 1) \/ (r /\ s /\ NoFlag(lines, 1, m + 1))
    BY <2>3, <2>4, SomeNames
  <2>6. ASSUME NEW i \in 1 .. m PROVE NoFlag(lines, i + 1, m + 1) <=> NoFlag(rest, i, m)
    <3>1. ASSUME NoFlag(lines, i + 1, m + 1), NEW k \in i .. m PROVE rest[k].kind # "flag"
      <4>1. k + 1 \in i + 1 .. m + 1 /\ k \in 1 .. n
        OBVIOUS
      <4>. QED
        BY <3>1, <4>1 DEF NoFlag
    <3>2. ASSUME NoFlag(rest, i, m), NEW k \in i + 1 .. m + 1 PROVE lines[k].kind # "flag"
      <4>1. k - 1 \in i .. m /\ k - 1 \in 1 .. n /\ (k - 1) + 1 = k
        OBVIOUS
      <4>2. rest[k - 1] = lines[k]
        BY <4>1
      <4>. QED
        BY <3>2, <4>1, <4>2 DEF NoFlag
    <3>. QED
      BY <3>1, <3>2 DEF NoFlag
  <2>7. NoFlag(lines, 1, m + 1) <=> lines[1].kind # "flag" /\ NoFlag(rest, 1, m)
    <3>1. NoFlag(lines, 1 + 1, m + 1) <=> NoFlag(rest, 1, m)
      <4>1. 1 \in 1 .. m
        BY <2>3
      <4>. QED
        BY <2>6, <4>1
    <3>2. 1 + 1 = 2 /\ \A k \in 1 .. m + 1 : k = 1 \/ k \in 2 .. m + 1
      BY <2>3
    <3>3. 1 \in 1 .. m + 1 /\ \A k \in 2 .. m + 1 : k \in 1 .. m + 1
      BY <2>3
    <3>. QED
      BY <3>1, <3>2, <3>3 DEF NoFlag
  <2>8. Matched(lines, m + 1)
          <=> Matched(rest, m) \/ (Names(lines, 1) /\ lines[1].matches /\ NoFlag(rest, 1, m))
    <3>1. ASSUME Matched(lines, m + 1)
          PROVE  Matched(rest, m) \/ (Names(lines, 1) /\ lines[1].matches /\ NoFlag(rest, 1, m))
      <4>1. PICK k \in 1 .. m + 1 :
              Names(lines, k) /\ lines[k].matches /\ NoFlag(lines, k, m + 1)
        BY <3>1 DEF Matched
      <4>2. CASE k = 1
        BY <2>7, <4>1, <4>2
      <4>3. CASE k # 1
        <5>1. k - 1 \in 1 .. m /\ k - 1 \in 1 .. n /\ (k - 1) + 1 = k
          BY <4>3
        <5>2. rest[k - 1] = lines[k]
          BY <5>1
        <5>3. NoFlag(lines, (k - 1) + 1, m + 1) <=> NoFlag(rest, k - 1, m)
          BY <2>6, <5>1
        <5>. QED
          BY <4>1, <5>1, <5>2, <5>3 DEF Matched, Names
      <4>. QED
        BY <4>2, <4>3
    <3>2. ASSUME Matched(rest, m) PROVE Matched(lines, m + 1)
      <4>1. PICK k \in 1 .. m : Names(rest, k) /\ rest[k].matches /\ NoFlag(rest, k, m)
        BY <3>2 DEF Matched
      <4>2. k + 1 \in 1 .. m + 1 /\ k \in 1 .. n
        OBVIOUS
      <4>3. rest[k] = lines[k + 1] /\ NoFlag(lines, k + 1, m + 1)
        BY <2>6, <4>1, <4>2
      <4>. QED
        BY <4>1, <4>2, <4>3 DEF Matched, Names
    <3>3. ASSUME Names(lines, 1), lines[1].matches, NoFlag(rest, 1, m)
          PROVE  Matched(lines, m + 1)
      <4>1. 1 \in 1 .. m + 1 /\ NoFlag(lines, 1, m + 1)
        BY <2>3, <2>7, <3>3 DEF Names
      <4>. QED
        BY <3>3, <4>1 DEF Matched
    <3>. QED
      BY <3>1, <3>2, <3>3
  <2>9. CASE Names(lines, 1)
    <3>1. lines[1].kind # "flag" /\ s1 /\ (r1 <=> lines[1].matches \/ (r /\ s))
      BY <1>0, <2>9 DEF Names
    <3>. QED
      BY <2>2, <2>5, <2>7, <2>8, <2>9, <3>1
  <2>10. CASE ~Names(lines, 1)
    BY <1>0, <2>2, <2>5, <2>7, <2>8, <2>10
  <2>. QED
    BY <2>9, <2>10
<1>. QED
  BY <1>1, <1>2

-----------------------------------------------------------------------------
(* What is left of a call, where d calls can be made inside each other,     *)
(* this one counted; and what is left of all calls in progress.            *)
RestOf(w, f, d) ==
  LET inner == Meaning(w)[d - 1]
  IN  FlattenSeq([j \in DOMAIN f.todo |->
        IF f.kind = "lines"
        THEN OfLine(w, inner.list, f.todo[j],
                    AppliesFrom(f.relevant, f.in_filename_section, f.todo, j))
        ELSE OfEntry(w, inner, f.kind, f.todo[j])])

Pending(w, s) == FlattenSeq([i \in DOMAIN s |-> RestOf(w, s[i], (MaxDepth - Len(s)) + i)])

LEMMA InnerType ==
  ASSUME NEW w, WorldOK(w), NEW d \in 1 .. MaxDepth
  PROVE  /\ Meaning(w)[d - 1] \in Levels /\ Meaning(w)[d] \in Levels
         /\ Meaning(w)[d - 1].list \in [Recursive -> [Value -> Seq(Event)]]
<1>1. d \in 0 .. MaxDepth /\ d - 1 \in 0 .. MaxDepth
  BY ParserAssumption
<1>. QED
  BY <1>1, MeaningIs DEF Levels

LEMMA RestOfLines ==
  ASSUME NEW w, WorldOK(w), NEW d \in 1 .. MaxDepth, NEW f \in Frame, f.kind = "lines"
  PROVE  LET E(j) == OfLine(w, Meaning(w)[d - 1].list, f.todo[j],
                            AppliesFrom(f.relevant, f.in_filename_section, f.todo, j))
         IN  /\ RestOf(w, f, d) = FlattenSeq([j \in DOMAIN f.todo |-> E(j)])
             /\ [j \in DOMAIN f.todo |-> E(j)] \in Seq(Seq(Event))
             /\ f.todo \in Seq(Line)
<1> DEFINE E(j) == OfLine(w, Meaning(w)[d - 1].list, f.todo[j],
                          AppliesFrom(f.relevant, f.in_filename_section, f.todo, j))
<1>1. f.todo \in Seq(Line)
  BY FrameKinds
<1>2. RestOf(w, f, d) = FlattenSeq([j \in DOMAIN f.todo |-> E(j)])
  BY DEF RestOf
<1>3. ASSUME NEW j \in DOMAIN f.todo PROVE E(j) \in Seq(Event)
  <2>1. f.todo[j] \in Line
    BY <1>1, ElementOfSeq, LenProperties
  <2>2. AppliesFrom(f.relevant, f.in_filename_section, f.todo, j) \in BOOLEAN
    BY DEF AppliesFrom
  <2>. QED
    BY <2>1, <2>2, InnerType, OfLineType
<1>4. DOMAIN f.todo = 1 .. Len(f.todo) /\ Len(f.todo) \in Nat
  BY <1>1, LenProperties
<1> HIDE DEF E
<1>5. [j \in DOMAIN f.todo |-> E(j)] \in Seq(Seq(Event))
  BY <1>3, <1>4
<1>. QED
  BY <1>1, <1>2, <1>5 DEF E

LEMMA RestOfEntries ==
  ASSUME NEW w, WorldOK(w), NEW d \in 1 .. MaxDepth, NEW f \in Frame, f.kind # "lines"
  PROVE  LET E(j) == OfEntry(w, Meaning(w)[d - 1], f.kind, f.todo[j])
         IN  /\ RestOf(w, f, d) = FlattenSeq([j \in DOMAIN f.todo |-> E(j)])
             /\ [j \in DOMAIN f.todo |-> E(j)] \in Seq(Seq(Event))
             /\ f.todo \in Seq(Text)
<1> DEFINE E(j) == OfEntry(w, Meaning(w)[d - 1], f.kind, f.todo[j])
<1>1. f.todo \in Seq(Text) /\ f.kind \in Recursive
  BY FrameKinds
<1>2. RestOf(w, f, d) = FlattenSeq([j \in DOMAIN f.todo |-> E(j)])
  BY DEF RestOf
<1>3. ASSUME NEW j \in DOMAIN f.todo PROVE E(j) \in Seq(Event)
  <2>1. f.todo[j] \in Text
    BY <1>1, ElementOfSeq, LenProperties
  <2>. QED
    BY <1>1, <2>1, InnerType, OfEntryType
<1>4. DOMAIN f.todo = 1 .. Len(f.todo) /\ Len(f.todo) \in Nat
  BY <1>1, LenProperties
<1> HIDE DEF E
<1>5. [j \in DOMAIN f.todo |-> E(j)] \in Seq(Seq(Event))
  BY <1>3, <1>4
<1>. QED
  BY <1>1, <1>2, <1>5 DEF E

LEMMA RestType ==
  ASSUME NEW w, WorldOK(w), NEW d \in 1 .. MaxDepth, NEW f \in Frame
  PROVE  RestOf(w, f, d) \in Seq(Event) /\ (f.todo = <<>> => RestOf(w, f, d) = <<>>)
<1>1. CASE f.kind = "lines"
  <2> DEFINE s == [j \in DOMAIN f.todo |->
                     OfLine(w, Meaning(w)[d - 1].list, f.todo[j],
                            AppliesFrom(f.relevant, f.in_filename_section, f.todo, j))]
  <2>1. RestOf(w, f, d) = FlattenSeq(s) /\ s \in Seq(Seq(Event))
    BY <1>1, RestOfLines
  <2>2. f.todo = <<>> => s = <<>>
    OBVIOUS
  <2> HIDE DEF s
  <2>. QED
    BY <2>1, <2>2, FlattenType
<1>2. CASE f.kind # "lines"
  <2> DEFINE s == [j \in DOMAIN f.todo |-> OfEntry(w, Meaning(w)[d - 1], f.kind, f.todo[j])]
  <2>1. RestOf(w, f, d) = FlattenSeq(s) /\ s \in Seq(Seq(Event))
    BY <1>2, RestOfEntries
  <2>2. f.todo = <<>> => s = <<>>
    OBVIOUS
  <2> HIDE DEF s
  <2>. QED
    BY <2>1, <2>2, FlattenType
<1>. QED
  BY <1>1, <1>2

(* One entry, or one line, and the rest.                                   *)
LEMMA RestAfterEntry ==
  ASSUME NEW w, WorldOK(w), NEW d \in 1 .. MaxDepth, NEW f \in Frame, f.kind # "lines",
         f.todo # <<>>, NEW g \in Frame, g.kind = f.kind, g.todo = Tail(f.todo)
  PROVE  RestOf(w, f, d)
           = OfEntry(w, Meaning(w)[d - 1], f.kind, Head(f.todo)) \o RestOf(w, g, d)
<1> DEFINE E(j) == OfEntry(w, Meaning(w)[d - 1], f.kind, f.todo[j])
           G(j) == OfEntry(w, Meaning(w)[d - 1], g.kind, g.todo[j])
           s == [j \in DOMAIN f.todo |-> E(j)]
           t == [j \in DOMAIN g.todo |-> G(j)]
<1>1. RestOf(w, f, d) = FlattenSeq(s) /\ s \in Seq(Seq(Event)) /\ f.todo \in Seq(Text)
  BY RestOfEntries
<1>2. RestOf(w, g, d) = FlattenSeq(t) /\ t \in Seq(Seq(Event))
  BY RestOfEntries
<1>3. /\ Len(f.todo) \in Nat /\ Len(f.todo) >= 1 /\ Len(g.todo) = Len(f.todo) - 1
      /\ DOMAIN f.todo = 1 .. Len(f.todo) /\ DOMAIN g.todo = 1 .. Len(f.todo) - 1
      /\ Head(f.todo) = f.todo[1]
      /\ \A i \in 1 .. Len(f.todo) - 1 : g.todo[i] = f.todo[i + 1]
  BY <1>1
<1>4. \A i \in DOMAIN g.todo : G(i) = E(i + 1)
  BY <1>3
<1> HIDE DEF E, G
<1>5. Len(s) = Len(t) + 1 /\ s[1] = E(1) /\ \A i \in 1 .. Len(t) : s[i + 1] = t[i]
  BY <1>3, <1>4
<1> HIDE DEF s, t
<1>6. FlattenSeq(s) = s[1] \o FlattenSeq(t)
  BY <1>1, <1>2, <1>5, FlattenFirst
<1>. QED
  BY <1>1, <1>2, <1>3, <1>5, <1>6 DEF E

LEMMA RestAfterLine ==
  ASSUME NEW w, WorldOK(w), NEW d \in 1 .. MaxDepth, NEW f \in Frame, f.kind = "lines",
         f.todo # <<>>, NEW g \in Frame, g.kind = "lines", g.todo = Tail(f.todo),
         LET line == Head(f.todo)
         IN  \/ /\ line.kind = "filenames" /\ g.in_filename_section
                /\ g.relevant <=> line.matches \/ (f.relevant /\ f.in_filename_section)
             \/ line.kind = "flag" /\ g.relevant = f.relevant /\ ~g.in_filename_section
             \/ /\ line.kind = "comment" /\ g.relevant = f.relevant
                /\ g.in_filename_section = f.in_filename_section
  PROVE  RestOf(w, f, d)
           = OfLine(w, Meaning(w)[d - 1].list, Head(f.todo), f.relevant) \o RestOf(w, g, d)
<1> DEFINE A(j) == AppliesFrom(f.relevant, f.in_filename_section, f.todo, j)
           B(j) == AppliesFrom(g.relevant, g.in_filename_section, g.todo, j)
           E(j) == OfLine(w, Meaning(w)[d - 1].list, f.todo[j], A(j))
           G(j) == OfLine(w, Meaning(w)[d - 1].list, g.todo[j], B(j))
           s == [j \in DOMAIN f.todo |-> E(j)]
           t == [j \in DOMAIN g.todo |-> G(j)]
<1>1. RestOf(w, f, d) = FlattenSeq(s) /\ s \in Seq(Seq(Event)) /\ f.todo \in Seq(Line)
  BY RestOfLines
<1>2. RestOf(w, g, d) = FlattenSeq(t) /\ t \in Seq(Seq(Event))
  BY RestOfLines
<1>3. /\ Len(f.todo) \in Nat /\ Len(f.todo) >= 1 /\ Len(g.todo) = Len(f.todo) - 1
      /\ DOMAIN f.todo = 1 .. Len(f.todo) /\ DOMAIN g.todo = 1 .. Len(f.todo) - 1
      /\ Head(f.todo) = f.todo[1] /\ f.todo[1] \in Line
      /\ \A i \in 1 .. Len(f.todo) - 1 : g.todo[i] = f.todo[i + 1]
  BY <1>1
<1>4. /\ f.relevant \in BOOLEAN /\ f.in_filename_section \in BOOLEAN
      /\ g.relevant \in BOOLEAN /\ g.in_filename_section \in BOOLEAN
  BY FrameKinds
<1>a. PICK n \in Nat : n = Len(f.todo) - 1
  <2>1. Len(f.todo) - 1 \in Nat
    BY <1>3
  <2>. QED
    BY <2>1
<1>b. DOMAIN g.todo = 1 .. n /\ \A k \in 1 .. n : g.todo[k] = f.todo[k + 1]
  BY <1>3, <1>a
<1>5. ASSUME NEW i \in 1 .. n PROVE A(i + 1) <=> B(i)
  <2>1. PICK lines, rest : lines = f.todo /\ rest = g.todo
    OBVIOUS
  <2>2. \A k \in 1 .. n : rest[k] = lines[k + 1]
    BY <1>b, <2>1
  <2>3. PICK r \in BOOLEAN, z \in BOOLEAN, r1 \in BOOLEAN, z1 \in BOOLEAN :
          /\ r = f.relevant /\ z = f.in_filename_section
          /\ r1 = g.relevant /\ z1 = g.in_filename_section
    BY <1>4
  <2>4. Remembers(lines[1], r, z, r1, z1)
    <3>1. lines[1] = Head(f.todo) /\ lines[1] \in Line
      BY <1>3, <2>1
    <3>2. lines[1].kind = "filenames" => lines[1].matches \in BOOLEAN
      BY <3>1 DEF Line, FlagArgument
    <3>. QED
      BY <2>3, <3>1, <3>2 DEF Remembers
  <2>5. AppliesFrom(r, z, lines, i + 1) <=> AppliesFrom(r1, z1, rest, i)
    BY ONLY <2>2, <2>4, AppliesAfter
  <2>. QED
    BY <2>1, <2>3, <2>5
<1>6. A(1) <=> f.relevant
  BY <1>4, NoNames
<1>7. A(1) = f.relevant /\ \A i \in DOMAIN g.todo : A(i + 1) = B(i)
  <2>1. \A j : A(j) \in BOOLEAN /\ B(j) \in BOOLEAN
    BY DEF AppliesFrom
  <2>. QED
    BY <1>b, <1>4, <1>5, <1>6, <2>1
<1> HIDE DEF A, B
<1>8. \A i \in DOMAIN g.todo : G(i) = E(i + 1)
  BY <1>3, <1>b, <1>7
<1>9. E(1) = OfLine(w, Meaning(w)[d - 1].list, Head(f.todo), f.relevant)
  BY <1>3, <1>7
<1> HIDE DEF E, G
<1>10. Len(s) = Len(t) + 1 /\ s[1] = E(1) /\ \A i \in 1 .. Len(t) : s[i + 1] = t[i]
  BY <1>3, <1>8
<1>11. RestOf(w, f, d) = FlattenSeq(s) /\ s \in Seq(Seq(Event))
  BY <1>1 DEF s, E, A
<1>12. RestOf(w, g, d) = FlattenSeq(t) /\ t \in Seq(Seq(Event))
  BY <1>2 DEF t, G, B
<1> HIDE DEF s, t
<1>13. FlattenSeq(s) = s[1] \o FlattenSeq(t)
  BY <1>10, <1>11, <1>12, FlattenFirst
<1>. QED
  BY <1>9, <1>10, <1>11, <1>12, <1>13

(* The call on top, and the calls below it.                                *)
LEMMA PendingIs ==
  ASSUME NEW w, WorldOK(w), NEW s \in Seq(Frame), Len(s) <= MaxDepth
  PROVE  /\ [i \in DOMAIN s |-> RestOf(w, s[i], (MaxDepth - Len(s)) + i)] \in Seq(Seq(Event))
         /\ Pending(w, s) \in Seq(Event) /\ (s = <<>> => Pending(w, s) = <<>>)
<1> DEFINE t == [i \in DOMAIN s |-> RestOf(w, s[i], (MaxDepth - Len(s)) + i)]
<1>1. DOMAIN s = 1 .. Len(s) /\ Len(s) \in Nat /\ MaxDepth \in Nat
  BY LenProperties, ParserAssumption
<1>2. ASSUME NEW i \in DOMAIN s PROVE RestOf(w, s[i], (MaxDepth - Len(s)) + i) \in Seq(Event)
  <2>1. s[i] \in Frame
    BY ElementOfSeq, LenProperties
  <2>2. PICK d \in 1 .. MaxDepth : d = (MaxDepth - Len(s)) + i
    BY <1>1
  <2>3. RestOf(w, s[i], d) \in Seq(Event)
    BY <2>1, RestType
  <2>. QED
    BY <2>2, <2>3
<1>3. t \in Seq(Seq(Event))
  BY <1>1, <1>2
<1>4. s = <<>> => t = <<>>
  OBVIOUS
<1>5. Pending(w, s) = FlattenSeq(t)
  BY DEF Pending
<1>6. Pending(w, s) \in Seq(Event) /\ (s = <<>> => Pending(w, s) = <<>>)
  <2> HIDE DEF t
  <2>. QED
    BY <1>3, <1>4, <1>5, FlattenType
<1>. QED
  BY <1>3, <1>6

LEMMA PendingPush ==
  ASSUME NEW w, WorldOK(w), NEW s \in Seq(Frame), Len(s) < MaxDepth, NEW f \in Frame
  PROVE  Pending(w, <<f>> \o s) = RestOf(w, f, MaxDepth - Len(s)) \o Pending(w, s)
<1> DEFINE u == <<f>> \o s
           D(i) == RestOf(w, u[i], (MaxDepth - Len(u)) + i)
           E(i) == RestOf(w, s[i], (MaxDepth - Len(s)) + i)
           a == [i \in DOMAIN u |-> D(i)]
           b == [i \in DOMAIN s |-> E(i)]
<1>1. /\ u \in Seq(Frame) /\ Len(u) = Len(s) + 1 /\ u[1] = f
      /\ DOMAIN s = 1 .. Len(s) /\ DOMAIN u = 1 .. Len(s) + 1
      /\ Len(s) \in Nat /\ MaxDepth \in Nat
      /\ \A i \in 1 .. Len(s) : u[i + 1] = s[i]
  <2>1. MaxDepth \in Nat
    BY ParserAssumption
  <2>2. \A i \in 1 .. Len(s) : u[i + 1] = s[i]
    <3>1. ASSUME NEW i \in 1 .. Len(s) PROVE u[i + 1] = s[i]
      <4>1. Len(<<f>>) = 1 /\ <<f>> \in Seq(Frame)
        OBVIOUS
      <4>2. i + 1 \in 1 .. Len(<<f>>) + Len(s) /\ ~(i + 1 <= Len(<<f>>)) /\ (i + 1) - Len(<<f>>) = i
        BY <4>1
      <4>. QED
        BY <4>1, <4>2, ConcatProperties
    <3>. QED
      BY <3>1
  <2>. QED
    BY <2>1, <2>2
<1> HIDE DEF u
<1>2. a \in Seq(Seq(Event)) /\ Pending(w, u) = FlattenSeq(a)
  <2>1. Len(u) <= MaxDepth
    BY <1>1
  <2>. QED
    BY <1>1, <2>1, PendingIs DEF Pending
<1>3. b \in Seq(Seq(Event)) /\ Pending(w, s) = FlattenSeq(b)
  <2>1. Len(s) <= MaxDepth
    BY <1>1
  <2>. QED
    BY <1>1, <2>1, PendingIs DEF Pending
<1>4. ASSUME NEW i \in 1 .. Len(s) PROVE D(i + 1) = E(i)
  <2>1. (MaxDepth - Len(u)) + (i + 1) = (MaxDepth - Len(s)) + i
    BY <1>1
  <2>. QED
    BY <1>1, <2>1
<1>5. D(1) = RestOf(w, f, MaxDepth - Len(s))
  <2>1. (MaxDepth - Len(u)) + 1 = MaxDepth - Len(s)
    BY <1>1
  <2>. QED
    BY <1>1, <2>1
<1> HIDE DEF D, E
<1>6. Len(a) = Len(b) + 1 /\ a[1] = D(1) /\ \A i \in 1 .. Len(b) : a[i + 1] = b[i]
  BY <1>1, <1>4
<1> HIDE DEF a, b
<1>7. FlattenSeq(a) = a[1] \o FlattenSeq(b)
  BY <1>2, <1>3, <1>6, FlattenFirst
<1>. QED
  BY <1>2, <1>3, <1>5, <1>6, <1>7 DEF u

(* A call that begins has all of its file or list before it.               *)
LEMMA NewFile ==
  ASSUME NEW w, WorldOK(w), NEW d \in 1 .. MaxDepth, NEW f \in Text, Contents[f] # NULL
  PROVE  LinesOf(f) \in Frame /\ Meaning(w)[d].file[f] = RestOf(w, LinesOf(f), d)
<1> DEFINE inner == Meaning(w)[d - 1]
           E(i) == OfLine(w, inner.list, Contents[f][i], Applies(Contents[f], i))
           G(i) == OfLine(w, inner.list, Contents[f][i], AppliesFrom(TRUE, FALSE, Contents[f], i))
<1>1. Contents[f] \in Seq(Line) /\ DOMAIN Contents[f] = 1 .. Len(Contents[f])
  BY ParserAssumption, LenProperties
<1>2. LinesOf(f) \in Frame
  BY <1>1 DEF LinesOf, Frame
<1>3. Meaning(w)[d] = OneMoreCall(w, inner)
  BY MeaningIs
<1>4. Meaning(w)[d].file[f] = OfFile(w, inner.list, f)
  BY <1>3 DEF OneMoreCall
<1>5. OfFile(w, inner.list, f) = FlattenSeq([i \in DOMAIN Contents[f] |-> E(i)])
  BY DEF OfFile
<1>6. ASSUME NEW i \in DOMAIN Contents[f] PROVE E(i) = G(i)
  <2>1. i \in Nat
    BY <1>1
  <2>2. Applies(Contents[f], i) <=> AppliesFrom(TRUE, FALSE, Contents[f], i)
    BY <2>1, AppliesIs
  <2>3. Applies(Contents[f], i) \in BOOLEAN /\ AppliesFrom(TRUE, FALSE, Contents[f], i) \in BOOLEAN
    BY DEF Applies, AppliesFrom
  <2>4. \A a, b \in BOOLEAN : (a <=> b) => a = b
    OBVIOUS
  <2>5. Applies(Contents[f], i) = AppliesFrom(TRUE, FALSE, Contents[f], i)
    BY <2>2, <2>3, <2>4, Zenon
  <2>. QED
    BY <2>5
<1>7. RestOf(w, LinesOf(f), d) = FlattenSeq([i \in DOMAIN Contents[f] |-> G(i)])
  BY DEF RestOf, LinesOf
<1> HIDE DEF E, G
<1>8. [i \in DOMAIN Contents[f] |-> E(i)] = [i \in DOMAIN Contents[f] |-> G(i)]
  BY <1>6
<1>. QED
  BY <1>2, <1>4, <1>5, <1>7, <1>8

LEMMA NewList ==
  ASSUME NEW w, WorldOK(w), NEW d \in 1 .. MaxDepth, NEW n \in Recursive, NEW v \in Value,
         Entries[v] # NULL
  PROVE  LET f == [kind |-> n, todo |-> Entries[v], list |-> v]
         IN  /\ f \in Frame /\ Meaning(w)[d].list[n][v] = RestOf(w, f, d)
             /\ Entries[v] = <<>> => Meaning(w)[d].list[n][v] = <<>>
<1> DEFINE f == [kind |-> n, todo |-> Entries[v], list |-> v]
<1>1. f \in Frame /\ f.kind # "lines" /\ f.todo = Entries[v]
  BY ParserAssumption DEF Frame, Recursive
<1>2. Meaning(w)[d].list[n][v] = OfList(w, Meaning(w)[d - 1], n, v)
  <2>1. Meaning(w)[d] = OneMoreCall(w, Meaning(w)[d - 1])
    BY MeaningIs
  <2>. QED
    BY <2>1 DEF OneMoreCall
<1>3. OfList(w, Meaning(w)[d - 1], n, v) = RestOf(w, f, d)
  <2>1. OfList(w, Meaning(w)[d - 1], n, v)
          = FlattenSeq([i \in DOMAIN Entries[v] |->
                          OfEntry(w, Meaning(w)[d - 1], n, Entries[v][i])])
    BY DEF OfList
  <2>2. RestOf(w, f, d)
          = FlattenSeq([i \in DOMAIN Entries[v] |->
                          OfEntry(w, Meaning(w)[d - 1], n, Entries[v][i])])
    BY <1>1 DEF RestOf
  <2>. QED
    BY <2>1, <2>2
<1> HIDE DEF f
<1>4. Entries[v] = <<>> => RestOf(w, f, d) = <<>>
  BY <1>1, RestType
<1>. QED
  BY <1>1, <1>2, <1>3, <1>4 DEF f

-----------------------------------------------------------------------------
(* What the parser does for an event.                                      *)
Does(e) ==
  \/ /\ e.kind = "set"
     /\ Sets(e.name, e.text, "SET_FLAGS_VALUE")
     /\ UNCHANGED undefined_names
  \/ /\ e.kind = "fail"
     /\ FindFlagLocked(e.name) # NULL
     /\ error_flags' = error_flags \cup {e.name}
     /\ UNCHANGED <<flags, undefined_names>>
  \/ /\ e.kind = "unknown"
     /\ FindFlagLocked(e.name) = NULL
     /\ error_flags' = error_flags \cup {e.name}
     /\ undefined_names' = undefined_names \cup {e.name}
     /\ UNCHANGED flags

(* From events p still to come to events q, nothing or the first is done.  *)
Advances(p, q) ==
  \/ p = q /\ UNCHANGED <<flags, error_flags, undefined_names>>
  \/ \E e \in Deed : p = <<e>> \o q /\ Does(e)

(* A parse neither registers flags nor installs validate functions.        *)
Origin ==
  /\ before \in [Name -> Flag \cup {NULL}]
  /\ \A n \in Name : /\ Registered(n) <=> before[n] # NULL
                     /\ Registered(n) => flags[n].validate_fn = before[n].validate_fn

LEMMA AcceptedIsSet ==
  ASSUME FlagsType, Origin, NEW n \in Name, Registered(n), NEW text \in Text,
         Sets(n, text, "SET_FLAGS_VALUE")
  PROVE  /\ SetFlagSucceeds(n, flags[n], text, "SET_FLAGS_VALUE") <=> Acceptable(n, text)
         /\ Acceptable(n, text) => flags'[n].current = Parse[n][text]
         /\ ~Acceptable(n, text) => flags'[n].current = flags[n].current
         /\ flags'[n].validate_fn = flags[n].validate_fn
         /\ \A m \in Name : m # n => flags'[m] = flags[m]
<1> DEFINE f == UpdateModifiedBit(flags[n])
           v == TryParseLocked(n, f, text)
<1>1. flags[n] \in Flag /\ before[n] # NULL /\ before[n].validate_fn = flags[n].validate_fn
  BY RegisteredType DEF Origin
<1>2. /\ f \in Flag /\ f.validate_fn = flags[n].validate_fn /\ f.current = flags[n].current
  BY <1>1 DEF UpdateModifiedBit, Flag
<1>3. v = TryParseLocked(n, before[n], text)
  BY <1>1, <1>2 DEF TryParseLocked, Validate
<1>4. Acceptable(n, text) <=> v # Illegal
  BY <1>1, <1>3 DEF Acceptable
<1>5. SetFlagSucceeds(n, flags[n], text, "SET_FLAGS_VALUE") <=> v # Illegal
  BY DEF SetFlagSucceeds
<1>6. v # Illegal => v = Parse[n][text]
  BY DEF TryParseLocked
<1>7. flags' = [flags EXCEPT ![n] = SetFlagLocked(n, flags[n], text, "SET_FLAGS_VALUE")]
  BY DEF Sets
<1>8. SetFlagLocked(n, flags[n], text, "SET_FLAGS_VALUE")
        = IF v = Illegal THEN f ELSE [f EXCEPT !.current = v, !.modified = TRUE]
  <2>1. [f EXCEPT !.current = v, !.defvalue = @, !.modified = @ \/ TRUE]
          = [f EXCEPT !.current = v, !.modified = TRUE]
    BY <1>2 DEF Flag
  <2>. QED
    BY <2>1 DEF SetFlagLocked
<1> HIDE DEF f, v
<1>9. flags'[n] = IF v = Illegal THEN f ELSE [f EXCEPT !.current = v, !.modified = TRUE]
  BY <1>7, <1>8 DEF FlagsType
<1>10. v # Illegal => flags'[n].current = v /\ flags'[n].validate_fn = f.validate_fn
  BY <1>2, <1>9 DEF Flag
<1>11. \A m \in Name : m # n => flags'[m] = flags[m]
  BY <1>7 DEF FlagsType
<1>. QED
  BY <1>2, <1>4, <1>5, <1>6, <1>9, <1>10, <1>11

(* A flag is set, and what it leads to is put on the stack.                *)
LEMMA ProcessAdvances ==
  ASSUME FlagsType, Origin, exited \in BOOLEAN, NEW w, WorldOK(w), w = World,
         NEW n \in Name, Registered(n), NEW text \in Text,
         NEW callers \in Seq(Frame), Len(callers) <= MaxDepth,
         ProcessSingleOptionLocked(n, text, "SET_FLAGS_VALUE", callers),
         UNCHANGED undefined_names, ~exited'
  PROVE  LET nested == Meaning(w)[MaxDepth - Len(callers)].list
         IN  /\ Advances(Process(w, nested, n, text) \o Pending(w, callers), Pending(w, stack'))
             /\ stack' \in Seq(Frame) /\ Len(stack') <= MaxDepth
<1> DEFINE d == MaxDepth - Len(callers)
           nested == Meaning(w)[d].list
           e == SetEvent(n, text)
<1>1. Sets(n, text, "SET_FLAGS_VALUE") /\ StackType'
  BY ProcessEffect DEF SettingMode
<1>2. e \in Deed /\ Does(e) /\ <<e>> \in Seq(Event)
  BY <1>1, EventTypes DEF Does, SetEvent
<1>3. /\ SetFlagSucceeds(n, flags[n], text, "SET_FLAGS_VALUE") <=> text \in w.accepts[n]
      /\ text \in w.accepts[n] => flags'[n].current = Parse[n][text]
  <2>1. text \in w.accepts[n] <=> Acceptable(n, text)
    BY DEF World
  <2>. QED
    BY <1>1, <2>1, AcceptedIsSet
<1>4. Len(callers) \in Nat /\ MaxDepth \in Nat /\ d \in 0 .. MaxDepth
  BY ParserAssumption, LenProperties
<1>5. Pending(w, callers) \in Seq(Event)
  BY PendingIs
<1>6. stack' \in Seq(Frame) /\ Len(stack') <= MaxDepth
  BY <1>1 DEF StackType
<1>7. SUFFICES Process(w, nested, n, text) \o Pending(w, callers) = <<e>> \o Pending(w, stack')
  BY <1>2, <1>6 DEF Advances
<1>8. CASE n \in Recursive /\ text \in w.accepts[n]
  <2>1. PICK v \in Value : v = Parse[n][text]
    BY <1>8 DEF WorldOK
  <2>2. Call(n, v, callers)
    BY <1>3, <1>8, <2>1 DEF ProcessSingleOptionLocked
  <2>3. Entries[v] # NULL /\ Len(callers) < MaxDepth
    BY <2>2 DEF Call
  <2>4. d \in 1 .. MaxDepth
    BY <1>4, <2>3
  <2>5. Process(w, nested, n, text) = <<e>> \o nested[n][v]
    BY <1>8, <2>1 DEF Process
  <2>6. nested[n][v] \in Seq(Event)
    BY <1>8, <2>4, InnerType DEF Levels
  <2>7. nested[n][v] \o Pending(w, callers) = Pending(w, stack')
    <3> DEFINE f == [kind |-> n, todo |-> Entries[v], list |-> v]
    <3>1. /\ f \in Frame /\ nested[n][v] = RestOf(w, f, d)
          /\ Entries[v] = <<>> => nested[n][v] = <<>>
      BY <1>8, <2>3, <2>4, NewList
    <3>2. CASE Entries[v] = <<>>
      <4>1. stack' = callers
        BY <2>2, <3>2 DEF Call
      <4>. QED
        BY <1>5, <3>1, <3>2, <4>1
    <3>3. CASE Entries[v] # <<>>
      <4>1. stack' = <<f>> \o callers
        BY <2>2, <2>3, <3>3 DEF Call
      <4> HIDE DEF f
      <4>. QED
        BY <2>3, <3>1, <4>1, PendingPush
    <3>. QED
      BY <3>2, <3>3
  <2>8. PICK x, y, z : x = <<e>> /\ y = nested[n][v] /\ z = Pending(w, callers)
    OBVIOUS
  <2>9. x \in Seq(Event) /\ y \in Seq(Event) /\ z \in Seq(Event)
    BY <1>2, <1>5, <2>6, <2>8
  <2>10. (x \o y) \o z = x \o (y \o z)
    BY <2>9
  <2>. QED
    BY <2>5, <2>7, <2>8, <2>10
<1>9. CASE ~(n \in Recursive /\ text \in w.accepts[n])
  <2>1. stack' = callers
    BY <1>3, <1>9 DEF ProcessSingleOptionLocked
  <2>2. Process(w, nested, n, text) = <<e>> \o <<>>
    BY <1>9 DEF Process
  <2>3. Process(w, nested, n, text) = <<e>>
    BY <1>2, <2>2
  <2>. QED
    BY <2>1, <2>3
<1>. QED
  BY <1>8, <1>9

-----------------------------------------------------------------------------
(* Every step of a call does the next of the events that are left.         *)
CallState ==
  /\ ParserTypes /\ Origin /\ mode = "SET_FLAGS_VALUE"

(* The call on top, by the level it is at.                                 *)
LEMMA TopLevel ==
  ASSUME NEW w, WorldOK(w), StackType, stack # <<>>
  PROVE  LET d == (MaxDepth - Len(stack)) + 1
         IN  /\ d \in 1 .. MaxDepth /\ d - 1 = MaxDepth - Len(stack) /\ Len(stack) \in Nat
             /\ \A f \in Frame :
                  Pending(w, <<f>> \o Tail(stack)) = RestOf(w, f, d) \o Pending(w, Tail(stack))
             /\ Pending(w, stack) = RestOf(w, Top, d) \o Pending(w, Tail(stack))
             /\ Pending(w, Tail(stack)) \in Seq(Event)
<1>1. /\ Top \in Frame /\ Tail(stack) \in Seq(Frame)
      /\ Len(Tail(stack)) = Len(stack) - 1 /\ Len(stack) \in Nat /\ MaxDepth \in Nat
  BY TopType, ParserAssumption
<1>2. Len(stack) >= 1 /\ Len(stack) <= MaxDepth
  BY DEF StackType
<1>3. /\ Len(Tail(stack)) < MaxDepth
      /\ MaxDepth - Len(Tail(stack)) = (MaxDepth - Len(stack)) + 1
  BY <1>1, <1>2
<1>4. stack = <<Top>> \o Tail(stack)
  BY <1>2 DEF StackType, Top
<1>5. \A f \in Frame :
        Pending(w, <<f>> \o Tail(stack))
          = RestOf(w, f, (MaxDepth - Len(stack)) + 1) \o Pending(w, Tail(stack))
  BY <1>1, <1>3, PendingPush
<1>6. Pending(w, Tail(stack)) \in Seq(Event)
  <2>1. Len(Tail(stack)) <= MaxDepth
    BY <1>1, <1>3
  <2>. QED
    BY <1>1, <2>1, PendingIs
<1>7. Pending(w, <<Top>> \o Tail(stack))
        = RestOf(w, Top, (MaxDepth - Len(stack)) + 1) \o Pending(w, Tail(stack))
  BY <1>1, <1>5
<1>8. Pending(w, stack)
        = RestOf(w, Top, (MaxDepth - Len(stack)) + 1) \o Pending(w, Tail(stack))
  BY <1>4, <1>7
<1>. QED
  BY <1>1, <1>2, <1>5, <1>6, <1>8

LEMMA ReturnAdvances ==
  ASSUME CallState, NEW w, WorldOK(w), Return
  PROVE  Advances(Pending(w, stack), Pending(w, stack'))
<1>1. StackType /\ stack # <<>> /\ Top.todo = <<>> /\ stack' = Tail(stack)
  BY DEF Return, CallState, ParserTypes
<1> DEFINE d == (MaxDepth - Len(stack)) + 1
<1>2. /\ d \in 1 .. MaxDepth /\ Pending(w, stack) = RestOf(w, Top, d) \o Pending(w, Tail(stack))
      /\ Pending(w, Tail(stack)) \in Seq(Event) /\ Top \in Frame
  BY <1>1, TopLevel, TopType
<1>3. RestOf(w, Top, d) = <<>>
  <2> HIDE DEF d
  <2>. QED
    BY <1>1, <1>2, RestType
<1>4. Pending(w, stack) = Pending(w, stack')
  BY <1>1, <1>2, <1>3
<1>. QED
  BY <1>4 DEF Return, Advances

LEMMA NextFileAdvances ==
  ASSUME CallState, NEW w, WorldOK(w), NextFile, ~exited'
  PROVE  Advances(Pending(w, stack), Pending(w, stack'))
<1> DEFINE f == Head(Top.todo)
           d == (MaxDepth - Len(stack)) + 1
           g == [Top EXCEPT !.todo = Tail(@)]
<1>1. /\ StackType /\ stack # <<>> /\ Top.todo # <<>> /\ Top.kind = "flagfile"
      /\ Len(stack) < MaxDepth
  BY DEF NextFile, Calling, CallState, ParserTypes
<1>2. f \in Text /\ Advance \in Seq(Frame) /\ Len(Advance) = Len(stack)
  BY <1>1, AdvanceType
<1>3. Contents[f] # NULL /\ stack' = <<LinesOf(f)>> \o Advance
  BY DEF NextFile
<1>4. /\ d \in 1 .. MaxDepth /\ d - 1 = MaxDepth - Len(stack) /\ d - 1 \in 1 .. MaxDepth
      /\ Pending(w, stack) = RestOf(w, Top, d) \o Pending(w, Tail(stack))
      /\ Pending(w, Tail(stack)) \in Seq(Event) /\ Top \in Frame
      /\ \A h \in Frame :
           Pending(w, <<h>> \o Tail(stack)) = RestOf(w, h, d) \o Pending(w, Tail(stack))
  <2>1. /\ d \in 1 .. MaxDepth /\ d - 1 = MaxDepth - Len(stack) /\ Len(stack) \in Nat
        /\ Pending(w, stack) = RestOf(w, Top, d) \o Pending(w, Tail(stack))
        /\ Pending(w, Tail(stack)) \in Seq(Event) /\ Top \in Frame
        /\ \A h \in Frame :
             Pending(w, <<h>> \o Tail(stack)) = RestOf(w, h, d) \o Pending(w, Tail(stack))
    BY <1>1, TopLevel, TopType
  <2>2. d - 1 \in 1 .. MaxDepth
    <3>1. MaxDepth \in Nat /\ Len(stack) \in Nat /\ Len(stack) < MaxDepth
      BY <1>1, <2>1, ParserAssumption
    <3>. QED
      BY <2>1, <3>1
  <2>. QED
    BY <2>1, <2>2
<1>5. g \in Frame /\ g.kind = "flagfile" /\ g.todo = Tail(Top.todo)
  <2>1. Top \in [kind : Recursive, todo : Seq(Text), list : Value]
    BY <1>1, <1>4, FrameKinds
  <2>2. Tail(Top.todo) \in Seq(Text)
    BY <1>1, <2>1
  <2>. QED
    BY <1>1, <2>1, <2>2 DEF Frame
<1>6. RestOf(w, Top, d) = OfEntry(w, Meaning(w)[d - 1], "flagfile", f) \o RestOf(w, g, d)
  <2> HIDE DEF d, g
  <2>. QED
    BY <1>1, <1>4, <1>5, RestAfterEntry
<1>7. /\ OfEntry(w, Meaning(w)[d - 1], "flagfile", f) = RestOf(w, LinesOf(f), d - 1)
      /\ LinesOf(f) \in Frame /\ RestOf(w, LinesOf(f), d - 1) \in Seq(Event)
  <2>1. PICK e \in 1 .. MaxDepth : e = d - 1
    BY <1>4
  <2>2. LinesOf(f) \in Frame /\ Meaning(w)[e].file[f] = RestOf(w, LinesOf(f), e)
    BY <1>2, <1>3, NewFile
  <2>3. RestOf(w, LinesOf(f), e) \in Seq(Event)
    BY <2>2, RestType
  <2>. QED
    BY <2>1, <2>2, <2>3 DEF OfEntry
<1>8. RestOf(w, g, d) \in Seq(Event)
  <2> HIDE DEF d, g
  <2>. QED
    BY <1>4, <1>5, RestType
<1>9. Pending(w, Advance) = RestOf(w, g, d) \o Pending(w, Tail(stack))
  BY <1>4, <1>5 DEF Advance
<1>10. Pending(w, stack') = RestOf(w, LinesOf(f), d - 1) \o Pending(w, Advance)
  BY <1>1, <1>2, <1>3, <1>4, <1>7, PendingPush
<1>11. PICK x, y, z : /\ x = RestOf(w, LinesOf(f), d - 1) /\ y = RestOf(w, g, d)
                     /\ z = Pending(w, Tail(stack))
  OBVIOUS
<1>12. x \in Seq(Event) /\ y \in Seq(Event) /\ z \in Seq(Event)
  BY <1>4, <1>7, <1>8, <1>11
<1>13. (x \o y) \o z = x \o (y \o z)
  BY <1>12
<1>14. Pending(w, stack) = Pending(w, stack')
  BY <1>4, <1>6, <1>7, <1>9, <1>10, <1>11, <1>13
<1>. QED
  BY <1>14 DEF NextFile, Advances

(* A line of a flag file: what it does, and the lines after it.            *)
LEMMA LineRest ==
  ASSUME StackType, Calling("lines"), NEW w, WorldOK(w),
         NEW g \in Frame, g.kind = "lines", g.todo = Tail(Top.todo),
         LET line == Head(Top.todo)
         IN  \/ /\ line.kind = "filenames" /\ g.in_filename_section
                /\ g.relevant <=> line.matches \/ (Top.relevant /\ Top.in_filename_section)
             \/ line.kind = "flag" /\ g.relevant = Top.relevant /\ ~g.in_filename_section
             \/ /\ line.kind = "comment" /\ g.relevant = Top.relevant
                /\ g.in_filename_section = Top.in_filename_section
  PROVE  LET nested == Meaning(w)[MaxDepth - Len(stack)].list
             after  == <<g>> \o Tail(stack)
         IN  /\ Pending(w, stack)
                  = OfLine(w, nested, Head(Top.todo), Top.relevant) \o Pending(w, after)
             /\ OfLine(w, nested, Head(Top.todo), Top.relevant) \in Seq(Event)
             /\ Pending(w, after) \in Seq(Event)
<1> DEFINE d == (MaxDepth - Len(stack)) + 1
           nested == Meaning(w)[MaxDepth - Len(stack)].list
           after  == <<g>> \o Tail(stack)
<1>1. stack # <<>> /\ Top.kind = "lines" /\ Top.todo # <<>>
  BY DEF Calling
<1>2. /\ d \in 1 .. MaxDepth /\ d - 1 = MaxDepth - Len(stack) /\ Top \in Frame
      /\ Pending(w, stack) = RestOf(w, Top, d) \o Pending(w, Tail(stack))
      /\ Pending(w, Tail(stack)) \in Seq(Event)
      /\ Pending(w, after) = RestOf(w, g, d) \o Pending(w, Tail(stack))
  BY <1>1, TopLevel, TopType
<1> HIDE DEF d, after
<1>3. PICK line \in Line : line = Head(Top.todo)
  BY LineFrame
<1>4. Top.relevant \in BOOLEAN
  BY <1>1, <1>2, FrameKinds
<1>5. RestOf(w, Top, d) = OfLine(w, Meaning(w)[d - 1].list, line, Top.relevant) \o RestOf(w, g, d)
  <2>1. LET f == Top IN
          \/ /\ line.kind = "filenames" /\ g.in_filename_section
             /\ g.relevant <=> line.matches \/ (f.relevant /\ f.in_filename_section)
          \/ line.kind = "flag" /\ g.relevant = f.relevant /\ ~g.in_filename_section
          \/ /\ line.kind = "comment" /\ g.relevant = f.relevant
             /\ g.in_filename_section = f.in_filename_section
    BY <1>3
  <2>. QED
    BY <1>1, <1>2, <1>3, <2>1, RestAfterLine
<1>6. Meaning(w)[d - 1].list = nested
  BY <1>2
<1>7. nested \in [Recursive -> [Value -> Seq(Event)]]
  BY <1>2, <1>6, InnerType
<1> HIDE DEF nested
<1>8. PICK x, y, z : /\ x = OfLine(w, nested, line, Top.relevant) /\ y = RestOf(w, g, d)
                    /\ z = Pending(w, Tail(stack))
  OBVIOUS
<1>9. x \in Seq(Event) /\ y \in Seq(Event) /\ z \in Seq(Event)
  BY <1>2, <1>4, <1>7, <1>8, OfLineType, RestType
<1>10. (x \o y) \o z = x \o (y \o z) /\ y \o z \in Seq(Event)
  BY <1>9
<1>11. /\ Pending(w, stack)
            = OfLine(w, nested, Head(Top.todo), Top.relevant) \o Pending(w, after)
       /\ OfLine(w, nested, Head(Top.todo), Top.relevant) \in Seq(Event)
       /\ Pending(w, after) \in Seq(Event)
  BY <1>2, <1>3, <1>5, <1>6, <1>8, <1>9, <1>10
<1>. QED
  BY <1>11 DEF nested, after

LEMMA CommentLineAdvances ==
  ASSUME CallState, NEW w, WorldOK(w), CommentLine
  PROVE  Advances(Pending(w, stack), Pending(w, stack'))
<1> DEFINE g == [Top EXCEPT !.todo = Tail(@)]
           nested == Meaning(w)[MaxDepth - Len(stack)].list
<1>1. /\ StackType /\ Calling("lines") /\ Head(Top.todo).kind = "comment"
      /\ stack' = <<g>> \o Tail(stack)
  BY DEF CommentLine, Skip, Advance, CallState, ParserTypes
<1>2. Top \in Frame /\ Top.kind = "lines"
  BY <1>1, TopType DEF Calling
<1>3. /\ g \in Frame /\ g.kind = "lines" /\ g.todo = Tail(Top.todo)
      /\ g.relevant = Top.relevant /\ g.in_filename_section = Top.in_filename_section
  <2>1. /\ Top \in [kind : {"lines"}, todo : Seq(Line), relevant : BOOLEAN,
                     in_filename_section : BOOLEAN]
        /\ Top.todo # <<>>
    BY <1>1, <1>2, FrameKinds DEF Calling
  <2>2. Tail(Top.todo) \in Seq(Line)
    BY <2>1
  <2>. QED
    BY <2>1, <2>2 DEF Frame
<1>4. OfLine(w, nested, Head(Top.todo), Top.relevant) = <<>>
  BY <1>1 DEF OfLine
<1>5. /\ Pending(w, stack) = OfLine(w, nested, Head(Top.todo), Top.relevant) \o Pending(w, stack')
      /\ Pending(w, stack') \in Seq(Event)
  <2> HIDE DEF g
  <2>. QED
    BY <1>1, <1>3, LineRest
<1>6. Pending(w, stack) = Pending(w, stack')
  BY <1>4, <1>5
<1>. QED
  BY <1>6 DEF CommentLine, Skip, Advances

LEMMA FilenameLineAdvances ==
  ASSUME CallState, NEW w, WorldOK(w), FilenameLine
  PROVE  Advances(Pending(w, stack), Pending(w, stack'))
<1> DEFINE r == Head(Top.todo).matches \/ (Top.relevant /\ Top.in_filename_section)
           g == [Top EXCEPT !.todo = Tail(@), !.in_filename_section = TRUE, !.relevant = r]
           nested == Meaning(w)[MaxDepth - Len(stack)].list
<1>1. /\ StackType /\ Calling("lines") /\ Head(Top.todo).kind = "filenames"
  BY DEF FilenameLine, CallState, ParserTypes
<1>2. Top \in Frame /\ Top.kind = "lines" /\ Top.todo # <<>>
  BY <1>1, TopType DEF Calling
<1>3. Top \in [kind : {"lines"}, todo : Seq(Line), relevant : BOOLEAN,
               in_filename_section : BOOLEAN]
  BY <1>2, FrameKinds
<1>4. stack' = <<g>> \o Tail(stack)
  <2>1. stack' = <<[Top EXCEPT
                   !.todo = Tail(@),
                   !.in_filename_section = TRUE,
                   !.relevant = \/ Head(Top.todo).matches
                                \/ @ /\ Top.in_filename_section]>> \o Tail(stack)
    BY DEF FilenameLine
  <2>. QED
    BY <1>3, <2>1
<1>5. /\ g \in Frame /\ g.kind = "lines" /\ g.todo = Tail(Top.todo)
      /\ g.relevant = r /\ g.in_filename_section
  <2>1. r \in BOOLEAN /\ Tail(Top.todo) \in Seq(Line)
    BY <1>2, <1>3
  <2> HIDE DEF r
  <2>. QED
    BY <1>3, <2>1 DEF Frame
<1>6. OfLine(w, nested, Head(Top.todo), Top.relevant) = <<>>
  BY <1>1 DEF OfLine
<1>7. /\ Pending(w, stack) = OfLine(w, nested, Head(Top.todo), Top.relevant) \o Pending(w, stack')
      /\ Pending(w, stack') \in Seq(Event)
  <2> HIDE DEF g
  <2>. QED
    BY <1>1, <1>4, <1>5, LineRest
<1>8. Pending(w, stack) = Pending(w, stack')
  BY <1>6, <1>7
<1>. QED
  BY <1>8 DEF FilenameLine, Advances

LEMMA FlagLineAdvances ==
  ASSUME CallState, NEW w, WorldOK(w), w = World, FlagLine, ~exited'
  PROVE  Advances(Pending(w, stack), Pending(w, stack'))
<1> DEFINE line == Head(Top.todo)
           g == [Top EXCEPT !.todo = Tail(@), !.in_filename_section = FALSE]
           after == <<g>> \o Tail(stack)
           nested == Meaning(w)[MaxDepth - Len(stack)].list
<1>1. /\ StackType /\ FlagsType /\ Origin /\ exited \in BOOLEAN /\ mode = "SET_FLAGS_VALUE"
      /\ Calling("lines") /\ line.kind = "flag" /\ UNCHANGED undefined_names
  BY DEF FlagLine, CallState, ParserTypes
<1>2. Top \in Frame /\ Top.kind = "lines" /\ Top.todo # <<>> /\ stack # <<>>
  BY <1>1, TopType DEF Calling
<1>3. /\ Top \in [kind : {"lines"}, todo : Seq(Line), relevant : BOOLEAN,
                 in_filename_section : BOOLEAN]
      /\ line \in Line
  BY <1>1, <1>2, FrameKinds, LineFrame
<1>4. /\ g \in Frame /\ g.kind = "lines" /\ g.todo = Tail(Top.todo)
      /\ g.relevant = Top.relevant /\ ~g.in_filename_section
  <2>1. Tail(Top.todo) \in Seq(Line)
    BY <1>2, <1>3
  <2>. QED
    BY <1>3, <2>1 DEF Frame
<1>5. after \in Seq(Frame) /\ Len(after) = Len(stack) /\ Len(after) <= MaxDepth
  <2>1. Len(stack) <= MaxDepth
    BY <1>1 DEF StackType
  <2> HIDE DEF g
  <2>. QED
    BY <1>1, <1>2, <1>4, <2>1, ReplaceTop
<1>6. /\ Pending(w, stack) = OfLine(w, nested, line, Top.relevant) \o Pending(w, after)
      /\ Pending(w, after) \in Seq(Event)
  <2> HIDE DEF g
  <2>. QED
    BY <1>1, <1>4, LineRest
<1>7. line.key \in Name /\ line.value \in Text \cup {NULL}
  BY <1>1, <1>3 DEF Line, FlagArgument
<1>8. PICK arg : arg = SplitArgumentLocked(line.key, line.value)
  OBVIOUS
<1>9. /\ w.split[line.key][line.value] = arg /\ arg.value \in Text \cup {NULL}
      /\ arg.flag # NULL => arg.flag \in Name /\ Registered(arg.flag)
  <2>1. PICK key \in Name, value \in Text \cup {NULL} : key = line.key /\ value = line.value
    BY <1>7
  <2>2. /\ arg.value \in Text \cup {NULL}
        /\ arg.flag # NULL => arg.flag \in Name /\ Registered(arg.flag)
    BY <1>8, <2>1, SplitType
  <2>3. "0" \in Text
    BY ParserAssumption
  <2>4. World.split[key][value] = SplitArgumentLocked(key, value)
    BY <2>3, WorldAt
  <2>. QED
    BY <1>8, <2>1, <2>2, <2>4
<1>10. CASE Top.relevant /\ arg.flag # NULL /\ arg.value # NULL
  <2>1. ProcessSingleOptionLocked(arg.flag, arg.value, "SET_FLAGS_VALUE", after)
    BY <1>1, <1>8, <1>10 DEF FlagLine
  <2>2. OfLine(w, nested, line, Top.relevant) = Process(w, nested, arg.flag, arg.value)
    BY <1>1, <1>9, <1>10 DEF OfLine
  <2>3. /\ arg.flag \in Name /\ Registered(arg.flag) /\ arg.value \in Text
    BY <1>9, <1>10
  <2> HIDE DEF after
  <2>4. Advances(Process(w, Meaning(w)[MaxDepth - Len(after)].list, arg.flag, arg.value)
                   \o Pending(w, after), Pending(w, stack'))
    BY <1>1, <1>5, <2>1, <2>3, ProcessAdvances
  <2>. QED
    BY <1>5, <1>6, <2>2, <2>4
<1>11. CASE ~(Top.relevant /\ arg.flag # NULL /\ arg.value # NULL)
  <2>1. stack' = after /\ UNCHANGED <<flags, error_flags>>
    BY <1>8, <1>11 DEF FlagLine
  <2>2. OfLine(w, nested, line, Top.relevant) = <<>>
    BY <1>1, <1>9, <1>11 DEF OfLine
  <2>3. Pending(w, stack) = Pending(w, stack')
    BY <1>6, <2>1, <2>2
  <2>. QED
    BY <1>1, <2>1, <2>3 DEF Advances
<1>. QED
  BY <1>10, <1>11

LEMMA NextEnvAdvances ==
  ASSUME CallState, NEW w, WorldOK(w), w = World, NextEnv, ~exited'
  PROVE  Advances(Pending(w, stack), Pending(w, stack'))
<1> DEFINE name == Head(Top.todo)
           n == FindFlagLocked(name)
           d == (MaxDepth - Len(stack)) + 1
           g == [Top EXCEPT !.todo = Tail(@)]
           nested == Meaning(w)[MaxDepth - Len(stack)].list
           fail == /\ error_flags' = error_flags \cup {name}
                   /\ stack' = Advance /\ UNCHANGED <<flags, exited>>
<1>1. /\ StackType /\ FlagsType /\ Origin /\ exited \in BOOLEAN /\ mode = "SET_FLAGS_VALUE"
      /\ env \in [Name -> Text \cup {NULL}]
      /\ stack # <<>> /\ Top.todo # <<>> /\ Top.kind \in {"fromenv", "tryfromenv"}
  BY DEF NextEnv, Calling, CallState, ParserTypes
<1>2. /\ d \in 1 .. MaxDepth /\ d - 1 = MaxDepth - Len(stack) /\ Top \in Frame
      /\ Pending(w, stack) = RestOf(w, Top, d) \o Pending(w, Tail(stack))
      /\ Pending(w, Tail(stack)) \in Seq(Event)
      /\ \A f \in Frame :
           Pending(w, <<f>> \o Tail(stack)) = RestOf(w, f, d) \o Pending(w, Tail(stack))
  BY <1>1, TopLevel, TopType
<1>3. name \in Text /\ name \in Name
  BY <1>1, AdvanceType, ParserAssumption
<1>4. g \in Frame /\ g.kind = Top.kind /\ g.kind # "lines" /\ g.todo = Tail(Top.todo)
  <2>1. Top \in [kind : Recursive, todo : Seq(Text), list : Value]
    BY <1>1, <1>2, FrameKinds
  <2>2. Tail(Top.todo) \in Seq(Text)
    BY <1>1, <2>1
  <2>. QED
    BY <1>1, <2>1, <2>2 DEF Frame
<1>5. Advance = <<g>> \o Tail(stack)
  BY DEF Advance
<1>6. Advance \in Seq(Frame) /\ Len(Advance) = Len(stack) /\ Len(Advance) <= MaxDepth
  BY <1>1, AdvanceType DEF StackType
<1>7. /\ Pending(w, Advance) = RestOf(w, g, d) \o Pending(w, Tail(stack))
      /\ Pending(w, Advance) \in Seq(Event)
  <2> HIDE DEF d, g
  <2>. QED
    BY <1>2, <1>4, <1>5, <1>6, PendingIs
<1> HIDE DEF d, g
<1>8. RestOf(w, Top, d)
        = OfEntry(w, Meaning(w)[d - 1], Top.kind, name) \o RestOf(w, g, d)
  <2>1. LET f == Top IN f.kind # "lines" /\ f.todo # <<>>
    BY <1>1
  <2>. QED
    BY <1>2, <1>4, <2>1, RestAfterEntry
<1> DEFINE events == OfVariable(w, nested, name, Top.kind = "fromenv")
<1>9. OfEntry(w, Meaning(w)[d - 1], Top.kind, name) = events
  BY <1>1, <1>2 DEF OfEntry
<1>10. nested \in [Recursive -> [Value -> Seq(Event)]]
  BY <1>2, InnerType
<1>11. w.find[name] = n /\ w.env[name] = env[name]
  BY <1>3, WorldAt
<1>12. n # NULL => n \in Name /\ Registered(n)
  BY <1>3, FindType
<1>20. NULL \notin {"fromenv", "tryfromenv"}
  BY FlagAssumption, ParserAssumption DEF Recursive
<1>13. events \in Seq(Event)
  <2> HIDE DEF nested
  <2>. QED
    BY <1>3, <1>10, OfVariableType
<1>14. Pending(w, stack) = events \o Pending(w, Advance)
  <2> HIDE DEF events
  <2>1. PICK x, y, z : x = events /\ y = RestOf(w, g, d) /\ z = Pending(w, Tail(stack))
    OBVIOUS
  <2>2. x \in Seq(Event) /\ y \in Seq(Event) /\ z \in Seq(Event)
    BY <1>2, <1>4, <1>13, <2>1, RestType
  <2>3. (x \o y) \o z = x \o (y \o z)
    BY <2>2
  <2>. QED
    BY <1>2, <1>7, <1>8, <1>9, <2>1, <2>3
<1>15. CASE n = NULL
  <2>1. fail /\ undefined_names' = undefined_names \cup {name}
    BY <1>15 DEF NextEnv
  <2>2. events = <<Unknown(name)>>
    BY <1>11, <1>15 DEF OfVariable
  <2>3. Unknown(name) \in Deed /\ Does(Unknown(name))
    BY <1>3, <1>15, <2>1, EventTypes DEF Does, Unknown
  <2>. QED
    BY <1>14, <2>1, <2>2, <2>3 DEF Advances
<1>16. ASSUME n # NULL, fail, UNCHANGED undefined_names, events = <<Fail(name)>>
       PROVE  Advances(Pending(w, stack), Pending(w, stack'))
  <2>1. Fail(name) \in Deed /\ Does(Fail(name))
    BY <1>3, <1>16, EventTypes DEF Does, Fail
  <2>. QED
    BY <1>14, <1>16, <2>1 DEF Advances
<1>17. CASE n # NULL /\ env[name] = NULL
  <2>1. UNCHANGED undefined_names /\ (IF Top.kind = "fromenv" THEN fail ELSE Skip)
    BY <1>17, <1>20 DEF NextEnv
  <2>2. events = IF Top.kind = "fromenv" THEN <<Fail(name)>> ELSE <<>>
    BY <1>11, <1>17, <1>20 DEF OfVariable
  <2>3. CASE Top.kind = "fromenv"
    BY <1>16, <1>17, <2>1, <2>2, <2>3
  <2>4. CASE Top.kind # "fromenv"
    <3>0. events = <<>>
      BY <2>2, <2>4
    <3>1. Pending(w, stack) = Pending(w, Advance)
      <4> HIDE DEF events
      <4>. QED
        BY <1>7, <1>14, <3>0
    <3>. QED
      BY <2>1, <2>4, <3>1 DEF Skip, Advances
  <2>. QED
    BY <2>3, <2>4
<1>18. CASE n # NULL /\ env[name] \in {"fromenv", "tryfromenv"}
  <2>1. env[name] # NULL
    BY <1>18, <1>20
  <2>2. UNCHANGED undefined_names /\ fail
    BY <1>18, <2>1 DEF NextEnv
  <2>3. events = <<Fail(name)>>
    BY <1>11, <1>18, <2>1 DEF OfVariable
  <2>. QED
    BY <1>16, <1>18, <2>2, <2>3
<1>19. CASE n # NULL /\ env[name] \notin {NULL, "fromenv", "tryfromenv"}
  <2>1. /\ UNCHANGED undefined_names
        /\ ProcessSingleOptionLocked(n, env[name], "SET_FLAGS_VALUE", Advance)
    BY <1>1, <1>19 DEF NextEnv
  <2>2. events = Process(w, nested, n, env[name])
    BY <1>11, <1>19 DEF OfVariable
  <2>3. env[name] \in Text
    BY <1>1, <1>3, <1>19
  <2>4. PICK m \in Name, text \in Text : m = n /\ text = env[name] /\ Registered(m)
    BY <1>12, <1>19, <2>3
  <2>5. Advances(Process(w, Meaning(w)[MaxDepth - Len(Advance)].list, m, text)
                   \o Pending(w, Advance), Pending(w, stack'))
    BY <1>1, <1>6, <2>1, <2>4, ProcessAdvances
  <2>. QED
    BY <1>6, <1>14, <2>2, <2>4, <2>5
<1>. QED
  BY <1>15, <1>17, <1>18, <1>19

LEMMA CallStepAdvances ==
  ASSUME CallState, NEW w, WorldOK(w), w = World, CallStep, ~exited'
  PROVE  Advances(Pending(w, stack), Pending(w, stack'))
BY ReturnAdvances, NextFileAdvances, CommentLineAdvances, FilenameLineAdvances,
   FlagLineAdvances, NextEnvAdvances DEF CallStep

-----------------------------------------------------------------------------
(* The arguments from some position on.                                    *)
LEMMA ArgumentKinds ==
  ASSUME command \in Seq(Argument), NEW k \in 1 .. Len(command)
  PROVE  /\ command[k].kind \in {"word", "end", "flag"} /\ command[k].text \in Text
         /\ command[k].kind = "flag" =>
              command[k].key \in Name /\ command[k].value \in Text \cup {NULL}
<1>1. command[k] \in Argument
  BY ElementOfSeq
<1>. QED
  BY <1>1 DEF Argument, FlagArgument

LEMMA OptionType ==
  ASSUME NEW w, WorldOK(w), command \in Seq(Argument), NEW k \in 1 .. Len(command),
         command[k].kind = "flag"
  PROVE  w.split[command[k].key][command[k].value] \in SplitResult
BY ArgumentKinds DEF WorldOK

LEMMA NestedType ==
  ASSUME NEW w, WorldOK(w)
  PROVE  Nested(w) \in [Recursive -> [Value -> Seq(Event)]]
<1>1. MaxDepth \in 0 .. MaxDepth
  BY ParserAssumption
<1>. QED
  BY <1>1, MeaningIs DEF Levels, Nested

LEMMA OfArgumentType ==
  ASSUME NEW w, WorldOK(w), command \in Seq(Argument), NEW k \in 1 .. Len(command)
  PROVE  OfArgument(w, k) \in Seq(Event) /\ ArgumentAfter(w, k) \in k + 1 .. Len(command) + 1
<1>1. /\ command[k].kind \in {"word", "end", "flag"} /\ command[k].text \in Text
      /\ Len(command) \in Nat
  BY ArgumentKinds
<1>2. CASE command[k].kind # "flag"
  BY <1>1, <1>2, EventTypes DEF OfArgument, ArgumentAfter
<1>3. CASE command[k].kind = "flag"
  <2>1. w.split[command[k].key][command[k].value] \in SplitResult
    BY <1>3, OptionType
  <2>2. PICK opt \in SplitResult : opt = w.split[command[k].key][command[k].value]
    BY <2>1
  <2>3. opt.flag \in Name \cup {NULL} /\ opt.key \in Name /\ opt.value \in Text \cup {NULL}
    BY DEF SplitResult
  <2>4. ArgumentAfter(w, k) \in k + 1 .. Len(command) + 1
    BY <1>1, <1>3, <2>2 DEF ArgumentAfter
  <2>5. CASE opt.flag = NULL
    <3>1. OfArgument(w, k) = <<Unknown(opt.key)>>
      BY <1>3, <2>2, <2>5 DEF OfArgument
    <3>. QED
      BY <2>3, <2>4, <3>1, EventTypes
  <2>6. CASE opt.flag # NULL /\ opt.value # NULL
    <3>1. OfArgument(w, k) = Process(w, Nested(w), opt.flag, opt.value)
      BY <1>3, <2>2, <2>6 DEF OfArgument
    <3>2. opt.flag \in Name /\ opt.value \in Text
      BY <2>3, <2>6
    <3>. QED
      BY <2>4, <3>1, <3>2, NestedType, ProcessType
  <2>7. CASE opt.flag # NULL /\ opt.value = NULL /\ k = Len(command)
    <3>1. OfArgument(w, k) = <<Fail(opt.key)>>
      BY <1>3, <2>2, <2>7 DEF OfArgument
    <3>. QED
      BY <2>3, <2>4, <3>1, EventTypes
  <2>8. CASE opt.flag # NULL /\ opt.value = NULL /\ k # Len(command)
    <3>1. OfArgument(w, k) = Process(w, Nested(w), opt.flag, command[k + 1].text)
      BY <1>3, <2>2, <2>8 DEF OfArgument
    <3>2. k + 1 \in 1 .. Len(command)
      BY <1>1, <2>8
    <3>3. opt.flag \in Name /\ command[k + 1].text \in Text
      BY <2>3, <2>8, <3>2, ArgumentKinds
    <3>. QED
      BY <2>4, <3>1, <3>3, NestedType, ProcessType
  <2>. QED
    BY <2>5, <2>6, <2>7, <2>8
<1>. QED
  BY <1>2, <1>3

(* Scan is the function its recursive definition describes.                *)
LEMMA ScanIs ==
  ASSUME NEW w, WorldOK(w), command \in Seq(Argument)
  PROVE  /\ Scan(w)[Len(command) + 1] = <<>>
         /\ \A k \in 1 .. Len(command) :
              Scan(w)[k] = OfArgument(w, k) \o Scan(w)[ArgumentAfter(w, k)]
         /\ \A k \in 1 .. Len(command) + 1 : Scan(w)[k] \in Seq(Event)
<1> DEFINE l == Len(command)
           n == Len(command) + 1
           Def(t) == t = [k \in 1 .. Len(command) + 1 |->
                            IF k > Len(command) THEN <<>>
                            ELSE OfArgument(w, k) \o t[ArgumentAfter(w, k)]]
           p == [j \in 0 .. l |-> IF j = 0 THEN 0 ELSE n - ArgumentAfter(w, n - j)]
           B == [j \in 0 .. l |-> <<>>]
           G == [j \in 0 .. l |-> [x \in Seq(Event) |->
                                      IF j = 0 THEN <<>> ELSE OfArgument(w, n - j) \o x]]
<1>1. l \in Nat /\ n = l + 1 /\ <<>> \in Seq(Event)
  BY LenProperties
<1>2. ASSUME NEW k \in 1 .. l
      PROVE  OfArgument(w, k) \in Seq(Event) /\ ArgumentAfter(w, k) \in k + 1 .. n
  BY OfArgumentType
<1> HIDE DEF l, n
<1>3. p \in [0 .. l -> Nat]
  <2>1. ASSUME NEW j \in 0 .. l, j # 0 PROVE n - ArgumentAfter(w, n - j) \in Nat
    <3>1. n - j \in 1 .. l
      BY <1>1, <2>1
    <3>. QED
      BY <1>1, <1>2, <3>1
  <2>. QED
    BY <2>1
<1>4. B \in [0 .. l -> Seq(Event)]
  BY <1>1
<1>5. G \in [0 .. l -> [Seq(Event) -> Seq(Event)]]
  <2>1. ASSUME NEW j \in 0 .. l, NEW x \in Seq(Event)
        PROVE  (IF j = 0 THEN <<>> ELSE OfArgument(w, n - j) \o x) \in Seq(Event)
    <3>1. j # 0 => n - j \in 1 .. l
      BY <1>1
    <3>2. j # 0 => OfArgument(w, n - j) \in Seq(Event)
      BY <1>2, <3>1
    <3>. QED
      BY <1>1, <3>2, ConcatProperties
  <2>. QED
    BY <2>1
<1>6. /\ p[0] = 0 /\ \A j \in 1 .. l : p[j] = n - ArgumentAfter(w, n - j)
      /\ B[0] = <<>>
      /\ \A j \in 1 .. l : \A x \in Seq(Event) : G[j][x] = OfArgument(w, n - j) \o x
  BY <1>1
<1> HIDE DEF p, B, G
<1>7. PICK f \in [0 .. l -> Seq(Event)] : Descends(f, l, p, B, G)
  BY <1>1, <1>3, <1>4, <1>5, DescentExists
<1> DEFINE g == [k \in 1 .. n |-> f[n - k]]
<1>8. ASSUME NEW k \in 1 .. n
      PROVE  g[k] = IF k > l THEN <<>> ELSE OfArgument(w, k) \o g[ArgumentAfter(w, k)]
  <2>1. PICK j \in 0 .. l : j = n - k /\ k = n - j
    BY <1>1
  <2>2. f[j] = IF p[j] < j THEN G[j][f[p[j]]] ELSE B[j]
    BY <1>7 DEF Descends
  <2>3. CASE j = 0
    <3>1. f[j] = <<>>
      BY <1>6, <2>2, <2>3
    <3>2. g[k] = f[j]
      BY <2>1
    <3>3. k > l
      BY <1>1, <2>1, <2>3
    <3> HIDE DEF g
    <3>. QED
      BY <3>1, <3>2, <3>3
  <2>4. CASE j # 0
    <3>1. k \in 1 .. l /\ j \in 1 .. l
      BY <1>1, <2>1, <2>4
    <3>2. PICK a \in k + 1 .. n : a = ArgumentAfter(w, k)
      BY <1>2, <3>1
    <3>3. p[j] = n - a /\ p[j] < j /\ p[j] \in 0 .. l /\ a \in 1 .. n
      <4>1. p[j] = n - a
        BY <1>6, <2>1, <3>1, <3>2
      <4>2. n - a < j /\ n - a \in 0 .. l /\ a \in 1 .. n
        BY <1>1, <2>1, <3>2
      <4>. QED
        BY <4>1, <4>2
    <3>4. f[j] = OfArgument(w, k) \o f[p[j]]
      BY <1>6, <2>1, <2>2, <3>1, <3>3
    <3>5. g[a] = f[p[j]] /\ g[k] = f[j]
      BY <2>1, <3>3
    <3>6. ~(k > l)
      BY <1>1, <3>1
    <3> HIDE DEF g
    <3>. QED
      BY <3>2, <3>4, <3>5, <3>6
  <2>. QED
    BY <2>3, <2>4
<1>9. Def(g)
  <2> HIDE DEF g
  <2>1. g = [k \in 1 .. n |-> g[k]]
    BY DEF g
  <2>2. g = [k \in 1 .. n |-> IF k > l THEN <<>> ELSE OfArgument(w, k) \o g[ArgumentAfter(w, k)]]
    BY <1>8, <2>1
  <2>. QED
    BY <2>2 DEF l, n
<1>10. Scan(w) = CHOOSE t : Def(t)
  BY DEF Scan
<1>11. Def(Scan(w))
  <2>1. \E t : Def(t)
    BY <1>9
  <2>2. Def(CHOOSE t : Def(t))
    BY <2>1, Zenon
  <2>. QED
    BY <1>10, <2>2, Zenon
<1>12. PICK s : s = Scan(w)
  OBVIOUS
<1>13. s = [k \in 1 .. n |-> IF k > l THEN <<>> ELSE OfArgument(w, k) \o s[ArgumentAfter(w, k)]]
  BY <1>11, <1>12 DEF l, n
<1>14. /\ s[n] = <<>>
       /\ \A k \in 1 .. l : s[k] = OfArgument(w, k) \o s[ArgumentAfter(w, k)]
  <2>1. ASSUME NEW k \in 1 .. n
        PROVE  s[k] = IF k > l THEN <<>> ELSE OfArgument(w, k) \o s[ArgumentAfter(w, k)]
    <3> DEFINE E(i) == IF i > l THEN <<>> ELSE OfArgument(w, i) \o s[ArgumentAfter(w, i)]
    <3>1. s = [i \in 1 .. n |-> E(i)]
      BY <1>13
    <3> HIDE DEF E
    <3>2. s[k] = E(k)
      BY <3>1
    <3>. QED
      BY <3>2 DEF E
  <2>2. n \in 1 .. n /\ n > l /\ \A k \in 1 .. l : k \in 1 .. n /\ ~(k > l)
    BY <1>1
  <2>. QED
    BY <2>1, <2>2
<1> DEFINE T == {j \in 0 .. l : s[n - j] \in Seq(Event)}
<1>15. ASSUME NEW j \in 0 .. l, \A i \in 0 .. j - 1 : i \in T PROVE j \in T
  <2>1. CASE j = 0
    <3>1. n - j = n
      BY <1>1, <2>1
    <3>. QED
      BY <1>1, <1>14, <3>1
  <2>2. CASE j # 0
    <3>1. n - j \in 1 .. l
      BY <1>1, <2>2
    <3>2. PICK k \in 1 .. l : k = n - j
      BY <3>1
    <3>3. PICK a \in k + 1 .. n : a = ArgumentAfter(w, k)
      BY <1>2
    <3>4. n - a \in 0 .. j - 1 /\ n - (n - a) = a
      BY <1>1, <3>2, <3>3
    <3>5. s[n - (n - a)] \in Seq(Event)
      BY <1>15, <3>4
    <3>6. s[a] \in Seq(Event)
      BY <3>4, <3>5
    <3>7. s[k] = OfArgument(w, k) \o s[a] /\ OfArgument(w, k) \in Seq(Event)
      BY <1>2, <1>14, <3>3
    <3>8. s[k] \in Seq(Event)
      BY <3>6, <3>7, ConcatProperties
    <3>9. j \in 0 .. l /\ s[n - j] \in Seq(Event)
      BY <3>2, <3>8
    <3>. QED
      BY <3>9
  <2>. QED
    BY <2>1, <2>2
<1>16. \A j \in 0 .. l : j \in T
  <2> HIDE DEF T
  <2>. QED
    BY <1>1, <1>15, StrongInduction
<1>17. ASSUME NEW k \in 1 .. n PROVE s[k] \in Seq(Event)
  <2>1. n - k \in 0 .. l /\ n - (n - k) = k
    BY <1>1
  <2>2. s[n - (n - k)] \in Seq(Event)
    BY <1>16, <2>1
  <2>. QED
    BY <2>1, <2>2
<1>. QED
  BY <1>12, <1>14, <1>17 DEF l, n

(* The argument that the scan has come to, by its position in command.     *)
Position == (cursor + Len(command) + 1) - first_nonopt

LEMMA AtPosition ==
  ASSUME TypeInv, ArgvInv, Parsing
  PROVE  \E a \in 1 .. Len(command) :
           /\ a = Position /\ Arg = command[a] /\ Len(command) \in Nat
           /\ cursor \in Nat /\ first_nonopt \in Nat
           /\ cursor + 1 >= first_nonopt <=> a = Len(command)
           /\ cursor + 1 < first_nonopt => order[cursor + 1] = a + 1
<1>1. /\ Len(command) \in Nat /\ cursor \in 1 .. Len(command) + 1
      /\ first_nonopt \in 1 .. Len(command) + 1 /\ cursor < first_nonopt
  BY ScanPoint
<1>2. PICK a \in 1 .. Len(command) :
        ScanInv(a) /\ Arg = command[a] /\ a + first_nonopt = cursor + Len(command) + 1
  BY ScanPoint
<1>3. \A i \in cursor .. first_nonopt - 1 : order[i] = i + (a - cursor)
  BY <1>2 DEF ScanInv, MidScan
<1>4. a = Position
  BY <1>1, <1>2 DEF Position
<1>5. ASSUME cursor + 1 < first_nonopt PROVE order[cursor + 1] = a + 1
  <2>1. cursor + 1 \in cursor .. first_nonopt - 1
    BY <1>1, <1>5
  <2>2. (cursor + 1) + (a - cursor) = a + 1
    BY <1>1
  <2>. QED
    BY <1>3, <2>1, <2>2
<1>6. cursor + 1 >= first_nonopt <=> a = Len(command)
  BY <1>1, <1>2
<1>. QED
  BY <1>1, <1>2, <1>4, <1>5, <1>6

(* The option that the scan has come to.                                   *)
LEMMA OptionAt ==
  ASSUME NEW w, w = World, command \in Seq(Argument), NEW a \in 1 .. Len(command),
         Arg = command[a], Arg.kind = "flag"
  PROVE  w.split[command[a].key][command[a].value] = SplitArgumentLocked(Arg.key, Arg.value)
<1>1. PICK key \in Name, value \in Text \cup {NULL} :
        key = command[a].key /\ value = command[a].value
  BY ArgumentKinds
<1>2. "0" \in Text
  BY ParserAssumption
<1>3. World.split[key][value] = SplitArgumentLocked(key, value)
  BY <1>2, WorldAt
<1>. QED
  BY <1>1, <1>3

(* What the parser may count on in the loop over argv.                     *)
ScanState == TypeInv /\ ArgvInv /\ CallState

LEMMA ProgramArgumentAdvances ==
  ASSUME ScanState, NEW w, WorldOK(w), ProgramArgument
  PROVE  Advances(Scan(w)[Position], Scan(w)[Position'])
<1>1. Parsing /\ Arg.kind = "word" /\ cursor' = cursor /\ first_nonopt' = first_nonopt - 1
      /\ command' = command
  BY DEF ProgramArgument, Permute, Settled, fixedVars
<1>2. PICK a \in 1 .. Len(command) :
        /\ a = Position /\ Arg = command[a] /\ Len(command) \in Nat
        /\ cursor \in Nat /\ first_nonopt \in Nat
  BY <1>1, AtPosition DEF ScanState
<1>3. command \in Seq(Argument)
  BY DEF ScanState, CallState, ParserTypes
<1>4. Position' = a + 1
  BY <1>1, <1>2 DEF Position
<1>5. OfArgument(w, a) = <<>> /\ ArgumentAfter(w, a) = a + 1
  BY <1>1, <1>2 DEF OfArgument, ArgumentAfter
<1>6. Scan(w)[a] = <<>> \o Scan(w)[a + 1] /\ Scan(w)[a + 1] \in Seq(Event)
  <2>1. Scan(w)[a] = OfArgument(w, a) \o Scan(w)[ArgumentAfter(w, a)]
    BY <1>3, ScanIs
  <2>2. a + 1 \in 1 .. Len(command) + 1
    BY <1>2
  <2>3. Scan(w)[a + 1] \in Seq(Event)
    BY <1>3, <2>2, ScanIs
  <2>. QED
    BY <1>5, <2>1, <2>3
<1>7. Scan(w)[Position] = Scan(w)[Position']
  BY <1>2, <1>4, <1>6
<1>. QED
  BY <1>7 DEF Advances, ProgramArgument

LEMMA EndOfOptionsAdvances ==
  ASSUME ScanState, NEW w, WorldOK(w), EndOfOptions
  PROVE  Advances(Scan(w)[Position], Scan(w)[Position'])
<1>1. Parsing /\ Arg.kind = "end" /\ cursor' = cursor + 1 /\ first_nonopt' = cursor + 1
      /\ command' = command
  BY DEF EndOfOptions, Settled, fixedVars
<1>2. PICK a \in 1 .. Len(command) :
        /\ a = Position /\ Arg = command[a] /\ Len(command) \in Nat
        /\ cursor \in Nat /\ first_nonopt \in Nat
  BY <1>1, AtPosition DEF ScanState
<1>3. command \in Seq(Argument)
  BY DEF ScanState, CallState, ParserTypes
<1>4. Position' = Len(command) + 1
  BY <1>1, <1>2 DEF Position
<1>5. OfArgument(w, a) = <<>> /\ ArgumentAfter(w, a) = Len(command) + 1
  BY <1>1, <1>2 DEF OfArgument, ArgumentAfter
<1>6. Scan(w)[a] = Scan(w)[Len(command) + 1]
  <2>1. Scan(w)[Len(command) + 1] = <<>>
    BY <1>3, ScanIs
  <2>2. Scan(w)[a] = OfArgument(w, a) \o Scan(w)[ArgumentAfter(w, a)]
    BY <1>3, ScanIs
  <2>3. <<>> \o <<>> = <<>>
    OBVIOUS
  <2>. QED
    BY <1>5, <2>1, <2>2, <2>3
<1>7. Scan(w)[Position] = Scan(w)[Position']
  BY <1>2, <1>4, <1>6
<1>. QED
  BY <1>7 DEF Advances, EndOfOptions

LEMMA UnknownOptionAdvances ==
  ASSUME ScanState, NEW w, WorldOK(w), w = World, UnknownOption
  PROVE  Advances(Scan(w)[Position], Scan(w)[Position'])
<1> DEFINE opt == SplitArgumentLocked(Arg.key, Arg.value)
<1>1. /\ Parsing /\ Arg.kind = "flag" /\ cursor' = cursor + 1 /\ first_nonopt' = first_nonopt
      /\ command' = command /\ opt.flag = NULL
  BY DEF UnknownOption, Settled, fixedVars
<1>2. PICK a \in 1 .. Len(command) :
        /\ a = Position /\ Arg = command[a] /\ Len(command) \in Nat
        /\ cursor \in Nat /\ first_nonopt \in Nat
  BY <1>1, AtPosition DEF ScanState
<1>3. command \in Seq(Argument)
  BY DEF ScanState, CallState, ParserTypes
<1>4. Position' = a + 1
  BY <1>1, <1>2 DEF Position
<1>5. w.split[command[a].key][command[a].value] = opt
  BY <1>1, <1>2, <1>3, OptionAt
<1>6. OfArgument(w, a) = <<Unknown(opt.key)>> /\ ArgumentAfter(w, a) = a + 1
  <2> HIDE DEF opt
  <2>. QED
    BY <1>1, <1>2, <1>5 DEF OfArgument, ArgumentAfter
<1>7. Scan(w)[a] = <<Unknown(opt.key)>> \o Scan(w)[a + 1]
  BY <1>2, <1>3, <1>6, ScanIs
<1>8. Arg.key \in Name /\ opt.key = Arg.key /\ FindFlagLocked(opt.key) = NULL
  <2>1. Arg.key \in Name
    BY <1>1, <1>2, <1>3, ArgumentKinds
  <2>2. opt.key = Arg.key /\ FindFlagLocked(Arg.key) = NULL
    <3>1. Positive[Arg.key] # NULL => Positive[Arg.key] \in Name
      BY <2>1, ParserAssumption
    <3>2. Bool \subseteq Name
      BY ParserAssumption
    <3>. QED
      BY <1>1, <3>2, FlagAssumption DEF SplitArgumentLocked
  <2>. QED
    BY <2>1, <2>2
<1>9. Does(Unknown(opt.key))
  <2>1. /\ error_flags' = error_flags \cup {opt.key}
        /\ undefined_names' = undefined_names \cup {opt.key} /\ UNCHANGED flags
    BY DEF UnknownOption
  <2>2. Unknown(opt.key).kind = "unknown" /\ Unknown(opt.key).name = opt.key
    BY DEF Unknown
  <2> HIDE DEF opt
  <2>. QED
    BY <1>8, <2>1, <2>2 DEF Does
<1>10. Unknown(opt.key) \in Deed
  <2> HIDE DEF opt
  <2>. QED
    BY <1>8, EventTypes
<1>. QED
  BY <1>2, <1>4, <1>7, <1>9, <1>10 DEF Advances

LEMMA MissingArgumentAdvances ==
  ASSUME ScanState, NEW w, WorldOK(w), w = World, MissingArgument
  PROVE  Advances(Scan(w)[Position], Scan(w)[Position'])
<1> DEFINE opt == SplitArgumentLocked(Arg.key, Arg.value)
<1>1. /\ Parsing /\ Arg.kind = "flag" /\ cursor' = first_nonopt /\ first_nonopt' = first_nonopt
      /\ command' = command /\ opt.flag # NULL /\ opt.value = NULL /\ cursor + 1 >= first_nonopt
  BY DEF MissingArgument, Settled, fixedVars
<1>2. PICK a \in 1 .. Len(command) :
        /\ a = Position /\ Arg = command[a] /\ Len(command) \in Nat
        /\ cursor \in Nat /\ first_nonopt \in Nat
        /\ cursor + 1 >= first_nonopt <=> a = Len(command)
  BY <1>1, AtPosition DEF ScanState
<1>3. command \in Seq(Argument)
  BY DEF ScanState, CallState, ParserTypes
<1>4. Position' = a + 1 /\ a = Len(command)
  BY <1>1, <1>2 DEF Position
<1>5. w.split[command[a].key][command[a].value] = opt
  BY <1>1, <1>2, <1>3, OptionAt
<1>6. OfArgument(w, a) = <<Fail(opt.key)>> /\ ArgumentAfter(w, a) = a + 1
  <2> HIDE DEF opt
  <2>. QED
    BY <1>1, <1>2, <1>4, <1>5 DEF OfArgument, ArgumentAfter
<1>7. Scan(w)[a] = <<Fail(opt.key)>> \o Scan(w)[a + 1]
  BY <1>2, <1>3, <1>6, ScanIs
<1>8. opt.key \in Name /\ FindFlagLocked(opt.key) # NULL
  <2>1. Arg.key \in Name /\ NULL # "0"
    BY <1>1, <1>2, <1>3, ArgumentKinds, ParserAssumption, FlagAssumption
  <2>2. opt.key = Arg.key /\ FindFlagLocked(Arg.key) # NULL
    BY <1>1, <2>1 DEF SplitArgumentLocked
  <2>. QED
    BY <2>1, <2>2
<1>9. Does(Fail(opt.key))
  <2>1. error_flags' = error_flags \cup {opt.key} /\ UNCHANGED <<flags, undefined_names>>
    BY DEF MissingArgument
  <2>2. Fail(opt.key).kind = "fail" /\ Fail(opt.key).name = opt.key
    BY DEF Fail
  <2> HIDE DEF opt
  <2>. QED
    BY <1>8, <2>1, <2>2 DEF Does
<1>10. Fail(opt.key) \in Deed
  <2> HIDE DEF opt
  <2>. QED
    BY <1>8, EventTypes
<1>. QED
  BY <1>2, <1>4, <1>7, <1>9, <1>10 DEF Advances

(* Events that come later do not matter to those that are done.            *)
LEMMA AdvancesBefore ==
  ASSUME NEW p \in Seq(Event), NEW q \in Seq(Event), NEW s \in Seq(Event), Advances(p, q)
  PROVE  Advances(p \o s, q \o s)
<1>1. CASE p = q /\ UNCHANGED <<flags, error_flags, undefined_names>>
  BY <1>1 DEF Advances
<1>2. CASE \E e \in Deed : p = <<e>> \o q /\ Does(e)
  <2>1. PICK e \in Deed : p = <<e>> \o q /\ Does(e)
    BY <1>2
  <2>2. <<e>> \in Seq(Event)
    BY DEF Event
  <2>3. (<<e>> \o q) \o s = <<e>> \o (q \o s)
    BY <2>2
  <2>. QED
    BY <2>1, <2>3 DEF Advances
<1>. QED
  BY <1>1, <1>2 DEF Advances

LEMMA KnownOptionAdvances ==
  ASSUME ScanState, NEW w, WorldOK(w), w = World, KnownOption, ~exited'
  PROVE  Advances(Scan(w)[Position], Pending(w, stack') \o Scan(w)[Position'])
<1> DEFINE opt == SplitArgumentLocked(Arg.key, Arg.value)
           inline == opt.value # NULL
           text == IF inline THEN opt.value ELSE command[order[cursor + 1]].text
<1>1. /\ Parsing /\ Arg.kind = "flag" /\ first_nonopt' = first_nonopt /\ command' = command
      /\ opt.flag # NULL /\ (inline \/ cursor + 1 < first_nonopt)
      /\ cursor' = IF inline THEN cursor + 1 ELSE cursor + 2
      /\ mode = "SET_FLAGS_VALUE" /\ UNCHANGED undefined_names
      /\ FlagsType /\ Origin /\ exited \in BOOLEAN /\ command \in Seq(Argument)
  BY DEF KnownOption, Settled, fixedVars, ScanState, CallState, ParserTypes
<1>2. PICK a \in 1 .. Len(command) :
        /\ a = Position /\ Arg = command[a] /\ Len(command) \in Nat
        /\ cursor \in Nat /\ first_nonopt \in Nat
        /\ cursor + 1 >= first_nonopt <=> a = Len(command)
        /\ cursor + 1 < first_nonopt => order[cursor + 1] = a + 1
  BY <1>1, AtPosition DEF ScanState
<1>3. ProcessSingleOptionLocked(opt.flag, text, "SET_FLAGS_VALUE", <<>>)
  BY <1>1 DEF KnownOption
<1>4. w.split[command[a].key][command[a].value] = opt
  BY <1>1, <1>2, OptionAt
<1>5. opt \in SplitResult /\ Registered(opt.flag)
  <2>1. opt \in SplitResult
    BY <1>1, <1>2, <1>4, OptionType
  <2>2. PICK key \in Name, value \in Text \cup {NULL} : key = Arg.key /\ value = Arg.value
    BY <1>1, <1>2, ArgumentKinds
  <2>3. Registered(opt.flag)
    BY <1>1, <2>2, SplitType
  <2>. QED
    BY <2>1, <2>3
<1> HIDE DEF opt
<1>6. /\ OfArgument(w, a) = Process(w, Nested(w), opt.flag, text)
      /\ ArgumentAfter(w, a) = Position'
      /\ text \in Text /\ opt.flag \in Name
  <2>1. CASE inline
    <3>1. Position' = a + 1
      BY <1>1, <1>2, <2>1 DEF Position
    <3>2. text = opt.value /\ opt.value \in Text /\ opt.flag \in Name
      BY <1>1, <1>5, <2>1 DEF SplitResult
    <3>. QED
      BY <1>1, <1>2, <1>4, <2>1, <3>1, <3>2 DEF OfArgument, ArgumentAfter
  <2>2. CASE ~inline
    <3>1. Position' = a + 2 /\ a # Len(command) /\ a < Len(command)
      BY <1>1, <1>2, <2>2 DEF Position
    <3>2. text = command[a + 1].text /\ a + 1 \in 1 .. Len(command)
      BY <1>1, <1>2, <2>2, <3>1
    <3>3. command[a + 1].text \in Text
      BY <1>1, <3>2, ArgumentKinds
    <3>4. opt.flag \in Name
      BY <1>1, <1>5 DEF SplitResult
    <3>. QED
      BY <1>1, <1>2, <1>4, <2>2, <3>1, <3>2, <3>3, <3>4 DEF OfArgument, ArgumentAfter
  <2>. QED
    BY <2>1, <2>2
<1> HIDE DEF text
<1> DEFINE events == Process(w, Nested(w), opt.flag, text)
<1>7. Advances(events, Pending(w, stack')) /\ Pending(w, stack') \in Seq(Event)
  <2>1. /\ <<>> \in Seq(Frame) /\ Len(<<>>) = 0
        /\ MaxDepth \in Nat /\ 0 <= MaxDepth /\ MaxDepth - 0 = MaxDepth
    BY ParserAssumption
  <2>2. PICK callers \in Seq(Frame) : callers = <<>> /\ Len(callers) <= MaxDepth
                                      /\ MaxDepth - Len(callers) = MaxDepth
    BY <2>1
  <2>3. /\ Advances(Process(w, Meaning(w)[MaxDepth - Len(callers)].list, opt.flag, text)
                      \o Pending(w, callers), Pending(w, stack'))
        /\ stack' \in Seq(Frame) /\ Len(stack') <= MaxDepth
    BY <1>1, <1>3, <1>5, <1>6, <2>2, ProcessAdvances
  <2>4. Pending(w, callers) = <<>>
    BY <2>2, PendingIs
  <2>5. events \in Seq(Event)
    BY <1>6, NestedType, ProcessType
  <2>6. Meaning(w)[MaxDepth - Len(callers)].list = Nested(w)
    BY <2>2 DEF Nested
  <2> HIDE DEF events
  <2>7. events \o <<>> = events
    BY <2>5
  <2>8. Pending(w, stack') \in Seq(Event)
    BY <2>3, PendingIs
  <2>. QED
    BY <2>3, <2>4, <2>6, <2>7, <2>8 DEF events
<1>8. events \in Seq(Event)
  BY <1>6, NestedType, ProcessType
<1>9. /\ Scan(w)[a] = events \o Scan(w)[Position']
      /\ Scan(w)[Position'] \in Seq(Event)
  <2>1. ArgumentAfter(w, a) \in 1 .. Len(command) + 1
    BY <1>1, <1>2, OfArgumentType
  <2>. QED
    BY <1>1, <1>6, <2>1, ScanIs
<1> HIDE DEF events
<1>. QED
  BY <1>2, <1>7, <1>8, <1>9, AdvancesBefore

-----------------------------------------------------------------------------
(* What the events so far leave behind.                                    *)
OfKind(events, k)  == {e \in ToSet(events) : e.kind = k}
UnknownIn(events)  == {e.name : e \in OfKind(events, "unknown")}
FailedIn(events)   == {e.name : e \in OfKind(events, "fail")}
RefusedIn(events)  == {e.name : e \in {d \in OfKind(events, "set") : ~Acceptable(d.name, d.text)}}

Leaves(past) ==
  /\ \A n \in Name : Registered(n) => flags[n].current = ValueAfter(past, n)
  /\ undefined_names = UnknownIn(past)
  /\ \A e \in ToSet(past) : e.kind = "unknown" <=> FindFlagLocked(e.name) = NULL

Reflects(past) ==
  /\ Leaves(past)
  /\ error_flags = RefusedIn(past) \cup FailedIn(past) \cup UnknownIn(past)

LEMMA Appended ==
  ASSUME NEW past \in Seq(Deed), NEW e \in Deed
  PROVE  LET t == past \o <<e>>
         IN  /\ t \in Seq(Deed) /\ Len(past) \in Nat /\ Len(t) = Len(past) + 1
             /\ DOMAIN t = 1 .. Len(past) + 1 /\ DOMAIN past = 1 .. Len(past)
             /\ t[Len(past) + 1] = e /\ \A i \in 1 .. Len(past) : t[i] = past[i]
             /\ ToSet(t) = ToSet(past) \cup {e}
<1> DEFINE t == past \o <<e>>
<1>1. /\ t \in Seq(Deed) /\ Len(past) \in Nat /\ Len(t) = Len(past) + 1
      /\ DOMAIN t = 1 .. Len(past) + 1 /\ DOMAIN past = 1 .. Len(past)
      /\ t[Len(past) + 1] = e /\ \A i \in 1 .. Len(past) : t[i] = past[i]
  OBVIOUS
<1> HIDE DEF t
<1>2. ToSet(t) = ToSet(past) \cup {e}
  <2>1. ASSUME NEW x \in ToSet(t) PROVE x \in ToSet(past) \cup {e}
    <3>1. PICK i \in DOMAIN t : x = t[i]
      BY DEF ToSet
    <3>2. i = Len(past) + 1 \/ i \in 1 .. Len(past)
      BY <1>1
    <3>. QED
      BY <1>1, <3>1, <3>2 DEF ToSet
  <2>2. ASSUME NEW x \in ToSet(past) PROVE x \in ToSet(t)
    <3>1. PICK i \in DOMAIN past : x = past[i]
      BY DEF ToSet
    <3>2. i \in DOMAIN t /\ x = t[i]
      BY <1>1, <3>1
    <3>. QED
      BY <3>2 DEF ToSet
  <2>3. e \in ToSet(t)
    <3>1. Len(past) + 1 \in DOMAIN t
      BY <1>1
    <3>. QED
      BY <1>1, <3>1 DEF ToSet
  <2>. QED
    BY <2>1, <2>2, <2>3
<1>. QED
  BY <1>1, <1>2 DEF t

LEMMA ValueNext ==
  ASSUME NEW past \in Seq(Deed), NEW e \in Deed, NEW n \in Name
  PROVE  ValueAfter(past \o <<e>>, n)
           = IF e.kind = "set" /\ e.name = n /\ Acceptable(n, e.text) THEN Parse[n][e.text]
             ELSE ValueAfter(past, n)
<1> DEFINE t == past \o <<e>>
           Hit(d) == d.kind = "set" /\ d.name = n /\ Acceptable(n, d.text)
           last(s) == {i \in DOMAIN s : Hit(s[i])}
<1>1. /\ Len(past) \in Nat /\ DOMAIN t = 1 .. Len(past) + 1 /\ DOMAIN past = 1 .. Len(past)
      /\ t[Len(past) + 1] = e /\ \A i \in 1 .. Len(past) : t[i] = past[i]
  BY Appended
<1>2. \A s : ValueAfter(s, n)
               = IF last(s) = {} THEN before[n].current ELSE Parse[n][s[Max(last(s))].text]
  BY DEF ValueAfter
<1> HIDE DEF t, Hit
<1>3. CASE Hit(e)
  <2>1. /\ Len(past) + 1 \in Nat /\ last(t) \in SUBSET (0 .. Len(past) + 1)
        /\ Len(past) + 1 \in last(t)
    BY <1>1, <1>3
  <2>2. Max(last(t)) \in last(t) /\ Max(last(t)) >= Len(past) + 1
    <3> HIDE DEF last
    <3>. QED
      BY <2>1, GreatestMember
  <2>3. Max(last(t)) = Len(past) + 1
    <3>1. Max(last(t)) \in 0 .. Len(past) + 1
      BY <2>1, <2>2
    <3> HIDE DEF last
    <3>. QED
      BY <1>1, <2>2, <3>1
  <2>4. last(t) # {}
    BY <2>1
  <2>5. ValueAfter(t, n) = Parse[n][e.text]
    <3> HIDE DEF last
    <3>. QED
      BY <1>1, <1>2, <2>3, <2>4
  <2>. QED
    BY <1>3, <2>5 DEF t, Hit
<1>4. CASE ~Hit(e)
  <2>1. last(t) = last(past)
    <3>1. ASSUME NEW i \in last(t) PROVE i \in last(past)
      <4>1. i # Len(past) + 1
        BY <1>1, <1>4
      <4>2. i \in 1 .. Len(past)
        BY <1>1, <4>1
      <4>. QED
        BY <1>1, <4>2
    <3>2. ASSUME NEW i \in last(past) PROVE i \in last(t)
      BY <1>1
    <3>. QED
      BY <3>1, <3>2
  <2>2. CASE last(past) = {}
    <3> HIDE DEF last
    <3>1. ValueAfter(t, n) = ValueAfter(past, n)
      BY <1>2, <2>1, <2>2
    <3>. QED
      BY <1>4, <3>1 DEF t, Hit
  <2>3. CASE last(past) # {}
    <3>1. last(past) \in SUBSET (0 .. Len(past)) /\ last(past) \subseteq 1 .. Len(past)
      BY <1>1
    <3> HIDE DEF last
    <3>2. Max(last(past)) \in last(past)
      BY <1>1, <2>3, <3>1, GreatestMember
    <3>3. t[Max(last(past))] = past[Max(last(past))]
      BY <1>1, <3>1, <3>2
    <3>4. ValueAfter(t, n) = ValueAfter(past, n)
      BY <1>2, <2>1, <2>3, <3>3
    <3>. QED
      BY <1>4, <3>4 DEF t, Hit
  <2>. QED
    BY <2>2, <2>3
<1>. QED
  BY <1>3, <1>4

LEMMA NothingReflected ==
  /\ \A n : ValueAfter(<<>>, n) = before[n].current
  /\ UnknownIn(<<>>) = {} /\ FailedIn(<<>>) = {} /\ RefusedIn(<<>>) = {}
<1>1. DOMAIN <<>> = {} /\ ToSet(<<>>) = {}
  BY DEF ToSet
<1>. QED
  BY <1>1 DEF ValueAfter, UnknownIn, FailedIn, RefusedIn, OfKind

LEMMA SameFind ==
  ASSUME SameNames, NEW name \in Name
  PROVE  FindFlagLocked(name)' = FindFlagLocked(name)
BY FlagAssumption DEF SameNames, FindFlagLocked, Registered

(* A deed neither registers flags nor installs validate functions.         *)
LEMMA DeedKeeps ==
  ASSUME FlagsType, Origin, error_flags \subseteq Name, UNCHANGED before,
         \/ UNCHANGED flags
         \/ \E e \in Deed : Does(e)
  PROVE  SameNames /\ Origin'
<1>1. CASE UNCHANGED flags
  BY <1>1 DEF SameNames, Origin, Registered
<1>2. CASE \E n \in Name, text \in Text : Sets(n, text, "SET_FLAGS_VALUE")
  <2>1. PICK n \in Name, text \in Text : Sets(n, text, "SET_FLAGS_VALUE")
    BY <1>2
  <2>2. SameNames
    BY <1>2, FlagsChange DEF SettingMode
  <2>3. Registered(n)
    BY <2>1 DEF Sets
  <2>4. /\ flags'[n].validate_fn = flags[n].validate_fn
        /\ \A m \in Name : m # n => flags'[m] = flags[m]
    BY <2>1, <2>3, AcceptedIsSet
  <2>. QED
    BY <2>2, <2>3, <2>4 DEF SameNames, Origin, Registered
<1>3. ASSUME NEW e \in Deed, Does(e)
      PROVE  UNCHANGED flags \/ \E n \in Name, text \in Text : Sets(n, text, "SET_FLAGS_VALUE")
  BY <1>3 DEF Does, Deed
<1>. QED
  BY <1>1, <1>2, <1>3

LEMMA ReflectsNext ==
  ASSUME FlagsType, Origin, error_flags \subseteq Name, UNCHANGED before,
         NEW past \in Seq(Deed), Reflects(past), NEW e \in Deed, Does(e)
  PROVE  Reflects(past \o <<e>>)'
<1> DEFINE t == past \o <<e>>
<1>1. SameNames /\ Origin'
  BY DeedKeeps
<1>2. ToSet(t) = ToSet(past) \cup {e}
  BY Appended
<1>3. \A n \in Name : /\ ValueAfter(t, n)' = ValueAfter(t, n)
                      /\ \A text : Acceptable(n, text)' <=> Acceptable(n, text)
  BY DEF ValueAfter, Acceptable, TryParseLocked, Validate
<1>4. UnknownIn(t)' = UnknownIn(t) /\ FailedIn(t)' = FailedIn(t) /\ RefusedIn(t)' = RefusedIn(t)
  BY DEF UnknownIn, FailedIn, RefusedIn, OfKind, Acceptable, TryParseLocked, Validate
<1>5. \A n \in Name :
        ValueAfter(t, n) = IF e.kind = "set" /\ e.name = n /\ Acceptable(n, e.text)
                           THEN Parse[n][e.text] ELSE ValueAfter(past, n)
  BY ValueNext
<1> HIDE DEF t
<1>6. /\ UnknownIn(t) = UnknownIn(past) \cup (IF e.kind = "unknown" THEN {e.name} ELSE {})
      /\ FailedIn(t) = FailedIn(past) \cup (IF e.kind = "fail" THEN {e.name} ELSE {})
      /\ RefusedIn(t) = RefusedIn(past) \cup
           (IF e.kind = "set" /\ ~Acceptable(e.name, e.text) THEN {e.name} ELSE {})
  BY <1>2 DEF UnknownIn, FailedIn, RefusedIn, OfKind
<1>7. \A d \in ToSet(past) : d \in Deed
  BY DEF ToSet
<1>8. \A d \in ToSet(t) : d.name \in Name
  BY <1>2, <1>7 DEF Deed
<1>9. \A d \in ToSet(t) : FindFlagLocked(d.name)' = FindFlagLocked(d.name)
  BY <1>1, <1>8, SameFind
<1>10. ASSUME e.kind = "set" PROVE Reflects(t)'
  <2>1. PICK n \in Name, text \in Text : n = e.name /\ text = e.text
    BY <1>10 DEF Deed
  <2>2. Sets(n, text, "SET_FLAGS_VALUE") /\ UNCHANGED undefined_names /\ Registered(n)
    BY <1>10, <2>1 DEF Does, Sets
  <2>3. /\ SetFlagSucceeds(n, flags[n], text, "SET_FLAGS_VALUE") <=> Acceptable(n, text)
        /\ Acceptable(n, text) => flags'[n].current = Parse[n][text]
        /\ ~Acceptable(n, text) => flags'[n].current = flags[n].current
        /\ \A m \in Name : m # n => flags'[m] = flags[m]
    BY <2>2, AcceptedIsSet
  <2>4. ASSUME NEW m \in Name, Registered(m)' PROVE flags'[m].current = ValueAfter(t, m)
    <3>1. Registered(m) /\ flags[m].current = ValueAfter(past, m)
      BY <1>1, <2>4 DEF SameNames, Registered, Reflects, Leaves
    <3>. QED
      BY <1>5, <1>10, <2>1, <2>3, <3>1
  <2>5. error_flags' = error_flags \cup (IF ~Acceptable(n, text) THEN {n} ELSE {})
    BY <2>2, <2>3 DEF Sets
  <2>6. FindFlagLocked(n) # NULL
    BY <2>2, FlagAssumption DEF FindFlagLocked
  <2>7. \A d \in ToSet(t) : d.kind = "unknown" <=> FindFlagLocked(d.name)' = NULL
    BY <1>2, <1>9, <1>10, <2>1, <2>6 DEF Reflects, Leaves
  <2>8. /\ UnknownIn(t) = UnknownIn(past) /\ FailedIn(t) = FailedIn(past)
        /\ RefusedIn(t) = RefusedIn(past) \cup (IF ~Acceptable(n, text) THEN {n} ELSE {})
    BY <1>6, <1>10, <2>1
  <2>9. error_flags' = RefusedIn(t) \cup FailedIn(t) \cup UnknownIn(t)
    BY <2>5, <2>8 DEF Reflects, Leaves
  <2>10. undefined_names' = UnknownIn(t)
    BY <2>2, <2>8 DEF Reflects, Leaves
  <2>. QED
    BY <1>3, <1>4, <2>4, <2>7, <2>9, <2>10 DEF Reflects, Leaves
<1>11. ASSUME e.kind # "set" PROVE Reflects(t)'
  <2>1. /\ UNCHANGED flags /\ e.kind \in {"fail", "unknown"}
        /\ error_flags' = error_flags \cup {e.name}
        /\ undefined_names' = undefined_names \cup (IF e.kind = "unknown" THEN {e.name} ELSE {})
        /\ e.kind = "unknown" <=> FindFlagLocked(e.name) = NULL
    BY <1>11 DEF Does
  <2>2. ASSUME NEW m \in Name, Registered(m)' PROVE flags'[m].current = ValueAfter(t, m)
    BY <1>5, <1>11, <2>1, <2>2 DEF Reflects, Leaves, Registered
  <2>3. \A d \in ToSet(t) : d.kind = "unknown" <=> FindFlagLocked(d.name)' = NULL
    BY <1>2, <1>9, <2>1 DEF Reflects, Leaves
  <2>4. /\ UnknownIn(t) = UnknownIn(past) \cup (IF e.kind = "unknown" THEN {e.name} ELSE {})
        /\ FailedIn(t) = FailedIn(past) \cup (IF e.kind = "fail" THEN {e.name} ELSE {})
        /\ RefusedIn(t) = RefusedIn(past)
    BY <1>6, <1>11
  <2>5. error_flags' = RefusedIn(t) \cup FailedIn(t) \cup UnknownIn(t)
    BY <2>1, <2>4 DEF Reflects, Leaves
  <2>6. undefined_names' = UnknownIn(t)
    BY <2>1, <2>4 DEF Reflects, Leaves
  <2>. QED
    BY <1>3, <1>4, <2>2, <2>3, <2>5, <2>6 DEF Reflects, Leaves
<1>. QED
  BY <1>10, <1>11 DEF t

-----------------------------------------------------------------------------
(* The invariant: the events so far, followed by those that the stack and   *)
(* the rest of argv hold, are the events up to the end of this stage.      *)
Rest(w) ==
  CASE pc = "argv"                      -> Pending(w, stack) \o Scan(w)[Position]
    [] pc \in {"fromenv", "tryfromenv"} -> Pending(w, stack)
    [] OTHER                            -> <<>>

Whole(w) ==
  CASE pc = "flagfile"   -> <<>>
    [] pc = "fromenv"    -> First(w)
    [] pc = "tryfromenv" -> Second(w)
    [] OTHER             -> Events(w)

Invalid == {n \in Name : /\ Registered(n) /\ ~flags[n].modified
                         /\ ~Validate(n, flags[n], flags[n].current)}

(* What is wrong with a command line, as ReportErrors sees it.             *)
Faulty(events) ==
  LET undefok == Entries[flags["undefok"].current]
      ok(m)   == \/ reparsing
                 \/ m \in ToSet(undefok)
                 \/ \E x \in ToSet(undefok) : Positive[m] = x /\ x \notin UnknownIn(events)
  IN  \/ undefok = NULL
      \/ RefusedIn(events) \cup Invalid \cup FailedIn(events) # {}
      \/ \E m \in UnknownIn(events) : ~ok(m)

Past(past) ==
  /\ past \o Rest(World) = Whole(World)
  /\ Scanning \/ pc \in {"help", "validate"} => Reflects(past)
  /\ pc = "report" =>
       /\ Leaves(past)
       /\ error_flags = RefusedIn(past) \cup FailedIn(past) \cup UnknownIn(past) \cup Invalid
  /\ pc = "done" => Leaves(past) /\ (exited <=> Faulty(past))

MeaningInv ==
  /\ pc \in Recursive => cursor = 1 /\ first_nonopt = Len(command) + 1
  /\ pc = "flagfile" => stack = <<>>
  /\ pc # "ready" /\ (exited => pc = "done") => Origin /\ \E past \in Seq(Deed) : Past(past)

LEMMA SameWorld ==
  ASSUME SameNames, UNCHANGED <<before, env>>
  PROVE  World' = World
<1>1. \A n \in Name, text \in Text : Acceptable(n, text)' <=> Acceptable(n, text)
  BY DEF Acceptable, TryParseLocked, Validate
<1>2. \A key \in Name, value \in Text \cup {NULL} :
        SplitArgumentLocked(key, value)' = SplitArgumentLocked(key, value)
  BY SameSplit
<1>3. \A name \in Name : FindFlagLocked(name)' = FindFlagLocked(name)
  BY SameFind
<1>4. [key \in Name |-> [value \in Text \cup {NULL} |-> SplitArgumentLocked(key, value)]]'
        = [key \in Name |-> [value \in Text \cup {NULL} |-> SplitArgumentLocked(key, value)]]
  BY <1>2
<1>5. [name \in Name |-> FindFlagLocked(name)]' = [name \in Name |-> FindFlagLocked(name)]
  BY <1>3
<1>6. [n \in Name |-> {text \in Text : Acceptable(n, text)}]'
        = [n \in Name |-> {text \in Text : Acceptable(n, text)}]
  BY <1>1
<1>. QED
  BY <1>4, <1>5, <1>6 DEF World

LEMMA SameEvents ==
  ASSUME NEW w, UNCHANGED <<before, command>>
  PROVE  /\ Scan(w)' = Scan(w) /\ First(w)' = First(w) /\ Second(w)' = Second(w)
         /\ Events(w)' = Events(w)
<1>1. Scan(w)' = Scan(w)
  BY DEF Scan, OfArgument, ArgumentAfter
<1>2. First(w)' = First(w)
  BY DEF First
<1>3. \A events, n : ValueAfter(events, n)' = ValueAfter(events, n)
  BY DEF ValueAfter, Acceptable, TryParseLocked, Validate
<1>4. Second(w)' = Second(w)
  BY <1>2, <1>3 DEF Second
<1>5. Third(w)' = Third(w)
  BY <1>3, <1>4 DEF Third
<1>. QED
  BY <1>1, <1>2, <1>4, <1>5 DEF Events

LEMMA MeaningTypes ==
  ASSUME NEW w, WorldOK(w)
  PROVE  /\ \A n \in Recursive, v \in Value : Nested(w)[n][v] \in Seq(Event)
         /\ \A n \in Recursive, v \in Value :
              Nested(w)[n][v] = Meaning(w)[MaxDepth].list[n][v]
BY NestedType DEF Nested

LEMMA NothingPending ==
  ASSUME NEW w, WorldOK(w)
  PROVE  Pending(w, <<>>) = <<>>
<1>0. <<>> \in Seq(Frame) /\ Len(<<>>) = 0 /\ 0 <= MaxDepth
  BY ParserAssumption
<1>1. PICK s \in Seq(Frame) : s = <<>> /\ Len(s) <= MaxDepth
  BY <1>0
<1>. QED
  BY <1>1, PendingIs

(* A stage begins with what the value of its flag means.                   *)
LEMMA StageBegins ==
  ASSUME NEW w, WorldOK(w), NEW n \in Recursive, NEW v \in Value, Call(n, v, <<>>), ~exited',
         exited' \in BOOLEAN
  PROVE  /\ Pending(w, stack') = Nested(w)[n][v] /\ Nested(w)[n][v] \in Seq(Event)
         /\ stack' \in Seq(Frame) /\ Len(stack') <= MaxDepth
<1>1. <<>> \in Seq(Frame) /\ Len(<<>>) = 0 /\ MaxDepth \in Nat
  BY ParserAssumption
<1>2. Entries[v] # NULL /\ 0 < MaxDepth
  BY <1>1 DEF Call
<1>3. MaxDepth \in 1 .. MaxDepth /\ MaxDepth - Len(<<>>) = MaxDepth
  BY <1>1, <1>2
<1> DEFINE f == [kind |-> n, todo |-> Entries[v], list |-> v]
<1>4. /\ f \in Frame /\ Meaning(w)[MaxDepth].list[n][v] = RestOf(w, f, MaxDepth)
      /\ Entries[v] = <<>> => Meaning(w)[MaxDepth].list[n][v] = <<>>
  BY <1>2, <1>3, NewList
<1>5. CASE Entries[v] = <<>>
  <2>1. stack' = <<>>
    BY <1>5 DEF Call
  <2>2. Pending(w, stack') = <<>>
    BY <2>1, NothingPending
  <2>. QED
    BY <1>1, <1>4, <1>5, <2>1, <2>2, MeaningTypes
<1>6. CASE Entries[v] # <<>>
  <2>1. stack' = <<f>> \o <<>>
    BY <1>2, <1>6 DEF Call
  <2> HIDE DEF f
  <2>2. PICK callers \in Seq(Frame) : callers = <<>> /\ Len(callers) < MaxDepth
                                      /\ MaxDepth - Len(callers) = MaxDepth
    BY <1>1, <1>2, <1>3
  <2>3. Pending(w, <<f>> \o callers) = RestOf(w, f, MaxDepth) \o Pending(w, callers)
    BY <1>4, <2>2, PendingPush
  <2>4. Pending(w, callers) = <<>>
    BY <2>2, NothingPending
  <2>5. RestOf(w, f, MaxDepth) \in Seq(Event)
    BY <1>3, <1>4, RestType
  <2>6. Pending(w, stack') = RestOf(w, f, MaxDepth)
    BY <2>1, <2>2, <2>3, <2>4, <2>5
  <2>7. stack' \in Seq(Frame) /\ Len(stack') <= MaxDepth
    <3>1. stack' \in Seq(Frame) /\ Len(stack') = Len(callers) + 1
      BY <1>4, <2>1, <2>2, PushType
    <3>. QED
      BY <1>1, <1>2, <2>2, <3>1
  <2>. QED
    BY <1>4, <2>6, <2>7, MeaningTypes
<1>. QED
  BY <1>5, <1>6

-----------------------------------------------------------------------------
(* While a parse goes on.                                                  *)
MeaningState == HistoryInv /\ ArgvInv /\ MeaningInv

LEMMA StateTypes ==
  ASSUME MeaningState, pc # "ready", exited => pc = "done"
  PROVE  /\ ParserTypes /\ Origin /\ WorldOK(World) /\ LibraryFlags
         /\ pc # "done" => CallState /\ ScanState
         /\ Len(command) \in Nat /\ cursor \in Nat /\ first_nonopt \in Nat
         /\ cursor <= Len(command) + 1 /\ first_nonopt <= Len(command) + 1
<1>1. TypeInv /\ ParseInv /\ ArgvInv /\ MeaningInv
  BY DEF MeaningState, HistoryInv
<1>2. ParserTypes /\ LibraryFlags /\ Len(command) \in Nat
  BY <1>1, TypesOfInv DEF TypeInv
<1>3. Origin
  BY <1>1 DEF MeaningInv
<1>4. WorldOK(World)
  BY <1>2, WorldType DEF ParserTypes
<1>5. pc # "done" => mode = "SET_FLAGS_VALUE"
  BY <1>1 DEF ParseInv
<1>6. cursor \in 1 .. Len(command) + 1 /\ first_nonopt \in 1 .. Len(command) + 1
  BY <1>1 DEF TypeInv, TypeOK
<1>. QED
  BY <1>1, <1>2, <1>3, <1>4, <1>5, <1>6 DEF CallState, ScanState

(* A step that does the next event, or none.                               *)
LEMMA ProgressKeepsMeaning ==
  ASSUME MeaningState, UNCHANGED <<before, command, env>>, ~exited,
         Scanning, NEW w, w = World, WorldOK(w), NEW q, q = Rest(w)', q \in Seq(Event),
         Advances(Rest(w), q), UNCHANGED pc,
         pc \in Recursive => UNCHANGED <<cursor, first_nonopt>>, pc # "flagfile"
  PROVE  MeaningInv'
<1>1. FlagsType /\ Origin /\ error_flags \subseteq Name
  <2>1. pc # "ready"
    BY DEF Scanning, Recursive
  <2>. QED
    BY <2>1, StateTypes DEF ParserTypes
<1>2. SameNames /\ Origin'
  BY <1>1, DeedKeeps DEF Advances
<1>3. World' = w
  BY <1>2, SameWorld
<1>4. Whole(w)' = Whole(w)
  BY SameEvents DEF Whole
<1>5. PICK past \in Seq(Deed) : past \o Rest(w) = Whole(w) /\ Reflects(past)
  <2>1. PICK past \in Seq(Deed) : Past(past)
    BY DEF MeaningState, MeaningInv, Scanning, Recursive
  <2>. QED
    BY <2>1 DEF Past
<1>6. PICK done \in Seq(Deed) : done \o q = Whole(w) /\ Reflects(done)'
  <2>1. CASE Rest(w) = q /\ UNCHANGED <<flags, error_flags, undefined_names>>
    <3>2. Leaves(past)'
      BY <1>5, <2>1 DEF Reflects, Leaves, ValueAfter, Acceptable, TryParseLocked, Validate,
            UnknownIn, OfKind, FindFlagLocked, Registered
    <3>3. error_flags' = (RefusedIn(past) \cup FailedIn(past) \cup UnknownIn(past))'
      BY <1>5, <2>1 DEF Reflects, UnknownIn, RefusedIn, FailedIn, OfKind, Acceptable,
            TryParseLocked, Validate
    <3>. QED
      BY <1>5, <2>1, <3>2, <3>3 DEF Reflects
  <2>2. CASE \E e \in Deed : Rest(w) = <<e>> \o q /\ Does(e)
    <3>1. PICK e \in Deed : Rest(w) = <<e>> \o q /\ Does(e)
      BY <2>2
    <3>2. Reflects(past \o <<e>>)' /\ past \o <<e>> \in Seq(Deed)
      BY <1>1, <1>5, <3>1, ReflectsNext, Appended
    <3>3. past \in Seq(Event) /\ <<e>> \in Seq(Event)
      BY DEF Event
    <3>4. (past \o <<e>>) \o q = past \o (<<e>> \o q)
      BY <3>3
    <3>. QED
      BY <1>5, <3>1, <3>2, <3>4
  <2>. QED
    BY <2>1, <2>2 DEF Advances
<1>7. Past(done)'
  BY <1>3, <1>4, <1>6 DEF Past, Scanning, Recursive
<1>. QED
  BY <1>2, <1>7 DEF MeaningState, MeaningInv, Scanning

LEMMA CallKeepsMeaning ==
  ASSUME MeaningState, CallStep, UNCHANGED before, ~exited
  PROVE  MeaningInv'
<1>1. stack # <<>> /\ UNCHANGED <<pc, cursor, first_nonopt, command, env>>
  BY DEF CallStep, Return, NextFile, CommentLine, FilenameLine, FlagLine, NextEnv, Calling,
         Unmoved, fixedVars
<1>2. pc \notin {"flagfile", "help", "validate", "report", "done"}
  BY <1>1 DEF MeaningState, MeaningInv, HistoryInv, ParseInv
<1>3. CASE pc = "ready" \/ exited'
  BY <1>1, <1>2, <1>3 DEF MeaningState, MeaningInv, Recursive
<1>4. CASE pc # "ready" /\ ~exited'
  <2>1. pc \in {"fromenv", "tryfromenv", "argv"} /\ Scanning
    BY <1>2, <1>4 DEF MeaningState, HistoryInv, TypeInv, TypeOK, Recursive, Scanning
  <2>2. CallState /\ WorldOK(World) /\ ScanState /\ ParserTypes
    BY <1>4, <2>1, StateTypes
  <2>3. PICK w : w = World
    OBVIOUS
  <2>4. Advances(Pending(w, stack), Pending(w, stack')) /\ WorldOK(w)
    BY <1>4, <2>2, <2>3, CallStepAdvances
  <2>5. StackType'
    BY <2>2, CallStepEffect DEF CallEffect
  <2>6. Pending(w, stack) \in Seq(Event) /\ Pending(w, stack') \in Seq(Event)
    BY <2>2, <2>4, <2>5, PendingIs DEF StackType, ParserTypes
  <2>7. Scan(w)' = Scan(w) /\ Position' = Position
    BY <1>1, SameEvents DEF Position
  <2>8. CASE pc = "argv"
    <3>1. /\ Rest(w) = Pending(w, stack) \o Scan(w)[Position]
          /\ Rest(w)' = Pending(w, stack') \o Scan(w)[Position]
      BY <1>1, <2>7, <2>8 DEF Rest
    <3>2. Position \in 1 .. Len(command) + 1
      <4>1. /\ TypeInv /\ Len(command) \in Nat
            /\ cursor \in 1 .. Len(command) + 1 /\ first_nonopt \in 1 .. Len(command) + 1
            /\ cursor <= first_nonopt
        BY <1>4, <2>1, StateTypes DEF MeaningState, HistoryInv, TypeInv, TypeOK, Positions
      <4>. QED
        BY <4>1 DEF Position
    <3>3. Scan(w)[Position] \in Seq(Event)
      BY <2>2, <2>4, <3>2, ScanIs DEF ParserTypes
    <3>4. Advances(Rest(w), Rest(w)') /\ Rest(w)' \in Seq(Event)
      BY <2>4, <2>6, <3>1, <3>3, AdvancesBefore
    <3>. QED
      BY <1>1, <2>1, <2>3, <2>4, <2>8, <3>4, ProgressKeepsMeaning DEF Recursive
  <2>9. CASE pc # "argv"
    <3>1. Rest(w) = Pending(w, stack) /\ Rest(w)' = Pending(w, stack')
      BY <1>1, <2>1, <2>9 DEF Rest
    <3>. QED
      BY <1>1, <2>1, <2>3, <2>4, <2>6, <2>9, <3>1, ProgressKeepsMeaning
  <2>. QED
    BY <2>8, <2>9
<1>. QED
  BY <1>3, <1>4

LEMMA ArgumentKeepsMeaning ==
  ASSUME MeaningState, UNCHANGED before, ~exited,
         ProgramArgument \/ EndOfOptions \/ UnknownOption \/ MissingArgument \/ KnownOption
  PROVE  MeaningInv'
<1>1. Parsing /\ UNCHANGED <<pc, command, env>> /\ pc = "argv" /\ stack = <<>>
  BY DEF Parsing, ProgramArgument, EndOfOptions, UnknownOption, MissingArgument, KnownOption,
         Settled, fixedVars
<1>2. CASE exited'
  BY <1>1, <1>2 DEF MeaningInv, Recursive
<1>3. CASE ~exited'
  <2>1. CallState /\ WorldOK(World) /\ ScanState /\ command \in Seq(Argument)
    BY <1>1, StateTypes DEF ParserTypes
  <2>2. PICK w : w = World
    OBVIOUS
  <2>3. WorldOK(w) /\ Pending(w, <<>>) = <<>>
    BY <2>1, <2>2, NothingPending
  <2>4. TypeInv' /\ cursor' <= first_nonopt'
    <3>1. TypeInv /\ Scanning
      BY <1>1 DEF MeaningState, HistoryInv, Scanning
    <3>2. TypeInv'
      BY <3>1, ProgramArgumentTypes, EndOfOptionsTypes, UnknownOptionTypes,
         MissingArgumentTypes, KnownOptionTypes
    <3>. QED
      BY <1>1, <3>1, <3>2 DEF TypeInv, Positions, Scanning
  <2>5. /\ StackType' /\ Position \in 1 .. Len(command) + 1
        /\ Position' \in 1 .. Len(command) + 1
    <3>1. /\ cursor \in 1 .. Len(command) + 1 /\ first_nonopt \in 1 .. Len(command) + 1
          /\ cursor <= first_nonopt /\ Len(command) \in Nat
      BY <1>1, StateTypes DEF MeaningState, HistoryInv, TypeInv, TypeOK, Parsing
    <3>2. /\ cursor' \in 1 .. Len(command) + 1 /\ first_nonopt' \in 1 .. Len(command) + 1
          /\ StackType'
      BY <1>1, <2>4 DEF TypeInv, TypeOK, StackType
    <3>. QED
      BY <1>1, <2>4, <3>1, <3>2 DEF Position
  <2>6. /\ Scan(w)[Position] \in Seq(Event) /\ Scan(w)[Position'] \in Seq(Event)
        /\ Pending(w, stack') \in Seq(Event)
    BY <2>1, <2>3, <2>5, ScanIs, PendingIs DEF StackType
  <2>7. Scan(w)' = Scan(w)
    BY <1>1, SameEvents
  <2>8. Rest(w) = Scan(w)[Position] /\ Rest(w)' = Pending(w, stack') \o Scan(w)[Position']
    BY <1>1, <2>3, <2>6, <2>7 DEF Rest
  <2>9. Advances(Scan(w)[Position], Pending(w, stack') \o Scan(w)[Position'])
    <3>1. CASE KnownOption
      BY <1>3, <2>1, <2>2, <2>3, <3>1, KnownOptionAdvances
    <3>2. CASE ProgramArgument \/ EndOfOptions \/ UnknownOption \/ MissingArgument
      <4>1. stack' = <<>>
        BY <1>1, <3>2 DEF ProgramArgument, EndOfOptions, UnknownOption, MissingArgument
      <4>2. Advances(Scan(w)[Position], Scan(w)[Position'])
        BY <2>1, <2>2, <2>3, <3>2, ProgramArgumentAdvances, EndOfOptionsAdvances,
           UnknownOptionAdvances, MissingArgumentAdvances
      <4>3. Pending(w, stack') \o Scan(w)[Position'] = Scan(w)[Position']
        BY <2>3, <2>6, <4>1
      <4>. QED
        BY <4>2, <4>3
    <3>. QED
      BY <3>1, <3>2
  <2>10. Advances(Rest(w), Rest(w)') /\ Rest(w)' \in Seq(Event)
    BY <2>6, <2>8, <2>9
  <2>11. Scanning /\ pc \notin Recursive
    BY <1>1 DEF Scanning, Recursive
  <2>. QED
    BY <1>1, <2>2, <2>3, <2>10, <2>11, ProgressKeepsMeaning
<1>. QED
  BY <1>2, <1>3

LEMMA StageKeepsMeaning ==
  ASSUME MeaningState, ProcessStage, UNCHANGED before, ~exited
  PROVE  MeaningInv'
<1>1. /\ pc \in Recursive /\ stack = <<>> /\ Call(pc, flags[pc].current, <<>>)
      /\ pc' = Stage[pc] /\ Scanning /\ pc # "ready" /\ pc # "done"
      /\ UNCHANGED <<flags, error_flags, undefined_names, cursor, first_nonopt, env, command>>
  BY DEF ProcessStage, Recursive, parserVars, fixedVars, Scanning
<1>2. /\ pc = "flagfile" => pc' = "fromenv"
      /\ pc = "fromenv" => pc' = "tryfromenv"
      /\ pc = "tryfromenv" => pc' = "argv"
  BY <1>1 DEF Stage
<1>3. cursor = 1 /\ first_nonopt = Len(command) + 1 /\ cursor' = 1
      /\ first_nonopt' = Len(command') + 1 /\ pc' # "flagfile"
  BY <1>1, <1>2 DEF MeaningState, MeaningInv, Recursive
<1>4. CASE exited'
  BY <1>2, <1>3, <1>4, <1>1 DEF MeaningInv, Recursive
<1>5. CASE ~exited'
  <2>1. ParserTypes /\ Origin /\ WorldOK(World) /\ LibraryFlags
    BY <1>1, StateTypes
  <2>2. PICK w : w = World
    OBVIOUS
  <2>3. PICK past \in Seq(Deed) : past \o Rest(w) = Whole(w) /\ Reflects(past)
    <3>1. PICK past \in Seq(Deed) : Past(past)
      BY <1>1 DEF MeaningState, MeaningInv
    <3>. QED
      BY <1>1, <2>2, <3>1 DEF Past
  <2>4. Rest(w) = <<>> /\ past = Whole(w)
    <3>1. Rest(w) = <<>>
      BY <1>1, <2>1, <2>2, NothingPending DEF Rest, Recursive
    <3>. QED
      BY <2>3, <3>1
  <2>5. Registered(pc) /\ pc \in Name /\ FlagsType /\ exited' \in BOOLEAN
    <3>1. exited' \in BOOLEAN
      BY <1>1 DEF Call
    <3>. QED
      BY <1>1, <2>1, <3>1, ParserAssumption DEF LibraryFlags, ParserTypes
  <2>6. flags[pc].current \in Value /\ flags[pc].current = ValueAfter(past, pc)
    BY <2>3, <2>5, RegisteredType DEF Reflects, Leaves
  <2>7. PICK n \in Recursive, v \in Value : n = pc /\ v = ValueAfter(past, pc)
    BY <1>1, <2>6
  <2>8. /\ Pending(w, stack') = Nested(w)[n][v] /\ Nested(w)[n][v] \in Seq(Event)
    BY <1>1, <1>5, <2>1, <2>2, <2>5, <2>6, <2>7, StageBegins
  <2>9. SameNames /\ World' = w
    <3>1. SameNames
      BY <1>1 DEF SameNames
    <3>. QED
      BY <1>1, <2>2, <3>1, SameWorld
  <2>10. /\ Scan(w)' = Scan(w) /\ First(w)' = First(w) /\ Second(w)' = Second(w)
         /\ Events(w)' = Events(w)
    BY <1>1, SameEvents
  <2>11. past \o Rest(w)' = Whole(w)'
    <3>1. CASE pc = "flagfile"
      <4>1. past = <<>> /\ Whole(w)' = First(w) /\ Rest(w)' = Pending(w, stack')
        BY <1>2, <2>4, <2>10, <3>1 DEF Whole, Rest
      <4>2. v = before["flagfile"].current
        BY <2>7, <3>1, <4>1, NothingReflected
      <4>3. First(w) = Nested(w)[n][v]
        BY <2>7, <3>1, <4>2 DEF First
      <4>. QED
        BY <2>8, <4>1, <4>3
    <3>2. CASE pc = "fromenv"
      <4>1. past = First(w) /\ Whole(w)' = Second(w) /\ Rest(w)' = Pending(w, stack')
        BY <1>2, <2>4, <2>10, <3>2 DEF Whole, Rest
      <4>2. Second(w) = past \o Nested(w)[n][v]
        BY <2>7, <3>2, <4>1 DEF Second
      <4>. QED
        BY <2>8, <4>1, <4>2
    <3>3. CASE pc = "tryfromenv"
      <4>1. /\ past = Second(w) /\ Whole(w)' = Events(w)
            /\ Rest(w)' = Pending(w, stack') \o Scan(w)[Position']
        BY <1>2, <2>4, <2>10, <3>3 DEF Whole, Rest
      <4>2. Position' = 1 /\ 1 \in 1 .. Len(command) + 1
        <5>1. Len(command) \in Nat
          BY <2>1 DEF ParserTypes
        <5>. QED
          BY <1>1, <1>3, <5>1 DEF Position
      <4>3. Events(w) = (past \o Nested(w)[n][v]) \o Scan(w)[1]
        BY <2>7, <3>3, <4>1 DEF Third, Events
      <4>4. Scan(w)[1] \in Seq(Event)
        BY <2>1, <2>2, <4>2, ScanIs DEF ParserTypes
      <4>5. PICK x, y, z : x = past /\ y = Nested(w)[n][v] /\ z = Scan(w)[1]
        OBVIOUS
      <4>6. x \in Seq(Event) /\ y \in Seq(Event) /\ z \in Seq(Event)
        BY <2>8, <4>4, <4>5 DEF Event
      <4>7. (x \o y) \o z = x \o (y \o z)
        BY <4>6
      <4>. QED
        BY <2>8, <4>1, <4>2, <4>3, <4>5, <4>7
    <3>. QED
      BY <1>1, <3>1, <3>2, <3>3 DEF Recursive
  <2>12. Leaves(past)'
    BY <1>1, <2>3 DEF Reflects, Leaves, ValueAfter, Acceptable, TryParseLocked, Validate,
          UnknownIn, OfKind, FindFlagLocked, Registered
  <2>13. error_flags' = (RefusedIn(past) \cup FailedIn(past) \cup UnknownIn(past))'
    BY <1>1, <2>3 DEF Reflects, UnknownIn, RefusedIn, FailedIn, OfKind, Acceptable,
          TryParseLocked, Validate
  <2>14. Past(past)'
    <3>1. pc' \notin {"report", "done"}
      BY <1>1, <1>2 DEF Recursive
    <3>. QED
      BY <2>9, <2>11, <2>12, <2>13, <3>1 DEF Past, Reflects
  <2>15. Origin'
    BY <1>1, <2>1 DEF Origin, Registered
  <2>. QED
    BY <1>3, <2>14, <2>15 DEF MeaningInv
<1>. QED
  BY <1>4, <1>5

LEMMA BeginKeepsMeaning ==
  ASSUME MeaningState, Begin, before' = flags
  PROVE  MeaningInv'
<1>1. /\ UNCHANGED flags /\ pc' = "flagfile" /\ stack' = <<>> /\ command' = command
      /\ cursor' = 1 /\ first_nonopt' = Len(command) + 1
      /\ error_flags' = {} /\ undefined_names' = {}
  BY DEF Begin, Idle, fixedVars
<1>2. Origin'
  BY <1>1, TypesOfInv
     DEF Origin, Registered, MeaningState, HistoryInv, TypeInv, ParserTypes, FlagsType
<1>3. ToSet(<<>>) = {}
  BY DEF ToSet
<1>4. \A n : ValueAfter(<<>>, n)' = flags'[n].current
  <2>1. \A n : ValueAfter(<<>>, n) = before[n].current
    BY NothingReflected
  <2>2. \A n : ValueAfter(<<>>, n)' = before'[n].current
    BY DEF ValueAfter
  <2>. QED
    BY <1>1, <2>2
<1>5. /\ UnknownIn(<<>>)' = {} /\ FailedIn(<<>>)' = {} /\ RefusedIn(<<>>)' = {}
  BY <1>3 DEF UnknownIn, FailedIn, RefusedIn, OfKind
<1>6. Reflects(<<>>)'
  BY <1>1, <1>3, <1>4, <1>5 DEF Reflects, Leaves
<1>7. Rest(World)' = <<>> /\ Whole(World)' = <<>>
  BY <1>1 DEF Rest, Whole
<1>8. Past(<<>>)'
  BY <1>1, <1>6, <1>7 DEF Past
<1>9. <<>> \in Seq(Deed)
  OBVIOUS
<1>. QED
  BY <1>1, <1>2, <1>8, <1>9 DEF MeaningInv

(* Past a loop that has nothing more to do.                                *)
LEMMA SameLeaves ==
  ASSUME NEW past, UNCHANGED <<flags, undefined_names, before>>, Leaves(past)
  PROVE  /\ Leaves(past)'
         /\ UnknownIn(past)' = UnknownIn(past) /\ FailedIn(past)' = FailedIn(past)
         /\ RefusedIn(past)' = RefusedIn(past) /\ Invalid' = Invalid
<1>1. Leaves(past)'
  BY DEF Leaves, ValueAfter, Acceptable, TryParseLocked, Validate, UnknownIn, OfKind,
         FindFlagLocked, Registered
<1>2. /\ UnknownIn(past)' = UnknownIn(past) /\ FailedIn(past)' = FailedIn(past)
      /\ RefusedIn(past)' = RefusedIn(past)
  BY DEF UnknownIn, RefusedIn, FailedIn, OfKind, Acceptable, TryParseLocked, Validate
<1>3. Invalid' = Invalid
  BY DEF Invalid, Registered, Validate
<1>. QED
  BY <1>1, <1>2, <1>3

LEMMA StillKeepsMeaning ==
  ASSUME MeaningState, UNCHANGED <<flags, error_flags, undefined_names, before, command, env>>,
         pc \in {"argv", "help"}, pc' \in {"help", "validate"}, ~exited, Rest(World) = <<>>
  PROVE  MeaningInv'
<1>1. Origin /\ Origin'
  BY DEF MeaningState, MeaningInv, Origin, Registered
<1>2. PICK w : w = World
  OBVIOUS
<1>3. PICK past \in Seq(Deed) : past \o <<>> = Whole(w) /\ Reflects(past)
  <2>1. PICK past \in Seq(Deed) : Past(past)
    BY DEF MeaningState, MeaningInv
  <2>. QED
    BY <1>2, <2>1 DEF Past, Scanning
<1>4. World' = w
  <2>1. SameNames
    BY DEF SameNames
  <2>. QED
    BY <1>2, <2>1, SameWorld
<1>5. Whole(w)' = Whole(w) /\ Rest(w)' = <<>>
  BY SameEvents DEF Whole, Rest
<1>6. Reflects(past)'
  BY <1>3, SameLeaves DEF Reflects
<1>7. Past(past)'
  BY <1>3, <1>4, <1>5, <1>6 DEF Past
<1>. QED
  BY <1>1, <1>7 DEF MeaningInv, Recursive

LEMMA ArgumentsDoneKeepsMeaning ==
  ASSUME MeaningState, NEW remove_flags \in BOOLEAN, ArgumentsDone(remove_flags),
         UNCHANGED before, ~exited
  PROVE  MeaningInv'
<1>1. /\ stack = <<>> /\ pc = "argv" /\ cursor >= first_nonopt /\ pc' = "help"
      /\ UNCHANGED <<flags, error_flags, undefined_names, command, env>>
  BY DEF ArgumentsDone, Settled, fixedVars
<1>2. ParserTypes /\ WorldOK(World)
  BY <1>1, StateTypes
<1>3. Position = Len(command) + 1
  <2>1. /\ cursor \in 1 .. Len(command) + 1 /\ first_nonopt \in 1 .. Len(command) + 1
        /\ cursor <= first_nonopt /\ Len(command) \in Nat
    BY <1>1, StateTypes DEF MeaningState, HistoryInv, TypeInv, TypeOK, Positions, Scanning
  <2>. QED
    BY <1>1, <2>1 DEF Position
<1>4. PICK w : w = World
  OBVIOUS
<1>5. Scan(w)[Position] = <<>> /\ Pending(w, stack) = <<>>
  BY <1>1, <1>2, <1>3, <1>4, ScanIs, NothingPending DEF ParserTypes
<1>6. Rest(w) = <<>>
  BY <1>1, <1>5 DEF Rest
<1>. QED
  BY <1>1, <1>4, <1>6, StillKeepsMeaning

LEMMA HelpKeepsMeaning ==
  ASSUME MeaningState, NEW do_report \in BOOLEAN, HandleCommandLineHelpFlags(do_report),
         UNCHANGED before, ~exited
  PROVE  MeaningInv'
<1>1. /\ pc = "help" /\ pc' = "validate"
      /\ UNCHANGED <<flags, error_flags, undefined_names, command, env>>
  BY DEF HandleCommandLineHelpFlags, Settled, fixedVars, parserVars
<1>2. Rest(World) = <<>>
  BY <1>1 DEF Rest
<1>. QED
  BY <1>1, <1>2, StillKeepsMeaning

LEMMA ValidateKeepsMeaning ==
  ASSUME MeaningState, ValidateUnmodifiedFlags, UNCHANGED before, ~exited
  PROVE  MeaningInv'
<1>1. /\ pc = "validate" /\ pc' = "report" /\ error_flags' = error_flags \cup Invalid
      /\ UNCHANGED <<flags, undefined_names, command, env>>
  BY DEF ValidateUnmodifiedFlags, Settled, fixedVars, Invalid
<1>2. Origin /\ Origin'
  BY <1>1 DEF MeaningState, MeaningInv, Origin, Registered
<1>3. PICK w : w = World
  OBVIOUS
<1>4. PICK past \in Seq(Deed) : past \o <<>> = Whole(w) /\ Reflects(past)
  <2>1. PICK past \in Seq(Deed) : Past(past)
    BY <1>1 DEF MeaningState, MeaningInv
  <2>. QED
    BY <1>1, <1>3, <2>1 DEF Past, Rest
<1>5. World' = w
  <2>1. SameNames
    BY <1>1 DEF SameNames
  <2>. QED
    BY <1>1, <1>3, <2>1, SameWorld
<1>6. Whole(w)' = Whole(w) /\ Rest(w)' = <<>>
  BY <1>1, SameEvents DEF Whole, Rest
<1>7. /\ Leaves(past)'
      /\ error_flags' = (RefusedIn(past) \cup FailedIn(past) \cup UnknownIn(past) \cup Invalid)'
  BY <1>1, <1>4, SameLeaves DEF Reflects
<1>8. Past(past)'
  BY <1>1, <1>4, <1>5, <1>6, <1>7 DEF Past, Scanning, Recursive
<1>. QED
  BY <1>1, <1>2, <1>8 DEF MeaningInv, Recursive

(* The names of unknown options stand for no other error.                  *)
LEMMA UnknownApart ==
  ASSUME FlagsType, Origin, NEW past \in Seq(Deed), Leaves(past)
  PROVE  (RefusedIn(past) \cup FailedIn(past) \cup Invalid) \cap UnknownIn(past) = {}
<1>1. ASSUME NEW d \in ToSet(past), NEW e \in ToSet(past), d.kind # "unknown", e.kind = "unknown"
      PROVE  d.name # e.name
  BY <1>1 DEF Leaves
<1>2. ASSUME NEW n \in Invalid, NEW e \in ToSet(past), e.kind = "unknown" PROVE n # e.name
  BY <1>2, FlagAssumption DEF Leaves, Invalid, FindFlagLocked
<1>. QED
  BY <1>1, <1>2 DEF RefusedIn, FailedIn, UnknownIn, OfKind

LEMMA ReportIsFaulty ==
  ASSUME FlagsType, Origin, NEW past \in Seq(Deed), Leaves(past), ReportErrors,
         error_flags = RefusedIn(past) \cup FailedIn(past) \cup UnknownIn(past) \cup Invalid
  PROVE  exited' <=> Faulty(past)
<1> DEFINE undefok == Entries[flags["undefok"].current]
           listed  == ToSet(undefok)
           ok(m)   == \/ reparsing
                      \/ m \in listed
                      \/ \E x \in listed : Positive[m] = x /\ x \notin UnknownIn(past)
           others  == RefusedIn(past) \cup Invalid \cup FailedIn(past)
<1>1. CASE undefok = NULL
  BY <1>1 DEF ReportErrors, Faulty
<1>2. CASE undefok # NULL
  <2>1. Faulty(past) <=> others # {} \/ \E m \in UnknownIn(past) : ~ok(m)
    BY <1>2 DEF Faulty
  <2>2. undefined_names = UnknownIn(past)
    BY DEF Leaves
  <2>3. others \cap UnknownIn(past) = {} /\ error_flags = others \cup UnknownIn(past)
    BY UnknownApart
  <2>4. /\ error_flags' = (error_flags \ Excused(undefok))
                            \ (IF reparsing THEN undefined_names ELSE {})
        /\ exited' <=> error_flags' # {}
    BY <1>2 DEF ReportErrors
  <2>5. Excused(undefok) = {m \in UnknownIn(past) : \/ m \in listed
                                                   \/ Positive[m] \in listed \ UnknownIn(past)}
    BY <2>2 DEF Excused
  <2> HIDE DEF undefok, listed, others
  <2>6. error_flags' = others \cup {m \in UnknownIn(past) : ~ok(m)}
    BY <2>2, <2>3, <2>4, <2>5
  <2>. QED
    BY <2>1, <2>4, <2>6
<1>. QED
  BY <1>1, <1>2

LEMMA ReportKeepsMeaning ==
  ASSUME MeaningState, ReportErrors, UNCHANGED before, ~exited
  PROVE  MeaningInv'
<1>1. /\ pc = "report" /\ pc' = "done"
      /\ UNCHANGED <<flags, undefined_names, command, env, reparsing>>
  BY DEF ReportErrors, Settled, fixedVars
<1>2. Origin /\ Origin' /\ FlagsType
  BY <1>1, StateTypes DEF MeaningState, MeaningInv, Origin, Registered, ParserTypes
<1>3. PICK w : w = World
  OBVIOUS
<1>4. PICK past \in Seq(Deed) :
        /\ past \o <<>> = Whole(w) /\ Leaves(past)
        /\ error_flags = RefusedIn(past) \cup FailedIn(past) \cup UnknownIn(past) \cup Invalid
  <2>1. PICK past \in Seq(Deed) : Past(past)
    BY <1>1 DEF MeaningState, MeaningInv
  <2>. QED
    BY <1>1, <1>3, <2>1 DEF Past, Rest
<1>5. World' = w
  <2>1. SameNames
    BY <1>1 DEF SameNames
  <2>. QED
    BY <1>1, <1>3, <2>1, SameWorld
<1>6. Whole(w)' = Whole(w) /\ Rest(w)' = <<>>
  BY <1>1, SameEvents DEF Whole, Rest
<1>7. exited' <=> Faulty(past)
  BY <1>2, <1>4, ReportIsFaulty
<1>8. Faulty(past)' <=> Faulty(past)
  <2>1. /\ UnknownIn(past)' = UnknownIn(past) /\ FailedIn(past)' = FailedIn(past)
        /\ RefusedIn(past)' = RefusedIn(past) /\ Invalid' = Invalid
    BY <1>1, <1>4, SameLeaves
  <2>. QED
    BY <1>1, <2>1 DEF Faulty
<1>9. Leaves(past)'
  BY <1>1, <1>4, SameLeaves
<1>10. Past(past)'
  BY <1>1, <1>4, <1>5, <1>6, <1>7, <1>8, <1>9 DEF Past, Scanning, Recursive
<1>. QED
  BY <1>1, <1>2, <1>10 DEF MeaningInv, Recursive

-----------------------------------------------------------------------------
(* The invariant holds in every state of a program.                        *)
LEMMA StutterKeepsMeaning ==
  ASSUME MeaningInv, UNCHANGED <<vars, before>>
  PROVE  MeaningInv'
<1>1. /\ UNCHANGED <<flags, error_flags, undefined_names, command, env, pc, exited, reparsing>>
      /\ UNCHANGED <<stack, cursor, first_nonopt>>
  BY DEF vars, parserVars, fixedVars
<1>2. ASSUME NEW past \in Seq(Deed), Past(past) PROVE Past(past)'
  <2>1. PICK w : w = World
    OBVIOUS
  <2>2. World' = w
    <3>1. SameNames
      BY <1>1 DEF SameNames
    <3>. QED
      BY <1>1, <2>1, <3>1, SameWorld
  <2>3. /\ Scan(w)' = Scan(w) /\ First(w)' = First(w) /\ Second(w)' = Second(w)
        /\ Events(w)' = Events(w)
    BY <1>1, SameEvents
  <2>4. Whole(w)' = Whole(w)
    BY <1>1, <2>3 DEF Whole
  <2>5. Rest(w)' = Rest(w)
    BY <1>1, <2>3 DEF Rest, Position
  <2>6. Leaves(past) => /\ Leaves(past)'
                        /\ UnknownIn(past)' = UnknownIn(past) /\ FailedIn(past)' = FailedIn(past)
                        /\ RefusedIn(past)' = RefusedIn(past) /\ Invalid' = Invalid
    BY <1>1, SameLeaves
  <2>7. Leaves(past) => (Faulty(past)' <=> Faulty(past))
    BY <1>1, <2>6 DEF Faulty
  <2>. QED
    BY <1>1, <1>2, <2>1, <2>2, <2>4, <2>5, <2>6, <2>7
       DEF Past, Reflects, Scanning
<1>3. Origin => Origin'
  BY <1>1 DEF Origin, Registered
<1>. QED
  BY <1>1, <1>2, <1>3 DEF MeaningInv

LEMMA NextMeaning ==
  ASSUME MeaningState, [HistoryNext]_historyVars
  PROVE  MeaningState'
<1>1. TypeInv /\ ParseInv /\ ArgvInv /\ MeaningInv /\ [Next]_vars
  BY DEF MeaningState, HistoryInv, HistoryNext, historyVars
<1>2. HistoryInv' /\ ArgvInv'
  BY <1>1, NextHistory, NextArgv DEF HistoryInv
<1>3. CASE UNCHANGED historyVars \/ (HistoryNext /\ UNCHANGED vars)
  <2>1. UNCHANGED <<vars, before>>
    BY <1>3 DEF HistoryNext, historyVars, vars
  <2>. QED
    BY <1>1, <1>2, <2>1, StutterKeepsMeaning DEF MeaningState
<1>4. CASE HistoryNext /\ ~exited /\ Begin
  <2>1. parses' # parses
    BY <1>1, <1>4 DEF Begin, TypeInv, TypeOK
  <2>2. before' = flags
    BY <1>4, <2>1 DEF HistoryNext
  <2>. QED
    BY <1>2, <1>4, <2>2, BeginKeepsMeaning DEF MeaningState
<1>5. CASE HistoryNext /\ ~exited /\ ParseStep
  <2>1. parses' = parses
    BY <1>5 DEF ParseStep, CallStep, Return, NextFile, CommentLine, FilenameLine, FlagLine,
                NextEnv, Unmoved, ProcessStage, ProgramArgument, EndOfOptions, UnknownOption,
                MissingArgument, KnownOption, ArgumentsDone, HandleCommandLineHelpFlags,
                ValidateUnmodifiedFlags, ReportErrors, Settled
  <2>2. UNCHANGED before
    BY <1>5, <2>1 DEF HistoryNext
  <2>3. MeaningInv'
    BY <1>5, <2>2, CallKeepsMeaning, StageKeepsMeaning, ArgumentKeepsMeaning,
       ArgumentsDoneKeepsMeaning, HelpKeepsMeaning, ValidateKeepsMeaning, ReportKeepsMeaning
       DEF ParseStep
  <2>. QED
    BY <1>2, <2>3 DEF MeaningState
<1>6. CASE (\E n \in Late : RegisterLate(n))
           \/ \E c \in Calls : SetCommandLineOptionWithMode(c.name, c.text, c.mode)
  <2>1. pc' = "ready"
    BY <1>6 DEF RegisterLate, SetCommandLineOptionWithMode
  <2>2. MeaningInv'
    BY <2>1 DEF MeaningInv, Recursive
  <2>. QED
    BY <1>2, <2>2 DEF MeaningState
<1>. QED
  BY <1>3, <1>4, <1>5, <1>6 DEF HistoryNext, Next, Finished

LEMMA InitMeaning == HistoryInit => MeaningState
<1> SUFFICES ASSUME HistoryInit PROVE MeaningState
  OBVIOUS
<1>1. Init /\ pc = "ready"
  BY DEF HistoryInit, Init
<1>2. HistoryInv /\ ArgvInv
  BY <1>1, InitHistory, InitArgv
<1>3. MeaningInv
  BY <1>1 DEF MeaningInv, Recursive
<1>. QED
  BY <1>2, <1>3 DEF MeaningState

LEMMA MeaningHolds == HistorySpec => []MeaningState
<1>1. MeaningState /\ [HistoryNext]_historyVars => MeaningState'
  BY NextMeaning
<1>. QED
  BY <1>1, InitMeaning, PTL DEF HistorySpec, historyVars

(* When a parse is over, the events of the whole command line are behind it. *)
LEMMA PastAtEnd ==
  ASSUME MeaningState, pc = "done"
  PROVE  /\ Events(World) \in Seq(Deed) /\ Leaves(Events(World))
         /\ exited <=> Faulty(Events(World))
<1>1. PICK past \in Seq(Deed) : Past(past)
  BY DEF MeaningState, MeaningInv
<1>2. past \o <<>> = past
  OBVIOUS
<1>3. past = Events(World)
  BY <1>1, <1>2 DEF Past, Rest, Whole
<1>. QED
  BY <1>1, <1>3 DEF Past

(* Whatever the flags, the files, the environment and the command line are, *)
(* and however files and lists are nested, a parse that reaches its end has *)
(* given every flag the last value in the order of the command line that   *)
(* its type and its validate function accept, and has left alone the flags *)
(* that were given none (ParseCommandLineFlagsInternal).                   *)
THEOREM LastAcceptedValueWinsHolds == HistorySpec => []LastAcceptedValueWins
<1>1. MeaningState => LastAcceptedValueWins
  <2> SUFFICES ASSUME MeaningState, pc = "done", NEW n \in Name, Registered(n)
               PROVE  flags[n].current = ValueAfter(Events(World), n)
    BY DEF LastAcceptedValueWins
  <2>. QED
    BY PastAtEnd DEF Leaves
<1>. QED
  BY <1>1, MeaningHolds, PTL

(* For every command line, a parse that reaches its end makes the program  *)
(* exit exactly if some option had no flag and was not excused, some value *)
(* was refused or missing, some flag that nobody set is invalid, or        *)
(* --undefok itself cannot be split; and no file or list it names was      *)
(* unreadable (ReportErrors).                                              *)
THEOREM ExitsExactlyOnErrorHolds == HistorySpec => []ExitsExactlyOnError
<1>1. MeaningState => ExitsExactlyOnError
  <2> SUFFICES ASSUME MeaningState, pc = "done" PROVE ExitsExactlyOnError
    BY DEF ExitsExactlyOnError
  <2>1. PICK events \in Seq(Deed) :
          events = Events(World) /\ (exited <=> Faulty(events))
    BY PastAtEnd
  <2>2. OfKind(events, "die") = {}
    <3>1. ToSet(events) \subseteq Deed
      BY DEF ToSet
    <3>. QED
      BY <3>1 DEF OfKind, Deed
  <2>. QED
    BY <2>1, <2>2 DEF ExitsExactlyOnError, Faulty, OfKind, UnknownIn, RefusedIn, FailedIn, Invalid
<1>. QED
  BY <1>1, MeaningHolds, PTL

-----------------------------------------------------------------------------
(* What two meanings have in common when all their parts have it: a        *)
(* relation that holds of nothing and of parts put behind each other.      *)
Related(R, p, q) == <<p, q>> \in R

Composes(R) ==
  /\ Related(R, <<>>, <<>>)
  /\ \A p, q, x, y \in Seq(Event) :
       Related(R, p, q) /\ Related(R, x, y) => Related(R, p \o x, q \o y)

RelatedLevels(R, a, b) ==
  /\ \A f \in Text : Related(R, a.file[f], b.file[f])
  /\ \A n \in Recursive, v \in Value : Related(R, a.list[n][v], b.list[n][v])

LEMMA FlattenRelated ==
  ASSUME NEW R, Composes(R), NEW s \in Seq(Seq(Event)), NEW t \in Seq(Seq(Event)),
         Len(s) = Len(t), \A i \in 1 .. Len(s) : Related(R, s[i], t[i])
  PROVE  Related(R, FlattenSeq(s), FlattenSeq(t))
<1>1. PICK f \in [0 .. Len(s) -> Seq(Event)] : Concatenates(f, s) /\ FlattenSeq(s) = f[Len(s)]
  BY FlattenIs
<1>2. PICK g \in [0 .. Len(t) -> Seq(Event)] : Concatenates(g, t) /\ FlattenSeq(t) = g[Len(t)]
  BY FlattenIs
<1>3. Len(s) \in Nat /\ \A k \in 1 .. Len(s) : s[k] \in Seq(Event) /\ t[k] \in Seq(Event)
  OBVIOUS
<1> DEFINE T == {k \in 0 .. Len(s) : Related(R, f[k], g[k])}
<1>4. ASSUME NEW k \in 0 .. Len(s), \A j \in 0 .. k - 1 : j \in T PROVE k \in T
  <2>1. CASE k = 0
    <3>1. f[0] = <<>> /\ g[0] = <<>>
      BY <1>1, <1>2 DEF Concatenates
    <3>. QED
      BY <2>1, <3>1 DEF Composes
  <2>2. CASE k # 0
    <3>1. k - 1 \in 0 .. k - 1 /\ k - 1 \in 0 .. Len(s) /\ k \in 1 .. Len(s)
      BY <2>2
    <3>2. f[k] = f[k - 1] \o s[k] /\ g[k] = g[k - 1] \o t[k]
      BY <1>1, <1>2, <3>1 DEF Concatenates
    <3>3. Related(R, f[k - 1], g[k - 1])
      BY <1>4, <3>1
    <3>4. f[k - 1] \in Seq(Event) /\ g[k - 1] \in Seq(Event)
      BY <3>1
    <3>5. Related(R, f[k - 1] \o s[k], g[k - 1] \o t[k])
      BY <1>3, <3>1, <3>3, <3>4 DEF Composes
    <3>. QED
      BY <3>2, <3>5
  <2>. QED
    BY <2>1, <2>2
<1>5. \A k \in 0 .. Len(s) : k \in T
  <2> HIDE DEF T
  <2>. QED
    BY <1>3, <1>4, StrongInduction
<1>. QED
  BY <1>1, <1>2, <1>3, <1>5

LEMMA CallRelated ==
  ASSUME NEW R, Composes(R), Related(R, <<Die>>, <<Die>>),
         NEW u, WorldOK(u), NEW v, WorldOK(v), NEW a \in Levels, NEW b \in Levels,
         RelatedLevels(R, a, b),
         \A line \in Line, applies \in BOOLEAN :
            Related(R, OfLine(u, a.list, line, applies), OfLine(v, b.list, line, applies)),
         \A name \in Name, required \in BOOLEAN :
            Related(R, OfVariable(u, a.list, name, required),
                       OfVariable(v, b.list, name, required))
  PROVE  RelatedLevels(R, OneMoreCall(u, a), OneMoreCall(v, b))
<1>1. /\ a.list \in [Recursive -> [Value -> Seq(Event)]]
      /\ b.list \in [Recursive -> [Value -> Seq(Event)]]
  BY DEF Levels
<1>2. ASSUME NEW f \in Text PROVE Related(R, OfFile(u, a.list, f), OfFile(v, b.list, f))
  <2>1. CASE Contents[f] = NULL
    BY <2>1 DEF OfFile
  <2>2. CASE Contents[f] # NULL
    <3>1. PICK lines \in Seq(Line) : lines = Contents[f]
      BY <2>2, ParserAssumption
    <3> DEFINE P(i) == OfLine(u, a.list, lines[i], Applies(lines, i))
               Q(i) == OfLine(v, b.list, lines[i], Applies(lines, i))
    <3>2. /\ OfFile(u, a.list, f) = FlattenSeq([i \in DOMAIN lines |-> P(i)])
          /\ OfFile(v, b.list, f) = FlattenSeq([i \in DOMAIN lines |-> Q(i)])
      BY <2>2, <3>1 DEF OfFile
    <3>3. ASSUME NEW i \in DOMAIN lines
          PROVE  P(i) \in Seq(Event) /\ Q(i) \in Seq(Event) /\ Related(R, P(i), Q(i))
      <4>1. lines[i] \in Line
        BY ElementOfSeq, LenProperties
      <4>2. Applies(lines, i) \in BOOLEAN
        BY DEF Applies
      <4>. QED
        BY <1>1, <4>1, <4>2, OfLineType
    <3>4. DOMAIN lines = 1 .. Len(lines) /\ Len(lines) \in Nat
      BY LenProperties
    <3> HIDE DEF P, Q
    <3>5. PICK s, t : s = [i \in DOMAIN lines |-> P(i)] /\ t = [i \in DOMAIN lines |-> Q(i)]
      OBVIOUS
    <3>6. /\ s \in Seq(Seq(Event)) /\ t \in Seq(Seq(Event))
          /\ Len(s) = Len(lines) /\ Len(t) = Len(lines)
          /\ \A i \in 1 .. Len(lines) : s[i] = P(i) /\ t[i] = Q(i)
      BY <3>3, <3>4, <3>5
    <3>7. \A i \in 1 .. Len(s) : Related(R, s[i], t[i])
      BY <3>3, <3>4, <3>6
    <3>. QED
      BY <3>2, <3>5, <3>6, <3>7, FlattenRelated
  <2>. QED
    BY <2>1, <2>2
<1>3. ASSUME NEW n \in Recursive, NEW x \in Value
      PROVE  Related(R, OfList(u, a, n, x), OfList(v, b, n, x))
  <2>1. CASE Entries[x] = NULL
    BY <2>1 DEF OfList
  <2>2. CASE Entries[x] # NULL
    <3>1. PICK entries \in Seq(Text) : entries = Entries[x]
      BY <2>2, ParserAssumption
    <3> DEFINE P(i) == OfEntry(u, a, n, entries[i])
               Q(i) == OfEntry(v, b, n, entries[i])
    <3>2. /\ OfList(u, a, n, x) = FlattenSeq([i \in DOMAIN entries |-> P(i)])
          /\ OfList(v, b, n, x) = FlattenSeq([i \in DOMAIN entries |-> Q(i)])
      BY <2>2, <3>1 DEF OfList
    <3>3. ASSUME NEW i \in DOMAIN entries
          PROVE  P(i) \in Seq(Event) /\ Q(i) \in Seq(Event) /\ Related(R, P(i), Q(i))
      <4>1. entries[i] \in Text /\ entries[i] \in Name /\ (n = "fromenv") \in BOOLEAN
        BY ElementOfSeq, LenProperties, ParserAssumption
      <4>2. P(i) \in Seq(Event) /\ Q(i) \in Seq(Event)
        BY <4>1, OfEntryType
      <4>3. Related(R, P(i), Q(i))
        BY <4>1 DEF OfEntry, RelatedLevels
      <4>. QED
        BY <4>2, <4>3
    <3>4. DOMAIN entries = 1 .. Len(entries) /\ Len(entries) \in Nat
      BY LenProperties
    <3> HIDE DEF P, Q
    <3>5. PICK s, t : s = [i \in DOMAIN entries |-> P(i)] /\ t = [i \in DOMAIN entries |-> Q(i)]
      OBVIOUS
    <3>6. /\ s \in Seq(Seq(Event)) /\ t \in Seq(Seq(Event))
          /\ Len(s) = Len(entries) /\ Len(t) = Len(entries)
          /\ \A i \in 1 .. Len(entries) : s[i] = P(i) /\ t[i] = Q(i)
      BY <3>3, <3>4, <3>5
    <3>7. \A i \in 1 .. Len(s) : Related(R, s[i], t[i])
      BY <3>3, <3>4, <3>6
    <3>. QED
      BY <3>2, <3>5, <3>6, <3>7, FlattenRelated
  <2>. QED
    BY <2>1, <2>2
<1>. QED
  BY <1>2, <1>3 DEF OneMoreCall, RelatedLevels

-----------------------------------------------------------------------------
(* The text that a flag is given last, of those it accepts in a world.     *)
TakenIn(w, p, n) ==
  {i \in DOMAIN p : p[i].kind = "set" /\ p[i].name = n /\ p[i].text \in w.accepts[n]}

LastText(w, p, n) ==
  IF TakenIn(w, p, n) = {} THEN <<>> ELSE <<p[Max(TakenIn(w, p, n))].text>>

LEMMA LastTaken ==
  ASSUME NEW w, NEW p \in Seq(Event), NEW n
  PROVE  /\ TakenIn(w, p, n) = {} => LastText(w, p, n) = <<>>
         /\ \A m \in TakenIn(w, p, n) :
              (\A k \in TakenIn(w, p, n) : k <= m) => LastText(w, p, n) = <<p[m].text>>
         /\ TakenIn(w, p, n) # {} =>
              \E m \in TakenIn(w, p, n) : \A k \in TakenIn(w, p, n) : k <= m
         /\ TakenIn(w, p, n) \subseteq 1 .. Len(p)
<1> DEFINE t == TakenIn(w, p, n)
<1>1. t \subseteq 1 .. Len(p) /\ t \in SUBSET (0 .. Len(p)) /\ Len(p) \in Nat
  BY DEF TakenIn
<1>2. /\ t = {} => LastText(w, p, n) = <<>>
      /\ t # {} => LastText(w, p, n) = <<p[Max(t)].text>>
  BY DEF LastText
<1> HIDE DEF t
<1>3. t # {} => Max(t) \in t /\ \A k \in t : k <= Max(t)
  <2>1. t # {} => Max(t) \in t /\ \A k \in t : Max(t) >= k
    BY <1>1, GreatestMember
  <2>. QED
    BY <1>1, <2>1
<1>4. ASSUME NEW m \in t, \A k \in t : k <= m PROVE LastText(w, p, n) = <<p[m].text>>
  <2>1. Max(t) \in t /\ Max(t) <= m /\ m <= Max(t)
    BY <1>3, <1>4
  <2>2. m = Max(t)
    <3>1. PICK x : x = Max(t)
      OBVIOUS
    <3>2. x \in 1 .. Len(p) /\ m \in 1 .. Len(p) /\ x <= m /\ m <= x
      BY <1>1, <2>1, <3>1
    <3>. QED
      BY <1>1, <3>1, <3>2
  <2>. QED
    BY <1>2, <1>4, <2>2
<1>. QED
  BY <1>1, <1>2, <1>3, <1>4 DEF t

LEMMA LastOfBoth ==
  ASSUME NEW w, NEW p \in Seq(Event), NEW q \in Seq(Event), NEW n
  PROVE  LastText(w, p \o q, n)
           = IF LastText(w, q, n) # <<>> THEN LastText(w, q, n) ELSE LastText(w, p, n)
<1> DEFINE b == p \o q
<1>1. /\ b \in Seq(Event) /\ Len(b) = Len(p) + Len(q) /\ Len(p) \in Nat /\ Len(q) \in Nat
      /\ DOMAIN b = 1 .. Len(b) /\ DOMAIN p = 1 .. Len(p) /\ DOMAIN q = 1 .. Len(q)
      /\ \A i \in 1 .. Len(p) : b[i] = p[i]
      /\ \A i \in 1 .. Len(q) : b[Len(p) + i] = q[i]
  BY ConcatProperties, LenProperties
<1> HIDE DEF b
<1>2. \A i \in 1 .. Len(p) : i \in TakenIn(w, b, n) <=> i \in TakenIn(w, p, n)
  BY <1>1 DEF TakenIn
<1>3. \A i \in 1 .. Len(q) : Len(p) + i \in TakenIn(w, b, n) <=> i \in TakenIn(w, q, n)
  BY <1>1 DEF TakenIn
<1>4. \A k \in TakenIn(w, b, n) : \/ k \in 1 .. Len(p) /\ k \in TakenIn(w, p, n)
                                  \/ \E i \in TakenIn(w, q, n) : i \in 1 .. Len(q) /\ k = Len(p) + i
  <2> SUFFICES ASSUME NEW k \in TakenIn(w, b, n)
               PROVE  \/ k \in 1 .. Len(p) /\ k \in TakenIn(w, p, n)
                      \/ \E i \in TakenIn(w, q, n) : i \in 1 .. Len(q) /\ k = Len(p) + i
    OBVIOUS
  <2>1. k \in 1 .. Len(p) + Len(q)
    BY <1>1 DEF TakenIn
  <2>2. CASE k \in 1 .. Len(p)
    BY <1>2, <2>2
  <2>3. CASE k \notin 1 .. Len(p)
    <3>1. k - Len(p) \in 1 .. Len(q) /\ k = Len(p) + (k - Len(p))
      BY <1>1, <2>1, <2>3
    <3>2. k - Len(p) \in TakenIn(w, q, n)
      BY <1>3, <3>1
    <3>. QED
      BY <3>1, <3>2
  <2>. QED
    BY <2>2, <2>3
<1>5. CASE TakenIn(w, q, n) # {}
  <2>1. PICK m \in TakenIn(w, q, n) : \A k \in TakenIn(w, q, n) : k <= m
    BY <1>5, LastTaken
  <2>2. m \in 1 .. Len(q)
    BY LastTaken
  <2>3. LastText(w, q, n) = <<q[m].text>>
    BY <2>1, LastTaken
  <2>4. Len(p) + m \in TakenIn(w, b, n)
    BY <1>3, <2>2
  <2>5. \A k \in TakenIn(w, b, n) : k <= Len(p) + m
    BY <1>1, <1>4, <2>1, <2>2
  <2>6. LastText(w, b, n) = <<b[Len(p) + m].text>>
    BY <1>1, <2>4, <2>5, LastTaken
  <2>7. b[Len(p) + m] = q[m] /\ <<q[m].text>> # <<>>
    BY <1>1, <2>2
  <2>. QED
    BY <2>3, <2>6, <2>7 DEF b
<1>6. CASE TakenIn(w, q, n) = {} /\ TakenIn(w, p, n) # {}
  <2>1. PICK m \in TakenIn(w, p, n) : \A k \in TakenIn(w, p, n) : k <= m
    BY <1>6, LastTaken
  <2>2. m \in 1 .. Len(p)
    BY LastTaken
  <2>3. LastText(w, p, n) = <<p[m].text>> /\ LastText(w, q, n) = <<>>
    BY <1>6, <2>1, LastTaken
  <2>4. m \in TakenIn(w, b, n) /\ \A k \in TakenIn(w, b, n) : k <= m
    BY <1>2, <1>4, <1>6, <2>1, <2>2
  <2>5. LastText(w, b, n) = <<b[m].text>>
    BY <1>1, <2>4, LastTaken
  <2>. QED
    BY <1>1, <2>2, <2>3, <2>5 DEF b
<1>7. CASE TakenIn(w, q, n) = {} /\ TakenIn(w, p, n) = {}
  <2>1. TakenIn(w, b, n) = {}
    BY <1>4, <1>7
  <2>2. /\ LastText(w, b, n) = <<>> /\ LastText(w, p, n) = <<>> /\ LastText(w, q, n) = <<>>
    BY <1>1, <1>7, <2>1, LastTaken
  <2>. QED
    BY <2>2 DEF b
<1>. QED
  BY <1>5, <1>6, <1>7

(* No event, and one event.                                                *)
LEMMA LastOfNone ==
  ASSUME NEW w, NEW n
  PROVE  LastText(w, <<>>, n) = <<>>
<1>1. TakenIn(w, <<>>, n) = {}
  BY DEF TakenIn
<1>. QED
  BY <1>1 DEF LastText

LEMMA LastOfOne ==
  ASSUME NEW w, NEW e \in Event, NEW n
  PROVE  LastText(w, <<e>>, n)
           = IF e.kind = "set" /\ e.name = n /\ e.text \in w.accepts[n] THEN <<e.text>> ELSE <<>>
<1>1. /\ <<e>> \in Seq(Event) /\ DOMAIN <<e>> = {1} /\ <<e>>[1] = e
  OBVIOUS
<1>2. TakenIn(w, <<e>>, n)
        = IF e.kind = "set" /\ e.name = n /\ e.text \in w.accepts[n] THEN {1} ELSE {}
  BY <1>1 DEF TakenIn
<1>3. CASE e.kind = "set" /\ e.name = n /\ e.text \in w.accepts[n]
  <2>1. 1 \in TakenIn(w, <<e>>, n) /\ \A k \in TakenIn(w, <<e>>, n) : k <= 1
    BY <1>2, <1>3
  <2>2. LastText(w, <<e>>, n) = <<<<e>>[1].text>>
    BY <1>1, <2>1, LastTaken
  <2>. QED
    BY <1>1, <1>3, <2>2
<1>4. CASE ~(e.kind = "set" /\ e.name = n /\ e.text \in w.accepts[n])
  BY <1>2, <1>4 DEF LastText
<1>. QED
  BY <1>3, <1>4

-----------------------------------------------------------------------------
(* Worlds that are alike for the flags in K: flags that came later have    *)
(* taken no argument away from them.                                       *)
LikeWorlds(u, v, K) ==
  /\ WorldOK(u) /\ WorldOK(v) /\ Recursive \subseteq K /\ K \subseteq Name
  /\ \A key \in Name, value \in Text \cup {NULL} :
       \/ u.split[key][value] = v.split[key][value]
       \/ u.split[key][value].flag \notin K /\ v.split[key][value].flag \notin K
  /\ \A name \in Name : \/ u.find[name] = v.find[name]
                        \/ u.find[name] \notin K /\ v.find[name] \notin K
  /\ u.env = v.env
  /\ \A n \in K : u.accepts[n] = v.accepts[n]

(* Events that leave the flags in K with the same texts.                   *)
Ending(u, v, K) ==
  {x \in Seq(Event) \X Seq(Event) : \A n \in K : LastText(u, x[1], n) = LastText(v, x[2], n)}

LEMMA EndingIs ==
  ASSUME NEW u, NEW v, NEW K, NEW p \in Seq(Event), NEW q \in Seq(Event)
  PROVE  Related(Ending(u, v, K), p, q)
           <=> \A n \in K : LastText(u, p, n) = LastText(v, q, n)
BY DEF Related, Ending

LEMMA EndingComposes ==
  ASSUME NEW u, NEW v, NEW K
  PROVE  Composes(Ending(u, v, K))
<1>1. Related(Ending(u, v, K), <<>>, <<>>)
  <2>1. \A n \in K : LastText(u, <<>>, n) = LastText(v, <<>>, n)
    BY LastOfNone
  <2>2. PICK p \in Seq(Event) : p = <<>>
    BY EventTypes
  <2>. QED
    BY <2>1, <2>2, EndingIs
<1>2. ASSUME NEW p \in Seq(Event), NEW q \in Seq(Event), NEW x \in Seq(Event), NEW y \in Seq(Event),
             Related(Ending(u, v, K), p, q), Related(Ending(u, v, K), x, y)
      PROVE  Related(Ending(u, v, K), p \o x, q \o y)
  <2>1. p \o x \in Seq(Event) /\ q \o y \in Seq(Event)
    BY ConcatProperties
  <2>2. ASSUME NEW n \in K PROVE LastText(u, p \o x, n) = LastText(v, q \o y, n)
    <3>1. LastText(u, p, n) = LastText(v, q, n) /\ LastText(u, x, n) = LastText(v, y, n)
      BY <1>2, EndingIs
    <3>2. LastText(u, p \o x, n)
            = IF LastText(u, x, n) # <<>> THEN LastText(u, x, n) ELSE LastText(u, p, n)
      BY LastOfBoth
    <3>3. LastText(v, q \o y, n)
            = IF LastText(v, y, n) # <<>> THEN LastText(v, y, n) ELSE LastText(v, q, n)
      BY LastOfBoth
    <3>. QED
      BY <3>1, <3>2, <3>3
  <2>. QED
    BY <2>1, <2>2, EndingIs
<1>. QED
  BY <1>1, <1>2 DEF Composes

(* Events that give no flag in K anything.                                 *)
LEMMA ForeignEvent ==
  ASSUME NEW w, NEW K, NEW e \in Event, e.kind # "set" \/ e.name \notin K, NEW m \in K
  PROVE  LastText(w, <<e>>, m) = <<>>
BY LastOfOne

LEMMA SilentKinds ==
  /\ Die \in Event /\ Die.kind # "set"
  /\ \A n \in Name : /\ Fail(n) \in Event /\ Fail(n).kind # "set"
                     /\ Unknown(n) \in Event /\ Unknown(n).kind # "set"
BY EventTypes DEF Event, Die, Fail, Unknown

LEMMA ForeignProcess ==
  ASSUME NEW w, NEW K, Recursive \subseteq K, NEW nested, NEW n \in Name \ K, NEW text \in Text,
         NEW m \in K
  PROVE  LastText(w, Process(w, nested, n, text), m) = <<>>
<1>1. SetEvent(n, text) \in Event /\ SetEvent(n, text).name = n
  BY EventTypes DEF SetEvent
<1>2. <<SetEvent(n, text)>> \o <<>> = <<SetEvent(n, text)>>
  BY <1>1
<1>3. Process(w, nested, n, text) = <<SetEvent(n, text)>>
  BY <1>2 DEF Process
<1>. QED
  BY <1>1, <1>3, ForeignEvent

LEMMA LikeProcess ==
  ASSUME NEW u, NEW v, NEW K, LikeWorlds(u, v, K), NEW a \in Levels, NEW b \in Levels,
         RelatedLevels(Ending(u, v, K), a, b), NEW n \in K, NEW text \in Text
  PROVE  Related(Ending(u, v, K), Process(u, a.list, n, text), Process(v, b.list, n, text))
<1> DEFINE R == Ending(u, v, K)
           e == SetEvent(n, text)
           p == IF n \in Recursive /\ text \in u.accepts[n] THEN a.list[n][Parse[n][text]] ELSE <<>>
           q == IF n \in Recursive /\ text \in v.accepts[n] THEN b.list[n][Parse[n][text]] ELSE <<>>
<1>1. n \in Name /\ u.accepts[n] = v.accepts[n] /\ Composes(R)
  BY EndingComposes DEF LikeWorlds
<1>2. e \in Event /\ <<e>> \in Seq(Event)
  BY <1>1, EventTypes
<1>3. Related(R, <<e>>, <<e>>)
  <2>1. ASSUME NEW m \in K PROVE LastText(u, <<e>>, m) = LastText(v, <<e>>, m)
    <3>1. u.accepts[m] = v.accepts[m]
      BY DEF LikeWorlds
    <3> HIDE DEF e
    <3>2. LastText(u, <<e>>, m)
            = IF e.kind = "set" /\ e.name = m /\ e.text \in u.accepts[m] THEN <<e.text>> ELSE <<>>
      BY <1>2, LastOfOne
    <3>3. LastText(v, <<e>>, m)
            = IF e.kind = "set" /\ e.name = m /\ e.text \in v.accepts[m] THEN <<e.text>> ELSE <<>>
      BY <1>2, LastOfOne
    <3>. QED
      BY <3>1, <3>2, <3>3
  <2>. QED
    BY <1>2, <2>1, EndingIs
<1>4. Related(R, p, q) /\ p \in Seq(Event) /\ q \in Seq(Event)
  <2>1. CASE n \in Recursive /\ text \in u.accepts[n]
    <3>1. Parse[n][text] \in Value
      BY <1>1, <2>1 DEF LikeWorlds, WorldOK
    <3>. QED
      BY <1>1, <2>1, <3>1 DEF RelatedLevels, Levels
  <2>2. CASE ~(n \in Recursive /\ text \in u.accepts[n])
    BY <1>1, <2>2, EventTypes DEF Composes
  <2>. QED
    BY <2>1, <2>2
<1>5. Process(u, a.list, n, text) = <<e>> \o p /\ Process(v, b.list, n, text) = <<e>> \o q
  BY DEF Process
<1> HIDE DEF R, e, p, q
<1>6. Related(R, <<e>> \o p, <<e>> \o q)
  BY <1>1, <1>2, <1>3, <1>4 DEF Composes
<1>. QED
  BY <1>5, <1>6 DEF R

LEMMA LikeLine ==
  ASSUME NEW u, NEW v, NEW K, LikeWorlds(u, v, K), NEW a \in Levels, NEW b \in Levels,
         RelatedLevels(Ending(u, v, K), a, b), NEW line \in Line, NEW applies \in BOOLEAN
  PROVE  Related(Ending(u, v, K), OfLine(u, a.list, line, applies),
                                  OfLine(v, b.list, line, applies))
<1>0. Related(Ending(u, v, K), <<>>, <<>>) /\ WorldOK(u) /\ WorldOK(v)
      /\ a.list \in [Recursive -> [Value -> Seq(Event)]]
      /\ b.list \in [Recursive -> [Value -> Seq(Event)]]
      /\ Recursive \subseteq K
  BY EndingComposes DEF Composes, LikeWorlds, Levels
<1>1. CASE line.kind # "flag" \/ ~applies
  BY <1>0, <1>1 DEF OfLine
<1>2. CASE line.kind = "flag" /\ applies
  <2>1. line.key \in Name /\ line.value \in Text \cup {NULL}
    BY <1>2 DEF Line, FlagArgument
  <2>2. PICK x \in SplitResult : x = u.split[line.key][line.value]
    BY <1>0, <2>1 DEF WorldOK
  <2>3. PICK y \in SplitResult : y = v.split[line.key][line.value]
    BY <1>0, <2>1 DEF WorldOK
  <2>4. x = y \/ (x.flag \notin K /\ y.flag \notin K)
    BY <2>1, <2>2, <2>3 DEF LikeWorlds
  <2>5. /\ OfLine(u, a.list, line, applies)
             = IF x.flag = NULL \/ x.value = NULL THEN <<>>
               ELSE Process(u, a.list, x.flag, x.value)
        /\ OfLine(v, b.list, line, applies)
             = IF y.flag = NULL \/ y.value = NULL THEN <<>>
               ELSE Process(v, b.list, y.flag, y.value)
    BY <1>2, <2>2, <2>3 DEF OfLine
  <2>6. /\ x.flag \in Name \cup {NULL} /\ x.value \in Text \cup {NULL}
        /\ y.flag \in Name \cup {NULL} /\ y.value \in Text \cup {NULL}
    BY DEF SplitResult
  <2>7. CASE x.flag \in K /\ x = y
    <3>1. x.value # NULL =>
            Related(Ending(u, v, K), Process(u, a.list, x.flag, x.value),
                                     Process(v, b.list, x.flag, x.value))
      BY <2>6, <2>7, LikeProcess
    <3>. QED
      BY <1>0, <2>5, <2>7, <3>1
  <2>8. CASE x.flag \notin K /\ y.flag \notin K
    <3>1. \A m \in K : LastText(u, OfLine(u, a.list, line, applies), m) = <<>>
      <4>1. x.flag # NULL /\ x.value # NULL =>
              \A m \in K : LastText(u, Process(u, a.list, x.flag, x.value), m) = <<>>
        BY <1>0, <2>6, <2>8, ForeignProcess
      <4>. QED
        BY <2>5, <4>1, LastOfNone
    <3>2. \A m \in K : LastText(v, OfLine(v, b.list, line, applies), m) = <<>>
      <4>1. y.flag # NULL /\ y.value # NULL =>
              \A m \in K : LastText(v, Process(v, b.list, y.flag, y.value), m) = <<>>
        BY <1>0, <2>6, <2>8, ForeignProcess
      <4>. QED
        BY <2>5, <4>1, LastOfNone
    <3>3. /\ OfLine(u, a.list, line, applies) \in Seq(Event)
          /\ OfLine(v, b.list, line, applies) \in Seq(Event)
      BY <1>0, OfLineType
    <3>. QED
      BY <3>1, <3>2, <3>3, EndingIs
  <2>. QED
    BY <2>4, <2>7, <2>8
<1>. QED
  BY <1>1, <1>2

LEMMA LikeVariable ==
  ASSUME NEW u, NEW v, NEW K, LikeWorlds(u, v, K), NEW a \in Levels, NEW b \in Levels,
         RelatedLevels(Ending(u, v, K), a, b), NEW name \in Name, NEW required \in BOOLEAN
  PROVE  Related(Ending(u, v, K), OfVariable(u, a.list, name, required),
                                  OfVariable(v, b.list, name, required))
<1>0. Related(Ending(u, v, K), <<>>, <<>>) /\ WorldOK(u) /\ WorldOK(v)
      /\ a.list \in [Recursive -> [Value -> Seq(Event)]]
      /\ b.list \in [Recursive -> [Value -> Seq(Event)]]
      /\ Recursive \subseteq K /\ u.env = v.env
  BY EndingComposes DEF Composes, LikeWorlds, Levels
<1>1. PICK x \in Name \cup {NULL} : x = u.find[name]
  BY <1>0 DEF WorldOK
<1>2. PICK y \in Name \cup {NULL} : y = v.find[name]
  BY <1>0 DEF WorldOK
<1>3. PICK t \in Text \cup {NULL} : t = u.env[name] /\ t = v.env[name]
  BY <1>0 DEF WorldOK
<1>4. x = y \/ (x \notin K /\ y \notin K)
  BY <1>1, <1>2 DEF LikeWorlds
<1>5. /\ OfVariable(u, a.list, name, required) \in Seq(Event)
      /\ OfVariable(v, b.list, name, required) \in Seq(Event)
  BY <1>0, OfVariableType
<1>6. /\ <<Unknown(name)>> \in Seq(Event) /\ <<Fail(name)>> \in Seq(Event)
      /\ \A m \in K : /\ LastText(u, <<Unknown(name)>>, m) = <<>>
                      /\ LastText(u, <<Fail(name)>>, m) = <<>>
                      /\ LastText(u, <<>>, m) = <<>>
                      /\ LastText(v, <<Unknown(name)>>, m) = <<>>
                      /\ LastText(v, <<Fail(name)>>, m) = <<>>
                      /\ LastText(v, <<>>, m) = <<>>
  <2>1. /\ Unknown(name) \in Event /\ Fail(name) \in Event
        /\ Unknown(name).kind # "set" /\ Fail(name).kind # "set"
    BY SilentKinds
  <2>2. <<Unknown(name)>> \in Seq(Event) /\ <<Fail(name)>> \in Seq(Event)
    BY <2>1
  <2>. QED
    BY <2>1, <2>2, ForeignEvent, LastOfNone
<1>7. CASE x \in K /\ x = y
  <2>1. t # NULL => Related(Ending(u, v, K), Process(u, a.list, x, t), Process(v, b.list, x, t))
    BY <1>7, LikeProcess
  <2>2. Related(Ending(u, v, K), <<Unknown(name)>>, <<Unknown(name)>>)
        /\ Related(Ending(u, v, K), <<Fail(name)>>, <<Fail(name)>>)
    <3>1. /\ \A m \in K : LastText(u, <<Unknown(name)>>, m) = LastText(v, <<Unknown(name)>>, m)
          /\ \A m \in K : LastText(u, <<Fail(name)>>, m) = LastText(v, <<Fail(name)>>, m)
      BY <1>6
    <3>. QED
      BY <1>6, <3>1, EndingIs
  <2>. QED
    BY <1>0, <1>1, <1>2, <1>3, <1>7, <2>1, <2>2 DEF OfVariable
<1>8. CASE x \notin K /\ y \notin K
  <2>1. \A m \in K : LastText(u, OfVariable(u, a.list, name, required), m) = <<>>
    <3>1. x # NULL /\ t # NULL => \A m \in K : LastText(u, Process(u, a.list, x, t), m) = <<>>
      BY <1>0, <1>8, ForeignProcess
    <3>. QED
      BY <1>1, <1>3, <1>6, <3>1 DEF OfVariable
  <2>2. \A m \in K : LastText(v, OfVariable(v, b.list, name, required), m) = <<>>
    <3>1. y # NULL /\ t # NULL => \A m \in K : LastText(v, Process(v, b.list, y, t), m) = <<>>
      BY <1>0, <1>8, ForeignProcess
    <3>. QED
      BY <1>2, <1>3, <1>6, <3>1 DEF OfVariable
  <2>. QED
    BY <1>5, <2>1, <2>2, EndingIs
<1>. QED
  BY <1>4, <1>7, <1>8

(* Files and lists mean the same to the flags in K in worlds alike for K.  *)
LEMMA LikeNested ==
  ASSUME NEW u, NEW v, NEW K, LikeWorlds(u, v, K)
  PROVE  \A n \in Recursive, x \in Value : Related(Ending(u, v, K), Nested(u)[n][x], Nested(v)[n][x])
<1>1. WorldOK(u) /\ WorldOK(v) /\ MaxDepth \in Nat
  BY ParserAssumption DEF LikeWorlds
<1>2. PICK a \in [0 .. MaxDepth -> Levels] :
        /\ a = Meaning(u) /\ a[0] = Overflow
        /\ \A d \in 1 .. MaxDepth : a[d] = OneMoreCall(u, a[d - 1])
  BY <1>1, MeaningIs
<1>3. PICK b \in [0 .. MaxDepth -> Levels] :
        /\ b = Meaning(v) /\ b[0] = Overflow
        /\ \A d \in 1 .. MaxDepth : b[d] = OneMoreCall(v, b[d - 1])
  BY <1>1, MeaningIs
<1> DEFINE R == Ending(u, v, K)
           T == {d \in 0 .. MaxDepth : RelatedLevels(R, a[d], b[d])}
<1>4. Composes(R) /\ Related(R, <<Die>>, <<Die>>)
  <2>1. \A m \in K : LastText(u, <<Die>>, m) = LastText(v, <<Die>>, m)
    BY SilentKinds, ForeignEvent
  <2>. QED
    BY <2>1, EndingComposes, EndingIs, EventTypes
<1>5. ASSUME NEW d \in 0 .. MaxDepth, \A j \in 0 .. d - 1 : j \in T PROVE d \in T
  <2>1. CASE d = 0
    <3>1. a[d] = Overflow /\ b[d] = Overflow
      BY <1>2, <1>3, <2>1
    <3>2. RelatedLevels(R, Overflow, Overflow)
      <4>1. /\ \A f \in Text : Overflow.file[f] = <<Die>>
            /\ \A n \in Recursive, x \in Value : Overflow.list[n][x] = <<Die>>
        BY DEF Overflow
      <4> HIDE DEF R
      <4>. QED
        BY <1>4, <4>1 DEF RelatedLevels
    <3>. QED
      BY <3>1, <3>2
  <2>2. CASE d # 0
    <3>1. d - 1 \in 0 .. d - 1 /\ d - 1 \in 0 .. MaxDepth /\ d \in 1 .. MaxDepth
      BY <1>1, <2>2
    <3>2. PICK p \in Levels, q \in Levels : p = a[d - 1] /\ q = b[d - 1]
      BY <3>1
    <3>3. RelatedLevels(R, p, q) /\ a[d] = OneMoreCall(u, p) /\ b[d] = OneMoreCall(v, q)
      BY <1>2, <1>3, <1>5, <3>1, <3>2
    <3>4. /\ \A line \in Line, applies \in BOOLEAN :
               Related(R, OfLine(u, p.list, line, applies), OfLine(v, q.list, line, applies))
          /\ \A name \in Name, required \in BOOLEAN :
               Related(R, OfVariable(u, p.list, name, required),
                          OfVariable(v, q.list, name, required))
      BY <3>3, LikeLine, LikeVariable
    <3> HIDE DEF R
    <3>5. RelatedLevels(R, OneMoreCall(u, p), OneMoreCall(v, q))
      BY <1>1, <1>4, <3>3, <3>4, CallRelated
    <3>. QED
      BY <3>3, <3>5
  <2>. QED
    BY <2>1, <2>2
<1>6. \A d \in 0 .. MaxDepth : d \in T
  <2> HIDE DEF T
  <2>. QED
    BY <1>1, <1>5, StrongInduction
<1>7. RelatedLevels(R, a[MaxDepth], b[MaxDepth])
  BY <1>1, <1>6
<1>. QED
  BY <1>2, <1>3, <1>7 DEF Nested, RelatedLevels

-----------------------------------------------------------------------------
(* The arguments from any position on, by what each of them does.          *)
LEMMA ScanRelated ==
  ASSUME NEW R, Composes(R), NEW u, WorldOK(u), NEW v, WorldOK(v), command \in Seq(Argument),
         \A k \in 1 .. Len(command) : /\ Related(R, OfArgument(u, k), OfArgument(v, k))
                                      /\ ArgumentAfter(u, k) = ArgumentAfter(v, k)
  PROVE  Related(R, Scan(u)[1], Scan(v)[1])
<1> DEFINE l == Len(command)
           T == {j \in 0 .. l : Related(R, Scan(u)[(l - j) + 1], Scan(v)[(l - j) + 1])}
<1>1. l \in Nat
  BY LenProperties
<1>2. /\ Scan(u)[l + 1] = <<>> /\ Scan(v)[l + 1] = <<>>
      /\ \A k \in 1 .. l : /\ Scan(u)[k] = OfArgument(u, k) \o Scan(u)[ArgumentAfter(u, k)]
                           /\ Scan(v)[k] = OfArgument(v, k) \o Scan(v)[ArgumentAfter(v, k)]
      /\ \A k \in 1 .. l + 1 : Scan(u)[k] \in Seq(Event) /\ Scan(v)[k] \in Seq(Event)
  BY ScanIs
<1>3. \A k \in 1 .. l : /\ OfArgument(u, k) \in Seq(Event) /\ OfArgument(v, k) \in Seq(Event)
                        /\ ArgumentAfter(u, k) \in k + 1 .. l + 1
  BY OfArgumentType
<1>4. ASSUME NEW j \in 0 .. l, \A i \in 0 .. j - 1 : i \in T PROVE j \in T
  <2>1. CASE j = 0
    <3>1. (l - j) + 1 = l + 1
      BY <1>1, <2>1
    <3>2. Related(R, Scan(u)[l + 1], Scan(v)[l + 1])
      BY <1>2 DEF Composes
    <3>. QED
      BY <3>1, <3>2
  <2>2. CASE j # 0
    <3>1. PICK k \in 1 .. l : k = (l - j) + 1
      BY <1>1, <2>2
    <3>2. PICK m \in k + 1 .. l + 1 : m = ArgumentAfter(u, k) /\ m = ArgumentAfter(v, k)
      BY <1>3
    <3>3. PICK i \in 0 .. j - 1 : (l - i) + 1 = m
      <4>1. (l + 1) - m \in 0 .. j - 1 /\ (l - ((l + 1) - m)) + 1 = m
        BY <1>1, <3>1, <3>2
      <4>. QED
        BY <4>1
    <3>4. i \in T
      BY <1>4
    <3>5. Related(R, Scan(u)[m], Scan(v)[m])
      BY <3>3, <3>4
    <3>6. m \in 1 .. l + 1
      BY <1>1, <3>2
    <3>7. PICK p \in Seq(Event), q \in Seq(Event), x \in Seq(Event), y \in Seq(Event) :
            p = OfArgument(u, k) /\ q = OfArgument(v, k) /\ x = Scan(u)[m] /\ y = Scan(v)[m]
      BY <1>2, <1>3, <3>6
    <3>8. Related(R, p \o x, q \o y)
      BY <3>5, <3>7 DEF Composes
    <3>9. Scan(u)[k] = p \o x /\ Scan(v)[k] = q \o y
      BY <1>2, <3>2, <3>7
    <3>. QED
      BY <3>1, <3>8, <3>9
  <2>. QED
    BY <2>1, <2>2
<1>5. \A j \in 0 .. l : j \in T
  <2> HIDE DEF T
  <2>. QED
    BY <1>1, <1>4, StrongInduction
<1>6. l \in 0 .. l /\ (l - l) + 1 = 1
  BY <1>1
<1>7. l \in T
  BY <1>5, <1>6
<1>. QED
  BY <1>6, <1>7

(* No argument is an option with a value of its own in only one of two     *)
(* worlds.                                                                 *)
SameArguments(u, v) ==
  \A k \in 1 .. Len(command) :
    command[k].kind = "flag" =>
      LET x == u.split[command[k].key][command[k].value]
          y == v.split[command[k].key][command[k].value]
      IN  (x.flag # NULL /\ x.value = NULL) <=> (y.flag # NULL /\ y.value = NULL)

LEMMA LikeProcessNested ==
  ASSUME NEW u, NEW v, NEW K, LikeWorlds(u, v, K), NEW n \in Name, NEW text \in Text
  PROVE  n \in K => Related(Ending(u, v, K), Process(u, Nested(u), n, text),
                                             Process(v, Nested(v), n, text))
<1> SUFFICES ASSUME n \in K
             PROVE  Related(Ending(u, v, K), Process(u, Nested(u), n, text),
                                             Process(v, Nested(v), n, text))
  OBVIOUS
<1> DEFINE R == Ending(u, v, K)
           empty == [f \in Text |-> <<>>]
           a == [file |-> empty, list |-> Nested(u)]
           b == [file |-> empty, list |-> Nested(v)]
<1>1. /\ Nested(u) \in [Recursive -> [Value -> Seq(Event)]]
      /\ Nested(v) \in [Recursive -> [Value -> Seq(Event)]]
  BY NestedType DEF LikeWorlds
<1>2. empty \in [Text -> Seq(Event)] /\ \A f \in Text : empty[f] = <<>>
  BY EventTypes
<1> HIDE DEF empty
<1>3. a \in Levels /\ b \in Levels /\ a.list = Nested(u) /\ b.list = Nested(v)
      /\ a.file = empty /\ b.file = empty
  BY <1>1, <1>2 DEF Levels
<1>4. Related(R, <<>>, <<>>)
  BY EndingComposes DEF Composes
<1>5. RelatedLevels(R, a, b)
  <2> HIDE DEF R, a, b
  <2>. QED
    BY <1>2, <1>3, <1>4, LikeNested DEF RelatedLevels, R
<1> HIDE DEF a, b
<1>6. Related(R, Process(u, a.list, n, text), Process(v, b.list, n, text))
  BY <1>3, <1>5, LikeProcess
<1>. QED
  BY <1>3, <1>6

LEMMA LikeArgument ==
  ASSUME NEW u, NEW v, NEW K, LikeWorlds(u, v, K), SameArguments(u, v),
         command \in Seq(Argument), NEW k \in 1 .. Len(command)
  PROVE  /\ Related(Ending(u, v, K), OfArgument(u, k), OfArgument(v, k))
         /\ ArgumentAfter(u, k) = ArgumentAfter(v, k)
<1>0. /\ WorldOK(u) /\ WorldOK(v) /\ Recursive \subseteq K /\ NULL \notin K
      /\ Related(Ending(u, v, K), <<>>, <<>>) /\ Len(command) \in Nat
  BY EndingComposes, FlagAssumption, LenProperties DEF LikeWorlds, Composes
<1>1. OfArgument(u, k) \in Seq(Event) /\ OfArgument(v, k) \in Seq(Event)
  BY <1>0, OfArgumentType
<1>2. CASE command[k].kind # "flag"
  <2>1. OfArgument(u, k) = <<>> /\ OfArgument(v, k) = <<>>
    BY <1>2 DEF OfArgument
  <2>2. ArgumentAfter(u, k) = ArgumentAfter(v, k)
    BY <1>2, ArgumentKinds DEF ArgumentAfter
  <2>. QED
    BY <1>0, <2>1, <2>2
<1>3. CASE command[k].kind = "flag"
  <2>1. PICK x \in SplitResult : x = u.split[command[k].key][command[k].value]
    BY <1>0, <1>3, OptionType
  <2>2. PICK y \in SplitResult : y = v.split[command[k].key][command[k].value]
    BY <1>0, <1>3, OptionType
  <2>3. (x.flag # NULL /\ x.value = NULL) <=> (y.flag # NULL /\ y.value = NULL)
    BY <1>3, <2>1, <2>2 DEF SameArguments
  <2>4. ArgumentAfter(u, k) = ArgumentAfter(v, k)
    BY <1>3, <2>1, <2>2, <2>3 DEF ArgumentAfter
  <2>5. x = y \/ (x.flag \notin K /\ y.flag \notin K)
    BY <1>3, <2>1, <2>2, ArgumentKinds DEF LikeWorlds
  <2>6. /\ x.flag \in Name \cup {NULL} /\ x.key \in Name /\ x.value \in Text \cup {NULL}
        /\ y.flag \in Name \cup {NULL} /\ y.key \in Name /\ y.value \in Text \cup {NULL}
    BY DEF SplitResult
  <2>7. k # Len(command) => command[k + 1].text \in Text
    <3>1. k # Len(command) => k + 1 \in 1 .. Len(command)
      BY <1>0
    <3>. QED
      BY <3>1, ArgumentKinds
  <2>8. /\ OfArgument(u, k)
             = IF x.flag = NULL THEN <<Unknown(x.key)>>
               ELSE IF x.value # NULL THEN Process(u, Nested(u), x.flag, x.value)
               ELSE IF k = Len(command) THEN <<Fail(x.key)>>
               ELSE Process(u, Nested(u), x.flag, command[k + 1].text)
        /\ OfArgument(v, k)
             = IF y.flag = NULL THEN <<Unknown(y.key)>>
               ELSE IF y.value # NULL THEN Process(v, Nested(v), y.flag, y.value)
               ELSE IF k = Len(command) THEN <<Fail(y.key)>>
               ELSE Process(v, Nested(v), y.flag, command[k + 1].text)
    BY <1>3, <2>1, <2>2 DEF OfArgument
  <2>9. \A key \in Name :
          /\ <<Unknown(key)>> \in Seq(Event) /\ <<Fail(key)>> \in Seq(Event)
          /\ \A w, m : m \in K => /\ LastText(w, <<Unknown(key)>>, m) = <<>>
                                  /\ LastText(w, <<Fail(key)>>, m) = <<>>
    <3> SUFFICES ASSUME NEW key \in Name
                 PROVE  /\ <<Unknown(key)>> \in Seq(Event) /\ <<Fail(key)>> \in Seq(Event)
                        /\ \A w, m : m \in K => /\ LastText(w, <<Unknown(key)>>, m) = <<>>
                                                /\ LastText(w, <<Fail(key)>>, m) = <<>>
      OBVIOUS
    <3>1. /\ Unknown(key) \in Event /\ Fail(key) \in Event
          /\ Unknown(key).kind # "set" /\ Fail(key).kind # "set"
      BY SilentKinds
    <3>. QED
      BY <3>1, ForeignEvent
  <2>10. CASE x = y /\ x.flag \in K
    <3>1. x.value # NULL => Related(Ending(u, v, K), Process(u, Nested(u), x.flag, x.value),
                                                     Process(v, Nested(v), x.flag, x.value))
      BY <1>0, <2>6, <2>10, LikeProcessNested
    <3>2. k # Len(command) =>
            Related(Ending(u, v, K), Process(u, Nested(u), x.flag, command[k + 1].text),
                                     Process(v, Nested(v), x.flag, command[k + 1].text))
      BY <1>0, <2>6, <2>7, <2>10, LikeProcessNested
    <3>3. Related(Ending(u, v, K), <<Fail(x.key)>>, <<Fail(x.key)>>)
      <4>1. \A m \in K : LastText(u, <<Fail(x.key)>>, m) = LastText(v, <<Fail(x.key)>>, m)
        BY <2>6, <2>9
      <4>2. <<Fail(x.key)>> \in Seq(Event)
        BY <2>6, <2>9
      <4>. QED
        BY <4>1, <4>2, EndingIs
    <3>. QED
      BY <1>0, <2>4, <2>8, <2>10, <3>1, <3>2, <3>3
  <2>11. CASE x.flag \notin K /\ y.flag \notin K
    <3>1. \A m \in K : LastText(u, OfArgument(u, k), m) = <<>>
      <4>1. x.flag # NULL => \A text \in Text : \A m \in K :
              LastText(u, Process(u, Nested(u), x.flag, text), m) = <<>>
        BY <1>0, <2>6, <2>11, ForeignProcess
      <4>. QED
        BY <2>6, <2>7, <2>8, <2>9, <4>1
    <3>2. \A m \in K : LastText(v, OfArgument(v, k), m) = <<>>
      <4>1. y.flag # NULL => \A text \in Text : \A m \in K :
              LastText(v, Process(v, Nested(v), y.flag, text), m) = <<>>
        BY <1>0, <2>6, <2>11, ForeignProcess
      <4>. QED
        BY <2>6, <2>7, <2>8, <2>9, <4>1
    <3>. QED
      BY <1>1, <2>4, <3>1, <3>2, EndingIs
  <2>. QED
    BY <2>5, <2>10, <2>11
<1>. QED
  BY <1>2, <1>3

LEMMA LikeScan ==
  ASSUME NEW u, NEW v, NEW K, LikeWorlds(u, v, K), SameArguments(u, v),
         command \in Seq(Argument)
  PROVE  \A n \in K : LastText(u, Scan(u)[1], n) = LastText(v, Scan(v)[1], n)
<1>1. WorldOK(u) /\ WorldOK(v) /\ Composes(Ending(u, v, K))
  BY EndingComposes DEF LikeWorlds
<1>2. Related(Ending(u, v, K), Scan(u)[1], Scan(v)[1])
  BY <1>1, LikeArgument, ScanRelated
<1>3. Scan(u)[1] \in Seq(Event) /\ Scan(v)[1] \in Seq(Event)
  <2>1. 1 \in 1 .. Len(command) + 1
    BY LenProperties
  <2>. QED
    BY <1>1, <2>1, ScanIs
<1>. QED
  BY <1>2, <1>3, EndingIs

-----------------------------------------------------------------------------
(* What the options lead to is part of what the command line does, as long *)
(* as nothing ends the program: every accepted value of a recursive flag   *)
(* has been followed, wherever it came from.                               *)
Followed(w, p) ==
  \A e \in ToSet(p) :
    e.kind = "set" /\ e.name \in Recursive /\ e.text \in w.accepts[e.name] =>
      ToSet(Nested(w)[e.name][Parse[e.name][e.text]]) \subseteq ToSet(p)

(* The same events where fewer calls can be made, and all of them followed. *)
Complete(w) ==
  {x \in Seq(Event) \X Seq(Event) : Die \notin ToSet(x[1]) => x[1] = x[2] /\ Followed(w, x[1])}

LEMMA CompleteIs ==
  ASSUME NEW w, NEW p \in Seq(Event), NEW q \in Seq(Event)
  PROVE  Related(Complete(w), p, q) <=> (Die \notin ToSet(p) => p = q /\ Followed(w, p))
BY DEF Related, Complete

LEMMA ElementsOfBoth ==
  ASSUME NEW p \in Seq(Event), NEW q \in Seq(Event)
  PROVE  ToSet(p \o q) = ToSet(p) \cup ToSet(q)
<1>1. /\ Len(p \o q) = Len(p) + Len(q) /\ Len(p) \in Nat /\ Len(q) \in Nat
      /\ DOMAIN (p \o q) = 1 .. Len(p \o q) /\ DOMAIN p = 1 .. Len(p) /\ DOMAIN q = 1 .. Len(q)
      /\ \A i \in 1 .. Len(p) : (p \o q)[i] = p[i]
      /\ \A i \in 1 .. Len(q) : (p \o q)[Len(p) + i] = q[i]
  BY ConcatProperties, LenProperties
<1>2. PICK s : s = p \o q
  OBVIOUS
<1>3. ASSUME NEW i \in 1 .. Len(s) PROVE s[i] \in ToSet(p) \cup ToSet(q)
  <2>1. CASE i \in 1 .. Len(p)
    BY <1>1, <1>2, <2>1 DEF ToSet
  <2>2. CASE i \notin 1 .. Len(p)
    <3>1. i - Len(p) \in 1 .. Len(q) /\ Len(p) + (i - Len(p)) = i
      BY <1>1, <1>2, <2>2
    <3>2. s[i] = q[i - Len(p)]
      BY <1>1, <1>2, <3>1
    <3>. QED
      BY <1>1, <3>1, <3>2 DEF ToSet
  <2>. QED
    BY <2>1, <2>2
<1>4. \A i \in 1 .. Len(p) : p[i] = s[i] /\ i \in DOMAIN s
  BY <1>1, <1>2
<1>5. \A i \in 1 .. Len(q) : q[i] = s[Len(p) + i] /\ Len(p) + i \in DOMAIN s
  BY <1>1, <1>2
<1>6. ToSet(p) \subseteq ToSet(s) /\ ToSet(q) \subseteq ToSet(s)
  BY <1>1, <1>4, <1>5 DEF ToSet
<1>7. ToSet(s) \subseteq ToSet(p) \cup ToSet(q)
  BY <1>1, <1>2, <1>3 DEF ToSet
<1>. QED
  BY <1>2, <1>6, <1>7

LEMMA ElementsOfFew ==
  /\ ToSet(<<>>) = {}
  /\ \A e : ToSet(<<e>>) = {e}
<1>1. ToSet(<<>>) = {}
  BY DEF ToSet
<1>2. ASSUME NEW e PROVE ToSet(<<e>>) = {e}
  <2>1. DOMAIN <<e>> = {1} /\ <<e>>[1] = e
    OBVIOUS
  <2>. QED
    BY <2>1 DEF ToSet
<1>. QED
  BY <1>1, <1>2

LEMMA CompleteComposes ==
  ASSUME NEW w
  PROVE  Composes(Complete(w)) /\ Related(Complete(w), <<Die>>, <<Die>>)
<1>1. Related(Complete(w), <<>>, <<>>)
  <2>1. Followed(w, <<>>)
    BY ElementsOfFew DEF Followed
  <2>2. PICK p \in Seq(Event) : p = <<>>
    BY EventTypes
  <2>. QED
    BY <2>1, <2>2, CompleteIs
<1>2. ASSUME NEW p \in Seq(Event), NEW q \in Seq(Event), NEW x \in Seq(Event), NEW y \in Seq(Event),
             Related(Complete(w), p, q), Related(Complete(w), x, y)
      PROVE  Related(Complete(w), p \o x, q \o y)
  <2>1. p \o x \in Seq(Event) /\ q \o y \in Seq(Event)
    BY ConcatProperties
  <2>2. ToSet(p \o x) = ToSet(p) \cup ToSet(x)
    BY ElementsOfBoth
  <2>3. ASSUME Die \notin ToSet(p \o x) PROVE p \o x = q \o y /\ Followed(w, p \o x)
    <3>1. p = q /\ x = y /\ Followed(w, p) /\ Followed(w, x)
      BY <1>2, <2>2, <2>3, CompleteIs
    <3>2. Followed(w, p \o x)
      BY <2>2, <3>1 DEF Followed
    <3>. QED
      BY <3>1, <3>2
  <2>. QED
    BY <2>1, <2>3, CompleteIs
<1>3. Related(Complete(w), <<Die>>, <<Die>>)
  <2>1. Die \in ToSet(<<Die>>)
    BY ElementsOfFew
  <2>. QED
    BY <2>1, EventTypes, CompleteIs
<1>. QED
  BY <1>1, <1>2, <1>3 DEF Composes

(* One event that leads to nothing.                                        *)
LEMMA SilentComplete ==
  ASSUME NEW w, NEW e \in Event, e.kind # "set"
  PROVE  Related(Complete(w), <<e>>, <<e>>)
<1>1. Followed(w, <<e>>)
  BY ElementsOfFew DEF Followed
<1>2. <<e>> \in Seq(Event)
  OBVIOUS
<1>. QED
  BY <1>1, <1>2, CompleteIs

(* Lists that mean as much with fewer calls left, where an option leads to *)
(* them.                                                                   *)
Completed(w, f, g) ==
  /\ f \in [Recursive -> [Value -> Seq(Event)]] /\ g \in [Recursive -> [Value -> Seq(Event)]]
  /\ \A n \in Recursive, x \in Value : /\ Related(Complete(w), f[n][x], g[n][x])
                                       /\ Related(Complete(w), f[n][x], Nested(w)[n][x])

LEMMA CompleteProcess ==
  ASSUME NEW w, WorldOK(w), NEW f, NEW g, Completed(w, f, g), NEW n \in Name, NEW text \in Text
  PROVE  Related(Complete(w), Process(w, f, n, text), Process(w, g, n, text))
<1> DEFINE e == SetEvent(n, text)
           leads == n \in Recursive /\ text \in w.accepts[n]
           p == IF leads THEN f[n][Parse[n][text]] ELSE <<>>
           q == IF leads THEN g[n][Parse[n][text]] ELSE <<>>
<1>1. e \in Event /\ <<e>> \in Seq(Event) /\ e.kind = "set" /\ e.name = n /\ e.text = text
  BY EventTypes DEF SetEvent
<1>2. leads => Parse[n][text] \in Value
  BY DEF WorldOK
<1>3. /\ p \in Seq(Event) /\ q \in Seq(Event) /\ Related(Complete(w), p, q)
      /\ leads => p = f[n][Parse[n][text]] /\ Related(Complete(w), p, Nested(w)[n][Parse[n][text]])
  BY <1>2, EventTypes, CompleteComposes DEF Composes, Completed
<1>4. Process(w, f, n, text) = <<e>> \o p /\ Process(w, g, n, text) = <<e>> \o q
  BY DEF Process
<1>5. leads => Nested(w)[n][Parse[n][text]] \in Seq(Event)
  BY <1>2, NestedType
<1> HIDE DEF e, p, q
<1>6. ToSet(<<e>> \o p) = {e} \cup ToSet(p)
  <2>1. ToSet(<<e>>) = {e}
    BY ElementsOfFew, Zenon
  <2>2. ToSet(<<e>> \o p) = ToSet(<<e>>) \cup ToSet(p)
    BY <1>1, <1>3, ElementsOfBoth
  <2>. QED
    BY <2>1, <2>2
<1>7. ASSUME Die \notin ToSet(<<e>> \o p) PROVE <<e>> \o p = <<e>> \o q /\ Followed(w, <<e>> \o p)
  <2>1. p = q /\ Followed(w, p)
    BY <1>3, <1>6, <1>7, CompleteIs
  <2>2. leads => p = Nested(w)[n][Parse[n][text]]
    <3> SUFFICES ASSUME leads PROVE p = Nested(w)[n][Parse[n][text]]
      OBVIOUS
    <3>1. PICK r \in Seq(Event) : r = Nested(w)[n][Parse[n][text]]
      BY <1>5
    <3>2. Related(Complete(w), p, r)
      BY <1>3, <3>1
    <3>3. Die \notin ToSet(p) /\ p \in Seq(Event)
      BY <1>3, <1>6, <1>7
    <3>. QED
      BY <3>1, <3>2, <3>3, CompleteIs
  <2>3. Followed(w, <<e>> \o p)
    BY <1>1, <1>6, <2>1, <2>2 DEF Followed
  <2>. QED
    BY <2>1, <2>3
<1>8. <<e>> \o p \in Seq(Event) /\ <<e>> \o q \in Seq(Event)
  BY <1>1, <1>3, ConcatProperties
<1>9. Related(Complete(w), <<e>> \o p, <<e>> \o q)
  BY <1>7, <1>8, CompleteIs
<1>. QED
  BY <1>4, <1>9

LEMMA CompleteLine ==
  ASSUME NEW w, WorldOK(w), NEW f, NEW g, Completed(w, f, g),
         NEW line \in Line, NEW applies \in BOOLEAN
  PROVE  Related(Complete(w), OfLine(w, f, line, applies), OfLine(w, g, line, applies))
<1>0. Related(Complete(w), <<>>, <<>>)
  BY CompleteComposes DEF Composes
<1>1. CASE line.kind # "flag" \/ ~applies
  BY <1>0, <1>1 DEF OfLine
<1>2. CASE line.kind = "flag" /\ applies
  <2>1. line.key \in Name /\ line.value \in Text \cup {NULL}
    BY <1>2 DEF Line, FlagArgument
  <2>2. PICK x \in SplitResult : x = w.split[line.key][line.value]
    BY <2>1 DEF WorldOK
  <2>3. /\ OfLine(w, f, line, applies)
             = IF x.flag = NULL \/ x.value = NULL THEN <<>> ELSE Process(w, f, x.flag, x.value)
        /\ OfLine(w, g, line, applies)
             = IF x.flag = NULL \/ x.value = NULL THEN <<>> ELSE Process(w, g, x.flag, x.value)
    BY <1>2, <2>2 DEF OfLine
  <2>4. x.flag \in Name \cup {NULL} /\ x.value \in Text \cup {NULL}
    BY DEF SplitResult
  <2>5. x.flag # NULL /\ x.value # NULL =>
          Related(Complete(w), Process(w, f, x.flag, x.value), Process(w, g, x.flag, x.value))
    BY <2>4, CompleteProcess
  <2>. QED
    BY <1>0, <2>3, <2>5
<1>. QED
  BY <1>1, <1>2

LEMMA CompleteVariable ==
  ASSUME NEW w, WorldOK(w), NEW f, NEW g, Completed(w, f, g),
         NEW name \in Name, NEW required \in BOOLEAN
  PROVE  Related(Complete(w), OfVariable(w, f, name, required), OfVariable(w, g, name, required))
<1>0. Related(Complete(w), <<>>, <<>>)
  BY CompleteComposes DEF Composes
<1>1. PICK x \in Name \cup {NULL} : x = w.find[name]
  BY DEF WorldOK
<1>2. PICK t \in Text \cup {NULL} : t = w.env[name]
  BY DEF WorldOK
<1>3. /\ Related(Complete(w), <<Unknown(name)>>, <<Unknown(name)>>)
      /\ Related(Complete(w), <<Fail(name)>>, <<Fail(name)>>)
  BY SilentKinds, SilentComplete
<1>4. x # NULL /\ t # NULL => Related(Complete(w), Process(w, f, x, t), Process(w, g, x, t))
  BY CompleteProcess
<1>. QED
  BY <1>0, <1>1, <1>2, <1>3, <1>4 DEF OfVariable

(* By induction on the calls that can still be made.                       *)
LEMMA CompleteNested ==
  ASSUME NEW w, WorldOK(w)
  PROVE  \A n \in Recursive, x \in Value : Related(Complete(w), Nested(w)[n][x], Nested(w)[n][x])
<1>1. MaxDepth \in Nat
  BY ParserAssumption
<1>2. PICK a \in [0 .. MaxDepth -> Levels] :
        /\ a = Meaning(w) /\ a[0] = Overflow
        /\ \A d \in 1 .. MaxDepth : a[d] = OneMoreCall(w, a[d - 1])
  BY MeaningIs
<1> DEFINE R == Complete(w)
           T == {d \in 0 .. MaxDepth : \A e \in d .. MaxDepth : RelatedLevels(R, a[d], a[e])}
<1>3. Composes(R) /\ Related(R, <<Die>>, <<Die>>)
  BY CompleteComposes
<1>4. ASSUME NEW d \in 0 .. MaxDepth, \A j \in 0 .. d - 1 : j \in T PROVE d \in T
  <2> SUFFICES ASSUME NEW e \in d .. MaxDepth PROVE RelatedLevels(R, a[d], a[e])
    OBVIOUS
  <2>1. CASE d = 0
    <3>1. PICK p \in Levels : p = a[e]
      BY <1>1
    <3>2. /\ \A q \in Seq(Event) : Related(R, <<Die>>, q)
      <4>1. Die \in ToSet(<<Die>>)
        BY ElementsOfFew
      <4>. QED
        BY <4>1, EventTypes, CompleteIs
    <3>3. /\ \A f \in Text : Overflow.file[f] = <<Die>>
          /\ \A n \in Recursive, x \in Value : Overflow.list[n][x] = <<Die>>
      BY DEF Overflow
    <3>4. /\ \A f \in Text : p.file[f] \in Seq(Event)
          /\ \A n \in Recursive, x \in Value : p.list[n][x] \in Seq(Event)
      BY DEF Levels
    <3> HIDE DEF R
    <3>5. RelatedLevels(R, Overflow, p)
      BY <3>2, <3>3, <3>4 DEF RelatedLevels
    <3>. QED
      BY <1>2, <2>1, <3>1, <3>5
  <2>2. CASE d # 0
    <3>1. /\ d - 1 \in 0 .. d - 1 /\ d - 1 \in 0 .. MaxDepth /\ d \in 1 .. MaxDepth
          /\ e \in 1 .. MaxDepth /\ e - 1 \in d - 1 .. MaxDepth /\ MaxDepth \in d - 1 .. MaxDepth
          /\ e - 1 \in 0 .. MaxDepth
      BY <1>1, <2>2
    <3>2. PICK p \in Levels, q \in Levels : p = a[d - 1] /\ q = a[e - 1]
      BY <3>1
    <3>3. d - 1 \in T
      BY <1>4, <3>1
    <3>4. /\ RelatedLevels(R, p, q) /\ RelatedLevels(R, p, a[MaxDepth])
          /\ a[d] = OneMoreCall(w, p) /\ a[e] = OneMoreCall(w, q)
      BY <1>2, <3>1, <3>2, <3>3
    <3>5. Completed(w, p.list, q.list)
      BY <1>2, <3>4 DEF Completed, RelatedLevels, Nested, Levels
    <3>6. /\ \A line \in Line, applies \in BOOLEAN :
               Related(R, OfLine(w, p.list, line, applies), OfLine(w, q.list, line, applies))
          /\ \A name \in Name, required \in BOOLEAN :
               Related(R, OfVariable(w, p.list, name, required),
                          OfVariable(w, q.list, name, required))
      BY <3>5, CompleteLine, CompleteVariable
    <3> HIDE DEF R
    <3>7. RelatedLevels(R, OneMoreCall(w, p), OneMoreCall(w, q))
      BY <1>3, <3>4, <3>6, CallRelated
    <3>. QED
      BY <3>4, <3>7
  <2>. QED
    BY <2>1, <2>2
<1>5. \A d \in 0 .. MaxDepth : d \in T
  <2> HIDE DEF T
  <2>. QED
    BY <1>1, <1>4, StrongInduction
<1>6. RelatedLevels(R, a[MaxDepth], a[MaxDepth])
  <2>1. MaxDepth \in 0 .. MaxDepth /\ MaxDepth \in MaxDepth .. MaxDepth
    BY <1>1
  <2>2. MaxDepth \in T
    BY <1>5, <2>1
  <2>. QED
    BY <2>1, <2>2
<1>. QED
  BY <1>2, <1>6 DEF Nested, RelatedLevels

LEMMA CompleteArgument ==
  ASSUME NEW w, WorldOK(w), command \in Seq(Argument), NEW k \in 1 .. Len(command)
  PROVE  Related(Complete(w), OfArgument(w, k), OfArgument(w, k))
<1>0. Related(Complete(w), <<>>, <<>>) /\ Len(command) \in Nat /\ Completed(w, Nested(w), Nested(w))
  <2>1. Nested(w) \in [Recursive -> [Value -> Seq(Event)]]
    BY NestedType
  <2>. QED
    BY <2>1, CompleteNested, CompleteComposes, LenProperties DEF Composes, Completed
<1>1. CASE command[k].kind # "flag"
  <2>1. OfArgument(w, k) = <<>>
    BY <1>1 DEF OfArgument
  <2>. QED
    BY <1>0, <2>1
<1>2. CASE command[k].kind = "flag"
  <2>1. PICK x \in SplitResult : x = w.split[command[k].key][command[k].value]
    BY <1>2, OptionType
  <2>2. x.flag \in Name \cup {NULL} /\ x.key \in Name /\ x.value \in Text \cup {NULL}
    BY DEF SplitResult
  <2>3. k # Len(command) => command[k + 1].text \in Text
    <3>1. k # Len(command) => k + 1 \in 1 .. Len(command)
      BY <1>0
    <3>. QED
      BY <3>1, ArgumentKinds
  <2>4. OfArgument(w, k)
          = IF x.flag = NULL THEN <<Unknown(x.key)>>
            ELSE IF x.value # NULL THEN Process(w, Nested(w), x.flag, x.value)
            ELSE IF k = Len(command) THEN <<Fail(x.key)>>
            ELSE Process(w, Nested(w), x.flag, command[k + 1].text)
    BY <1>2, <2>1 DEF OfArgument
  <2>5. /\ Related(Complete(w), <<Unknown(x.key)>>, <<Unknown(x.key)>>)
        /\ Related(Complete(w), <<Fail(x.key)>>, <<Fail(x.key)>>)
    BY <2>2, SilentKinds, SilentComplete
  <2>6. x.flag # NULL => \A text \in Text :
          Related(Complete(w), Process(w, Nested(w), x.flag, text),
                               Process(w, Nested(w), x.flag, text))
    BY <1>0, <2>2, CompleteProcess
  <2>. QED
    BY <2>2, <2>3, <2>4, <2>5, <2>6
<1>. QED
  BY <1>1, <1>2

LEMMA ScanFollowed ==
  ASSUME NEW w, WorldOK(w), command \in Seq(Argument), Die \notin ToSet(Scan(w)[1])
  PROVE  Followed(w, Scan(w)[1])
<1>1. Related(Complete(w), Scan(w)[1], Scan(w)[1])
  BY CompleteComposes, CompleteArgument, ScanRelated
<1>2. Scan(w)[1] \in Seq(Event)
  <2>1. 1 \in 1 .. Len(command) + 1
    BY LenProperties
  <2>. QED
    BY <2>1, ScanIs
<1>. QED
  BY <1>1, <1>2, CompleteIs

-----------------------------------------------------------------------------
(* ValueAfter, by the last text.                                           *)
LEMMA LastTextFrom ==
  ASSUME NEW w, NEW p \in Seq(Event), NEW n
  PROVE  /\ LastText(w, p, n) = <<>> =>
              \A e \in ToSet(p) : ~(e.kind = "set" /\ e.name = n /\ e.text \in w.accepts[n])
         /\ LastText(w, p, n) # <<>> =>
              \E e \in ToSet(p) : /\ e.kind = "set" /\ e.name = n /\ e.text \in w.accepts[n]
                                  /\ LastText(w, p, n) = <<e.text>>
<1>1. CASE TakenIn(w, p, n) = {}
  BY <1>1 DEF LastText, TakenIn, ToSet
<1>2. CASE TakenIn(w, p, n) # {}
  <2>1. PICK m \in TakenIn(w, p, n) : \A k \in TakenIn(w, p, n) : k <= m
    BY <1>2, LastTaken
  <2>2. LastText(w, p, n) = <<p[m].text>>
    BY <2>1, LastTaken
  <2>3. PICK e : e = p[m]
    OBVIOUS
  <2>4. e \in ToSet(p) /\ e.kind = "set" /\ e.name = n /\ e.text \in w.accepts[n]
    BY <2>3 DEF TakenIn, ToSet
  <2>5. LastText(w, p, n) = <<e.text>> /\ <<e.text>> # <<>>
    BY <2>2, <2>3
  <2>. QED
    BY <2>4, <2>5
<1>. QED
  BY <1>1, <1>2

LEMMA ValueIs ==
  ASSUME NEW w, w = World, NEW p \in Seq(Event), NEW n \in Name
  PROVE  ValueAfter(p, n) = IF LastText(w, p, n) = <<>> THEN before[n].current
                            ELSE Parse[n][LastText(w, p, n)[1]]
<1> DEFINE last == {i \in DOMAIN p : /\ p[i].kind = "set" /\ p[i].name = n
                                     /\ Acceptable(n, p[i].text)}
<1>1. ASSUME NEW i \in DOMAIN p, p[i].kind = "set"
      PROVE  Acceptable(n, p[i].text) <=> p[i].text \in w.accepts[n]
  <2>1. p[i] \in Event
    BY ElementOfSeq, LenProperties
  <2>2. p[i].text \in Text
    BY <1>1, <2>1 DEF Event, Deed, Die
  <2>. QED
    BY <2>2, WorldAt
<1>2. last = TakenIn(w, p, n)
  BY <1>1 DEF TakenIn
<1>3. ValueAfter(p, n) = IF last = {} THEN before[n].current ELSE Parse[n][p[Max(last)].text]
  BY DEF ValueAfter
<1> HIDE DEF last
<1>4. <<p[Max(last)].text>>[1] = p[Max(last)].text /\ <<p[Max(last)].text>> # <<>>
  OBVIOUS
<1>. QED
  BY <1>2, <1>3, <1>4 DEF LastText

-----------------------------------------------------------------------------
(* What the arguments of the command line want a flag to be.               *)
Wanted(n) == LastText(World, Scan(World)[1], n)

AsWanted(reg) ==
  /\ \A n \in Name : reg[n] # NULL /\ Wanted(n) # <<>> => reg[n].current = Parse[n][Wanted(n)[1]]
  /\ \A m \in Recursive : /\ reg[m] # NULL
                          /\ Wanted(m) = <<>> => Entries[reg[m].current] = <<>>

(* Where a recursive flag has the value that a parse begins with from.     *)
FromCommandLine(m) ==
  \/ Entries[before[m].current] = <<>>
  \/ Wanted(m) # <<>> /\ before[m].current = Parse[m][Wanted(m)[1]]

LEMMA StageElements ==
  ASSUME NEW w, WorldOK(w), NEW m \in Recursive, NEW x \in Value, NEW s, Followed(w, s),
         Die \notin ToSet(Nested(w)[m][x]),
         \/ Entries[x] = <<>>
         \/ \E e \in ToSet(s) : /\ e.kind = "set" /\ e.name = m /\ e.text \in w.accepts[m]
                                /\ x = Parse[m][e.text]
  PROVE  ToSet(Nested(w)[m][x]) \subseteq ToSet(s)
<1>1. CASE \E e \in ToSet(s) : /\ e.kind = "set" /\ e.name = m /\ e.text \in w.accepts[m]
                               /\ x = Parse[m][e.text]
  BY <1>1 DEF Followed
<1>2. CASE Entries[x] = <<>>
  <2>1. MaxDepth # 0
    <3> SUFFICES ASSUME MaxDepth = 0 PROVE FALSE
      OBVIOUS
    <3>1. Nested(w)[m][x] = Overflow.list[m][x]
      BY MeaningIs DEF Nested
    <3>2. Nested(w)[m][x] = <<Die>>
      BY <3>1 DEF Overflow
    <3>3. Die \in ToSet(<<Die>>)
      BY ElementsOfFew
    <3>. QED
      BY <3>2, <3>3
  <2>2. MaxDepth \in 1 .. MaxDepth /\ Entries[x] # NULL
    <3>1. MaxDepth \in 1 .. MaxDepth
      BY <2>1, ParserAssumption
    <3>2. PICK inner : Meaning(w)[MaxDepth] = OneMoreCall(w, inner)
      BY <3>1, MeaningIs
    <3>3. Nested(w)[m][x] = OfList(w, inner, m, x)
      BY <3>2 DEF Nested, OneMoreCall
    <3>4. Entries[x] = NULL => Nested(w)[m][x] = <<Die>>
      BY <3>3 DEF OfList
    <3>5. Die \in ToSet(<<Die>>)
      BY ElementsOfFew
    <3>. QED
      BY <3>1, <3>4, <3>5
  <2>3. Meaning(w)[MaxDepth].list[m][x] = <<>>
    BY <1>2, <2>2, NewList
  <2>. QED
    BY <2>3, ElementsOfFew DEF Nested
<1>. QED
  BY <1>1, <1>2

LEMMA GivenValue ==
  ASSUME NEW w, w = World, NEW p \in Seq(Event), NEW n \in Name, LastText(w, p, n) # <<>>
  PROVE  \E e \in ToSet(p) :
           /\ e.kind = "set" /\ e.name = n /\ e.text \in w.accepts[n]
           /\ ValueAfter(p, n) = Parse[n][e.text]
           /\ Parse[n][LastText(w, p, n)[1]] = Parse[n][e.text]
<1>1. PICK e \in ToSet(p) : /\ e.kind = "set" /\ e.name = n /\ e.text \in w.accepts[n]
                            /\ LastText(w, p, n) = <<e.text>>
  BY LastTextFrom
<1>2. <<e.text>>[1] = e.text
  OBVIOUS
<1>3. ValueAfter(p, n) = Parse[n][LastText(w, p, n)[1]]
  BY ValueIs
<1>. QED
  BY <1>1, <1>2, <1>3

LEMMA StageType ==
  ASSUME NEW w, w = World, WorldOK(w), NEW p \in Seq(Event), NEW m \in Recursive,
         before[m].current \in Value
  PROVE  Nested(w)[m][ValueAfter(p, m)] \in Seq(Event)
<1>1. m \in Name
  BY ParserAssumption
<1>2. LastText(w, p, m) = <<>> => ValueAfter(p, m) = before[m].current
  BY <1>1, ValueIs
<1>3. LastText(w, p, m) # <<>> => ValueAfter(p, m) \in Value
  BY <1>1, GivenValue DEF WorldOK
<1>. QED
  BY <1>2, <1>3, MeaningTypes

LEMMA WithinScan ==
  ASSUME NEW w, w = World, WorldOK(w), NEW s \in Seq(Event), s = Scan(w)[1],
         NEW p \in Seq(Event), ToSet(p) \subseteq ToSet(s), NEW m \in Recursive,
         FromCommandLine(m), before[m].current \in Value
  PROVE  LET x == ValueAfter(p, m)
         IN  /\ x \in Value
             /\ \/ Entries[x] = <<>>
                \/ \E e \in ToSet(s) : /\ e.kind = "set" /\ e.name = m /\ e.text \in w.accepts[m]
                                       /\ x = Parse[m][e.text]
<1>1. m \in Name /\ Wanted(m) = LastText(w, s, m)
  BY ParserAssumption DEF Wanted
<1>2. CASE LastText(w, p, m) # <<>>
  <2>1. PICK e \in ToSet(p) : /\ e.kind = "set" /\ e.name = m /\ e.text \in w.accepts[m]
                              /\ ValueAfter(p, m) = Parse[m][e.text]
    BY <1>1, <1>2, GivenValue
  <2>2. Parse[m][e.text] \in Value
    BY <1>1, <2>1 DEF WorldOK
  <2>. QED
    BY <2>1, <2>2
<1>3. CASE LastText(w, p, m) = <<>>
  <2>1. ValueAfter(p, m) = before[m].current
    BY <1>1, <1>3, ValueIs
  <2>2. CASE Entries[before[m].current] = <<>>
    BY <2>1, <2>2
  <2>3. CASE Entries[before[m].current] # <<>>
    <3>0. LastText(w, s, m) # <<>> /\ before[m].current = Parse[m][LastText(w, s, m)[1]]
      BY <1>1, <2>3 DEF FromCommandLine
    <3>1. PICK e \in ToSet(s) : /\ e.kind = "set" /\ e.name = m /\ e.text \in w.accepts[m]
                                /\ Parse[m][LastText(w, s, m)[1]] = Parse[m][e.text]
      BY <1>1, <3>0, GivenValue
    <3>2. before[m].current = Parse[m][e.text]
      BY <3>0, <3>1
    <3>. QED
      BY <2>1, <3>1, <3>2
  <2>4. before[m].current \in Value
    OBVIOUS
  <2>. QED
    BY <2>1, <2>2, <2>3, <2>4
<1>. QED
  BY <1>2, <1>3

LEMMA StageWithinScan ==
  ASSUME NEW w, w = World, WorldOK(w), NEW s \in Seq(Event), s = Scan(w)[1], Followed(w, s),
         NEW p \in Seq(Event), ToSet(p) \subseteq ToSet(s), NEW m \in Recursive,
         FromCommandLine(m), before[m].current \in Value,
         Die \notin ToSet(Nested(w)[m][ValueAfter(p, m)])
  PROVE  ToSet(Nested(w)[m][ValueAfter(p, m)]) \subseteq ToSet(s)
<1>1. PICK x : x = ValueAfter(p, m)
  OBVIOUS
<1>2. /\ x \in Value
      /\ \/ Entries[x] = <<>>
         \/ \E e \in ToSet(s) : /\ e.kind = "set" /\ e.name = m /\ e.text \in w.accepts[m]
                                /\ x = Parse[m][e.text]
  BY <1>1, WithinScan
<1>3. ToSet(Nested(w)[m][x]) \subseteq ToSet(s)
  BY <1>1, <1>2, StageElements
<1>. QED
  BY <1>1, <1>3

(* What FLAGS_flagfile, FLAGS_fromenv and FLAGS_tryfromenv lead to before   *)
(* the arguments are looked at is led to by the arguments again.           *)
LEMMA StagesWithinScan ==
  ASSUME NEW w, w = World, WorldOK(w), NEW s \in Seq(Event), s = Scan(w)[1],
         \A m \in Recursive : FromCommandLine(m) /\ before[m].current \in Value
  PROVE  /\ Third(w) \in Seq(Event)
         /\ Followed(w, s) /\ Die \notin ToSet(Third(w)) => ToSet(Third(w)) \subseteq ToSet(s)
<1>1. {"flagfile", "fromenv", "tryfromenv"} = Recursive
  BY DEF Recursive
<1>2. PICK none \in Seq(Event) : none = <<>>
  BY EventTypes
<1>3. PICK p \in Seq(Event) : p = Nested(w)["flagfile"][ValueAfter(none, "flagfile")]
  BY <1>1, StageType
<1>4. PICK q \in Seq(Event) : q = Nested(w)["fromenv"][ValueAfter(p, "fromenv")]
  BY <1>1, StageType
<1>5. p \o q \in Seq(Event) /\ ToSet(p \o q) = ToSet(p) \cup ToSet(q)
  BY ConcatProperties, ElementsOfBoth
<1>6. PICK b \in Seq(Event) : b = p \o q
  BY <1>5
<1>7. PICK r \in Seq(Event) : r = Nested(w)["tryfromenv"][ValueAfter(b, "tryfromenv")]
  BY <1>1, StageType
<1>8. b \o r \in Seq(Event) /\ ToSet(b \o r) = ToSet(b) \cup ToSet(r)
  BY ConcatProperties, ElementsOfBoth
<1>9. First(w) = p
  <2>1. ValueAfter(none, "flagfile") = before["flagfile"].current
    BY <1>2, NothingReflected
  <2>. QED
    BY <1>3, <2>1 DEF First
<1>10. Second(w) = b
  BY <1>4, <1>6, <1>9 DEF Second
<1>11. Third(w) = b \o r
  BY <1>7, <1>10 DEF Third
<1>12. ASSUME Followed(w, s), Die \notin ToSet(b \o r) PROVE ToSet(b \o r) \subseteq ToSet(s)
  <2>1. Die \notin ToSet(p) /\ Die \notin ToSet(q) /\ Die \notin ToSet(r)
    BY <1>5, <1>6, <1>8, <1>12
  <2>2. ToSet(none) \subseteq ToSet(s)
    BY <1>2, ElementsOfFew
  <2>3. ToSet(p) \subseteq ToSet(s)
    BY <1>1, <1>3, <1>12, <2>1, <2>2, StageWithinScan
  <2>4. ToSet(q) \subseteq ToSet(s)
    BY <1>1, <1>4, <1>12, <2>1, <2>3, StageWithinScan
  <2>5. ToSet(b) \subseteq ToSet(s)
    BY <1>5, <1>6, <2>3, <2>4
  <2>6. ToSet(r) \subseteq ToSet(s)
    BY <1>1, <1>7, <1>12, <2>1, <2>5, StageWithinScan
  <2>. QED
    BY <1>8, <2>5, <2>6
<1>. QED
  BY <1>8, <1>11, <1>12

(* What a parse leaves in the flags, if the program has set none of the     *)
(* recursive flags by hand: what the arguments want them to be.            *)
LEMMA DoneAsWanted ==
  ASSUME MeaningState, pc = "done", \A m \in Recursive : FromCommandLine(m)
  PROVE  \A n \in Name : Registered(n) =>
           flags[n].current = IF Wanted(n) = <<>> THEN before[n].current
                              ELSE Parse[n][Wanted(n)[1]]
<1>1. PICK w : w = World
  OBVIOUS
<1>2. /\ WorldOK(w) /\ Origin /\ LibraryFlags /\ command \in Seq(Argument)
  BY <1>1, StateTypes DEF ParserTypes
<1>3. PICK s \in Seq(Event) : s = Scan(w)[1]
  <2>1. 1 \in 1 .. Len(command) + 1
    BY <1>2, LenProperties
  <2>. QED
    BY <1>2, <2>1, ScanIs
<1>4. /\ Events(w) \in Seq(Deed) /\ Leaves(Events(w)) /\ Events(w) = Third(w) \o s
  BY <1>1, <1>3, PastAtEnd DEF Events
<1>5. \A m \in Recursive : FromCommandLine(m) /\ before[m].current \in Value
  <2>1. \A m \in Recursive : m \in Name /\ before[m] \in Flag
    BY <1>2, ParserAssumption DEF Origin, LibraryFlags
  <2>. QED
    BY <2>1 DEF Flag
<1>6. Third(w) \in Seq(Event)
  BY <1>1, <1>2, <1>3, <1>5, StagesWithinScan
<1>7. ToSet(Events(w)) = ToSet(Third(w)) \cup ToSet(s)
  BY <1>4, <1>6, ElementsOfBoth
<1>8. Die \notin ToSet(Third(w)) /\ Die \notin ToSet(s)
  <2>1. Die \notin Deed /\ \A e \in ToSet(Events(w)) : e \in Deed
    BY <1>4 DEF Die, Deed, ToSet
  <2>. QED
    BY <1>7, <2>1
<1>9. ToSet(Third(w)) \subseteq ToSet(s)
  <2>1. Followed(w, s)
    BY <1>2, <1>3, <1>8, ScanFollowed
  <2>. QED
    BY <1>1, <1>2, <1>3, <1>5, <1>8, <2>1, StagesWithinScan
<1>10. ASSUME NEW n \in Name PROVE LastText(w, Events(w), n) = LastText(w, s, n)
  <2>1. LastText(w, Events(w), n)
          = IF LastText(w, s, n) # <<>> THEN LastText(w, s, n) ELSE LastText(w, Third(w), n)
    BY <1>4, <1>6, LastOfBoth
  <2>2. CASE LastText(w, s, n) # <<>>
    BY <2>1, <2>2
  <2>3. CASE LastText(w, s, n) = <<>>
    <3>1. \A e \in ToSet(Third(w)) : ~(e.kind = "set" /\ e.name = n /\ e.text \in w.accepts[n])
      BY <1>9, <2>3, LastTextFrom
    <3>2. LastText(w, Third(w), n) = <<>>
      BY <1>6, <3>1, LastTextFrom
    <3>. QED
      BY <2>1, <2>3, <3>2
  <2>. QED
    BY <2>2, <2>3
<1>11. ASSUME NEW n \in Name, Registered(n)
       PROVE  flags[n].current = IF Wanted(n) = <<>> THEN before[n].current
                                 ELSE Parse[n][Wanted(n)[1]]
  <2>1. flags[n].current = ValueAfter(Events(w), n)
    BY <1>4, <1>11 DEF Leaves
  <2>2. Events(w) \in Seq(Event)
    BY <1>4, <1>6, ConcatProperties
  <2>3. Wanted(n) = LastText(w, Events(w), n)
    BY <1>1, <1>3, <1>10 DEF Wanted
  <2>. QED
    BY <1>1, <2>1, <2>2, <2>3, ValueIs
<1>. QED
  BY <1>11

-----------------------------------------------------------------------------
(* From one parse to the next.                                             *)
Left == IF pc = "done" THEN flags ELSE settled

KnownIn(reg) ==
  \A n \in Name : /\ reg[n] # NULL <=> before[n] # NULL
                  /\ before[n] # NULL => /\ flags[n] # NULL
                                         /\ flags[n].validate_fn = before[n].validate_fn

(* As long as nothing else has named what to process, every parse leaves    *)
(* the flags that the arguments set as the arguments want them, and the    *)
(* recursive flags with nothing to do but what the arguments lead to.      *)
ReparseInv ==
  ~disturbed =>
    /\ pc = "ready" /\ parses > 0 => AsWanted(settled) /\ KnownIn(settled)
    /\ pc # "ready" =>
         /\ parses > 0
         /\ parses = 1 => \A m \in Recursive : Entries[before[m].current] = <<>>
         /\ parses > 1 => /\ AsWanted(settled)
                          /\ \A m \in Recursive : before[m].current = settled[m].current

LEMMA ValidatorsStay ==
  ASSUME FlagsType, NEW mo \in SettingMode,
         LeavesFlags \/ \E n \in Name, text \in Text : Sets(n, text, mo)
  PROVE  \A n \in Name : flags[n] # NULL => flags'[n].validate_fn = flags[n].validate_fn
<1>1. CASE LeavesFlags
  BY <1>1 DEF LeavesFlags
<1>2. ASSUME NEW n \in Name, NEW text \in Text, Sets(n, text, mo), NEW k \in Name, flags[k] # NULL
      PROVE  flags'[k].validate_fn = flags[k].validate_fn
  <2>1. flags[n] \in Flag
    BY <1>2, RegisteredType DEF Sets
  <2>2. SetFlagLocked(n, flags[n], text, mo).validate_fn = flags[n].validate_fn
    BY <2>1 DEF SetFlagLocked, UpdateModifiedBit, Flag
  <2>3. flags' = [flags EXCEPT ![n] = SetFlagLocked(n, flags[n], text, mo)]
    BY <1>2 DEF Sets
  <2>. QED
    BY <2>2, <2>3 DEF FlagsType
<1>. QED
  BY <1>1, <1>2

LEMMA WorldAlways == TypeInv => WorldOK(World)
BY TypesOfInv, WorldType DEF TypeInv, ParserTypes

LEMMA WorldNext == TypeInv' => WorldOK(World)'
BY WorldAlways, PTL

LEMMA WantedLike ==
  ASSUME command' = command, command \in Seq(Argument), NEW K, NEW u, u = World, NEW v, v = World',
         LikeWorlds(u, v, K), SameArguments(u, v)
  PROVE  \A n \in K : Wanted(n)' = Wanted(n)
<1>1. Scan(v)' = Scan(v)
  BY DEF Scan, OfArgument, ArgumentAfter
<1>2. \A n \in K : LastText(u, Scan(u)[1], n) = LastText(v, Scan(v)[1], n)
  BY LikeScan
<1>. QED
  BY <1>1, <1>2 DEF Wanted

LEMMA WantedSame ==
  ASSUME SameNames, UNCHANGED <<before, env, command>>
  PROVE  \A n \in Name : Wanted(n)' = Wanted(n)
<1>1. PICK w : w = World
  OBVIOUS
<1>2. World' = w
  BY <1>1, SameWorld
<1>3. Scan(w)' = Scan(w)
  BY SameEvents
<1>. QED
  BY <1>1, <1>2, <1>3 DEF Wanted

(* What the last parse has left, wherever the program is by now.           *)
LEMMA LeftAsWanted ==
  ASSUME MeaningState, ReparseInv, ~disturbed, pc \in {"ready", "done"}, parses > 0
  PROVE  AsWanted(Left) /\ KnownIn(Left)
<1>1. CASE pc = "ready"
  BY <1>1 DEF ReparseInv, Left
<1>2. CASE pc = "done"
  <2>1. Origin /\ LibraryFlags
    BY <1>2, StateTypes
  <2>2. KnownIn(flags)
    BY <2>1 DEF KnownIn, Origin, Registered
  <2>3. parses \in Nat
    BY DEF MeaningState, HistoryInv, TypeInv, TypeOK
  <2>4. \A m \in Recursive : m \in Name /\ flags[m] # NULL
    BY <2>1, ParserAssumption DEF LibraryFlags, Registered
  <2>5. \A m \in Recursive : FromCommandLine(m) /\ (Wanted(m) = <<>> => Entries[before[m].current] = <<>>)
    <3>1. CASE parses = 1
      BY <1>2, <3>1 DEF ReparseInv, FromCommandLine
    <3>2. CASE parses > 1
      <4>1. AsWanted(settled) /\ \A m \in Recursive : before[m].current = settled[m].current
        BY <1>2, <3>2 DEF ReparseInv
      <4>. QED
        BY <2>4, <4>1 DEF AsWanted, FromCommandLine
    <3>. QED
      BY <2>3, <3>1, <3>2
  <2>6. \A n \in Name : flags[n] # NULL =>
           flags[n].current = IF Wanted(n) = <<>> THEN before[n].current
                              ELSE Parse[n][Wanted(n)[1]]
    BY <1>2, <2>5, DoneAsWanted DEF Registered
  <2>7. AsWanted(flags)
    BY <2>4, <2>5, <2>6 DEF AsWanted
  <2>. QED
    BY <1>2, <2>2, <2>7 DEF Left
<1>. QED
  BY <1>1, <1>2

(* A step that leaves the flags the parse before it left.                  *)
Standing == UNCHANGED <<before, env, command, parses>> /\ settled' = Left /\ pc' = "ready"

LEMMA SettingKeepsReparse ==
  ASSUME MeaningState, ReparseInv, disturbed => disturbed', pc \in {"ready", "done"}, Standing,
         SameNames, \A n \in Name : flags[n] # NULL => flags'[n].validate_fn = flags[n].validate_fn
  PROVE  ReparseInv'
<1> SUFFICES ASSUME ~disturbed, parses > 0
             PROVE  AsWanted(settled)' /\ KnownIn(settled)'
  BY DEF ReparseInv, Standing
<1>1. AsWanted(Left) /\ KnownIn(Left)
  BY LeftAsWanted
<1>2. \A n \in Name : Wanted(n)' = Wanted(n)
  BY WantedSame DEF Standing
<1>3. Recursive \subseteq Name
  BY ParserAssumption
<1>4. PICK reg : reg = Left
  OBVIOUS
<1>5. settled' = reg /\ before' = before
  BY <1>4 DEF Standing
<1>6. AsWanted(settled)'
  BY <1>1, <1>2, <1>3, <1>4, <1>5 DEF AsWanted
<1>7. KnownIn(settled)'
  BY <1>1, <1>4, <1>5 DEF KnownIn, SameNames
<1>. QED
  BY <1>6, <1>7

(* A library registers a flag that takes no argument away from another.    *)
LEMMA LateFinds ==
  ASSUME FlagsType, NEW n \in Late, RegisterLate(n), ~TakesOver, NEW name \in Name
  PROVE  \/ FindFlagLocked(name)' = FindFlagLocked(name)
         \/ FindFlagLocked(name) = NULL /\ FindFlagLocked(name)' = n
<1>1. /\ n \in Name /\ NULL \notin Name /\ flags[n] = NULL /\ Underscored[name] \in Name
      /\ flags'[n] # NULL /\ \A m \in Name : m # n => flags'[m] = flags[m]
  <2>1. n \in Name /\ Fresh[n] \in Value
    BY FlagAssumption, ParserAssumption
  <2>2. NewFlag(Fresh[n]) # NULL
    BY <2>1, NewFlagType, FlagAssumption
  <2>. QED
    BY <2>1, <2>2, FlagAssumption DEF RegisterLate, Registered, FlagsType
<1>2. name = n => FindFlagLocked(name) = NULL
  <2> SUFFICES ASSUME name = n, FindFlagLocked(name) # NULL PROVE FALSE
    OBVIOUS
  <2>1. FindFlagLocked(n) # n /\ FindFlagLocked(n)' = n
    BY <1>1 DEF FindFlagLocked, Registered
  <2>2. Owner(n) = FindFlagLocked(n) /\ Owner(n)' = n
    BY <1>1, <2>1 DEF Owner, SplitArgumentLocked
  <2>. QED
    BY <1>1, <2>1, <2>2 DEF TakesOver
<1>. QED
  BY <1>1, <1>2 DEF FindFlagLocked, Registered

LEMMA LateSplits ==
  ASSUME FlagsType, NEW n \in Late, RegisterLate(n), ~TakesOver,
         NEW key \in Name, NEW value
  PROVE  \/ SplitArgumentLocked(key, value)' = SplitArgumentLocked(key, value)
         \/ /\ SplitArgumentLocked(key, value).flag = NULL
            /\ SplitArgumentLocked(key, value)'.flag \in {NULL, n}
<1> DEFINE f == FindFlagLocked(key)
           x == IF Positive[key] = NULL THEN NULL ELSE FindFlagLocked(Positive[key])
<1>1. n \in Name /\ NULL \notin Name /\ NULL \notin Bool /\ flags[n] = NULL
  BY FlagAssumption, ParserAssumption DEF RegisterLate, Registered
<1>2. f' = f \/ (f = NULL /\ f' = n)
  BY LateFinds
<1>3. x' = x \/ (x = NULL /\ x' = n)
  <2>1. CASE Positive[key] = NULL
    BY <2>1
  <2>2. CASE Positive[key] # NULL
    <3>1. Positive[key] \in Name
      BY <2>2, ParserAssumption
    <3>. QED
      BY <2>2, <3>1, LateFinds
  <2>. QED
    BY <2>1, <2>2
<1>4. x # NULL => x # n
  <2>1. ASSUME Positive[key] # NULL, x # NULL PROVE Registered(x)
    <3>1. Positive[key] \in Name
      BY <2>1, ParserAssumption
    <3>. QED
      BY <2>1, <3>1, FindType
  <2>. QED
    BY <1>1, <2>1 DEF Registered
<1>5. /\ f # NULL => SplitArgumentLocked(key, value)
              = [flag |-> f, key |-> key, value |-> IF value = NULL /\ f \in Bool THEN "1" ELSE value]
      /\ f = NULL /\ x \in Bool => SplitArgumentLocked(key, value)
              = [flag |-> x, key |-> Positive[key], value |-> "0"]
      /\ f = NULL /\ x \notin Bool => SplitArgumentLocked(key, value)
              = [flag |-> NULL, key |-> key, value |-> value]
  BY DEF SplitArgumentLocked
<1>6. /\ f' # NULL => SplitArgumentLocked(key, value)'
              = [flag |-> f', key |-> key, value |-> IF value = NULL /\ f' \in Bool THEN "1" ELSE value]
      /\ f' = NULL /\ x' \in Bool => SplitArgumentLocked(key, value)'
              = [flag |-> x', key |-> Positive[key], value |-> "0"]
      /\ f' = NULL /\ x' \notin Bool => SplitArgumentLocked(key, value)'
              = [flag |-> NULL, key |-> key, value |-> value]
  BY DEF SplitArgumentLocked
<1>7. f = NULL /\ f' = n => x \notin Bool
  <2> SUFFICES ASSUME f = NULL, f' = n, x \in Bool PROVE FALSE
    OBVIOUS
  <2>1. x # NULL /\ n # NULL
    BY <1>1
  <2>2. Owner(key) = x
    BY DEF Owner, SplitArgumentLocked
  <2>3. Owner(key)' = n
    BY <2>1 DEF Owner, SplitArgumentLocked
  <2>. QED
    BY <1>4, <2>1, <2>2, <2>3 DEF TakesOver
<1> HIDE DEF f, x
<1>8. CASE f = NULL /\ f' = n
  BY <1>1, <1>5, <1>6, <1>7, <1>8
<1>9. CASE f' = f
  BY <1>1, <1>3, <1>5, <1>6, <1>9
<1>. QED
  BY <1>2, <1>8, <1>9

LEMMA SameNeedsArguments ==
  ASSUME command \in Seq(Argument), command' = command, NeedsNext' = NeedsNext,
         NEW u, u = World, NEW v, v = World'
  PROVE  SameArguments(u, v)
<1> SUFFICES ASSUME NEW k \in 1 .. Len(command), command[k].kind = "flag"
             PROVE  LET x == u.split[command[k].key][command[k].value]
                        y == v.split[command[k].key][command[k].value]
                    IN  (x.flag # NULL /\ x.value = NULL) <=> (y.flag # NULL /\ y.value = NULL)
  BY DEF SameArguments
<1>1. PICK key \in Name, value \in Text \cup {NULL} :
        key = command[k].key /\ value = command[k].value
  BY ArgumentKinds
<1>2. PICK x : x = SplitArgumentLocked(key, value)
  OBVIOUS
<1>3. PICK y : y = SplitArgumentLocked(key, value)'
  OBVIOUS
<1>4. u.split[key][value] = x /\ v.split[key][value] = y
  BY <1>2, <1>3 DEF World
<1>5. DOMAIN command = 1 .. Len(command)
  BY LenProperties
<1>6. NeedsNext[k] <=> x.flag # NULL /\ x.value = NULL
  BY <1>1, <1>2, <1>5 DEF NeedsNext
<1>7. NeedsNext'[k] <=> y.flag # NULL /\ y.value = NULL
  BY <1>1, <1>3, <1>5 DEF NeedsNext
<1>. QED
  BY <1>1, <1>4, <1>6, <1>7

LEMMA LateWorlds ==
  ASSUME FlagsType, WorldOK(World), WorldOK(World)', UNCHANGED <<before, env>>,
         NEW n \in Late, RegisterLate(n), ~TakesOver, NEW K, n \notin K, Recursive \subseteq K,
         K \subseteq Name, NEW u, u = World, NEW v, v = World'
  PROVE  LikeWorlds(u, v, K)
<1>1. NULL \notin K
  BY FlagAssumption
<1>2. ASSUME NEW key \in Name, NEW value \in Text \cup {NULL}
      PROVE  \/ u.split[key][value] = v.split[key][value]
             \/ u.split[key][value].flag \notin K /\ v.split[key][value].flag \notin K
  <2>1. PICK x : x = SplitArgumentLocked(key, value)
    OBVIOUS
  <2>2. PICK y : y = SplitArgumentLocked(key, value)'
    OBVIOUS
  <2>3. u.split[key][value] = x /\ v.split[key][value] = y
    BY <2>1, <2>2 DEF World
  <2>4. y = x \/ (x.flag = NULL /\ y.flag \in {NULL, n})
    BY <2>1, <2>2, LateSplits
  <2>. QED
    BY <1>1, <2>3, <2>4
<1>3. ASSUME NEW name \in Name
      PROVE  u.find[name] = v.find[name] \/ (u.find[name] \notin K /\ v.find[name] \notin K)
  <2>1. u.find[name] = FindFlagLocked(name) /\ v.find[name] = FindFlagLocked(name)'
    BY DEF World
  <2>. QED
    BY <1>1, <2>1, LateFinds
<1>4. u.env = v.env
  BY DEF World
<1>5. \A k \in Name, text \in Text : Acceptable(k, text)' <=> Acceptable(k, text)
  BY DEF Acceptable, TryParseLocked, Validate
<1>6. \A k \in K : u.accepts[k] = v.accepts[k]
  BY <1>5 DEF World
<1>7. WorldOK(u) /\ WorldOK(v)
  OBVIOUS
<1>. QED
  BY <1>2, <1>3, <1>4, <1>6, <1>7 DEF LikeWorlds

LEMMA LateKeepsReparse ==
  ASSUME MeaningState, ReparseInv, TypeInv', Standing, NEW n \in Late, RegisterLate(n),
         disturbed \/ (parses > 0 /\ TakesOver) => disturbed'
  PROVE  ReparseInv'
<1> SUFFICES ASSUME ~disturbed, parses > 0, ~TakesOver
             PROVE  AsWanted(settled)' /\ KnownIn(settled)'
  BY DEF ReparseInv, Standing
<1>1. AsWanted(Left) /\ KnownIn(Left)
  BY LeftAsWanted DEF RegisterLate, Idle
<1>2. /\ n \in Name /\ FlagsType /\ command \in Seq(Argument) /\ Recursive \subseteq Name
      /\ WorldOK(World) /\ WorldOK(World)'
  BY ParserAssumption, TypesOfInv, WorldAlways, WorldNext
     DEF MeaningState, HistoryInv, TypeInv, ParserTypes
<1>3. PICK reg : reg = Left
  OBVIOUS
<1>4. PICK K : K = {k \in Name : before[k] # NULL}
  OBVIOUS
<1>5. Recursive \subseteq K
  BY <1>1, <1>2, <1>3, <1>4 DEF AsWanted, KnownIn
<1>6. flags[n] = NULL /\ \A k \in Name : k # n => flags'[k] = flags[k]
  BY <1>2 DEF RegisterLate, Registered, FlagsType
<1>7. n \notin K
  BY <1>1, <1>2, <1>3, <1>4, <1>6 DEF KnownIn
<1>8. PICK u : u = World
  OBVIOUS
<1>9. PICK v : v = World'
  OBVIOUS
<1>10. LikeWorlds(u, v, K)
  BY <1>2, <1>4, <1>5, <1>7, <1>8, <1>9, LateWorlds DEF Standing
<1>11. SameArguments(u, v)
  BY <1>2, <1>8, <1>9, SameNeedsArguments DEF Standing, TakesOver
<1>12. \A k \in K : Wanted(k)' = Wanted(k)
  BY <1>2, <1>8, <1>9, <1>10, <1>11, WantedLike DEF Standing
<1>13. settled' = reg /\ before' = before
  BY <1>3 DEF Standing
<1>14. \A k \in Name : reg[k] # NULL <=> k \in K
  BY <1>1, <1>3, <1>4 DEF KnownIn
<1>15. AsWanted(settled)'
  BY <1>1, <1>2, <1>3, <1>5, <1>12, <1>13, <1>14 DEF AsWanted
<1>16. KnownIn(settled)'
  BY <1>1, <1>2, <1>3, <1>4, <1>6, <1>7, <1>13 DEF KnownIn
<1>. QED
  BY <1>15, <1>16

(* A parse begins with what the one before left, if nothing was set by     *)
(* hand; the flags that are new by then are none that it left.             *)
BeginWorlds ==
  UNCHANGED <<flags, env>> /\ before' = flags /\ KnownIn(Left)

LEMMA LaterWorlds ==
  ASSUME WorldOK(World), WorldOK(World)', BeginWorlds,
         NEW K, K = {k \in Name : before[k] # NULL}, Recursive \subseteq K,
         NEW u, u = World, NEW v, v = World'
  PROVE  LikeWorlds(u, v, K)
<1>1. SameNames
  BY DEF SameNames, BeginWorlds
<1>2. \A key \in Name, value \in Text \cup {NULL} : u.split[key][value] = v.split[key][value]
  <2> SUFFICES ASSUME NEW key \in Name, NEW value \in Text \cup {NULL}
               PROVE  u.split[key][value] = v.split[key][value]
    OBVIOUS
  <2>1. SplitArgumentLocked(key, value)' = SplitArgumentLocked(key, value)
    BY <1>1, SameSplit
  <2>. QED
    BY <2>1 DEF World
<1>3. \A name \in Name : u.find[name] = v.find[name]
  <2> SUFFICES ASSUME NEW name \in Name PROVE u.find[name] = v.find[name]
    OBVIOUS
  <2>1. FindFlagLocked(name)' = FindFlagLocked(name)
    BY <1>1, SameFind
  <2>. QED
    BY <2>1 DEF World
<1>4. u.env = v.env
  BY DEF World, BeginWorlds
<1>5. ASSUME NEW k \in K, NEW text \in Text PROVE Acceptable(k, text)' <=> Acceptable(k, text)
  <2>1. before[k] # NULL /\ flags[k] # NULL /\ flags[k].validate_fn = before[k].validate_fn
    BY DEF BeginWorlds, KnownIn
  <2>2. before'[k] = flags[k]
    BY DEF BeginWorlds
  <2>. QED
    BY <2>1, <2>2 DEF Acceptable, TryParseLocked, Validate
<1>6. \A k \in K : u.accepts[k] = v.accepts[k]
  BY <1>5 DEF World
<1>7. WorldOK(u) /\ WorldOK(v)
  OBVIOUS
<1>. QED
  BY <1>2, <1>3, <1>4, <1>6, <1>7 DEF LikeWorlds

LEMMA BeginKeepsReparse ==
  ASSUME MeaningState, ReparseInv, TypeInv', Begin, before' = flags, settled' = Left,
         disturbed \/ SetByHand => disturbed'
  PROVE  ReparseInv'
<1> SUFFICES ASSUME ~disturbed, ~SetByHand PROVE ReparseInv'
  BY DEF ReparseInv
<1>1. /\ parses \in Nat /\ parses' = parses + 1 /\ pc \in {"ready", "done"} /\ pc' = "flagfile"
      /\ UNCHANGED <<flags, env, command>>
  BY DEF MeaningState, HistoryInv, TypeInv, TypeOK, Begin, Idle, fixedVars
<1>2. CASE parses = 0
  <2>1. \A m \in Recursive : Entries[before'[m].current] = <<>>
    BY <1>2 DEF SetByHand
  <2>. QED
    BY <1>1, <1>2, <2>1 DEF ReparseInv
<1>3. CASE parses > 0
  <2>1. AsWanted(Left) /\ KnownIn(Left)
    BY <1>1, <1>3, LeftAsWanted
  <2>2. /\ command \in Seq(Argument) /\ Recursive \subseteq Name
        /\ WorldOK(World) /\ WorldOK(World)'
    BY ParserAssumption, TypesOfInv, WorldAlways, WorldNext
       DEF MeaningState, HistoryInv, TypeInv, ParserTypes
  <2>3. PICK reg : reg = Left
    OBVIOUS
  <2>4. PICK K : K = {k \in Name : before[k] # NULL}
    OBVIOUS
  <2>5. Recursive \subseteq K
    BY <2>1, <2>2, <2>3, <2>4 DEF AsWanted, KnownIn
  <2>6. PICK u : u = World
    OBVIOUS
  <2>7. PICK v : v = World'
    OBVIOUS
  <2>8. LikeWorlds(u, v, K)
    <3>1. BeginWorlds
      BY <1>1, <2>1 DEF BeginWorlds
    <3>. QED
      BY <2>2, <2>4, <2>5, <2>6, <2>7, <3>1, LaterWorlds
  <2>9. SameArguments(u, v)
    <3>1. SameNames
      BY <1>1 DEF SameNames
    <3>2. NeedsNext' = NeedsNext
      BY <1>1, <2>2, <3>1, SameNeeds
    <3>. QED
      BY <1>1, <2>2, <2>6, <2>7, <3>2, SameNeedsArguments
  <2>10. \A k \in K : Wanted(k)' = Wanted(k)
    BY <1>1, <2>2, <2>6, <2>7, <2>8, <2>9, WantedLike
  <2>11. \A k \in Name : reg[k] # NULL <=> k \in K
    BY <2>1, <2>3, <2>4 DEF KnownIn
  <2>12. AsWanted(settled)'
    BY <2>1, <2>2, <2>3, <2>5, <2>10, <2>11 DEF AsWanted
  <2>13. \A m \in Recursive : before'[m].current = settled'[m].current
    BY <1>3 DEF SetByHand
  <2>. QED
    BY <1>1, <1>3, <2>12, <2>13 DEF ReparseInv
<1>. QED
  BY <1>1, <1>2, <1>3

(* In the course of a parse nothing of this changes.                       *)
LEMMA ParsingKeepsReparse ==
  ASSUME ReparseInv, UNCHANGED <<before, settled, parses, env, command>>,
         disturbed => disturbed', SameNames,
         (pc # "ready" /\ pc' # "ready") \/ UNCHANGED <<pc, flags>>
  PROVE  ReparseInv'
<1> SUFFICES ASSUME ~disturbed PROVE ReparseInv'
  BY DEF ReparseInv
<1>1. \A n \in Name : Wanted(n)' = Wanted(n)
  BY WantedSame
<1>2. Recursive \subseteq Name
  BY ParserAssumption
<1>3. AsWanted(settled) => AsWanted(settled)'
  BY <1>1, <1>2 DEF AsWanted
<1>4. UNCHANGED flags /\ KnownIn(settled) => KnownIn(settled)'
  BY DEF KnownIn
<1>. QED
  BY <1>3, <1>4 DEF ReparseInv

LEMMA ParseStepFacts ==
  ASSUME MeaningState, ParseStep
  PROVE  /\ UNCHANGED <<parses, env, command>> /\ SameNames
         /\ pc = "ready" => CallStep /\ pc' = "ready"
         /\ pc # "ready" => pc' # "ready" /\ pc # "done"
<1>1. TypeInv /\ ParserTypes /\ ParseInv
  BY TypesOfInv DEF MeaningState, HistoryInv, TypeInv
<1>2. CASE CallStep
  <2>1. UNCHANGED <<parses, env, command, pc>>
    BY <1>1, <1>2, CallStepEffect DEF CallEffect, Unmoved, fixedVars
  <2>2. SameNames
    BY <1>1, <1>2, StepSameNames
  <2>3. pc # "done"
    BY <1>1, <1>2 DEF ParseInv, CallStep, Return, NextFile, CommentLine, FilenameLine, FlagLine,
                      NextEnv, Calling
  <2>. QED
    BY <1>2, <2>1, <2>2, <2>3
<1>3. CASE KnownOption
  <2>1. UNCHANGED <<parses, env, command, pc>> /\ pc = "argv"
    BY <1>3 DEF KnownOption, Parsing, Settled, fixedVars
  <2>2. SameNames
    BY <1>1, <1>3, StepSameNames
  <2>. QED
    BY <2>1, <2>2
<1>4. CASE ProcessStage
  <2>1. UNCHANGED <<flags, parses, env, command>> /\ pc \in Recursive /\ pc' = Stage[pc]
    BY <1>4 DEF ProcessStage, fixedVars
  <2>2. pc' # "ready" /\ pc \notin {"ready", "done"}
    BY <2>1 DEF Stage, Recursive
  <2>3. SameNames
    BY <1>1, <2>1, StepSameNames
  <2>. QED
    BY <2>1, <2>2, <2>3
<1>5. CASE \/ ProgramArgument \/ EndOfOptions \/ UnknownOption \/ MissingArgument
           \/ \E b \in BOOLEAN : ArgumentsDone(b) \/ HandleCommandLineHelpFlags(b)
           \/ ValidateUnmodifiedFlags \/ ReportErrors
  <2>1. /\ UNCHANGED <<flags, parses, env, command>>
        /\ pc \in {"argv", "help", "validate", "report"} /\ pc' # "ready"
    BY <1>5 DEF ProgramArgument, EndOfOptions, UnknownOption, MissingArgument, ArgumentsDone,
                HandleCommandLineHelpFlags, ValidateUnmodifiedFlags, ReportErrors, Parsing,
                Settled, fixedVars
  <2>2. SameNames
    BY <1>1, <2>1, StepSameNames
  <2>. QED
    BY <2>1, <2>2
<1>. QED
  BY <1>2, <1>3, <1>4, <1>5 DEF ParseStep

LEMMA NextReparse ==
  ASSUME MeaningState, ReparseInv, [HistoryNext]_historyVars
  PROVE  ReparseInv'
<1>1. /\ TypeInv /\ ParserTypes /\ TypeInv' /\ parses \in Nat
  BY NextMeaning, TypesOfInv DEF MeaningState, HistoryInv, TypeInv, TypeOK
<1>2. CASE UNCHANGED historyVars
  <2>1. UNCHANGED <<before, settled, parses, env, command, disturbed, pc, flags>>
    BY <1>2 DEF historyVars, vars, fixedVars
  <2>2. SameNames
    BY <2>1 DEF SameNames
  <2>. QED
    BY <2>1, <2>2, ParsingKeepsReparse
<1>3. ASSUME HistoryNext PROVE ReparseInv'
  <2>1. /\ disturbed => disturbed'
        /\ parses' = parses => before' = before
        /\ pc = "done" /\ pc' # "done" => settled' = flags
        /\ ~(pc = "done" /\ pc' # "done") => settled' = settled
    BY <1>3 DEF HistoryNext
  <2>2. pc' # "done" => settled' = Left
    BY <2>1 DEF Left
  <2>3. CASE UNCHANGED vars
    <3>1. UNCHANGED <<before, settled, parses, env, command, pc, flags>>
      BY <2>1, <2>3 DEF vars, fixedVars
    <3>2. SameNames
      BY <3>1 DEF SameNames
    <3>. QED
      BY <2>1, <3>1, <3>2, ParsingKeepsReparse
  <2>4. CASE Begin
    <3>1. parses' # parses /\ pc' # "done"
      BY <1>1, <2>4 DEF Begin
    <3>2. before' = flags /\ (SetByHand => disturbed')
      BY <1>3, <3>1 DEF HistoryNext
    <3>. QED
      BY <1>1, <2>1, <2>2, <2>4, <3>1, <3>2, BeginKeepsReparse
  <2>5. CASE ParseStep
    <3>1. /\ UNCHANGED <<parses, env, command, before>> /\ SameNames
          /\ pc = "ready" => CallStep /\ pc' = "ready"
          /\ pc # "ready" => pc' # "ready" /\ pc # "done"
      BY <2>1, <2>5, ParseStepFacts
    <3>2. CASE pc = "ready"
      <4>1. \A n \in Name : flags[n] # NULL => flags'[n].validate_fn = flags[n].validate_fn
        BY <1>1, <3>1, <3>2, CallStepEffect, ValidatorsStay DEF CallEffect, ParserTypes
      <4>2. Standing
        BY <2>2, <3>1, <3>2 DEF Standing
      <4>. QED
        BY <2>1, <3>1, <3>2, <4>1, <4>2, SettingKeepsReparse
    <3>3. CASE pc # "ready"
      BY <2>1, <3>1, <3>3, ParsingKeepsReparse
    <3>. QED
      BY <3>2, <3>3
  <2>6. ASSUME NEW n \in Late, RegisterLate(n) PROVE ReparseInv'
    <3>1. UNCHANGED <<parses, env, command, before>> /\ pc' = "ready"
      BY <2>1, <2>6 DEF RegisterLate, fixedVars
    <3>2. Standing
      BY <2>2, <3>1 DEF Standing
    <3>3. parses > 0 /\ TakesOver => disturbed'
      BY <1>3, <2>6 DEF HistoryNext
    <3>. QED
      BY <1>1, <2>1, <2>6, <3>2, <3>3, LateKeepsReparse
  <2>7. ASSUME NEW c \in Calls, SetCommandLineOptionWithMode(c.name, c.text, c.mode)
        PROVE  ReparseInv'
    <3>1. UNCHANGED <<parses, env, command, before>> /\ pc' = "ready" /\ pc \in {"ready", "done"}
      BY <2>1, <2>7 DEF SetCommandLineOptionWithMode, Idle, fixedVars
    <3>2. PICK mo \in SettingMode : mo = mode' /\ \E n \in Name, text \in Text : Sets(n, text, mo)
      BY <1>1, <2>7, SetOptionEffect
    <3>3. SameNames
      BY <1>1, <3>2, FlagsChange DEF ParserTypes
    <3>4. \A n \in Name : flags[n] # NULL => flags'[n].validate_fn = flags[n].validate_fn
      BY <1>1, <3>2, ValidatorsStay DEF ParserTypes
    <3>5. Standing
      BY <2>2, <3>1 DEF Standing
    <3>. QED
      BY <2>1, <3>1, <3>3, <3>4, <3>5, SettingKeepsReparse
  <2>. QED
    BY <1>3, <2>3, <2>4, <2>5, <2>6, <2>7 DEF HistoryNext, Next, Finished
<1>. QED
  BY <1>2, <1>3

(* Whatever the flags, the files, the environment and the command line are, *)
(* and whichever flags libraries bring in between, a reparse leaves every   *)
(* flag that was there as the parse before left it, provided that the      *)
(* program has changed none since, that FLAGS_flagfile, FLAGS_fromenv and   *)
(* FLAGS_tryfromenv were never set by hand before a parse, and that no new *)
(* flag takes an argument or a name from another flag                      *)
(* (ReparseCommandLineNonHelpFlags).                                       *)
THEOREM ReparseIsIdempotentHolds == HistorySpec => []ReparseIsIdempotent
<1>1. MeaningState /\ ReparseInv => ReparseIsIdempotent
  <2> SUFFICES ASSUME MeaningState, ReparseInv, pc = "done", parses > 1, ~disturbed,
                      \A n \in Name : settled[n] # NULL => before[n] = settled[n],
                      NEW n \in Name, settled[n] # NULL
               PROVE  flags[n].current = settled[n].current
    BY DEF ReparseIsIdempotent
  <2>1. AsWanted(settled) /\ \A m \in Recursive : before[m].current = settled[m].current
    BY DEF ReparseInv
  <2>2. \A m \in Recursive : FromCommandLine(m)
    BY <2>1, ParserAssumption DEF AsWanted, FromCommandLine
  <2>3. Origin /\ before[n] = settled[n]
    BY StateTypes
  <2>4. flags[n].current = IF Wanted(n) = <<>> THEN before[n].current
                           ELSE Parse[n][Wanted(n)[1]]
    BY <2>2, <2>3, DoneAsWanted DEF Origin
  <2>5. Wanted(n) # <<>> => settled[n].current = Parse[n][Wanted(n)[1]]
    BY <2>1 DEF AsWanted
  <2>. QED
    BY <2>3, <2>4, <2>5
<1>2. HistoryInit => ReparseInv
  BY DEF HistoryInit, Init, ReparseInv
<1>3. MeaningState /\ ReparseInv /\ [HistoryNext]_historyVars => ReparseInv'
  BY NextReparse
<1>. QED
  BY <1>1, <1>2, <1>3, MeaningHolds, PTL DEF HistorySpec, historyVars
=============================================================================
