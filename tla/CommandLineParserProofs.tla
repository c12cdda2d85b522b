---------------------- MODULE CommandLineParserProofs ----------------------
(***************************************************************************)
(* Proofs about CommandLineParser for every set of flags, texts, flag      *)
(* files, environments and command lines.                                  *)
(***************************************************************************)
EXTENDS CommandLineHistory, CommandLineFlagProofs, Induction, SequenceTheorems, TLAPS

-----------------------------------------------------------------------------
(* What a name or an argument is resolved to.                              *)
FlagsType == flags \in [Name -> Flag \cup {NULL}]

LEMMA RegisteredType ==
  ASSUME FlagsType, NEW n \in Name, Registered(n)
  PROVE  flags[n] \in Flag /\ flags[n].current \in Value
BY DEF FlagsType, Registered, Flag

LEMMA FindType ==
  ASSUME NEW name \in Name, FindFlagLocked(name) # NULL
  PROVE  FindFlagLocked(name) \in Name /\ Registered(FindFlagLocked(name))
BY FlagAssumption DEF FindFlagLocked

LEMMA NotFound ==
  ASSUME NEW name \in Name, FindFlagLocked(name) = NULL
  PROVE  ~Registered(name)
BY FlagAssumption DEF FindFlagLocked

LEMMA SplitType ==
  ASSUME NEW key \in Name, NEW value \in Text \cup {NULL}
  PROVE  LET arg == SplitArgumentLocked(key, value)
         IN  /\ arg.key \in Name /\ arg.value \in Text \cup {NULL}
             /\ arg.flag # NULL => arg.flag \in Name /\ Registered(arg.flag)
             /\ arg.flag = NULL => ~Registered(arg.key)
<1> DEFINE n == FindFlagLocked(key)
           x == IF Positive[key] = NULL THEN NULL ELSE FindFlagLocked(Positive[key])
<1>1. CASE n # NULL
  <2>1. SplitArgumentLocked(key, value) =
          [flag |-> n, key |-> key,
           value |-> IF value = NULL /\ n \in Bool THEN "1" ELSE value]
    BY <1>1 DEF SplitArgumentLocked
  <2>2. QED
    BY <1>1, <2>1, FindType, ParserAssumption
<1>2. CASE n = NULL /\ x \in Bool
  <2>1. x # NULL /\ Positive[key] \in Name
    BY <1>2, FlagAssumption, ParserAssumption
  <2>2. x \in Name /\ Registered(x)
    BY <2>1, FindType
  <2>3. SplitArgumentLocked(key, value) = [flag |-> x, key |-> Positive[key], value |-> "0"]
    BY <1>2 DEF SplitArgumentLocked
  <2>4. QED
    BY <2>1, <2>2, <2>3, ParserAssumption
<1>3. CASE n = NULL /\ x \notin Bool
  <2>1. SplitArgumentLocked(key, value) = [flag |-> NULL, key |-> key, value |-> value]
    BY <1>3 DEF SplitArgumentLocked
  <2>2. QED
    BY <1>3, <2>1, NotFound
<1>4. QED
  BY <1>1, <1>2, <1>3

-----------------------------------------------------------------------------
(* The stack.                                                              *)
StackType == stack \in Seq(Frame) /\ Len(stack) <= MaxDepth

LEMMA PushType ==
  ASSUME NEW s \in Seq(Frame), NEW f \in Frame
  PROVE  <<f>> \o s \in Seq(Frame) /\ Len(<<f>> \o s) = Len(s) + 1
<1>1. <<f>> \in Seq(Frame) /\ Len(<<f>>) = 1
  OBVIOUS
<1>2. QED
  BY <1>1, ConcatProperties

LEMMA CallType ==
  ASSUME NEW n \in Recursive, NEW v \in Value, NEW callers \in Seq(Frame),
         Len(callers) <= MaxDepth, Call(n, v, callers)
  PROVE  StackType' /\ exited' \in BOOLEAN
<1>1. CASE Entries[v] \in {NULL, <<>>}
  BY <1>1 DEF Call, StackType
<1>2. CASE Entries[v] \notin {NULL, <<>>}
  <2>1. [kind |-> n, todo |-> Entries[v], list |-> v] \in Frame
    BY <1>2, ParserAssumption DEF Frame
  <2>2. Len(callers) \in Nat /\ MaxDepth \in Nat
    BY ParserAssumption
  <2>3. QED
    BY <1>2, <2>1, <2>2, PushType DEF Call, StackType
<1>3. QED
  BY <1>1, <1>2

LEMMA TopType ==
  ASSUME StackType, stack # <<>>
  PROVE  /\ Top \in Frame /\ Tail(stack) \in Seq(Frame)
         /\ Len(Tail(stack)) = Len(stack) - 1 /\ Len(stack) \in Nat
BY HeadTailProperties DEF StackType, Top

LEMMA FrameKinds ==
  ASSUME NEW f \in Frame
  PROVE  /\ f.kind = "lines" =>
              f \in [kind : {"lines"}, todo : Seq(Line), relevant : BOOLEAN,
                     in_filename_section : BOOLEAN]
         /\ f.kind # "lines" => f \in [kind : Recursive, todo : Seq(Text), list : Value]
BY DEF Frame, Recursive

(* Whatever is done to the frame on top, the stack keeps its height.       *)
LEMMA ReplaceTop ==
  ASSUME StackType, stack # <<>>, NEW f \in Frame
  PROVE  <<f>> \o Tail(stack) \in Seq(Frame) /\ Len(<<f>> \o Tail(stack)) = Len(stack)
BY TopType, PushType

LEMMA AdvanceType ==
  ASSUME StackType, stack # <<>>, Top.todo # <<>>
  PROVE  /\ Advance \in Seq(Frame) /\ Len(Advance) = Len(stack)
         /\ Top.kind = "lines" => Head(Top.todo) \in Line
         /\ Top.kind # "lines" => Head(Top.todo) \in Text
<1> DEFINE f == [Top EXCEPT !.todo = Tail(@)]
<1>1. CASE Top.kind = "lines"
  <2>1. Top.todo \in Seq(Line)
    BY <1>1, TopType, FrameKinds
  <2>2. Head(Top.todo) \in Line /\ Tail(Top.todo) \in Seq(Line)
    BY <2>1, HeadTailProperties
  <2>3. f \in Frame
    BY <1>1, <2>2, TopType, FrameKinds DEF Frame
  <2>4. QED
    BY <1>1, <2>2, <2>3, ReplaceTop DEF Advance
<1>2. CASE Top.kind # "lines"
  <2>1. Top.todo \in Seq(Text)
    BY <1>2, TopType, FrameKinds
  <2>2. Head(Top.todo) \in Text /\ Tail(Top.todo) \in Seq(Text)
    BY <2>1, HeadTailProperties
  <2>3. f \in Frame
    BY <1>2, <2>2, TopType, FrameKinds DEF Frame
  <2>4. QED
    BY <1>2, <2>2, <2>3, ReplaceTop DEF Advance
<1>3. QED
  BY <1>1, <1>2

-----------------------------------------------------------------------------
(* What one step of a call in progress can do: set one registered flag in  *)
(* the caller's mode, recording an error if that fails, or leave the flags *)
(* alone; names it does not find are not registered.                       *)
Sets(n, text, set_mode) ==
  /\ n \in Name /\ Registered(n) /\ text \in Text
  /\ flags' = [flags EXCEPT ![n] = SetFlagLocked(n, @, text, set_mode)]
  /\ error_flags' = IF SetFlagSucceeds(n, flags[n], text, set_mode)
                    THEN error_flags ELSE error_flags \cup {n}

LeavesFlags == /\ UNCHANGED flags
               /\ error_flags \subseteq error_flags' /\ error_flags' \subseteq error_flags \cup Name

FindsUndefined ==
  /\ undefined_names \subseteq undefined_names'
  /\ \A n \in undefined_names' \ undefined_names : n \in Name /\ ~Registered(n)

CallEffect ==
  /\ LeavesFlags \/ \E n \in Name, text \in Text : Sets(n, text, mode)
  /\ FindsUndefined
  /\ StackType' /\ exited' \in BOOLEAN
  /\ Unmoved

LEMMA ProcessEffect ==
  ASSUME FlagsType, NEW n \in Name, Registered(n), NEW text \in Text,
         NEW set_mode \in SettingMode, NEW callers \in Seq(Frame), Len(callers) <= MaxDepth,
         exited \in BOOLEAN, ProcessSingleOptionLocked(n, text, set_mode, callers)
  PROVE  Sets(n, text, set_mode) /\ StackType' /\ exited' \in BOOLEAN
<1>1. Sets(n, text, set_mode)
  BY DEF ProcessSingleOptionLocked, Sets
<1>2. flags'[n].current \in Value
  <2>1. flags[n] \in Flag
    BY RegisteredType
  <2>2. flags'[n] = SetFlagLocked(n, flags[n], text, set_mode)
    BY <1>1 DEF Sets, FlagsType
  <2>3. flags'[n] \in Flag
    BY <2>1, <2>2, SetFlagIsSafe
  <2>4. QED
    BY <2>3 DEF Flag
<1>3. CASE SetFlagSucceeds(n, flags[n], text, set_mode) /\ n \in Recursive
  <2>1. Call(n, flags'[n].current, callers)
    BY <1>3 DEF ProcessSingleOptionLocked
  <2>2. QED
    BY <1>1, <1>2, <1>3, <2>1, CallType
<1>4. CASE ~(SetFlagSucceeds(n, flags[n], text, set_mode) /\ n \in Recursive)
  BY <1>1, <1>4 DEF ProcessSingleOptionLocked, StackType
<1>5. QED
  BY <1>3, <1>4

ParserTypes ==
  /\ FlagsType /\ StackType
  /\ env \in [Name -> Text \cup {NULL}] /\ command \in Seq(Argument)
  /\ mode \in SettingMode /\ exited \in BOOLEAN
  /\ error_flags \subseteq Name /\ undefined_names \subseteq Name

LEMMA ReturnEffect ==
  ASSUME ParserTypes, Return PROVE CallEffect
<1>1. StackType'
  BY TopType, ParserAssumption DEF Return, ParserTypes, StackType
<1>2. QED
  BY <1>1 DEF Return, ParserTypes, CallEffect, LeavesFlags, FindsUndefined

LEMMA SkipEffect ==
  ASSUME StackType, stack # <<>>, Top.todo # <<>>, stack' = Advance
  PROVE  StackType'
BY AdvanceType DEF StackType

LEMMA NextFileEffect ==
  ASSUME ParserTypes, NextFile PROVE CallEffect
<1> DEFINE f == Head(Top.todo)
<1>1. /\ StackType /\ stack # <<>> /\ Top.todo # <<>> /\ Top.kind = "flagfile"
      /\ Len(stack) < MaxDepth
  BY DEF NextFile, Calling, ParserTypes
<1>2. f \in Text
  BY <1>1, AdvanceType
<1>3. CASE Contents[f] = NULL
  BY <1>1, <1>3 DEF NextFile, ParserTypes, StackType, CallEffect, LeavesFlags, FindsUndefined
<1>4. CASE Contents[f] # NULL
  <2>1. LinesOf(f) \in Frame
    BY <1>2, <1>4, ParserAssumption DEF LinesOf, Frame
  <2>2. Advance \in Seq(Frame) /\ Len(Advance) = Len(stack) /\ Len(stack) \in Nat
    BY <1>1, AdvanceType, TopType
  <2>3. <<LinesOf(f)>> \o Advance \in Seq(Frame) /\ Len(<<LinesOf(f)>> \o Advance) = Len(stack) + 1
    BY <2>1, <2>2, PushType
  <2>4. stack' = <<LinesOf(f)>> \o Advance /\ UNCHANGED exited
    BY <1>4 DEF NextFile
  <2>5. StackType'
    BY <1>1, <2>2, <2>3, <2>4, ParserAssumption DEF StackType
  <2>6. QED
    BY <2>4, <2>5 DEF NextFile, ParserTypes, CallEffect, LeavesFlags, FindsUndefined
<1>5. QED
  BY <1>3, <1>4

LEMMA CommentLineEffect ==
  ASSUME ParserTypes, CommentLine PROVE CallEffect
<1>1. StackType'
  BY SkipEffect DEF CommentLine, Calling, Skip, ParserTypes
<1>2. QED
  BY <1>1 DEF CommentLine, Skip, ParserTypes, CallEffect, LeavesFlags, FindsUndefined

(* A frame over lines, when one line is done.                              *)
LEMMA LineFrame ==
  ASSUME StackType, Calling("lines"), NEW r \in BOOLEAN, NEW s \in BOOLEAN
  PROVE  /\ Head(Top.todo) \in Line
         /\ [Top EXCEPT !.todo = Tail(@), !.relevant = r, !.in_filename_section = s] \in Frame
         /\ [Top EXCEPT !.todo = Tail(@), !.in_filename_section = s] \in Frame
         /\ Top.relevant \in BOOLEAN /\ Top.in_filename_section \in BOOLEAN
<1>1. Top \in Frame /\ Top.kind = "lines" /\ Top.todo # <<>>
  BY TopType DEF Calling
<1>2. Top \in [kind : {"lines"}, todo : Seq(Line), relevant : BOOLEAN,
               in_filename_section : BOOLEAN]
  BY <1>1, FrameKinds
<1>3. Head(Top.todo) \in Line /\ Tail(Top.todo) \in Seq(Line)
  BY <1>1, <1>2, HeadTailProperties
<1>4. QED
  BY <1>2, <1>3 DEF Frame

LEMMA FilenameLineEffect ==
  ASSUME ParserTypes, FilenameLine PROVE CallEffect
<1> DEFINE r == Head(Top.todo).matches \/ (Top.relevant /\ Top.in_filename_section)
           f == [Top EXCEPT !.todo = Tail(@), !.relevant = r, !.in_filename_section = TRUE]
<1>1. StackType /\ stack # <<>> /\ Calling("lines") /\ Head(Top.todo).kind = "filenames"
  BY DEF FilenameLine, Calling, ParserTypes
<1>2. f \in Frame
  BY <1>1, LineFrame
<1>3. stack' = <<f>> \o Tail(stack)
  <2>1. f = [Top EXCEPT !.todo = Tail(@),
                        !.in_filename_section = TRUE,
                        !.relevant = \/ Head(Top.todo).matches
                                     \/ @ /\ Top.in_filename_section]
    OBVIOUS
  <2>2. QED
    BY <2>1 DEF FilenameLine
<1>4. StackType'
  BY <1>1, <1>2, <1>3, ReplaceTop DEF StackType
<1>5. QED
  BY <1>4 DEF FilenameLine, ParserTypes, CallEffect, LeavesFlags, FindsUndefined

LEMMA FlagLineEffect ==
  ASSUME ParserTypes, FlagLine PROVE CallEffect
<1> DEFINE line  == Head(Top.todo)
           after == <<[Top EXCEPT !.todo = Tail(@), !.in_filename_section = FALSE]>> \o Tail(stack)
           arg   == SplitArgumentLocked(line.key, line.value)
<1>1. StackType /\ stack # <<>> /\ Calling("lines") /\ line.kind = "flag"
  BY DEF FlagLine, Calling, ParserTypes
<1>2. after \in Seq(Frame) /\ Len(after) <= MaxDepth
  BY <1>1, LineFrame, ReplaceTop DEF StackType
<1>3. line.key \in Name /\ line.value \in Text \cup {NULL}
  BY <1>1, LineFrame DEF Line, FlagArgument
<1>4. CASE Top.relevant /\ arg.flag # NULL /\ arg.value # NULL
  <2>1. arg.flag \in Name /\ Registered(arg.flag) /\ arg.value \in Text
    BY <1>3, <1>4, SplitType
  <2>2. ProcessSingleOptionLocked(arg.flag, arg.value, mode, after)
    BY <1>4 DEF FlagLine
  <2>3. Sets(arg.flag, arg.value, mode) /\ StackType' /\ exited' \in BOOLEAN
    <3> HIDE DEF arg, after
    <3>1. QED
      BY <1>2, <2>1, <2>2, ProcessEffect DEF ParserTypes
  <2>4. QED
    BY <2>1, <2>3 DEF FlagLine, ParserTypes, CallEffect, FindsUndefined
<1>5. CASE ~(Top.relevant /\ arg.flag # NULL /\ arg.value # NULL)
  <2>1. stack' = after /\ UNCHANGED <<flags, error_flags, exited>>
    BY <1>5 DEF FlagLine
  <2>2. StackType'
    BY <1>2, <2>1 DEF StackType
  <2>3. QED
    BY <2>1, <2>2 DEF FlagLine, ParserTypes, CallEffect, LeavesFlags, FindsUndefined
<1>6. QED
  BY <1>4, <1>5

LEMMA NextEnvEffect ==
  ASSUME ParserTypes, NextEnv PROVE CallEffect
<1> DEFINE name   == Head(Top.todo)
           n      == FindFlagLocked(name)
           envval == env[name]
           fail   == error_flags' = error_flags \cup {name}
                       /\ stack' = Advance /\ UNCHANGED <<flags, exited>>
<1>1. /\ StackType /\ stack # <<>> /\ Top.todo # <<>> /\ Top.kind # "lines"
      /\ exited \in BOOLEAN
  BY DEF NextEnv, Calling, ParserTypes
<1>2. name \in Name
  BY <1>1, AdvanceType, ParserAssumption
<1>3. envval \in Text \cup {NULL}
  BY <1>2 DEF ParserTypes
<1>4. ASSUME fail PROVE LeavesFlags /\ StackType' /\ exited' \in BOOLEAN
  BY <1>1, <1>2, <1>4, SkipEffect DEF LeavesFlags
<1>5. ASSUME Skip PROVE LeavesFlags /\ StackType' /\ exited' \in BOOLEAN
  BY <1>1, <1>5, SkipEffect DEF LeavesFlags, Skip
<1>6. CASE n = NULL
  <2>1. fail /\ undefined_names' = undefined_names \cup {name}
    BY <1>6 DEF NextEnv
  <2>2. FindsUndefined
    BY <1>2, <1>6, <2>1, NotFound DEF FindsUndefined
  <2>3. QED
    BY <1>4, <2>1, <2>2 DEF CallEffect, NextEnv
<1>7. CASE n # NULL
  <2>1. FindsUndefined
    BY <1>7 DEF NextEnv, FindsUndefined
  <2>2. \/ fail \/ Skip
        \/ envval \notin {NULL} /\ ProcessSingleOptionLocked(n, envval, mode, Advance)
    BY <1>7 DEF NextEnv
  <2>3. CASE envval # NULL /\ ProcessSingleOptionLocked(n, envval, mode, Advance)
    <3>1. Advance \in Seq(Frame) /\ Len(Advance) <= MaxDepth
      BY <1>1, AdvanceType DEF StackType
    <3>2. n \in Name /\ Registered(n) /\ envval \in Text
      BY <1>2, <1>3, <1>7, <2>3, FindType
    <3> HIDE DEF n, envval
    <3>3. Sets(n, envval, mode) /\ StackType' /\ exited' \in BOOLEAN
      BY <2>3, <3>1, <3>2, ProcessEffect DEF ParserTypes
    <3>4. QED
      BY <2>1, <3>2, <3>3 DEF CallEffect, NextEnv
  <2>4. QED
    BY <1>4, <1>5, <2>1, <2>2, <2>3 DEF CallEffect, NextEnv
<1>8. QED
  BY <1>6, <1>7

LEMMA CallStepEffect ==
  ASSUME ParserTypes, CallStep PROVE CallEffect
BY ReturnEffect, NextFileEffect, CommentLineEffect, FilenameLineEffect, FlagLineEffect,
   NextEnvEffect DEF CallStep

-----------------------------------------------------------------------------
(* Setting a flag neither adds nor removes one.                            *)
SameNames == \A n \in Name : flags'[n] # NULL <=> flags[n] # NULL

LEMMA FlagsChange ==
  ASSUME FlagsType, error_flags \subseteq Name, NEW m \in SettingMode,
         LeavesFlags \/ \E n \in Name, text \in Text : Sets(n, text, m)
  PROVE  FlagsType' /\ SameNames /\ error_flags' \subseteq Name
<1>1. CASE LeavesFlags
  BY <1>1 DEF LeavesFlags, FlagsType, SameNames
<1>2. ASSUME NEW n \in Name, NEW text \in Text, Sets(n, text, m)
      PROVE  FlagsType' /\ SameNames /\ error_flags' \subseteq Name
  <2>1. flags[n] \in Flag
    BY <1>2, RegisteredType DEF Sets
  <2>2. SetFlagLocked(n, flags[n], text, m) \in Flag
    BY <2>1, SetFlagIsSafe
  <2>3. flags' = [flags EXCEPT ![n] = SetFlagLocked(n, flags[n], text, m)]
    BY <1>2 DEF Sets
  <2>4. FlagsType'
    BY <2>2, <2>3 DEF FlagsType
  <2>5. SameNames
    BY <2>1, <2>2, <2>3, FlagAssumption DEF FlagsType, SameNames
  <2>6. error_flags' \subseteq Name
    BY <1>2 DEF Sets
  <2>7. QED
    BY <2>4, <2>5, <2>6
<1>3. QED
  BY <1>1, <1>2

-----------------------------------------------------------------------------
(* Moving one element of a sequence to the end.                            *)
LEMMA MovedToEnd ==
  ASSUME NEW S, NEW s \in Seq(S), NEW i \in 1 .. Len(s)
  PROVE  LET r == Append(RemoveAt(s, i), s[i])
         IN  /\ r \in Seq(S) /\ Len(r) = Len(s)
             /\ \A j \in 1 .. i - 1 : r[j] = s[j]
             /\ \A j \in i .. Len(s) - 1 : r[j] = s[j + 1]
             /\ r[Len(s)] = s[i]
<1> DEFINE a == SubSeq(s, 1, i - 1)
           b == SubSeq(s, i + 1, Len(s))
           r == Append(RemoveAt(s, i), s[i])
<1>1. Len(s) \in Nat /\ \A j \in 1 .. Len(s) : s[j] \in S
  BY ElementOfSeq, LenProperties
<1>2. a \in Seq(S) /\ Len(a) = i - 1 /\ \A j \in 1 .. i - 1 : a[j] = s[j]
  BY <1>1, SubSeqProperties
<1>3. b \in Seq(S) /\ Len(b) = Len(s) - i /\ \A j \in 1 .. Len(s) - i : b[j] = s[i + j]
  <2>1. \A j \in i + 1 .. Len(s) : s[j] \in S
    BY <1>1
  <2>2. /\ b \in Seq(S)
        /\ Len(b) = IF i + 1 <= Len(s) THEN Len(s) - (i + 1) + 1 ELSE 0
        /\ \A j \in 1 .. Len(s) - (i + 1) + 1 : b[j] = s[i + 1 + j - 1]
    BY <1>1, <2>1, SubSeqProperties
  <2>3. QED
    BY <1>1, <2>2
<1> HIDE DEF a, b
<1>4. /\ a \o b \in Seq(S) /\ Len(a \o b) = Len(s) - 1
      /\ \A j \in 1 .. Len(s) - 1 : (a \o b)[j] = IF j < i THEN s[j] ELSE s[j + 1]
  <2>1. /\ a \o b \in Seq(S) /\ Len(a \o b) = Len(a) + Len(b)
        /\ \A j \in 1 .. Len(a) + Len(b) :
             (a \o b)[j] = IF j <= Len(a) THEN a[j] ELSE b[j - Len(a)]
    BY <1>2, <1>3, ConcatProperties
  <2>2. ASSUME NEW j \in 1 .. Len(s) - 1
        PROVE  (a \o b)[j] = IF j < i THEN s[j] ELSE s[j + 1]
    <3>1. (a \o b)[j] = IF j <= i - 1 THEN a[j] ELSE b[j - (i - 1)]
      BY <1>1, <1>2, <1>3, <2>1
    <3>2. CASE j < i
      BY <1>1, <1>2, <3>1, <3>2
    <3>3. CASE j >= i
      <4>1. j - (i - 1) \in 1 .. Len(s) - i /\ i + (j - (i - 1)) = j + 1
        BY <1>1, <3>3
      <4>2. b[j - (i - 1)] = s[i + (j - (i - 1))]
        BY <1>3, <4>1
      <4>3. QED
        BY <1>1, <3>1, <3>3, <4>1, <4>2
    <3>4. j < i \/ j >= i
      BY <1>1
    <3>5. QED
      BY ONLY <3>2, <3>3, <3>4
  <2>3. QED
    BY <1>1, <1>2, <1>3, <2>1, <2>2
<1>5. r = Append(a \o b, s[i])
  BY DEF a, b, RemoveAt
<1>6. /\ r \in Seq(S) /\ Len(r) = Len(s)
      /\ \A j \in 1 .. Len(s) - 1 : r[j] = (a \o b)[j]
      /\ r[Len(s)] = s[i]
  BY <1>1, <1>4, <1>5, AppendProperties
<1> HIDE DEF r
<1>7. ASSUME NEW j \in 1 .. i - 1 PROVE r[j] = s[j]
  <2>1. j \in 1 .. Len(s) - 1 /\ j < i
    BY <1>1
  <2>2. QED
    BY <1>4, <1>6, <2>1
<1>8. ASSUME NEW j \in i .. Len(s) - 1 PROVE r[j] = s[j + 1]
  <2>1. j \in 1 .. Len(s) - 1 /\ ~(j < i)
    BY <1>1
  <2>2. QED
    BY <1>4, <1>6, <2>1
<1>9. QED
  BY <1>6, <1>7, <1>8 DEF r

LEMMA MovedStaysInjective ==
  ASSUME NEW S, NEW s \in Seq(S), NEW i \in 1 .. Len(s), IsInjective(s)
  PROVE  IsInjective(Append(RemoveAt(s, i), s[i]))
<1> DEFINE r == Append(RemoveAt(s, i), s[i])
           from(j) == IF j < i THEN j ELSE IF j < Len(s) THEN j + 1 ELSE i
<1>1. Len(s) \in Nat /\ DOMAIN s = 1 .. Len(s)
  BY LenProperties
<1>2. r \in Seq(S) /\ Len(r) = Len(s) /\ DOMAIN r = 1 .. Len(s)
  <2>1. r \in Seq(S) /\ Len(r) = Len(s)
    BY MovedToEnd
  <2>2. QED
    BY <2>1, LenProperties
<1>3. \A j \in 1 .. Len(s) : from(j) \in 1 .. Len(s) /\ r[j] = s[from(j)]
  <2> SUFFICES ASSUME NEW j \in 1 .. Len(s)
               PROVE  from(j) \in 1 .. Len(s) /\ r[j] = s[from(j)]
    OBVIOUS
  <2>1. /\ \A k \in 1 .. i - 1 : r[k] = s[k]
        /\ \A k \in i .. Len(s) - 1 : r[k] = s[k + 1]
        /\ r[Len(s)] = s[i]
    BY MovedToEnd
  <2> HIDE DEF r
  <2>2. CASE j < i
    BY <1>1, <2>1, <2>2
  <2>3. CASE j >= i /\ j < Len(s)
    BY <1>1, <2>1, <2>3
  <2>4. CASE j >= i /\ j = Len(s)
    BY <1>1, <2>1, <2>4
  <2>5. j < i \/ (j >= i /\ j < Len(s)) \/ (j >= i /\ j = Len(s))
    <3>1. j \in Int /\ i \in Int /\ Len(s) \in Int /\ j <= Len(s)
      BY <1>1
    <3>2. QED
      BY ONLY <3>1
  <2>6. QED
    BY ONLY <2>2, <2>3, <2>4, <2>5
<1>4. \A j, k \in 1 .. Len(s) : from(j) = from(k) => j = k
  BY <1>1
<1> HIDE DEF from, r
<1>5. \A j, k \in 1 .. Len(s) : r[j] = r[k] => j = k
  BY <1>1, <1>3, <1>4 DEF IsInjective
<1>6. QED
  BY <1>2, <1>5 DEF IsInjective, r

-----------------------------------------------------------------------------
(* The inductive invariant behind TypeOK: while options are still to be    *)
(* processed no argument is missing, and the scan is not past the operands;*)
(* the flags that name files, environments and excuses are there.          *)
Scanning == pc \in Recursive \cup {"argv"}

Positions == Scanning => Len(order) = Len(command) /\ cursor <= first_nonopt

LibraryFlags == \A n \in Recursive \cup {"undefok"} : Registered(n)

TypeInv == TypeOK /\ Positions /\ LibraryFlags

LEMMA TypesOfInv ==
  ASSUME TypeOK
  PROVE  /\ ParserTypes
         /\ DOMAIN command = 1 .. Len(command) /\ Len(command) \in Nat
         /\ DOMAIN order = 1 .. Len(order) /\ Len(order) \in Nat
BY ParserAssumption DEF TypeOK, ParserTypes, FlagsType, StackType

LEMMA InitTypes == Init => TypeInv
<1> SUFFICES ASSUME Init PROVE TypeInv
  OBVIOUS
<1>1. command \in Commands /\ command \in Seq(Argument) /\ Len(command) \in Nat
  BY ParserAssumption DEF Init
<1>2. order \in Seq(DOMAIN command) /\ IsInjective(order)
  BY DEF Init, IsInjective
<1>3. stack \in Seq(Frame) /\ Len(stack) <= MaxDepth
  BY ParserAssumption DEF Init
<1>4. flags \in [Name -> Flag \cup {NULL}] /\ LibraryFlags
  BY ParserAssumption DEF Init, LibraryFlags, Registered
<1>5. cursor \in 1 .. Len(command) + 1 /\ first_nonopt \in 1 .. Len(command) + 1
  BY <1>1 DEF Init
<1>6. parses \in 0 .. MaxParses /\ calls \in 0 .. MaxCalls
  BY ParserAssumption DEF Init
<1>7. Positions
  BY DEF Init, Positions, Scanning, Recursive
<1>8. mode \in SettingMode /\ env \in Environments
  BY DEF Init, SettingMode
<1>9. QED
  BY <1>1, <1>2, <1>3, <1>4, <1>5, <1>6, <1>7, <1>8 DEF Init, TypeInv, TypeOK

LEMMA SameNamesKeepLibrary ==
  ASSUME LibraryFlags, SameNames
  PROVE  LibraryFlags'
BY ParserAssumption DEF LibraryFlags, SameNames, Registered

LEMMA CallKeepsTypes ==
  ASSUME TypeInv, CallEffect
  PROVE  TypeInv'
<1>1. ParserTypes
  BY TypesOfInv DEF TypeInv
<1>2. FlagsType' /\ SameNames /\ error_flags' \subseteq Name
  BY <1>1, FlagsChange DEF CallEffect, ParserTypes
<1>3. undefined_names' \subseteq Name
  BY <1>1 DEF CallEffect, FindsUndefined, ParserTypes
<1>4. LibraryFlags'
  BY <1>2, SameNamesKeepLibrary DEF TypeInv
<1>5. UNCHANGED <<order, cursor, first_nonopt, mode, pc, parses, calls, env, command, reparsing>>
  BY DEF CallEffect, Unmoved, fixedVars
<1>6. Positions'
  BY <1>5 DEF TypeInv, Positions, Scanning
<1>7. QED
  BY <1>2, <1>3, <1>4, <1>5, <1>6
     DEF TypeInv, TypeOK, CallEffect, FlagsType, StackType

(* The argument the loop is at, and the one behind it.                     *)
LEMMA ArgType ==
  ASSUME TypeInv, Parsing
  PROVE  /\ cursor \in 1 .. Len(order) /\ Len(order) = Len(command) /\ Len(order) \in Nat
         /\ first_nonopt \in 1 .. Len(order) + 1 /\ first_nonopt > cursor
         /\ \A i \in 1 .. Len(order) : order[i] \in DOMAIN command
                                       /\ command[order[i]].text \in Text
         /\ Arg.kind \in {"word", "end", "flag"}
         /\ Arg.kind = "flag" => Arg.key \in Name /\ Arg.value \in Text \cup {NULL}
<1>1. Len(order) = Len(command) /\ Len(order) \in Nat /\ DOMAIN command = 1 .. Len(command)
  BY TypesOfInv DEF TypeInv, Positions, Scanning, Parsing
<1>2. cursor \in Nat /\ first_nonopt \in 1 .. Len(order) + 1 /\ cursor < first_nonopt /\ cursor > 0
  BY <1>1 DEF TypeInv, TypeOK, Parsing
<1>3. cursor \in 1 .. Len(order)
  BY <1>1, <1>2
<1>4. \A i \in 1 .. Len(order) : order[i] \in DOMAIN command
  BY ElementOfSeq DEF TypeInv, TypeOK
<1>5. \A k \in DOMAIN command : command[k] \in Argument
  BY <1>1, TypesOfInv, ElementOfSeq DEF TypeInv, ParserTypes
<1>6. \A a \in Argument : /\ a.text \in Text /\ a.kind \in {"word", "end", "flag"}
                          /\ a.kind = "flag" => a.key \in Name /\ a.value \in Text \cup {NULL}
  BY DEF Argument, FlagArgument
<1>7. QED
  BY <1>1, <1>2, <1>3, <1>4, <1>5, <1>6 DEF Arg

LEMMA BeginTypes == ASSUME TypeInv, Begin PROVE TypeInv'
<1>1. Len(command) \in Nat /\ DOMAIN command = 1 .. Len(command)
  BY TypesOfInv DEF TypeInv
<1>2. order' \in Seq(DOMAIN command) /\ Len(order') = Len(command) /\ IsInjective(order')
  BY <1>1 DEF Begin, IsInjective
<1>3. cursor' \in 1 .. Len(command) + 1 /\ first_nonopt' \in 1 .. Len(command) + 1
      /\ cursor' <= first_nonopt'
  BY <1>1 DEF Begin
<1>4. parses' \in 0 .. MaxParses
  BY ParserAssumption DEF Begin, TypeInv, TypeOK
<1>5. mode' \in SettingMode /\ pc' \in Recursive
  BY DEF Begin, SettingMode, Recursive
<1>6. Positions'
  BY <1>2, <1>3 DEF Positions, Begin, fixedVars
<1>7. LibraryFlags'
  BY DEF Begin, TypeInv, LibraryFlags, Registered
<1>8. TypeOK'
  BY <1>2, <1>3, <1>4, <1>5 DEF Begin, TypeInv, TypeOK, fixedVars
<1>9. QED
  BY <1>6, <1>7, <1>8 DEF TypeInv

LEMMA ProcessStageTypes == ASSUME TypeInv, ProcessStage PROVE TypeInv'
<1>1. StackType' /\ exited' \in BOOLEAN
  <2>1. pc \in Recursive /\ flags[pc].current \in Value
    BY RegisteredType, TypesOfInv, ParserAssumption
       DEF ProcessStage, TypeInv, LibraryFlags, ParserTypes
  <2>2. <<>> \in Seq(Frame) /\ Len(<<>>) <= MaxDepth
    BY ParserAssumption
  <2>3. QED
    BY <2>1, <2>2, CallType DEF ProcessStage
<1>2. pc' \in Recursive \cup {"argv"} /\ Scanning
  BY DEF ProcessStage, Stage, Recursive, Scanning
<1>3. Positions'
  BY <1>2 DEF ProcessStage, TypeInv, Positions, parserVars, fixedVars
<1>4. LibraryFlags'
  BY DEF ProcessStage, TypeInv, LibraryFlags, Registered
<1>5. TypeOK'
  BY <1>1, <1>2 DEF ProcessStage, TypeInv, TypeOK, StackType, parserVars, fixedVars
<1>6. QED
  BY <1>3, <1>4, <1>5 DEF TypeInv

LEMMA ProgramArgumentTypes == ASSUME TypeInv, ProgramArgument PROVE TypeInv'
<1>1. Parsing
  BY DEF ProgramArgument
<1>2. order \in Seq(DOMAIN command) /\ cursor \in 1 .. Len(order) /\ IsInjective(order)
  BY <1>1, ArgType DEF TypeInv, TypeOK
<1>3. order' \in Seq(DOMAIN command) /\ Len(order') = Len(order) /\ IsInjective(order')
  BY <1>2, MovedToEnd, MovedStaysInjective DEF ProgramArgument, Permute
<1>4. first_nonopt' \in 1 .. Len(command) + 1 /\ cursor' <= first_nonopt' /\ cursor' = cursor
  BY <1>1, ArgType DEF ProgramArgument, Permute
<1>5. Positions'
  BY <1>3, <1>4, <1>1, ArgType DEF Positions, ProgramArgument, Settled, fixedVars
<1>6. LibraryFlags'
  BY DEF ProgramArgument, TypeInv, LibraryFlags, Registered
<1>7. TypeOK'
  BY <1>3, <1>4 DEF ProgramArgument, Settled, TypeInv, TypeOK, fixedVars
<1>8. QED
  BY <1>5, <1>6, <1>7 DEF TypeInv

LEMMA EndOfOptionsTypes == ASSUME TypeInv, EndOfOptions PROVE TypeInv'
<1>1. Parsing
  BY DEF EndOfOptions
<1>2. /\ first_nonopt' \in 1 .. Len(command) + 1 /\ cursor' \in 1 .. Len(command) + 1
      /\ cursor' <= first_nonopt'
  BY <1>1, ArgType DEF EndOfOptions
<1>3. Positions'
  BY <1>1, <1>2, ArgType DEF Positions, EndOfOptions, Settled, fixedVars
<1>4. LibraryFlags'
  BY DEF EndOfOptions, TypeInv, LibraryFlags, Registered
<1>5. TypeOK'
  BY <1>2 DEF EndOfOptions, Settled, TypeInv, TypeOK, fixedVars
<1>6. QED
  BY <1>3, <1>4, <1>5 DEF TypeInv

LEMMA UnknownOptionTypes == ASSUME TypeInv, UnknownOption PROVE TypeInv'
<1> DEFINE arg == SplitArgumentLocked(Arg.key, Arg.value)
<1>1. Parsing /\ Arg.kind = "flag"
  BY DEF UnknownOption
<1>2. arg.key \in Name
  BY <1>1, ArgType, SplitType
<1>3. /\ error_flags' = error_flags \cup {arg.key}
      /\ undefined_names' = undefined_names \cup {arg.key}
      /\ cursor' = cursor + 1
  BY DEF UnknownOption
<1> HIDE DEF arg
<1>4. cursor' \in 1 .. Len(command) + 1 /\ cursor' <= first_nonopt
  BY <1>1, <1>3, ArgType
<1>5. Positions'
  BY <1>1, <1>4, ArgType DEF Positions, UnknownOption, Settled, fixedVars
<1>6. LibraryFlags'
  BY DEF UnknownOption, TypeInv, LibraryFlags, Registered
<1>7. TypeOK'
  BY <1>2, <1>3, <1>4 DEF UnknownOption, Settled, TypeInv, TypeOK, fixedVars
<1>8. QED
  BY <1>5, <1>6, <1>7 DEF TypeInv

LEMMA MissingArgumentTypes == ASSUME TypeInv, MissingArgument PROVE TypeInv'
<1> DEFINE arg == SplitArgumentLocked(Arg.key, Arg.value)
<1>1. Parsing /\ Arg.kind = "flag"
  BY DEF MissingArgument
<1>2. arg.key \in Name
  BY <1>1, ArgType, SplitType
<1>3. error_flags' = error_flags \cup {arg.key} /\ cursor' = first_nonopt
  BY DEF MissingArgument
<1> HIDE DEF arg
<1>4. cursor' \in 1 .. Len(command) + 1 /\ cursor' <= first_nonopt
  BY <1>1, <1>3, ArgType
<1>5. Positions'
  BY <1>1, <1>4, ArgType DEF Positions, MissingArgument, Settled, fixedVars
<1>6. LibraryFlags'
  BY DEF MissingArgument, TypeInv, LibraryFlags, Registered
<1>7. TypeOK'
  BY <1>2, <1>3, <1>4 DEF MissingArgument, Settled, TypeInv, TypeOK, fixedVars
<1>8. QED
  BY <1>5, <1>6, <1>7 DEF TypeInv

(* An option that is processed sets one flag, in the mode of the parse.    *)
LEMMA KnownOptionEffect ==
  ASSUME TypeInv, KnownOption
  PROVE  /\ StackType' /\ exited' \in BOOLEAN
         /\ \E n \in Name, text \in Text : Sets(n, text, mode)
         /\ cursor' \in 1 .. Len(command) + 1 /\ cursor' <= first_nonopt
<1> DEFINE arg    == SplitArgumentLocked(Arg.key, Arg.value)
           inline == arg.value # NULL
           text   == IF inline THEN arg.value ELSE command[order[cursor + 1]].text
<1>1. Parsing /\ Arg.kind = "flag"
  BY DEF KnownOption
<1>2. /\ arg.flag # NULL
      /\ inline \/ cursor + 1 < first_nonopt
      /\ ProcessSingleOptionLocked(arg.flag, text, mode, <<>>)
      /\ cursor' = IF inline THEN cursor + 1 ELSE cursor + 2
  BY DEF KnownOption
<1>3. arg.flag \in Name /\ Registered(arg.flag) /\ arg.value \in Text \cup {NULL}
  BY <1>1, <1>2, ArgType, SplitType
<1>4. text \in Text
  <2>1. CASE inline
    BY <1>3, <2>1
  <2>2. CASE ~inline
    <3>1. cursor + 1 \in 1 .. Len(order)
      BY <1>1, <1>2, <2>2, ArgType
    <3>2. QED
      BY <1>1, <2>2, <3>1, ArgType
  <2>3. QED
    BY <2>1, <2>2
<1>5. cursor' \in 1 .. Len(command) + 1 /\ cursor' <= first_nonopt
  BY <1>1, <1>2, ArgType
<1>6. <<>> \in Seq(Frame) /\ Len(<<>>) <= MaxDepth
  BY ParserAssumption
<1>7. ParserTypes
  BY TypesOfInv DEF TypeInv
<1> HIDE DEF arg, inline, text
<1>8. Sets(arg.flag, text, mode) /\ StackType' /\ exited' \in BOOLEAN
  BY <1>2, <1>3, <1>4, <1>6, <1>7, ProcessEffect DEF ParserTypes
<1>9. QED
  BY <1>3, <1>4, <1>5, <1>8

LEMMA KnownOptionTypes == ASSUME TypeInv, KnownOption PROVE TypeInv'
<1>1. FlagsType' /\ SameNames /\ error_flags' \subseteq Name
  BY KnownOptionEffect, FlagsChange, TypesOfInv DEF TypeInv, ParserTypes
<1>2. Positions'
  BY KnownOptionEffect, ArgType DEF KnownOption, Positions, Settled, fixedVars
<1>3. LibraryFlags'
  BY <1>1, SameNamesKeepLibrary DEF TypeInv
<1>4. TypeOK'
  BY <1>1, KnownOptionEffect
     DEF KnownOption, Settled, TypeInv, TypeOK, FlagsType, StackType, fixedVars
<1>5. QED
  BY <1>2, <1>3, <1>4 DEF TypeInv

LEMMA ArgumentsDoneTypes ==
  ASSUME TypeInv, NEW remove_flags \in BOOLEAN, ArgumentsDone(remove_flags)
  PROVE  TypeInv'
<1>1. /\ Len(order) \in Nat /\ order \in Seq(DOMAIN command) /\ IsInjective(order)
      /\ DOMAIN order = 1 .. Len(order) /\ Len(command) \in Nat
      /\ first_nonopt \in Nat /\ first_nonopt >= 1
  BY TypesOfInv DEF TypeInv, TypeOK
<1>2. order' \in Seq(DOMAIN command) /\ IsInjective(order')
  <2>1. CASE ~remove_flags
    BY <1>1, <2>1 DEF ArgumentsDone
  <2>2. CASE remove_flags
    <3>1. order' = SubSeq(order, first_nonopt, Len(order))
      BY <2>2 DEF ArgumentsDone
    <3>2. \A i \in first_nonopt .. Len(order) : order[i] \in DOMAIN command
      BY <1>1, ElementOfSeq
    <3>3. /\ order' \in Seq(DOMAIN command)
          /\ Len(order') = IF first_nonopt <= Len(order) THEN Len(order) - first_nonopt + 1 ELSE 0
          /\ \A i \in 1 .. Len(order) - first_nonopt + 1 : order'[i] = order[first_nonopt + i - 1]
      BY <1>1, <3>1, <3>2, SubSeqProperties
    <3>4. DOMAIN order' = 1 .. Len(order')
      BY <3>3, LenProperties
    <3>5. ASSUME NEW i \in DOMAIN order', NEW j \in DOMAIN order', order'[i] = order'[j]
          PROVE  i = j
      <4> DEFINE n == Len(order)
                 m == Len(order')
      <4>0. /\ n \in Nat /\ m = (IF first_nonopt <= n THEN n - first_nonopt + 1 ELSE 0)
            /\ i \in 1 .. m /\ j \in 1 .. m
            /\ DOMAIN order = 1 .. n /\ first_nonopt \in Nat /\ first_nonopt >= 1
        BY <1>1, <3>3, <3>4
      <4> HIDE DEF n, m
      <4>1. /\ i \in 1 .. n - first_nonopt + 1 /\ j \in 1 .. n - first_nonopt + 1
            /\ first_nonopt + i - 1 \in DOMAIN order /\ first_nonopt + j - 1 \in DOMAIN order
        BY ONLY <4>0
      <4>2. order[first_nonopt + i - 1] = order[first_nonopt + j - 1]
        BY <3>3, <3>5, <4>1 DEF n
      <4>3. first_nonopt + i - 1 = first_nonopt + j - 1
        BY <1>1, <4>1, <4>2 DEF IsInjective
      <4>4. QED
        BY <1>1, <4>1, <4>3
    <3>6. QED
      BY <3>3, <3>5 DEF IsInjective
  <2>3. QED
    BY <2>1, <2>2
<1>3. first_nonopt' \in 1 .. Len(command) + 1
  BY <1>1 DEF ArgumentsDone, TypeInv, TypeOK
<1>4. Positions'
  BY DEF ArgumentsDone, Positions, Scanning, Recursive
<1>5. LibraryFlags'
  BY DEF ArgumentsDone, TypeInv, LibraryFlags, Registered
<1>6. TypeOK'
  BY <1>2, <1>3 DEF ArgumentsDone, Settled, TypeInv, TypeOK, fixedVars
<1>7. QED
  BY <1>4, <1>5, <1>6 DEF TypeInv

LEMMA AfterwardsTypes ==
  ASSUME TypeInv,
         \/ \E do_report \in BOOLEAN : HandleCommandLineHelpFlags(do_report)
         \/ ValidateUnmodifiedFlags
         \/ ReportErrors
  PROVE  TypeInv'
<1>1. ASSUME NEW do_report \in BOOLEAN, HandleCommandLineHelpFlags(do_report) PROVE TypeInv'
  BY <1>1 DEF HandleCommandLineHelpFlags, Settled, parserVars, fixedVars, TypeInv, TypeOK,
              Positions, Scanning, Recursive, LibraryFlags, Registered
<1>2. CASE ValidateUnmodifiedFlags
  BY <1>2 DEF ValidateUnmodifiedFlags, Settled, fixedVars, TypeInv, TypeOK,
              Positions, Scanning, Recursive, LibraryFlags, Registered
<1>3. CASE ReportErrors
  <2>1. error_flags' \subseteq Name /\ exited' \in BOOLEAN
    BY <1>3 DEF ReportErrors, TypeInv, TypeOK
  <2>2. QED
    BY <1>3, <2>1 DEF ReportErrors, Settled, fixedVars, TypeInv, TypeOK,
                      Positions, Scanning, Recursive, LibraryFlags, Registered
<1>4. QED
  BY <1>1, <1>2, <1>3

LEMMA RegisterLateTypes ==
  ASSUME TypeInv, NEW n \in Late, RegisterLate(n)
  PROVE  TypeInv'
<1>1. n \in Name /\ Fresh[n] \in Value
  BY FlagAssumption, ParserAssumption
<1>2. NewFlag(Fresh[n]) \in Flag /\ NewFlag(Fresh[n]) # NULL
  BY <1>1, NewFlagType, FlagAssumption
<1>3. flags' = [flags EXCEPT ![n] = NewFlag(Fresh[n])]
  BY DEF RegisterLate
<1>4. flags' \in [Name -> Flag \cup {NULL}]
  BY <1>2, <1>3 DEF TypeInv, TypeOK
<1>5. LibraryFlags'
  <2> SUFFICES ASSUME NEW m \in Recursive \cup {"undefok"} PROVE flags'[m] # NULL
    BY DEF LibraryFlags, Registered
  <2>1. m \in Name /\ flags[m] # NULL
    BY ParserAssumption DEF TypeInv, LibraryFlags, Registered
  <2>2. QED
    BY <1>2, <1>3, <2>1 DEF TypeInv, TypeOK
<1>6. Positions'
  BY DEF RegisterLate, Positions, Scanning, Recursive
<1>7. TypeOK'
  BY <1>4 DEF RegisterLate, parserVars, fixedVars, TypeInv, TypeOK
<1>8. QED
  BY <1>5, <1>6, <1>7 DEF TypeInv

(* A call of the API sets one flag too, in the mode it was given.          *)
LEMMA SetOptionEffect ==
  ASSUME ParserTypes, NEW c \in Calls, SetCommandLineOptionWithMode(c.name, c.text, c.mode)
  PROVE  /\ c.mode \in SettingMode /\ mode' = c.mode
         /\ \E n \in Name, text \in Text : Sets(n, text, mode')
         /\ StackType' /\ exited' \in BOOLEAN
<1> DEFINE n == FindFlagLocked(c.name)
<1>1. c.name \in Name /\ c.text \in Text /\ c.mode \in SettingMode
  BY ParserAssumption
<1>2. /\ n # NULL /\ mode' = c.mode
      /\ ProcessSingleOptionLocked(n, c.text, c.mode, <<>>)
  BY DEF SetCommandLineOptionWithMode
<1>3. n \in Name /\ Registered(n)
  BY <1>1, <1>2, FindType
<1>4. <<>> \in Seq(Frame) /\ Len(<<>>) <= MaxDepth
  BY ParserAssumption
<1> HIDE DEF n
<1>5. Sets(n, c.text, c.mode) /\ StackType' /\ exited' \in BOOLEAN
  BY <1>1, <1>2, <1>3, <1>4, ProcessEffect DEF ParserTypes
<1>6. QED
  BY <1>1, <1>2, <1>3, <1>5

LEMMA SetOptionTypes ==
  ASSUME TypeInv, NEW c \in Calls, SetCommandLineOptionWithMode(c.name, c.text, c.mode)
  PROVE  TypeInv'
<1>1. ParserTypes
  BY TypesOfInv DEF TypeInv
<1>2. /\ mode' \in SettingMode /\ StackType' /\ exited' \in BOOLEAN
      /\ \E n \in Name, text \in Text : Sets(n, text, mode')
  BY <1>1, SetOptionEffect
<1>3. FlagsType' /\ SameNames /\ error_flags' \subseteq Name
  BY <1>1, <1>2, FlagsChange DEF ParserTypes
<1>4. calls' \in 0 .. MaxCalls
  BY ParserAssumption DEF SetCommandLineOptionWithMode, TypeInv, TypeOK
<1>5. Positions'
  BY DEF SetCommandLineOptionWithMode, Positions, Scanning, Recursive
<1>6. LibraryFlags'
  BY <1>3, SameNamesKeepLibrary DEF TypeInv
<1>7. TypeOK'
  BY <1>2, <1>3, <1>4
     DEF SetCommandLineOptionWithMode, TypeInv, TypeOK, FlagsType, StackType, fixedVars
<1>8. QED
  BY <1>5, <1>6, <1>7 DEF TypeInv

LEMMA NextTypes == TypeInv /\ [Next]_vars => TypeInv'
<1> SUFFICES ASSUME TypeInv, [Next]_vars PROVE TypeInv'
  OBVIOUS
<1>1. CASE CallStep
  BY <1>1, CallStepEffect, CallKeepsTypes, TypesOfInv DEF TypeInv
<1>2. CASE ProgramArgument \/ EndOfOptions \/ UnknownOption \/ MissingArgument \/ KnownOption
  BY <1>2, ProgramArgumentTypes, EndOfOptionsTypes, UnknownOptionTypes,
     MissingArgumentTypes, KnownOptionTypes
<1>3. ASSUME NEW remove_flags \in BOOLEAN, ArgumentsDone(remove_flags) PROVE TypeInv'
  BY <1>3, ArgumentsDoneTypes
<1>4. ASSUME NEW n \in Late, RegisterLate(n) PROVE TypeInv'
  BY <1>4, RegisterLateTypes
<1>5. ASSUME NEW c \in Calls, SetCommandLineOptionWithMode(c.name, c.text, c.mode) PROVE TypeInv'
  BY <1>5, SetOptionTypes
<1>6. CASE UNCHANGED vars
  BY <1>6 DEF vars, parserVars, fixedVars, TypeInv, TypeOK, Positions, Scanning,
              LibraryFlags, Registered
<1>7. QED
  BY <1>1, <1>2, <1>3, <1>4, <1>5, <1>6, BeginTypes, ProcessStageTypes, AfterwardsTypes
     DEF Next, ParseStep, Finished

LEMMA TypeInvHolds == Spec => []TypeInv
BY InitTypes, NextTypes, PTL DEF Spec

(* Whatever the command line, its flag files and the environment hold, the *)
(* variables keep their types, the positions in argv stay distinct and in  *)
(* range, and no argument is duplicated.                                   *)
THEOREM TypeCorrect == Spec => []TypeOK
<1>1. TypeInv => TypeOK
  BY DEF TypeInv
<1>2. QED
  BY <1>1, TypeInvHolds, PTL

-----------------------------------------------------------------------------
(* The mode a call was made with holds at every depth.                     *)
LEMMA SetsYields ==
  ASSUME FlagsType, NEW m \in SettingMode, m # "SET_FLAGS_VALUE",
         NEW k \in Name, NEW text \in Text, Sets(k, text, m),
         NEW n \in Name, Registered(n), UpdateModifiedBit(flags[n]).modified
  PROVE  flags'[n].current = flags[n].current
<1>1. flags[n] \in Flag
  BY RegisteredType
<1>2. flags' = [flags EXCEPT ![k] = SetFlagLocked(k, flags[k], text, m)]
  BY DEF Sets
<1>3. CASE n = k
  BY <1>1, <1>2, <1>3, OtherModesYield DEF FlagsType
<1>4. CASE n # k
  BY <1>2, <1>4 DEF FlagsType
<1>5. QED
  BY <1>3, <1>4

LEMMA ModeReaches ==
  ASSUME TypeInv, [Next]_vars, mode' # "SET_FLAGS_VALUE",
         NEW n \in Name, Registered(n), UpdateModifiedBit(flags[n]).modified
  PROVE  flags'[n].current = flags[n].current
<1>1. ParserTypes /\ FlagsType /\ mode \in SettingMode
  BY TypesOfInv DEF TypeInv, ParserTypes
<1>2. ASSUME mode' \in SettingMode, \E k \in Name, text \in Text : Sets(k, text, mode')
      PROVE  flags'[n].current = flags[n].current
  BY <1>1, <1>2, SetsYields
<1>3. CASE CallStep
  <2>1. CallEffect /\ mode' = mode
    BY <1>1, <1>3, CallStepEffect DEF CallEffect, Unmoved
  <2>2. QED
    BY <1>1, <1>2, <2>1 DEF CallEffect, LeavesFlags
<1>4. CASE KnownOption
  <2>1. mode' = mode
    BY <1>4 DEF KnownOption, Settled
  <2>2. QED
    BY <1>1, <1>2, <1>4, <2>1, KnownOptionEffect
<1>5. CASE Begin \/ ProcessStage \/ ProgramArgument \/ EndOfOptions \/ UnknownOption
           \/ MissingArgument \/ ValidateUnmodifiedFlags \/ ReportErrors \/ UNCHANGED vars
  BY <1>5 DEF Begin, ProcessStage, ProgramArgument, EndOfOptions, UnknownOption,
              MissingArgument, ValidateUnmodifiedFlags, ReportErrors, vars
<1>6. ASSUME NEW b \in BOOLEAN, ArgumentsDone(b) \/ HandleCommandLineHelpFlags(b)
      PROVE  flags'[n].current = flags[n].current
  BY <1>6 DEF ArgumentsDone, HandleCommandLineHelpFlags
<1>7. ASSUME NEW k \in Late, RegisterLate(k)
      PROVE  flags'[n].current = flags[n].current
  BY <1>1, <1>7 DEF RegisterLate, FlagsType, Registered
<1>8. ASSUME NEW c \in Calls, SetCommandLineOptionWithMode(c.name, c.text, c.mode)
      PROVE  flags'[n].current = flags[n].current
  BY <1>1, <1>2, <1>8, SetOptionEffect
<1>9. QED
  BY <1>3, <1>4, <1>5, <1>6, <1>7, <1>8 DEF Next, ParseStep, Finished

(* Through any nesting of flag files and environment lists, a call in      *)
(* SET_FLAG_IF_DEFAULT or SET_FLAGS_DEFAULT mode leaves every value alone  *)
(* that was set or assigned before.                                        *)
THEOREM ModeReachesEveryOptionHolds == Spec => ModeReachesEveryOption
<1>1. TypeInv /\ [Next]_vars =>
        [mode' # "SET_FLAGS_VALUE" =>
           \A n \in Name : Registered(n) /\ UpdateModifiedBit(flags[n]).modified
              => flags'[n].current = flags[n].current]_vars
  BY ModeReaches
<1>2. QED
  BY <1>1, TypeInvHolds, PTL DEF Spec, ModeReachesEveryOption

-----------------------------------------------------------------------------
(* The inductive invariant behind ReturnMeansValid.  During a parse every  *)
(* flag is valid, or as it was when the parse began, or has an error on    *)
(* record; the error cannot be excused, because only names that are not    *)
(* registered are.  Once ValidateUnmodifiedFlags is over, a flag that is   *)
(* as it was and invalid was modified before.                              *)
Valid(n)   == Validate(n, flags[n], flags[n].current)
Kept(n)    == flags[n] = before[n]
Blamed(n)  == n \in error_flags

Fate(n) ==
  /\ Scanning \/ pc \in {"help", "validate"} => Valid(n) \/ Kept(n) \/ Blamed(n)
  /\ pc = "report" => Valid(n) \/ (Kept(n) /\ flags[n].modified) \/ Blamed(n)
  /\ pc = "done" /\ ~exited => Valid(n) \/ (Kept(n) /\ flags[n].modified)

ParseInv ==
  /\ pc \notin {"ready", "done"} => mode = "SET_FLAGS_VALUE"
  /\ pc \in {"help", "validate", "report", "done"} => stack = <<>>
  /\ pc # "ready" =>
       \A n \in Name : Registered(n) => n \notin undefined_names /\ Fate(n)

HistoryInv == TypeInv /\ ParseInv

historyVars == <<vars, before, settled, disturbed>>

LEMMA InitHistory == HistoryInit => HistoryInv
BY InitTypes DEF HistoryInit, HistoryInv, Init, ParseInv

(* One flag set in the course of a parse.                                  *)
LEMMA SetsFate ==
  ASSUME FlagsType, UNCHANGED before,
         NEW k \in Name, NEW text \in Text, Sets(k, text, "SET_FLAGS_VALUE"),
         NEW n \in Name, Registered(n), Valid(n) \/ Kept(n) \/ Blamed(n)
  PROVE  Valid(n)' \/ Kept(n)' \/ Blamed(n)'
<1>1. flags[n] \in Flag /\ flags[k] \in Flag
  BY RegisteredType DEF Sets
<1>2. flags' = [flags EXCEPT ![k] = SetFlagLocked(k, flags[k], text, "SET_FLAGS_VALUE")]
  BY DEF Sets
<1>3. CASE n = k
  <2>1. CASE SetFlagSucceeds(k, flags[k], text, "SET_FLAGS_VALUE")
    BY <1>1, <1>2, <1>3, <2>1, SetValueStoresValid DEF FlagsType, Valid
  <2>2. CASE ~SetFlagSucceeds(k, flags[k], text, "SET_FLAGS_VALUE")
    BY <1>3, <2>2 DEF Sets, Blamed
  <2>3. QED
    BY <2>1, <2>2
<1>4. CASE n # k
  <2>1. flags'[n] = flags[n] /\ error_flags \subseteq error_flags'
    BY <1>2, <1>4 DEF FlagsType, Sets
  <2>2. QED
    BY <2>1 DEF Valid, Kept, Blamed
<1>5. QED
  BY <1>3, <1>4

LEMMA FlagsFate ==
  ASSUME FlagsType, UNCHANGED before,
         LeavesFlags \/ \E k \in Name, text \in Text : Sets(k, text, "SET_FLAGS_VALUE"),
         NEW n \in Name, Registered(n), Valid(n) \/ Kept(n) \/ Blamed(n)
  PROVE  Valid(n)' \/ Kept(n)' \/ Blamed(n)'
<1>1. CASE LeavesFlags
  BY <1>1 DEF LeavesFlags, Valid, Kept, Blamed
<1>2. ASSUME NEW k \in Name, NEW text \in Text, Sets(k, text, "SET_FLAGS_VALUE")
      PROVE  Valid(n)' \/ Kept(n)' \/ Blamed(n)'
  BY <1>2, SetsFate
<1>3. QED
  BY <1>1, <1>2

(* A step between two arguments, or within the processing of one.          *)
LEMMA ScanningKeepsInv ==
  ASSUME ParseInv, FlagsType, SameNames, Scanning, UNCHANGED <<before, mode>>,
         LeavesFlags \/ \E k \in Name, text \in Text : Sets(k, text, "SET_FLAGS_VALUE"),
         FindsUndefined, Scanning' \/ (pc' = "help" /\ stack' = <<>>)
  PROVE  ParseInv'
<1>1. mode = "SET_FLAGS_VALUE" /\ pc # "ready"
  BY DEF ParseInv, Scanning, Recursive
<1>2. ASSUME NEW n \in Name, Registered(n)'
      PROVE  n \notin undefined_names' /\ Fate(n)'
  <2>1. Registered(n)
    BY <1>2 DEF SameNames, Registered
  <2>2. n \notin undefined_names /\ (Valid(n) \/ Kept(n) \/ Blamed(n))
    BY <1>1, <2>1 DEF ParseInv, Fate
  <2>3. n \notin undefined_names'
    BY <2>1, <2>2 DEF FindsUndefined
  <2>4. Valid(n)' \/ Kept(n)' \/ Blamed(n)'
    BY <2>1, <2>2, FlagsFate
  <2>5. QED
    BY <2>3, <2>4 DEF Fate, Scanning, Recursive
<1>3. QED
  BY <1>1, <1>2 DEF ParseInv, Scanning, Recursive

LEMMA BeginKeepsInv ==
  ASSUME ParseInv, Begin, before' = flags
  PROVE  ParseInv'
<1>1. /\ pc' = "flagfile" /\ mode' = "SET_FLAGS_VALUE" /\ undefined_names' = {}
      /\ flags' = flags
  BY DEF Begin
<1>2. \A n \in Name : Fate(n)'
  BY <1>1 DEF Fate, Kept, Scanning, Recursive
<1>3. QED
  BY <1>1, <1>2 DEF ParseInv

LEMMA CallKeepsInv ==
  ASSUME TypeInv, ParseInv, CallStep, UNCHANGED before
  PROVE  ParseInv'
<1>1. ParserTypes /\ stack # <<>>
  BY TypesOfInv
     DEF TypeInv, CallStep, Return, NextFile, CommentLine, FilenameLine, FlagLine, NextEnv, Calling
<1>2. CallEffect /\ pc' = pc /\ mode' = mode
  BY <1>1, CallStepEffect DEF CallEffect, Unmoved
<1>3. pc = "ready" \/ Scanning
  BY <1>1 DEF ParseInv, TypeInv, TypeOK, Scanning, Recursive
<1>4. CASE pc = "ready"
  BY <1>2, <1>4 DEF ParseInv
<1>5. CASE Scanning
  <2>1. mode = "SET_FLAGS_VALUE" /\ Scanning'
    BY <1>2, <1>5 DEF ParseInv, Scanning, Recursive
  <2>2. SameNames /\ FlagsType
    BY <1>1, <1>2, FlagsChange DEF CallEffect, ParserTypes
  <2>3. QED
    BY <1>2, <1>5, <2>1, <2>2, ScanningKeepsInv DEF CallEffect
<1>6. QED
  BY <1>3, <1>4, <1>5

LEMMA ArgumentKeepsInv ==
  ASSUME TypeInv, ParseInv, UNCHANGED before,
         \/ ProcessStage
         \/ ProgramArgument \/ EndOfOptions \/ UnknownOption \/ MissingArgument \/ KnownOption
         \/ \E remove_flags \in BOOLEAN : ArgumentsDone(remove_flags)
  PROVE  ParseInv'
<1>1. ParserTypes /\ FlagsType /\ error_flags \subseteq Name
  BY TypesOfInv DEF TypeInv, ParserTypes
<1>2. CASE ProcessStage
  <2>1. Scanning /\ Scanning' /\ pc \in Recursive
    BY <1>2 DEF ProcessStage, Stage, Scanning, Recursive
  <2>2. UNCHANGED <<flags, error_flags, undefined_names, mode>>
    BY <1>2 DEF ProcessStage, parserVars
  <2>3. LeavesFlags /\ FindsUndefined /\ SameNames
    BY <2>2 DEF LeavesFlags, FindsUndefined, SameNames
  <2>4. QED
    BY <1>1, <2>1, <2>2, <2>3, ScanningKeepsInv
<1>3. CASE ProgramArgument \/ EndOfOptions
  <2>1. Scanning /\ Scanning' /\ UNCHANGED <<flags, error_flags, undefined_names, mode>>
    BY <1>3 DEF ProgramArgument, EndOfOptions, Parsing, Settled, Scanning
  <2>2. LeavesFlags /\ FindsUndefined /\ SameNames
    BY <2>1 DEF LeavesFlags, FindsUndefined, SameNames
  <2>3. QED
    BY <1>1, <2>1, <2>2, ScanningKeepsInv
<1>4. CASE UnknownOption
  <2> DEFINE arg == SplitArgumentLocked(Arg.key, Arg.value)
  <2>1. arg.key \in Name /\ ~Registered(arg.key)
    BY <1>4, ArgType, SplitType DEF UnknownOption
  <2>2. /\ error_flags' = error_flags \cup {arg.key}
        /\ undefined_names' = undefined_names \cup {arg.key}
        /\ UNCHANGED <<flags, mode, pc>> /\ pc = "argv"
    BY <1>4 DEF UnknownOption, Settled, Parsing
  <2> HIDE DEF arg
  <2>3. LeavesFlags /\ FindsUndefined /\ SameNames /\ Scanning /\ Scanning'
    BY <2>1, <2>2 DEF LeavesFlags, FindsUndefined, SameNames, Scanning
  <2>4. QED
    BY <1>1, <2>2, <2>3, ScanningKeepsInv
<1>5. CASE MissingArgument
  <2> DEFINE arg == SplitArgumentLocked(Arg.key, Arg.value)
  <2>1. arg.key \in Name
    BY <1>5, ArgType, SplitType DEF MissingArgument
  <2>2. /\ error_flags' = error_flags \cup {arg.key}
        /\ UNCHANGED <<flags, mode, pc, undefined_names>> /\ pc = "argv"
    BY <1>5 DEF MissingArgument, Settled, Parsing
  <2> HIDE DEF arg
  <2>3. LeavesFlags /\ FindsUndefined /\ SameNames /\ Scanning /\ Scanning'
    BY <2>1, <2>2 DEF LeavesFlags, FindsUndefined, SameNames, Scanning
  <2>4. QED
    BY <1>1, <2>2, <2>3, ScanningKeepsInv
<1>6. CASE KnownOption
  <2>1. UNCHANGED <<mode, pc, undefined_names>> /\ pc = "argv"
    BY <1>6 DEF KnownOption, Settled, Parsing
  <2>2. mode = "SET_FLAGS_VALUE" /\ Scanning /\ Scanning' /\ FindsUndefined
    BY <2>1 DEF ParseInv, Scanning, FindsUndefined
  <2>3. \E n \in Name, text \in Text : Sets(n, text, "SET_FLAGS_VALUE")
    BY <1>6, <2>2, KnownOptionEffect
  <2>4. SameNames
    BY <1>1, <2>3, FlagsChange DEF SettingMode
  <2>5. QED
    BY <1>1, <2>1, <2>2, <2>3, <2>4, ScanningKeepsInv
<1>7. ASSUME NEW remove_flags \in BOOLEAN, ArgumentsDone(remove_flags) PROVE ParseInv'
  <2>1. /\ Scanning /\ pc' = "help" /\ stack' = <<>>
        /\ UNCHANGED <<flags, error_flags, undefined_names, mode>>
    BY <1>7 DEF ArgumentsDone, Settled, Scanning
  <2>2. LeavesFlags /\ FindsUndefined /\ SameNames
    BY <2>1 DEF LeavesFlags, FindsUndefined, SameNames
  <2>3. QED
    BY <1>1, <2>1, <2>2, ScanningKeepsInv
<1>8. QED
  BY <1>2, <1>3, <1>4, <1>5, <1>6, <1>7

LEMMA ReportKeepsInv ==
  ASSUME TypeInv, ParseInv, UNCHANGED before,
         \/ \E do_report \in BOOLEAN : HandleCommandLineHelpFlags(do_report)
         \/ ValidateUnmodifiedFlags
         \/ ReportErrors
  PROVE  ParseInv'
<1>1. ASSUME NEW do_report \in BOOLEAN, HandleCommandLineHelpFlags(do_report) PROVE ParseInv'
  <2>1. /\ pc = "help" /\ pc' = "validate"
        /\ UNCHANGED <<flags, error_flags, undefined_names, stack, mode>>
    BY <1>1 DEF HandleCommandLineHelpFlags, Settled, parserVars
  <2>2. QED
    BY <2>1 DEF ParseInv, Fate, Valid, Kept, Blamed, Registered, Scanning, Recursive
<1>2. CASE ValidateUnmodifiedFlags
  <2>1. /\ pc = "validate" /\ pc' = "report"
        /\ error_flags' = error_flags \cup
             {n \in Name : Registered(n) /\ ~flags[n].modified /\ ~Valid(n)}
        /\ UNCHANGED <<flags, undefined_names, stack, mode>>
    BY <1>2 DEF ValidateUnmodifiedFlags, Settled, Valid
  <2>2. ASSUME NEW n \in Name, Registered(n)'
        PROVE  n \notin undefined_names' /\ Fate(n)'
    <3>1. Registered(n) /\ n \notin undefined_names /\ (Valid(n) \/ Kept(n) \/ Blamed(n))
      BY <2>1, <2>2 DEF ParseInv, Fate, Registered
    <3>2. Valid(n)' \/ (Kept(n)' /\ flags'[n].modified) \/ Blamed(n)'
      BY <2>1, <3>1 DEF Valid, Kept, Blamed
    <3>3. QED
      BY <2>1, <3>1, <3>2 DEF Fate, Scanning, Recursive
  <2>3. QED
    BY <2>1, <2>2 DEF ParseInv
<1>3. CASE ReportErrors
  <2>1. /\ pc = "report" /\ pc' = "done"
        /\ UNCHANGED <<flags, undefined_names, stack, mode>>
    BY <1>3 DEF ReportErrors, Settled
  <2>2. ASSUME NEW n \in Name, n \in error_flags, n \notin undefined_names
        PROVE  exited'
    <3> DEFINE undefok == Entries[flags["undefok"].current]
    <3>1. CASE undefok = NULL
      BY <1>3, <3>1 DEF ReportErrors
    <3>2. CASE undefok # NULL
      <4>1. Excused(undefok) \subseteq undefined_names
        BY DEF Excused
      <4>2. /\ error_flags' = (error_flags \ Excused(undefok))
                                \ (IF reparsing THEN undefined_names ELSE {})
            /\ exited' = (error_flags' # {})
        BY <1>3, <3>2 DEF ReportErrors
      <4> HIDE DEF undefok
      <4>3. n \in error_flags'
        BY <2>2, <4>1, <4>2
      <4>4. QED
        BY <4>2, <4>3
    <3>3. QED
      BY <3>1, <3>2
  <2>3. ASSUME NEW n \in Name, Registered(n)'
        PROVE  n \notin undefined_names' /\ Fate(n)'
    <3>1. /\ Registered(n) /\ n \notin undefined_names
          /\ Valid(n) \/ (Kept(n) /\ flags[n].modified) \/ Blamed(n)
      BY <2>1, <2>3 DEF ParseInv, Fate, Registered
    <3>2. Valid(n)' \/ (Kept(n)' /\ flags'[n].modified) \/ exited'
      BY <2>1, <2>2, <3>1 DEF Valid, Kept, Blamed
    <3>3. QED
      BY <2>1, <3>1, <3>2 DEF Fate, Scanning, Recursive
  <2>4. QED
    BY <2>1, <2>3 DEF ParseInv
<1>4. QED
  BY <1>1, <1>2, <1>3

LEMMA NextHistory == HistoryInv /\ [HistoryNext]_historyVars => HistoryInv'
<1> SUFFICES ASSUME HistoryInv, [HistoryNext]_historyVars PROVE HistoryInv'
  OBVIOUS
<1>1. TypeInv /\ ParseInv /\ [Next]_vars
  BY DEF HistoryInv, HistoryNext, historyVars
<1>2. TypeInv'
  BY <1>1, NextTypes
<1>3. CASE UNCHANGED historyVars \/ (Next /\ UNCHANGED vars)
  <2>1. UNCHANGED <<vars, before>>
    BY <1>3 DEF HistoryNext, historyVars, vars
  <2>2. ParseInv'
    BY <1>1, <2>1 DEF vars, parserVars, ParseInv, Fate, Valid, Kept, Blamed, Registered, Scanning
  <2>3. QED
    BY <1>2, <2>2 DEF HistoryInv
<1>4. CASE HistoryNext /\ Begin
  <2>1. parses' # parses
    BY <1>1, <1>4 DEF Begin, TypeInv, TypeOK
  <2>2. before' = flags
    BY <1>4, <2>1 DEF HistoryNext
  <2>3. QED
    BY <1>1, <1>2, <1>4, <2>2, BeginKeepsInv DEF HistoryInv
<1>5. CASE HistoryNext /\ ParseStep
  <2>1. parses' = parses
    BY <1>5 DEF ParseStep, CallStep, Return, NextFile, CommentLine, FilenameLine, FlagLine,
                NextEnv, Unmoved, ProcessStage, ProgramArgument, EndOfOptions, UnknownOption,
                MissingArgument, KnownOption, ArgumentsDone, HandleCommandLineHelpFlags,
                ValidateUnmodifiedFlags, ReportErrors, Settled
  <2>2. UNCHANGED before
    BY <1>5, <2>1 DEF HistoryNext
  <2>3. ParseInv'
    BY <1>1, <1>5, <2>2, CallKeepsInv, ArgumentKeepsInv, ReportKeepsInv DEF ParseStep
  <2>4. QED
    BY <1>2, <2>3 DEF HistoryInv
<1>6. CASE (\E n \in Late : RegisterLate(n))
           \/ \E c \in Calls : SetCommandLineOptionWithMode(c.name, c.text, c.mode)
  <2>1. pc' = "ready"
    BY <1>6 DEF RegisterLate, SetCommandLineOptionWithMode
  <2>2. QED
    BY <1>2, <2>1 DEF HistoryInv, ParseInv
<1>7. QED
  BY <1>3, <1>4, <1>5, <1>6 DEF HistoryNext, Next, Finished

(* A parse that returns has left every flag valid, whatever argv, files and *)
(* environment said, except those that were set to an invalid value before *)
(* and that it did not touch.                                              *)
THEOREM ReturnMeansValidHolds == HistorySpec => []ReturnMeansValid
<1>1. HistoryInv => ReturnMeansValid
  BY DEF HistoryInv, ParseInv, Fate, Valid, Kept, ReturnMeansValid
<1>2. QED
  BY <1>1, InitHistory, NextHistory, PTL DEF HistorySpec, historyVars
-----------------------------------------------------------------------------
(* ValuesAfter is the function its recursive definition describes.         *)
LEMMA ValuesAfterDef ==
  ASSUME NEW n \in Nat, NEW needs \in [1 .. n -> BOOLEAN]
  PROVE  LET taken == ValuesAfter(needs)
         IN  \A k \in 0 .. n : /\ taken[k] \in BOOLEAN
                               /\ taken[k] <=> k > 1 /\ needs[k - 1] /\ ~taken[k - 1]
<1> DEFINE Def(t) == t = [k \in 0 .. n |-> k > 1 /\ needs[k - 1] /\ ~t[k - 1]]
           G == [k \in 1 .. n |-> [b \in BOOLEAN |-> k > 1 /\ needs[k - 1] /\ ~b]]
<1>1. Len(needs) = n
  BY LenProperties
<1>2. ASSUME NEW k \in 1 .. n, NEW b \in BOOLEAN
      PROVE  (k > 1 /\ needs[k - 1] /\ ~b) \in BOOLEAN
  OBVIOUS
<1>3. G \in [1 .. n -> [BOOLEAN -> BOOLEAN]]
  BY <1>2
<1> HIDE DEF G
<1>4. PICK f \in [0 .. n -> BOOLEAN] : Follows(f, n, FALSE, G)
  <2>1. \A c \in BOOLEAN : \E f \in [0 .. n -> BOOLEAN] : Follows(f, n, c, G)
    BY <1>3, RecursionExists
  <2>2. FALSE \in BOOLEAN
    OBVIOUS
  <2>3. QED
    BY <2>1, <2>2, Zenon
<1>5. ASSUME NEW k \in 0 .. n PROVE f[k] = (k > 1 /\ needs[k - 1] /\ ~f[k - 1])
  <2>1. CASE k = 0
    BY <1>4, <2>1 DEF Follows
  <2>2. CASE k # 0
    <3>1. k \in 1 .. n /\ k - 1 \in 0 .. n
      BY <2>2
    <3>2. f[k] = G[k][f[k - 1]] /\ f[k - 1] \in BOOLEAN
      BY <1>4, <3>1 DEF Follows
    <3>3. QED
      BY <3>1, <3>2 DEF G
  <2>3. QED
    BY <2>1, <2>2
<1>6. Def(f)
  BY <1>5
<1>7. ValuesAfter(needs) = CHOOSE t : Def(t)
  BY <1>1 DEF ValuesAfter
<1>8. Def(ValuesAfter(needs))
  <2>1. \E t : Def(t)
    BY <1>6
  <2>2. Def(CHOOSE t : Def(t))
    BY <2>1, Zenon
  <2>3. QED
    BY <1>7, <2>2, Zenon
<1>9. QED
  BY <1>8

-----------------------------------------------------------------------------
(* No argument is missing.                                                 *)
Covers(s, n) == \A k \in 1 .. n : \E i \in 1 .. n : s[i] = k

(* argv while it is permuted, s[i] being the place argument i had on the   *)
(* command line: options and values that are done, in order; the arguments *)
(* still to come, the next of which had place a; operands, moved behind    *)
(* them in order.                                                          *)
MidScan(s, c, f, n, a, operands) ==
  /\ a \in Nat /\ a + f = c + n + 1
  /\ Covers(s, n)
  /\ \A i \in c .. f - 1 : s[i] = i + (a - c)
  /\ \A i \in 1 .. c - 1 : s[i] < a /\ s[i] \notin operands
  /\ \A i, j \in 1 .. c - 1 : i < j => s[i] < s[j]
  /\ \A i \in f .. n : s[i] < a /\ s[i] \in operands
  /\ \A i, j \in f .. n : i < j => s[i] < s[j]

LEMMA OptionPassed ==
  ASSUME NEW n \in Nat, NEW s \in [1 .. n -> 1 .. n], NEW f \in 1 .. n + 1, NEW c \in 1 .. n + 1,
         c < f, NEW operands, NEW a, MidScan(s, c, f, n, a, operands), a \notin operands
  PROVE  s[c] = a /\ MidScan(s, c + 1, f, n, a + 1, operands)
<1>1. /\ c \in Nat /\ c >= 1 /\ f \in Nat /\ f <= n + 1 /\ a \in Nat /\ a + f = c + n + 1
      /\ c \in c .. f - 1
  BY DEF MidScan
<1>2. s[c] = a
  <2>1. s[c] = c + (a - c)
    BY <1>1 DEF MidScan
  <2>2. QED
    BY ONLY <1>1, <2>1
<1>3. \A i \in 1 .. n : s[i] \in Nat
  BY ONLY n \in Nat, s \in [1 .. n -> 1 .. n]
<1>4. ASSUME NEW i \in 1 .. c, i # c PROVE i \in 1 .. c - 1 /\ i \in 1 .. n
  BY <1>1, <1>4
<1>5. ASSUME NEW i \in 1 .. c PROVE s[i] < a + 1 /\ s[i] \notin operands
  <2>1. CASE i = c
    BY <1>1, <1>2, <2>1
  <2>2. CASE i # c
    <3>1. s[i] < a /\ s[i] \notin operands /\ s[i] \in Nat
      BY <1>3, <1>4, <2>2 DEF MidScan
    <3>2. QED
      BY ONLY <1>1, <3>1
  <2>3. QED
    BY <2>1, <2>2
<1>6. ASSUME NEW i \in 1 .. c, NEW j \in 1 .. c, i < j PROVE s[i] < s[j]
  <2>1. i # c /\ (j = c \/ j # c)
    BY <1>1, <1>6
  <2>2. i \in 1 .. c - 1 /\ s[i] < a
    BY <1>4, <2>1 DEF MidScan
  <2>3. CASE j = c
    BY <1>2, <2>2, <2>3
  <2>4. CASE j # c
    <3>1. j \in 1 .. c - 1
      BY <1>4, <2>4
    <3>2. QED
      BY <1>6, <2>2, <3>1 DEF MidScan
  <2>5. QED
    BY <2>1, <2>3, <2>4
<1>7. ASSUME NEW i \in f .. n PROVE s[i] < a + 1 /\ s[i] \in operands
  <2>1. i \in 1 .. n
    BY ONLY <1>1, i \in f .. n, f \in 1 .. n + 1, n \in Nat
  <2>2. s[i] < a /\ s[i] \in operands /\ s[i] \in Nat
    BY <1>3, <2>1 DEF MidScan
  <2>3. QED
    BY ONLY <1>1, <2>2
<1>8. ASSUME NEW i \in c + 1 .. f - 1 PROVE s[i] = i + (a - c)
  <2>1. i \in c .. f - 1
    BY ONLY <1>1, i \in c + 1 .. f - 1
  <2>2. QED
    BY <2>1 DEF MidScan
<1>9. (c + 1) - 1 = c /\ a + 1 \in Nat /\ (a + 1) + f = (c + 1) + n + 1
  BY ONLY <1>1, n \in Nat
<1>10. Covers(s, n)
  BY DEF MidScan
<1>11. \A i, j \in f .. n : i < j => s[i] < s[j]
  BY DEF MidScan
<1>12. ASSUME NEW d, NEW b, d = c + 1, b = a + 1
       PROVE  MidScan(s, d, f, n, b, operands)
  <2>1. d - 1 = c /\ b \in Nat /\ b + f = d + n + 1
    BY ONLY <1>9, <1>12
  <2>2. \A i \in 1 .. d - 1 : s[i] < b /\ s[i] \notin operands
    BY ONLY <1>5, <1>12, <2>1
  <2>3. \A i, j \in 1 .. d - 1 : i < j => s[i] < s[j]
    BY ONLY <1>6, <2>1
  <2>4. \A i \in f .. n : s[i] < b /\ s[i] \in operands
    BY ONLY <1>7, <1>12
  <2>5. ASSUME NEW i \in d .. f - 1 PROVE s[i] = i + (b - d)
    <3>1. i \in c + 1 .. f - 1 /\ b - d = a - c
      BY ONLY <1>1, <1>12, i \in d .. f - 1
    <3>2. QED
      BY ONLY <1>8, <3>1
  <2>6. QED
    BY ONLY <1>10, <1>11, <2>1, <2>2, <2>3, <2>4, <2>5 DEF MidScan
<1>13. QED
  BY <1>2, <1>12

LEMMA WordMoved ==
  ASSUME NEW n \in Nat, NEW s \in [1 .. n -> 1 .. n], NEW f \in 1 .. n + 1, NEW c \in 1 .. n + 1,
         c < f, NEW operands, NEW a, MidScan(s, c, f, n, a, operands), a \in operands,
         NEW r \in [1 .. n -> 1 .. n],
         \A i \in 1 .. c - 1 : r[i] = s[i],
         \A i \in c .. n - 1 : r[i] = s[i + 1],
         r[n] = s[c]
  PROVE  MidScan(r, c, f - 1, n, a + 1, operands)
<1>1. /\ c \in Nat /\ c >= 1 /\ f \in Nat /\ f <= n + 1 /\ a \in Nat /\ a + f = c + n + 1
      /\ c \in c .. f - 1 /\ c < f
  BY DEF MidScan
<1>2. s[c] = a
  <2>1. s[c] = c + (a - c)
    BY <1>1 DEF MidScan
  <2>2. QED
    BY ONLY <1>1, <2>1
<1>3. \A i \in 1 .. n : s[i] \in Nat
  BY ONLY n \in Nat, s \in [1 .. n -> 1 .. n]
<1>4. ASSUME NEW k \in 1 .. n PROVE \E i \in 1 .. n : r[i] = k
  <2>1. PICK i \in 1 .. n : s[i] = k
    BY DEF MidScan, Covers
  <2>2. CASE i \in 1 .. c - 1
    BY <2>1, <2>2
  <2>3. CASE i = c
    <3>1. n \in 1 .. n
      BY ONLY <1>1, n \in Nat
    <3>2. QED
      BY <2>1, <2>3, <3>1
  <2>4. CASE i - 1 \in c .. n - 1
    <3>1. (i - 1) + 1 = i /\ i - 1 \in 1 .. n
      BY ONLY <1>1, <2>4, n \in Nat, i \in 1 .. n
    <3>2. r[i - 1] = s[i]
      BY <2>4, <3>1
    <3>3. QED
      BY <2>1, <3>1, <3>2
  <2>5. i \in 1 .. c - 1 \/ i = c \/ i - 1 \in c .. n - 1
    BY ONLY <1>1, n \in Nat, i \in 1 .. n
  <2>6. QED
    BY <2>2, <2>3, <2>4, <2>5
<1>5. ASSUME NEW i \in c .. (f - 1) - 1 PROVE r[i] = i + ((a + 1) - c)
  <2>1. i \in c .. n - 1 /\ i + 1 \in c .. f - 1
    BY ONLY <1>1, i \in c .. (f - 1) - 1, n \in Nat
  <2>2. r[i] = s[i + 1] /\ s[i + 1] = (i + 1) + (a - c)
    BY <2>1 DEF MidScan
  <2>3. QED
    BY ONLY <1>1, <2>1, <2>2
<1>6. ASSUME NEW i \in 1 .. c - 1 PROVE r[i] < a + 1 /\ r[i] \notin operands
  <2>1. i \in 1 .. n
    BY ONLY <1>1, n \in Nat, i \in 1 .. c - 1
  <2>2. r[i] = s[i] /\ s[i] < a /\ s[i] \notin operands /\ s[i] \in Nat
    BY <1>3, <2>1 DEF MidScan
  <2>3. QED
    BY ONLY <1>1, <2>2
<1>7. \A i, j \in 1 .. c - 1 : i < j => r[i] < r[j]
  BY DEF MidScan
<1>8. ASSUME NEW i \in f - 1 .. n, i # n
      PROVE  i + 1 \in f .. n /\ r[i] = s[i + 1] /\ s[i + 1] \in Nat
  <2>1. i \in c .. n - 1 /\ i + 1 \in f .. n /\ i + 1 \in 1 .. n
    BY ONLY <1>1, <1>8, n \in Nat, i \in f - 1 .. n
  <2>2. QED
    BY <1>3, <2>1
<1>9. ASSUME NEW i \in f - 1 .. n
      PROVE  r[i] < a + 1 /\ r[i] \in operands /\ (i # n => r[i] < a)
  <2>1. CASE i = n
    <3>1. r[i] = a
      BY <1>2, <2>1
    <3>2. QED
      BY ONLY <1>1, <2>1, <3>1, a \in operands
  <2>2. CASE i # n
    <3>1. r[i] < a /\ r[i] \in operands /\ r[i] \in Nat
      BY <1>8, <2>2 DEF MidScan
    <3>2. QED
      BY ONLY <1>1, <3>1
  <2>3. QED
    BY <2>1, <2>2
<1>10. ASSUME NEW i \in f - 1 .. n, NEW j \in f - 1 .. n, i < j
       PROVE  r[i] < r[j]
  <2>1. i # n /\ (j = n \/ j # n) /\ i + 1 < j + 1
    BY ONLY <1>1, <1>10, n \in Nat, i \in f - 1 .. n, j \in f - 1 .. n
  <2>2. CASE j = n
    BY <1>2, <1>9, <2>1, <2>2
  <2>3. CASE j # n
    BY <1>8, <2>1, <2>3 DEF MidScan
  <2>4. QED
    BY <2>1, <2>2, <2>3
<1>11. a + 1 \in Nat /\ (a + 1) + (f - 1) = c + n + 1
  BY ONLY <1>1, n \in Nat
<1>12. QED
  BY ONLY <1>4, <1>5, <1>6, <1>7, <1>9, <1>10, <1>11 DEF MidScan, Covers

(* argv, of l elements, as it is handed back, f being the index returned:  *)
(* the operands from f on, those in later first, options in order before.  *)
Rearranged(s, f, l, n, operands, later) ==
  /\ {s[i] : i \in f .. l} = operands
  /\ \A i, j \in f .. l : i < j => \/ s[i] \in later /\ s[j] \notin later
                                   \/ (s[i] \in later <=> s[j] \in later) /\ s[i] < s[j]
  /\ \A i, j \in 1 .. f - 1 : i < j => s[i] < s[j]
  /\ f > 1 => l = n

LEMMA RestIsOperands ==
  ASSUME NEW n \in Nat, NEW s \in [1 .. n -> 1 .. n], NEW m \in 1 .. n + 1, NEW operands,
         operands \subseteq 1 .. n, Covers(s, n),
         \A i \in 1 .. m - 1 : s[i] \notin operands, \A i \in m .. n : s[i] \in operands
  PROVE  {s[i] : i \in m .. n} = operands
<1>1. ASSUME NEW k \in operands PROVE \E i \in m .. n : s[i] = k
  <2>1. PICK i \in 1 .. n : s[i] = k
    BY DEF Covers
  <2>2. i \notin 1 .. m - 1
    BY <2>1
  <2>3. i \in m .. n
    BY ONLY <2>2, n \in Nat, i \in 1 .. n, m \in 1 .. n + 1
  <2>4. QED
    BY <2>1, <2>3
<1>2. \A i \in m .. n : s[i] \in operands
  OBVIOUS
<1>3. QED
  BY ONLY <1>1, <1>2

LEMMA ScanEnds ==
  ASSUME NEW n \in Nat, NEW s \in [1 .. n -> 1 .. n], NEW f \in 1 .. n + 1, NEW a,
         NEW operands, NEW later, MidScan(s, f, f, n, a, operands),
         operands \subseteq 1 .. n, \A k \in 1 .. n : k \notin later
  PROVE  Rearranged(s, f, n, n, operands, later)
<1>1. Covers(s, n)
  BY DEF MidScan
<1>2. {s[i] : i \in f .. n} = operands
  <2>1. \A i \in 1 .. f - 1 : s[i] \notin operands
    BY DEF MidScan
  <2>2. \A i \in f .. n : s[i] \in operands
    BY DEF MidScan
  <2>3. QED
    BY ONLY <1>1, <2>1, <2>2, RestIsOperands, n \in Nat, s \in [1 .. n -> 1 .. n],
            f \in 1 .. n + 1, operands \subseteq 1 .. n, Zenon
<1>3. \A i \in f .. n : s[i] \notin later
  BY <1>2
<1>4. QED
  BY <1>2, <1>3 DEF MidScan, Rearranged

LEMMA EndReached ==
  ASSUME NEW n \in Nat, NEW s \in [1 .. n -> 1 .. n], NEW f \in 1 .. n + 1, NEW c \in 1 .. n + 1,
         c < f, NEW a, NEW operands, NEW later, MidScan(s, c, f, n, a, operands),
         operands \subseteq 1 .. n, a \notin operands,
         \A k \in a + 1 .. n : k \in operands,
         \A k \in 1 .. n : k \in later <=> k > a
  PROVE  Rearranged(s, c + 1, n, n, operands, later)
<1>1. PICK d, b : d = c + 1 /\ b = a + 1 /\ MidScan(s, d, f, n, b, operands)
  <2>1. MidScan(s, c + 1, f, n, a + 1, operands)
    BY OptionPassed
  <2>2. \E d, b : d = c + 1 /\ b = a + 1
    OBVIOUS
  <2>3. QED
    BY ONLY <2>1, <2>2
<1>2. /\ c \in Nat /\ c >= 1 /\ f \in Nat /\ f <= n + 1 /\ a \in Nat /\ a + f = c + n + 1
      /\ d \in 1 .. n + 1
  BY <1>1 DEF MidScan
<1>3. \A i \in 1 .. n : s[i] \in Nat
  BY ONLY n \in Nat, s \in [1 .. n -> 1 .. n]
<1>4. ASSUME NEW i \in d .. f - 1
      PROVE  s[i] = i + (a - c) /\ s[i] \in operands /\ s[i] \in later
  <2>1. s[i] = i + (b - d)
    BY <1>1 DEF MidScan
  <2>2. s[i] = i + (a - c) /\ s[i] \in a + 1 .. n /\ s[i] \in 1 .. n /\ s[i] > a
    BY ONLY <1>1, <1>2, <2>1, i \in d .. f - 1, n \in Nat
  <2>3. QED
    BY <2>2
<1>5. ASSUME NEW i \in f .. n
      PROVE  s[i] \in operands /\ s[i] \notin later
  <2>1. i \in 1 .. n
    BY ONLY <1>2, i \in f .. n, n \in Nat
  <2>2. s[i] < a /\ s[i] \in operands /\ s[i] \in 1 .. n /\ s[i] \in Nat
    BY <1>3, <2>1 DEF MidScan
  <2>3. ~(s[i] > a)
    BY ONLY <1>2, <2>2
  <2>4. QED
    BY <2>2, <2>3
<1>6. ASSUME NEW i \in d .. n PROVE i \in d .. f - 1 \/ i \in f .. n
  BY ONLY <1>1, <1>2, i \in d .. n, n \in Nat
<1>7. {s[i] : i \in d .. n} = operands
  <2>1. \A i \in d .. n : s[i] \in operands
    BY <1>4, <1>5, <1>6
  <2>2. /\ Covers(s, n)
        /\ \A i \in 1 .. d - 1 : s[i] \notin operands
    BY <1>1 DEF MidScan
  <2>3. QED
    BY <1>2, <2>1, <2>2, RestIsOperands
<1>8. ASSUME NEW i \in d .. n, NEW j \in d .. n, i < j
      PROVE  \/ s[i] \in later /\ s[j] \notin later
             \/ (s[i] \in later <=> s[j] \in later) /\ s[i] < s[j]
  <2>1. CASE i \in d .. f - 1 /\ j \in d .. f - 1
    <3>1. s[i] = i + (a - c) /\ s[j] = j + (a - c)
      BY <1>4, <2>1
    <3>2. s[i] < s[j]
      BY ONLY <1>2, <1>8, <3>1, i \in d .. n, j \in d .. n, d \in 1 .. n + 1, n \in Nat
    <3>3. QED
      BY <1>4, <2>1, <3>2
  <2>2. CASE i \in d .. f - 1 /\ j \in f .. n
    BY <1>4, <1>5, <2>2
  <2>3. CASE i \in f .. n /\ j \in f .. n
    BY <1>5, <1>8, <2>3 DEF MidScan
  <2>4. ~(i \in f .. n /\ j \in d .. f - 1)
    BY ONLY <1>2, <1>8, n \in Nat, i \in d .. n, j \in d .. n
  <2>5. QED
    BY <1>6, <2>1, <2>2, <2>3, <2>4
<1>9. \A i, j \in 1 .. d - 1 : i < j => s[i] < s[j]
  BY <1>1 DEF MidScan
<1>10. QED
  <2>1. Rearranged(s, d, n, n, operands, later)
    BY <1>7, <1>8, <1>9 DEF Rearranged
  <2>2. QED
    BY <1>1, <2>1

(* remove_flags                                                            *)
LEMMA OptionsCut ==
  ASSUME NEW n \in Nat, NEW s \in [1 .. n -> 1 .. n], NEW f \in 1 .. n + 1,
         NEW operands, NEW later, Rearranged(s, f, n, n, operands, later),
         NEW l \in Nat, l = n + 1 - f, NEW r, \A i \in 1 .. l : r[i] = s[i + f - 1]
  PROVE  Rearranged(r, 1, l, n, operands, later)
<1>1. ASSUME NEW i \in 1 .. l PROVE i + f - 1 \in f .. n /\ r[i] = s[i + f - 1]
  <2>1. i + f - 1 \in f .. n
    BY ONLY n \in Nat, f \in 1 .. n + 1, l \in Nat, l = n + 1 - f, i \in 1 .. l
  <2>2. QED
    BY <2>1
<1>2. ASSUME NEW j \in f .. n PROVE \E i \in 1 .. l : r[i] = s[j]
  <2>1. j - f + 1 \in 1 .. l /\ (j - f + 1) + f - 1 = j
    BY ONLY n \in Nat, f \in 1 .. n + 1, l \in Nat, l = n + 1 - f, j \in f .. n
  <2>2. r[j - f + 1] = s[j]
    BY <2>1
  <2>3. QED
    BY <2>1, <2>2
<1>3. {r[i] : i \in 1 .. l} = operands
  <2>1. \A i \in 1 .. l : \E j \in f .. n : r[i] = s[j]
    BY <1>1
  <2>2. {s[j] : j \in f .. n} = operands
    BY DEF Rearranged
  <2>3. \A i \in 1 .. l : r[i] \in operands
    BY ONLY <2>1, <2>2
  <2>4. \A k \in operands : \E i \in 1 .. l : r[i] = k
    BY ONLY <1>2, <2>2
  <2>5. QED
    BY ONLY <2>3, <2>4
<1>4. ASSUME NEW i \in 1 .. l, NEW j \in 1 .. l, i < j
      PROVE  \/ r[i] \in later /\ r[j] \notin later
             \/ (r[i] \in later <=> r[j] \in later) /\ r[i] < r[j]
  <2>1. i + f - 1 < j + f - 1
    BY ONLY <1>4, n \in Nat, f \in 1 .. n + 1, l \in Nat, i \in 1 .. l, j \in 1 .. l
  <2>2. QED
    BY <1>1, <2>1 DEF Rearranged
<1>5. \A i, j \in 1 .. 1 - 1 : i < j => r[i] < r[j]
  OBVIOUS
<1>6. QED
  BY ONLY <1>3, <1>4, <1>5 DEF Rearranged

-----------------------------------------------------------------------------
(* The operands and the arguments after "--", by their places.             *)
Operands == {k \in DOMAIN command : IsOperand(k)}
Later    == {k \in DOMAIN command : AfterOptions(k)}

LEMMA NeedsNextType ==
  ASSUME command \in Seq(Argument)
  PROVE  NeedsNext \in [1 .. Len(command) -> BOOLEAN] /\ Len(command) \in Nat
<1>1. DOMAIN command = 1 .. Len(command) /\ Len(command) \in Nat
  BY LenProperties
<1> DEFINE Needs(k) == /\ command[k].kind = "flag"
                       /\ LET arg == SplitArgumentLocked(command[k].key, command[k].value)
                          IN  arg.flag # NULL /\ arg.value = NULL
<1>2. NeedsNext = [k \in 1 .. Len(command) |-> Needs(k)]
  BY <1>1 DEF NeedsNext
<1>3. \A k \in 1 .. Len(command) : Needs(k) \in BOOLEAN
  OBVIOUS
<1> HIDE DEF Needs
<1>4. QED
  BY <1>1, <1>2, <1>3

LEMMA ValueRule ==
  ASSUME command \in Seq(Argument), NEW k \in 1 .. Len(command)
  PROVE  IsValue(k) <=> k > 1 /\ NeedsNext[k - 1] /\ ~IsValue(k - 1)
<1>1. NeedsNext \in [1 .. Len(command) -> BOOLEAN] /\ Len(command) \in Nat
  BY NeedsNextType
<1>2. k \in 0 .. Len(command)
  BY <1>1
<1>3. QED
  BY <1>1, <1>2, ValuesAfterDef DEF IsValue

(* What the arguments are depends on the names that are registered alone.  *)
LEMMA SameSplit ==
  ASSUME SameNames, NEW key \in Name, NEW value
  PROVE  SplitArgumentLocked(key, value)' = SplitArgumentLocked(key, value)
<1>1. ASSUME NEW name \in Name PROVE FindFlagLocked(name)' = FindFlagLocked(name)
  BY FlagAssumption DEF SameNames, FindFlagLocked, Registered
<1>2. FindFlagLocked(key)' = FindFlagLocked(key)
  BY <1>1
<1>3. Positive[key] # NULL => FindFlagLocked(Positive[key])' = FindFlagLocked(Positive[key])
  BY <1>1, ParserAssumption
<1>4. QED
  BY <1>2, <1>3 DEF SplitArgumentLocked

LEMMA SameNeeds ==
  ASSUME SameNames, command' = command, command \in Seq(Argument)
  PROVE  NeedsNext' = NeedsNext
<1>1. ASSUME NEW k \in DOMAIN command, command[k].kind = "flag"
      PROVE  command[k].key \in Name
  BY <1>1, LenProperties, ElementOfSeq DEF Argument, FlagArgument
<1>2. ASSUME NEW k \in DOMAIN command, command[k].kind = "flag"
      PROVE  SplitArgumentLocked(command[k].key, command[k].value)'
               = SplitArgumentLocked(command[k].key, command[k].value)
  <2>1. PICK key, value : key \in Name /\ key = command[k].key /\ value = command[k].value
    BY <1>1, <1>2
  <2>2. SplitArgumentLocked(key, value)' = SplitArgumentLocked(key, value)
    BY <2>1, SameSplit
  <2>3. QED
    BY <2>1, <2>2
<1>3. QED
  BY <1>2 DEF NeedsNext

LEMMA SameKinds ==
  ASSUME SameNames, command' = command, command \in Seq(Argument)
  PROVE  /\ Operands' = Operands /\ Later' = Later
         /\ \A k : (IsValue(k)' <=> IsValue(k)) /\ (AfterOptions(k)' <=> AfterOptions(k))
<1>1. \A k : IsValue(k)' <=> IsValue(k)
  BY SameNeeds DEF IsValue
<1>2. \A k : IsEndMark(k)' <=> IsEndMark(k)
  BY <1>1 DEF IsEndMark
<1>3. \A k : AfterOptions(k)' <=> AfterOptions(k)
  BY <1>2 DEF AfterOptions
<1>4. \A k : IsOperand(k)' <=> IsOperand(k)
  BY <1>1, <1>3 DEF IsOperand
<1>5. QED
  BY <1>1, <1>3, <1>4 DEF Operands, Later

-----------------------------------------------------------------------------
(* The inductive invariant behind OperandsAreKept: argv is permuted up to   *)
(* an argument that is not after "--" and not the value of the option      *)
(* before it, or "--" was met; once the scan is over argv is rearranged.   *)
ScanInv(a) ==
  /\ MidScan(order, cursor, first_nonopt, Len(command), a, Operands)
  /\ ~AfterOptions(a)
  /\ a <= Len(command) => ~IsValue(a)

ArgvInv ==
  /\ Scanning => \/ \E a : ScanInv(a)
                 \/ /\ cursor = first_nonopt
                    /\ Rearranged(order, first_nonopt, Len(command), Len(command), Operands, Later)
  /\ pc \in {"help", "validate", "report", "done"} =>
       Rearranged(order, first_nonopt, Len(order), Len(command), Operands, Later)

LEMMA InitArgv == Init => ArgvInv
BY DEF Init, ArgvInv, Scanning, Recursive

(* The argument the loop looks at.                                         *)
LEMMA ScanPoint ==
  ASSUME TypeInv, Parsing, ArgvInv
  PROVE  /\ Len(command) \in Nat /\ order \in [1 .. Len(command) -> 1 .. Len(command)]
         /\ Operands \subseteq 1 .. Len(command) /\ Len(order) = Len(command)
         /\ cursor \in 1 .. Len(command) + 1 /\ first_nonopt \in 1 .. Len(command) + 1
         /\ cursor < first_nonopt
         /\ \E a \in 1 .. Len(command) :
              /\ ScanInv(a) /\ Arg = command[a] /\ order[cursor] = a
              /\ ~IsValue(a) /\ a + first_nonopt = cursor + Len(command) + 1
<1> DEFINE n == Len(command)
<1>1. /\ cursor \in 1 .. Len(order) /\ Len(order) = n /\ n \in Nat
      /\ first_nonopt \in 1 .. n + 1 /\ cursor < first_nonopt
      /\ DOMAIN command = 1 .. n /\ order \in Seq(1 .. n)
  BY ArgType, TypesOfInv DEF TypeInv, TypeOK
<1>2. order \in [1 .. n -> 1 .. n]
  BY <1>1, LenProperties, ElementOfSeq
<1>3. Scanning
  BY DEF Parsing, Scanning
<1>4. PICK a : ScanInv(a)
  BY <1>1, <1>3 DEF ArgvInv
<1>5. a \in Nat /\ a + first_nonopt = cursor + n + 1 /\ order[cursor] = cursor + (a - cursor)
  <2>1. cursor \in cursor .. first_nonopt - 1
    BY <1>1
  <2>2. QED
    BY <1>4, <2>1 DEF ScanInv, MidScan
<1>6. order[cursor] = a
  BY <1>1, <1>5
<1>7. a \in 1 .. n
  BY <1>1, <1>2, <1>6
<1>8. ~IsValue(a) /\ Arg = command[a]
  BY <1>4, <1>6, <1>7 DEF ScanInv, Arg
<1>9. Operands \subseteq 1 .. n
  BY <1>1 DEF Operands
<1>10. cursor \in 1 .. n + 1
  BY <1>1
<1>11. QED
  BY <1>1, <1>2, <1>4, <1>5, <1>6, <1>7, <1>8, <1>9, <1>10

(* The scan goes on behind argument a.                                     *)
LEMMA NextPoint ==
  ASSUME NEW a \in Nat, a >= 1, ~AfterOptions(a), ~IsEndMark(a)
  PROVE  ~AfterOptions(a + 1)
<1>1. ASSUME NEW m \in 1 .. (a + 1) - 1, IsEndMark(m) PROVE FALSE
  <2>1. m # a
    BY <1>1
  <2>2. m \in 1 .. a - 1
    BY ONLY <2>1, m \in 1 .. (a + 1) - 1, a \in Nat
  <2>3. QED
    BY <1>1, <2>2 DEF AfterOptions
<1>2. QED
  BY <1>1 DEF AfterOptions

LEMMA NextIsNoValue ==
  ASSUME command \in Seq(Argument), NEW a \in 1 .. Len(command), ~NeedsNext[a] \/ IsValue(a)
  PROVE  a + 1 <= Len(command) => ~IsValue(a + 1)
<1>1. ASSUME a + 1 <= Len(command) PROVE ~IsValue(a + 1)
  <2>1. a + 1 \in 1 .. Len(command) /\ (a + 1) - 1 = a
    BY <1>1, LenProperties
  <2>2. QED
    BY <2>1, ValueRule
<1>2. QED
  BY <1>1

(* A word is moved behind the others.                                      *)
LEMMA ProgramArgumentScans ==
  ASSUME TypeInv, ArgvInv, ProgramArgument
  PROVE  \E a : /\ MidScan(order', cursor', first_nonopt', Len(command), a, Operands)
                /\ ~AfterOptions(a) /\ (a <= Len(command) => ~IsValue(a))
<1> DEFINE n == Len(command)
<1>1. Parsing /\ Arg.kind = "word" /\ Permute
  BY DEF ProgramArgument
<1>2. /\ n \in Nat /\ order \in [1 .. n -> 1 .. n] /\ Len(order) = n
      /\ cursor \in 1 .. n + 1 /\ first_nonopt \in 1 .. n + 1 /\ cursor < first_nonopt
  BY <1>1, ScanPoint
<1>3. PICK a \in 1 .. n : /\ ScanInv(a) /\ Arg = command[a] /\ order[cursor] = a
                          /\ ~IsValue(a)
  BY <1>1, ScanPoint
<1>4. a \in Operands /\ ~IsEndMark(a) /\ ~NeedsNext[a]
  <2>1. a \in DOMAIN command
    BY <1>3, TypesOfInv DEF TypeInv
  <2>2. QED
    BY <1>1, <1>3, <2>1 DEF Operands, IsOperand, IsEndMark, NeedsNext
<1>5. order \in Seq(1 .. n) /\ cursor \in 1 .. Len(order)
  BY <1>2, TypesOfInv DEF TypeInv, TypeOK
<1>6. /\ order' \in [1 .. n -> 1 .. n]
      /\ \A i \in 1 .. cursor - 1 : order'[i] = order[i]
      /\ \A i \in cursor .. n - 1 : order'[i] = order[i + 1]
      /\ order'[n] = order[cursor]
  <2>1. order' = Append(RemoveAt(order, cursor), order[cursor])
    BY <1>1 DEF Permute
  <2>2. /\ order' \in Seq(1 .. n) /\ Len(order') = n
        /\ \A i \in 1 .. cursor - 1 : order'[i] = order[i]
        /\ \A i \in cursor .. n - 1 : order'[i] = order[i + 1]
        /\ order'[n] = order[cursor]
    <3>1. /\ order' \in Seq(1 .. n) /\ Len(order') = Len(order)
          /\ \A i \in 1 .. cursor - 1 : order'[i] = order[i]
          /\ \A i \in cursor .. Len(order) - 1 : order'[i] = order[i + 1]
          /\ order'[Len(order)] = order[cursor]
      BY ONLY <1>5, <2>1, MovedToEnd
    <3>2. QED
      BY <1>2, <3>1
  <2>3. order' \in [1 .. n -> 1 .. n]
    BY <2>2, LenProperties, ElementOfSeq
  <2>4. QED
    BY <2>2, <2>3
<1>7. MidScan(order', cursor, first_nonopt - 1, n, a + 1, Operands)
  <2>1. MidScan(order, cursor, first_nonopt, n, a, Operands)
    BY <1>3 DEF ScanInv
  <2>2. QED
    BY <1>2, <1>3, <1>4, <1>6, <2>1, WordMoved
<1>8. ~AfterOptions(a + 1)
  BY <1>3, <1>4, NextPoint DEF ScanInv
<1>9. a + 1 <= n => ~IsValue(a + 1)
  BY <1>4, NextIsNoValue, TypesOfInv DEF TypeInv, ParserTypes
<1>10. QED
  BY <1>1, <1>7, <1>8, <1>9 DEF Permute

(* An option without a value in the next argument is left where it is.     *)
LEMMA OptionScans ==
  ASSUME TypeInv, ArgvInv, Parsing, Arg.kind = "flag",
         LET arg == SplitArgumentLocked(Arg.key, Arg.value)
         IN  \/ arg.flag = NULL \/ arg.value # NULL \/ cursor + 1 >= first_nonopt
  PROVE  \E a : /\ MidScan(order, cursor + 1, first_nonopt, Len(command), a, Operands)
                /\ ~AfterOptions(a) /\ (a <= Len(command) => ~IsValue(a))
<1> DEFINE n == Len(command)
<1>1. /\ n \in Nat /\ order \in [1 .. n -> 1 .. n]
      /\ cursor \in 1 .. n + 1 /\ first_nonopt \in 1 .. n + 1 /\ cursor < first_nonopt
  BY ScanPoint
<1>2. PICK a \in 1 .. n : /\ ScanInv(a) /\ Arg = command[a] /\ ~IsValue(a)
                          /\ a + first_nonopt = cursor + n + 1
  BY ScanPoint
<1>3. a \in DOMAIN command
  BY <1>2, TypesOfInv DEF TypeInv
<1>4. a \notin Operands /\ ~IsEndMark(a)
  BY <1>2, <1>3 DEF Operands, IsOperand, IsEndMark, ScanInv
<1>5. ~NeedsNext[a] \/ cursor + 1 >= first_nonopt
  BY <1>2, <1>3 DEF NeedsNext
<1>6. MidScan(order, cursor + 1, first_nonopt, n, a + 1, Operands)
  <2>1. MidScan(order, cursor, first_nonopt, n, a, Operands)
    BY <1>2 DEF ScanInv
  <2>2. QED
    BY <1>1, <1>2, <1>4, <2>1, OptionPassed
<1>7. ~AfterOptions(a + 1)
  BY <1>2, <1>4, NextPoint DEF ScanInv
<1>8. a + 1 <= n => ~IsValue(a + 1)
  <2>1. CASE ~NeedsNext[a]
    BY <2>1, NextIsNoValue, TypesOfInv DEF TypeInv, ParserTypes
  <2>2. CASE cursor + 1 >= first_nonopt
    <3>1. ~(a + 1 <= n)
      BY ONLY <1>1, <1>2, <2>2
    <3>2. QED
      BY <3>1
  <2>3. QED
    BY <1>5, <2>1, <2>2
<1>9. QED
  BY <1>6, <1>7, <1>8

(* An option and its value are passed together.                            *)
LEMMA OptionWithValueScans ==
  ASSUME TypeInv, ArgvInv, Parsing, Arg.kind = "flag", cursor + 1 < first_nonopt,
         LET arg == SplitArgumentLocked(Arg.key, Arg.value)
         IN  arg.flag # NULL /\ arg.value = NULL
  PROVE  \E a : /\ MidScan(order, cursor + 2, first_nonopt, Len(command), a, Operands)
                /\ ~AfterOptions(a) /\ (a <= Len(command) => ~IsValue(a))
<1> DEFINE n == Len(command)
<1>1. /\ n \in Nat /\ order \in [1 .. n -> 1 .. n]
      /\ cursor \in 1 .. n + 1 /\ first_nonopt \in 1 .. n + 1 /\ cursor < first_nonopt
  BY ScanPoint
<1>2. PICK a \in 1 .. n : /\ ScanInv(a) /\ Arg = command[a] /\ ~IsValue(a)
                          /\ a + first_nonopt = cursor + n + 1
  BY ScanPoint
<1>3. a \in DOMAIN command /\ DOMAIN command = 1 .. n /\ command \in Seq(Argument)
  BY <1>2, TypesOfInv DEF TypeInv, ParserTypes
<1>4. a \notin Operands /\ ~IsEndMark(a) /\ NeedsNext[a]
  BY <1>2, <1>3 DEF Operands, IsOperand, IsEndMark, NeedsNext, ScanInv
<1>5. MidScan(order, cursor + 1, first_nonopt, n, a + 1, Operands)
  <2>1. MidScan(order, cursor, first_nonopt, n, a, Operands)
    BY <1>2 DEF ScanInv
  <2>2. QED
    BY <1>1, <1>2, <1>4, <2>1, OptionPassed
<1>6. ~AfterOptions(a + 1)
  BY <1>2, <1>4, NextPoint DEF ScanInv
<1>7. /\ a + 1 \in 1 .. n /\ (a + 1) - 1 = a /\ a + 1 > 1 /\ (a + 1) + 1 = a + 2
      /\ cursor + 1 \in 1 .. n + 1 /\ (cursor + 1) + 1 = cursor + 2
  BY ONLY <1>1, <1>2, a \in 1 .. n, cursor + 1 < first_nonopt
<1>8. IsValue(a + 1)
  BY <1>2, <1>3, <1>4, <1>7, ValueRule
<1>9. a + 1 \notin Operands /\ ~IsEndMark(a + 1)
  BY <1>6, <1>8 DEF Operands, IsOperand, IsEndMark
<1>10. MidScan(order, cursor + 2, first_nonopt, n, a + 2, Operands)
  <2>1. PICK c, b : c = cursor + 1 /\ b = a + 1
    OBVIOUS
  <2>2. MidScan(order, c + 1, first_nonopt, n, b + 1, Operands)
    BY <1>1, <1>5, <1>7, <1>9, <2>1, OptionPassed
  <2>3. QED
    BY <1>7, <2>1, <2>2
<1>11. ~AfterOptions(a + 2)
  <2>1. a + 1 \in Nat /\ a + 1 >= 1
    BY <1>7
  <2>2. ~AfterOptions((a + 1) + 1)
    BY <1>6, <1>9, <2>1, NextPoint
  <2>3. QED
    BY <1>7, <2>2
<1>12. a + 2 <= n => ~IsValue(a + 2)
  <2>1. (a + 1) + 1 <= n => ~IsValue((a + 1) + 1)
    BY <1>3, <1>7, <1>8, NextIsNoValue
  <2>2. QED
    BY <1>7, <2>1
<1>13. QED
  BY <1>10, <1>11, <1>12

(* "--" ends the options: the arguments behind it come first.              *)
LEMMA EndOfOptionsArranges ==
  ASSUME TypeInv, ArgvInv, EndOfOptions
  PROVE  Rearranged(order, cursor + 1, Len(command), Len(command), Operands, Later)
<1> DEFINE n == Len(command)
<1>1. Parsing /\ Arg.kind = "end"
  BY DEF EndOfOptions
<1>2. /\ n \in Nat /\ order \in [1 .. n -> 1 .. n] /\ Operands \subseteq 1 .. n
      /\ cursor \in 1 .. n + 1 /\ first_nonopt \in 1 .. n + 1 /\ cursor < first_nonopt
  BY <1>1, ScanPoint
<1>3. PICK a \in 1 .. n : ScanInv(a) /\ Arg = command[a] /\ ~IsValue(a)
  BY <1>1, ScanPoint
<1>4. DOMAIN command = 1 .. n
  BY TypesOfInv DEF TypeInv
<1>5. a \notin Operands /\ IsEndMark(a) /\ ~AfterOptions(a)
  BY <1>1, <1>3, <1>4 DEF Operands, IsOperand, IsEndMark, ScanInv
<1>6. ASSUME NEW k \in 1 .. n PROVE k \in Later <=> k > a
  <2>1. CASE k > a
    <3>1. a \in 1 .. k - 1
      BY ONLY <2>1, a \in 1 .. n, k \in 1 .. n, <1>2
    <3>2. QED
      BY <1>4, <1>5, <2>1, <3>1 DEF Later, AfterOptions
  <2>2. CASE ~(k > a)
    <3>1. \A m \in 1 .. k - 1 : m \in 1 .. a - 1
      BY ONLY <2>2, a \in 1 .. n, k \in 1 .. n, <1>2
    <3>2. QED
      BY <1>5, <2>2, <3>1 DEF Later, AfterOptions
  <2>3. QED
    BY <2>1, <2>2
<1>7. ASSUME NEW k \in a + 1 .. n PROVE k \in Operands
  <2>1. k \in 1 .. n /\ k > a
    BY ONLY k \in a + 1 .. n, a \in 1 .. n, <1>2
  <2>2. QED
    BY <1>4, <1>6, <2>1 DEF Later, Operands, IsOperand
<1>8. MidScan(order, cursor, first_nonopt, n, a, Operands)
  BY <1>3 DEF ScanInv
<1>9. QED
  BY <1>2, <1>5, <1>6, <1>7, <1>8, EndReached

(* Setting flags does not change what the arguments are.                   *)
LEMMA StepSameNames ==
  ASSUME TypeInv,
         \/ CallStep \/ KnownOption
         \/ UNCHANGED flags
  PROVE  SameNames
<1>1. ParserTypes /\ mode \in SettingMode
  BY TypesOfInv DEF TypeInv, ParserTypes
<1>2. CASE CallStep
  BY <1>1, <1>2, CallStepEffect, FlagsChange DEF CallEffect, ParserTypes
<1>3. CASE KnownOption
  BY <1>1, <1>3, KnownOptionEffect, FlagsChange DEF ParserTypes
<1>4. CASE UNCHANGED flags
  BY <1>4 DEF SameNames
<1>5. QED
  BY <1>2, <1>3, <1>4

LEMMA ScanKeepsInv ==
  ASSUME TypeInv, SameNames, command' = command, pc' \in Recursive \cup {"argv"},
         \E a : /\ MidScan(order', cursor', first_nonopt', Len(command), a, Operands)
                /\ ~AfterOptions(a) /\ (a <= Len(command) => ~IsValue(a))
  PROVE  ArgvInv'
<1>1. PICK a : /\ MidScan(order', cursor', first_nonopt', Len(command), a, Operands)
               /\ ~AfterOptions(a) /\ (a <= Len(command) => ~IsValue(a))
  OBVIOUS
<1>2. /\ Operands' = Operands
      /\ \A k : (IsValue(k)' <=> IsValue(k)) /\ (AfterOptions(k)' <=> AfterOptions(k))
  BY SameKinds, TypesOfInv DEF TypeInv, ParserTypes
<1>3. ScanInv(a)'
  BY <1>1, <1>2 DEF ScanInv
<1>4. QED
  BY <1>3 DEF ArgvInv, Scanning, Recursive

(* A step that leaves argv and the place in it alone.                      *)
LEMMA StillKeepsInv ==
  ASSUME TypeInv, ArgvInv, SameNames, UNCHANGED <<command, order, cursor, first_nonopt>>,
         \/ pc' = pc \/ (Scanning /\ Scanning')
         \/ pc \in {"help", "validate", "report"} /\ pc' \in {"validate", "report", "done"}
  PROVE  ArgvInv'
<1>1. /\ Operands' = Operands /\ Later' = Later
      /\ \A k : (IsValue(k)' <=> IsValue(k)) /\ (AfterOptions(k)' <=> AfterOptions(k))
  BY SameKinds, TypesOfInv DEF TypeInv, ParserTypes
<1>2. \A a : ScanInv(a) => ScanInv(a)'
  BY <1>1 DEF ScanInv
<1>3. CASE Scanning /\ Scanning'
  BY <1>1, <1>2, <1>3 DEF ArgvInv, Scanning, Recursive
<1>4. CASE ~(Scanning /\ Scanning')
  BY <1>1, <1>2, <1>4 DEF ArgvInv, Scanning, Recursive
<1>5. QED
  BY <1>3, <1>4

LEMMA BeginArgv == ASSUME TypeInv, Begin PROVE ArgvInv'
<1> DEFINE n == Len(command)
<1>1. n \in Nat /\ DOMAIN command = 1 .. n /\ command \in Seq(Argument)
  BY TypesOfInv DEF TypeInv, ParserTypes
<1>2. /\ order' = [j \in 1 .. n |-> j] /\ cursor' = 1 /\ first_nonopt' = n + 1
      /\ UNCHANGED <<flags, command>> /\ pc' = "flagfile"
  BY <1>1 DEF Begin, fixedVars
<1>3. MidScan(order', cursor', first_nonopt', n, 1, Operands)
  <2>1. Covers(order', n)
    BY <1>2 DEF Covers
  <2>2. \A i \in 1 .. n : order'[i] = i + (1 - 1)
    BY <1>1, <1>2
  <2>3. MidScan(order', 1, n + 1, n, 1, Operands)
    BY <1>1, <1>2, <2>1, <2>2 DEF MidScan
  <2>4. QED
    BY <1>2, <2>3
<1>4. ~AfterOptions(1)
  BY DEF AfterOptions
<1>5. 1 <= n => ~IsValue(1)
  BY <1>1, ValueRule
<1>6. SameNames
  BY <1>2 DEF SameNames
<1>7. QED
  BY <1>2, <1>3, <1>4, <1>5, <1>6, ScanKeepsInv DEF Recursive

LEMMA EndOfOptionsArgv == ASSUME TypeInv, ArgvInv, EndOfOptions PROVE ArgvInv'
<1>1. /\ cursor' = cursor + 1 /\ first_nonopt' = cursor + 1 /\ pc' = "argv"
      /\ UNCHANGED <<flags, command, order>>
  BY DEF EndOfOptions, Parsing, Settled, fixedVars
<1>2. SameNames
  BY <1>1 DEF SameNames
<1>3. Operands' = Operands /\ Later' = Later
  BY <1>1, <1>2, SameKinds, TypesOfInv DEF TypeInv, ParserTypes
<1>4. QED
  BY <1>1, <1>3, EndOfOptionsArranges DEF ArgvInv, Scanning

LEMMA ArgumentArgv ==
  ASSUME TypeInv, ArgvInv, ProgramArgument \/ UnknownOption \/ MissingArgument \/ KnownOption
  PROVE  ArgvInv'
<1>1. SameNames
  BY StepSameNames DEF ProgramArgument, UnknownOption, MissingArgument
<1>2. UNCHANGED command /\ pc' = "argv" /\ Parsing
  BY DEF ProgramArgument, UnknownOption, MissingArgument, KnownOption, Parsing, Settled, fixedVars
<1>3. CASE ProgramArgument
  BY <1>1, <1>2, <1>3, ProgramArgumentScans, ScanKeepsInv
<1>4. CASE UnknownOption
  <2>1. UNCHANGED <<order, first_nonopt>> /\ cursor' = cursor + 1
    BY <1>4 DEF UnknownOption
  <2>2. \E a : /\ MidScan(order, cursor + 1, first_nonopt, Len(command), a, Operands)
               /\ ~AfterOptions(a) /\ (a <= Len(command) => ~IsValue(a))
    BY <1>4, OptionScans DEF UnknownOption
  <2>3. QED
    BY <1>1, <1>2, <2>1, <2>2, ScanKeepsInv
<1>5. CASE MissingArgument
  <2>1. UNCHANGED <<order, first_nonopt>> /\ cursor' = first_nonopt
    BY <1>5 DEF MissingArgument
  <2>2. cursor + 1 = first_nonopt
    <3>1. cursor + 1 >= first_nonopt /\ cursor < first_nonopt
      BY <1>5 DEF MissingArgument, Parsing
    <3>2. cursor \in Nat /\ first_nonopt \in Nat
      BY <1>2, ScanPoint
    <3>3. QED
      BY ONLY <3>1, <3>2
  <2>3. \E a : /\ MidScan(order, cursor + 1, first_nonopt, Len(command), a, Operands)
               /\ ~AfterOptions(a) /\ (a <= Len(command) => ~IsValue(a))
    BY <1>5, OptionScans DEF MissingArgument
  <2>4. QED
    BY <1>1, <1>2, <2>1, <2>2, <2>3, ScanKeepsInv
<1>6. CASE KnownOption
  <2> DEFINE arg == SplitArgumentLocked(Arg.key, Arg.value)
  <2>1. /\ UNCHANGED <<order, first_nonopt>> /\ Arg.kind = "flag" /\ arg.flag # NULL
        /\ arg.value # NULL \/ cursor + 1 < first_nonopt
        /\ cursor' = IF arg.value # NULL THEN cursor + 1 ELSE cursor + 2
    BY <1>6 DEF KnownOption
  <2>2. CASE arg.value # NULL
    <3>1. \E a : /\ MidScan(order, cursor + 1, first_nonopt, Len(command), a, Operands)
                 /\ ~AfterOptions(a) /\ (a <= Len(command) => ~IsValue(a))
      BY <1>2, <2>1, <2>2, OptionScans
    <3>2. cursor' = cursor + 1
      BY <2>1, <2>2
    <3> HIDE DEF arg
    <3>3. QED
      BY <1>1, <1>2, <2>1, <3>1, <3>2, ScanKeepsInv
  <2>3. CASE arg.value = NULL
    <3>1. \E a : /\ MidScan(order, cursor + 2, first_nonopt, Len(command), a, Operands)
                 /\ ~AfterOptions(a) /\ (a <= Len(command) => ~IsValue(a))
      BY <1>2, <2>1, <2>3, OptionWithValueScans
    <3>2. cursor' = cursor + 2
      BY <2>1, <2>3
    <3> HIDE DEF arg
    <3>3. QED
      BY <1>1, <1>2, <2>1, <3>1, <3>2, ScanKeepsInv
  <2>4. QED
    BY <2>2, <2>3
<1>7. QED
  BY <1>3, <1>4, <1>5, <1>6

(* The scan is over when there is nothing left in front of the operands.   *)
LEMMA ArgumentsDoneArgv ==
  ASSUME TypeInv, ArgvInv, NEW remove_flags \in BOOLEAN, ArgumentsDone(remove_flags)
  PROVE  ArgvInv'
<1> DEFINE n == Len(command)
           f == first_nonopt
<1>1. /\ n \in Nat /\ DOMAIN command = 1 .. n /\ Len(order) = n /\ order \in Seq(1 .. n)
      /\ f \in 1 .. n + 1 /\ cursor \in 1 .. n + 1 /\ Scanning /\ cursor = f
  <2>1. Scanning /\ cursor >= f
    BY DEF ArgumentsDone, Scanning
  <2>2. /\ n \in Nat /\ DOMAIN command = 1 .. n /\ Len(order) = n /\ order \in Seq(1 .. n)
        /\ f \in 1 .. n + 1 /\ cursor \in 1 .. n + 1 /\ cursor <= f
    BY <2>1, TypesOfInv DEF TypeInv, TypeOK, Positions
  <2>3. cursor = f
    BY ONLY <2>1, <2>2
  <2>4. QED
    BY <2>1, <2>2, <2>3
<1>2. order \in [1 .. n -> 1 .. n]
  BY <1>1, LenProperties, ElementOfSeq
<1>3. Rearranged(order, f, n, n, Operands, Later)
  <2>1. ASSUME NEW a, ScanInv(a) PROVE Rearranged(order, f, n, n, Operands, Later)
    <3>1. MidScan(order, f, f, n, a, Operands) /\ ~AfterOptions(a)
      BY <1>1, <2>1 DEF ScanInv
    <3>2. a = n + 1
      <4>1. a \in Nat /\ a + f = f + n + 1
        BY <3>1 DEF MidScan
      <4>2. QED
        BY <1>1, <4>1
    <3>3. \A k \in 1 .. n : k \notin Later
      <4>1. ASSUME NEW k \in 1 .. n, NEW m \in 1 .. k - 1 PROVE m \in 1 .. a - 1
        BY ONLY <1>1, <3>2, k \in 1 .. n, m \in 1 .. k - 1
      <4>2. QED
        BY <3>1, <4>1 DEF Later, AfterOptions
    <3>4. Operands \subseteq 1 .. n
      BY <1>1 DEF Operands
    <3>5. QED
      BY <1>1, <1>2, <3>1, <3>3, <3>4, ScanEnds
  <2>2. QED
    BY <1>1, <2>1 DEF ArgvInv
<1>4. /\ pc' = "help" /\ UNCHANGED <<flags, command>>
      /\ order' = IF remove_flags THEN SubSeq(order, f, n) ELSE order
      /\ first_nonopt' = IF remove_flags THEN 1 ELSE f
  BY <1>1 DEF ArgumentsDone, Settled, fixedVars
<1>5. Rearranged(order', first_nonopt', Len(order'), n, Operands, Later)
  <2>1. CASE ~remove_flags
    BY <1>1, <1>3, <1>4, <2>1
  <2>2. CASE remove_flags
    <3>1. \A i \in f .. n : order[i] \in 1 .. n
      BY <1>1, <1>2
    <3>2. /\ order' = SubSeq(order, f, n)
          /\ Len(order') = IF f <= n THEN n - f + 1 ELSE 0
          /\ \A i \in 1 .. n - f + 1 : order'[i] = order[f + i - 1]
      BY <1>1, <1>4, <2>2, <3>1, SubSeqProperties
    <3>3. Len(order') = n + 1 - f /\ Len(order') \in Nat
      BY ONLY <1>1, <3>2
    <3>4. ASSUME NEW i \in 1 .. Len(order') PROVE order'[i] = order[i + f - 1]
      <4>1. i \in 1 .. n - f + 1 /\ f + i - 1 = i + f - 1
        BY ONLY <1>1, <3>3, i \in 1 .. Len(order')
      <4>2. QED
        BY <3>2, <4>1
    <3> DEFINE r == order'
               l == Len(order')
    <3>5. l \in Nat /\ l = n + 1 - f /\ \A i \in 1 .. l : r[i] = order[i + f - 1]
      BY <3>3, <3>4
    <3> HIDE DEF r, l
    <3>6. Rearranged(r, 1, l, n, Operands, Later)
      BY <1>1, <1>2, <1>3, <3>5, OptionsCut
    <3>7. QED
      BY <1>4, <2>2, <3>6 DEF r, l
  <2>3. QED
    BY <2>1, <2>2
<1>6. SameNames
  BY <1>4 DEF SameNames
<1>7. Operands' = Operands /\ Later' = Later
  BY <1>4, <1>6, SameKinds, TypesOfInv DEF TypeInv, ParserTypes
<1>8. QED
  BY <1>4, <1>5, <1>7 DEF ArgvInv, Scanning, Recursive

LEMMA NextArgv == TypeInv /\ ArgvInv /\ [Next]_vars => ArgvInv'
<1> SUFFICES ASSUME TypeInv, ArgvInv, [Next]_vars PROVE ArgvInv'
  OBVIOUS
<1>1. CASE CallStep
  <2>1. UNCHANGED <<command, order, cursor, first_nonopt, pc>>
    BY <1>1, CallStepEffect, TypesOfInv DEF TypeInv, CallEffect, Unmoved, fixedVars
  <2>2. QED
    BY <1>1, <2>1, StepSameNames, StillKeepsInv
<1>2. CASE ProcessStage
  <2>1. UNCHANGED <<flags, command, order, cursor, first_nonopt>> /\ Scanning /\ Scanning'
    BY <1>2 DEF ProcessStage, Stage, Scanning, Recursive, parserVars, fixedVars
  <2>2. QED
    BY <2>1, StepSameNames, StillKeepsInv
<1>3. CASE (\E do_report \in BOOLEAN : HandleCommandLineHelpFlags(do_report))
           \/ ValidateUnmodifiedFlags \/ ReportErrors
  <2>1. /\ UNCHANGED <<flags, command, order, cursor, first_nonopt>>
        /\ pc \in {"help", "validate", "report"} /\ pc' \in {"validate", "report", "done"}
    BY <1>3 DEF HandleCommandLineHelpFlags, ValidateUnmodifiedFlags, ReportErrors, Settled,
                parserVars, fixedVars
  <2>2. QED
    BY <2>1, StepSameNames, StillKeepsInv
<1>4. ASSUME NEW b \in BOOLEAN, ArgumentsDone(b) PROVE ArgvInv'
  BY <1>4, ArgumentsDoneArgv
<1>5. CASE (\E n \in Late : RegisterLate(n))
           \/ \E c \in Calls : SetCommandLineOptionWithMode(c.name, c.text, c.mode)
  <2>1. pc' = "ready"
    BY <1>5 DEF RegisterLate, SetCommandLineOptionWithMode
  <2>2. QED
    BY <2>1 DEF ArgvInv, Scanning, Recursive
<1>6. CASE UNCHANGED vars
  <2>1. UNCHANGED <<flags, command, order, cursor, first_nonopt, pc>>
    BY <1>6 DEF vars, parserVars, fixedVars
  <2>2. QED
    BY <2>1, StepSameNames, StillKeepsInv
<1>7. QED
  BY <1>1, <1>2, <1>3, <1>4, <1>5, <1>6, BeginArgv, EndOfOptionsArgv, ArgumentArgv
     DEF Next, ParseStep, Finished

(* Whatever the command line and the flags are, a parse hands back every   *)
(* operand, those behind "--" first, and no option or value, from the index *)
(* on that it returns; the options are in front in their order, or cut off.*)
THEOREM OperandsAreKeptHolds == Spec => []OperandsAreKept
<1>1. TypeInv /\ ArgvInv => OperandsAreKept
  <2> DEFINE n == Len(command)
             front == 1 .. first_nonopt - 1
             rest  == first_nonopt .. Len(order)
  <2> SUFFICES ASSUME TypeInv, ArgvInv, pc = "done"
               PROVE  /\ {order[i] : i \in rest} = Operands
                      /\ \A i, j \in rest : i < j => Precedes(order[i], order[j])
                      /\ \A i, j \in front : i < j => order[i] < order[j]
                      /\ front # {} => Len(order) = n
    BY DEF OperandsAreKept, Operands
  <2>1. Rearranged(order, first_nonopt, Len(order), n, Operands, Later)
    BY DEF ArgvInv
  <2>2. DOMAIN command = 1 .. n /\ \A i \in rest : order[i] \in 1 .. n
    <3>1. DOMAIN command = 1 .. n
      BY TypesOfInv DEF TypeInv
    <3>2. Operands \subseteq DOMAIN command
      BY DEF Operands
    <3>3. {order[i] : i \in rest} = Operands
      BY <2>1 DEF Rearranged
    <3>4. QED
      BY <3>1, <3>2, <3>3
  <2>3. \A i \in rest : order[i] \in Later <=> AfterOptions(order[i])
    BY <2>2 DEF Later
  <2>4. front # {} => first_nonopt > 1
    BY DEF TypeInv, TypeOK
  <2>5. QED
    BY <2>1, <2>3, <2>4 DEF Rearranged, Precedes
<1>2. QED
  BY <1>1, TypeInvHolds, InitArgv, InitTypes, NextArgv, NextTypes, PTL DEF Spec
=============================================================================
