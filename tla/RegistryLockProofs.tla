------------------------- MODULE RegistryLockProofs -------------------------
(***************************************************************************)
(* Proofs about RegistryLock for every number of threads and calls and for *)
(* every choice of the calls that validate functions and exit handlers     *)
(* make.                                                                   *)
(***************************************************************************)
EXTENDS RegistryLock, FiniteSetTheorems, FunctionTheorems, TLAPS

-----------------------------------------------------------------------------
(* What is left of a sequence when its first k elements are gone.          *)
LEMMA Remains ==
  ASSUME NEW S, NEW s \in Seq(S), NEW k \in 0 .. Len(s)
  PROVE  LET rest == SubSeq(s, k + 1, Len(s))
         IN  /\ rest \in Seq(S)
             /\ Len(rest) = Len(s) - k
             /\ \A i \in 1 .. Len(s) - k : rest[i] = s[k + i]
<1>1. SubSeq(s, k + 1, Len(s)) \in Seq(S)
  OBVIOUS
<1>2. Len(SubSeq(s, k + 1, Len(s))) = Len(s) - k
  OBVIOUS
<1>3. \A i \in 1 .. Len(s) - k : SubSeq(s, k + 1, Len(s))[i] = s[k + i]
  OBVIOUS
<1>. QED
  BY <1>1, <1>2, <1>3, Zenon

(* All of a sequence but its last element.                                 *)
LEMMA Lower ==
  ASSUME NEW S, NEW s \in Seq(S), s # <<>>
  PROVE  LET rest == SubSeq(s, 1, Len(s) - 1)
         IN  /\ rest \in Seq(S)
             /\ Len(rest) = Len(s) - 1
             /\ \A i \in 1 .. Len(s) - 1 : rest[i] = s[i]
<1> DEFINE n == Len(s) - 1
<1>1. n \in Nat /\ n <= Len(s) /\ Len(s) \in Nat
  OBVIOUS
<1> HIDE DEF n
<1>2. SubSeq(s, 1, n) \in Seq(S)
  BY <1>1
<1>3. Len(SubSeq(s, 1, n)) = n
  BY <1>1
<1>4. \A i \in 1 .. n : SubSeq(s, 1, n)[i] = s[i]
  BY <1>1
<1>. QED
  BY <1>2, <1>3, <1>4, Zenon DEF n
-----------------------------------------------------------------------------
(* The scripts.                                                            *)

(* The things that are done with the lock held, and those after which it   *)
(* is held.                                                                *)
UnderLock == {"look", "ask", "store", "files", "insert", "restore", "unlock"}

LeavesLocked == (UnderLock \ {"unlock"}) \cup {"lock"}

Thing ==
  UnderLock \cup {"lock", "help", "report", "quit", "handlers", "blocked"}

(* What is still to be done fits together: a step leaves the lock held     *)
(* exactly if the next one is done under it, a refusal has an unlock to go *)
(* to, SET_FLAG_IF_DEFAULT has files to go to, and --help is not handled   *)
(* twice over.                                                             *)
Chained(todo) ==
  \A k \in 1 .. Len(todo) :
    todo[k] \in LeavesLocked <=> k < Len(todo) /\ todo[k + 1] \in UnderLock

Refusal(todo, k, j, n) ==
  /\ k + j <= n
  /\ todo[k + j] = "unlock"
  /\ \A i \in k .. k + j - 1 : todo[i] # "unlock"

Refusable(todo) ==
  \A k \in 1 .. Len(todo) : todo[k] = "ask" =>
    \E j \in 1 .. 3 : Refusal(todo, k, j, Len(todo))

Skippable(call, todo) ==
  call = "ifdefault" =>
    \A k \in 1 .. Len(todo) :
      /\ todo[k] = "look" => k + 3 <= Len(todo) /\ todo[k + 3] = "files"
      /\ k > 1 /\ todo[k] \in {"ask", "store"} => todo[k - 1] \in {"look", "ask"}

Handlers(call, todo) ==
  /\ call = "exit" => todo = <<"handlers">>
  /\ call = "exitAgain" => todo = <<"blocked">>
  /\ call = "usage" => \A k \in 1 .. Len(todo) : todo[k] # "help"

Fits(call, todo) ==
  /\ todo \in Seq(Thing)
  /\ Chained(todo) /\ Refusable(todo)
  /\ Skippable(call, todo) /\ Handlers(call, todo)

(* What takes the lock and gives it back, and can be done after and before *)
(* others of its kind.                                                     *)
Block(todo) ==
  /\ todo \in Seq(Thing) /\ todo # <<>>
  /\ todo[1] \notin UnderLock
  /\ Chained(todo) /\ Refusable(todo)

LEMMA Joined ==
  ASSUME NEW s, NEW t, Block(s), Block(t) PROVE Block(s \o t)
<1> DEFINE u == s \o t
           m == Len(s)
           n == Len(t)
<1>1. m \in Nat \ {0} /\ n \in Nat \ {0}
  BY DEF Block
<1>2. u \in Seq(Thing) /\ Len(u) = m + n
  BY DEF Block
<1>3. \A k \in 1 .. m : u[k] = s[k]
  BY DEF Block
<1>4. \A k \in m + 1 .. m + n : u[k] = t[k - m]
  BY DEF Block
<1>5. u # <<>> /\ u[1] = s[1] /\ s[1] \notin UnderLock /\ t[1] \notin UnderLock
  BY <1>1, <1>2, <1>3 DEF Block
<1>6. /\ \A k \in 1 .. m : s[k] \in LeavesLocked <=> k < m /\ s[k + 1] \in UnderLock
      /\ \A k \in 1 .. n : t[k] \in LeavesLocked <=> k < n /\ t[k + 1] \in UnderLock
  BY DEF Block, Chained
<1>7. /\ \A k \in 1 .. m : s[k] = "ask" => \E j \in 1 .. 3 : Refusal(s, k, j, m)
      /\ \A k \in 1 .. n : t[k] = "ask" => \E j \in 1 .. 3 : Refusal(t, k, j, n)
  BY DEF Block, Refusable
<1> HIDE DEF u, m, n
<1>8. Chained(u)
  <2> SUFFICES ASSUME NEW k \in 1 .. m + n
               PROVE  u[k] \in LeavesLocked <=> k < m + n /\ u[k + 1] \in UnderLock
    BY <1>2 DEF Chained
  <2>1. CASE k < m
    <3>1. k \in 1 .. m /\ k + 1 \in 1 .. m /\ k < m + n
      BY <2>1, <1>1
    <3>2. u[k] = s[k] /\ u[k + 1] = s[k + 1]
      BY <3>1, <1>3
    <3>. QED
      BY <3>1, <3>2, <2>1, <1>6
  <2>2. CASE k = m
    <3>1. m \in 1 .. m /\ m + 1 \in m + 1 .. m + n /\ m < m + n /\ (m + 1) - m = 1
      BY <1>1
    <3>2. u[k] = s[m] /\ u[k + 1] = t[1]
      BY <3>1, <2>2, <1>3, <1>4
    <3>. QED
      BY <3>1, <3>2, <2>2, <1>1, <1>5, <1>6
  <2>3. CASE k > m
    <3>1. k - m \in 1 .. n /\ k \in m + 1 .. m + n /\ (k + 1) - m = (k - m) + 1
      BY <2>3, <1>1
    <3>2. k < m + n <=> k - m < n
      BY <1>1
    <3>3. u[k] = t[k - m]
      BY <3>1, <1>4
    <3>4. k < m + n => u[k + 1] = t[(k - m) + 1]
      <4>1. k < m + n => k + 1 \in m + 1 .. m + n
        BY <3>1, <1>1
      <4>. QED
        BY <4>1, <3>1, <1>4
    <3>. QED
      BY <3>1, <3>2, <3>3, <3>4, <1>6
  <2>. QED
    BY <2>1, <2>2, <2>3, <1>1
<1>9. Refusable(u)
  <2> SUFFICES ASSUME NEW k \in 1 .. m + n, u[k] = "ask"
               PROVE  \E j \in 1 .. 3 : Refusal(u, k, j, m + n)
    BY <1>2 DEF Refusable
  <2>1. CASE k <= m
    <3>1. s[k] = "ask" /\ k \in 1 .. m
      BY <2>1, <1>1, <1>3
    <3>2. PICK j \in 1 .. 3 : Refusal(s, k, j, m)
      BY <3>1, <1>7
    <3>3. \A i \in k .. k + j : i \in 1 .. m /\ u[i] = s[i]
      <4>1. \A i \in k .. k + j : i \in 1 .. m
        BY <3>1, <3>2, <1>1 DEF Refusal
      <4>. QED
        BY <4>1, <1>3
    <3>4. Refusal(u, k, j, m + n)
      BY <3>1, <3>2, <3>3, <1>1 DEF Refusal
    <3>. QED
      BY <3>4
  <2>2. CASE k > m
    <3>1. t[k - m] = "ask" /\ k - m \in 1 .. n
      BY <2>2, <1>1, <1>4
    <3>2. PICK j \in 1 .. 3 : Refusal(t, k - m, j, n)
      BY <3>1, <1>7
    <3>3. (k - m) + j <= n /\ (k - m) + j = (k + j) - m
      BY <3>2, <1>1 DEF Refusal
    <3>4. \A i \in k .. k + j : u[i] = t[i - m]
      <4>1. \A i \in k .. k + j : i \in m + 1 .. m + n
        BY <2>2, <3>3, <1>1
      <4>. QED
        BY <4>1, <1>4
    <3>5. u[k + j] = "unlock"
      BY <3>2, <3>3, <3>4, <1>1 DEF Refusal
    <3>6. ASSUME NEW i \in k .. k + j - 1 PROVE u[i] # "unlock"
      <4>1. i \in k .. k + j /\ i - m \in k - m .. (k - m) + j - 1
        BY <1>1
      <4>. QED
        BY <4>1, <3>2, <3>4 DEF Refusal
    <3>7. Refusal(u, k, j, m + n)
      BY <3>3, <3>5, <3>6, <1>1 DEF Refusal
    <3>. QED
      BY <3>7
  <2>. QED
    BY <2>1, <2>2, <1>1
<1>. QED
  BY <1>2, <1>5, <1>8, <1>9 DEF Block, u

LEMMA Kinds ==
  DOMAIN Script = {"get", "set", "ifdefault", "register", "read", "parse",
                   "usage", "exit", "exitAgain"}
BY DEF Script

(* What holds of short lists can be looked up.                             *)
LEMMA ShortBlock ==
  ASSUME NEW s \in Seq(Thing), s # <<>>, s[1] \notin UnderLock, Chained(s),
         \A k \in 1 .. Len(s) : s[k] # "ask"
  PROVE  Block(s)
BY DEF Block, Refusable

LEMMA AskingBlock ==
  ASSUME NEW s, NEW n \in Nat, s \in Seq(Thing) /\ Len(s) = n /\ s # <<>>, Chained(s),
         NEW a \in 1 .. n, NEW j \in 1 .. 3, Refusal(s, a, j, n),
         s[1] \notin UnderLock /\ \A k \in 1 .. n : s[k] = "ask" => k = a
  PROVE  Block(s)
BY DEF Block, Refusable

LEMMA ScriptsAreBlocks == \A c \in DOMAIN Script : Block(Script[c])
<1>1. Block(GetAllFlags)
  <2> DEFINE s == GetAllFlags
  <2>1. Chained(s)
    BY DEF GetAllFlags, Chained, UnderLock, LeavesLocked
  <2>2. s \in Seq(Thing) /\ Len(s) = 3 /\ s # <<>>
    BY DEF GetAllFlags, Thing, UnderLock
  <2>3. s[1] \notin UnderLock /\ \A k \in 1 .. 3 : s[k] # "ask"
    BY DEF GetAllFlags, UnderLock
  <2> HIDE DEF s
  <2>4. Block(s)
    BY <2>1, <2>2, <2>3, ShortBlock
  <2>. QED
    BY <2>4 DEF s
<1>2. Block(SetCommandLineOption)
  <2> DEFINE s == SetCommandLineOption
  <2>1. Chained(s)
    BY DEF SetCommandLineOption, Chained, UnderLock, LeavesLocked
  <2>2. s \in Seq(Thing) /\ Len(s) = 6 /\ s # <<>>
    BY DEF SetCommandLineOption, Thing, UnderLock
  <2>3. s[1] \notin UnderLock /\ \A k \in 1 .. 6 : s[k] = "ask" => k = 3
    BY DEF SetCommandLineOption, UnderLock
  <2>4. Refusal(s, 3, 3, 6)
    BY DEF SetCommandLineOption, Refusal
  <2> HIDE DEF s
  <2>5. 6 \in Nat /\ 3 \in 1 .. 6 /\ 3 \in 1 .. 3
    OBVIOUS
  <2>6. Block(s)
    BY <2>1, <2>2, <2>3, <2>4, <2>5, AskingBlock
  <2>. QED
    BY <2>6 DEF s
<1>3. Block(RegisterFlag)
  <2> DEFINE s == RegisterFlag
  <2>1. Chained(s)
    BY DEF RegisterFlag, Chained, UnderLock, LeavesLocked
  <2>2. s \in Seq(Thing) /\ Len(s) = 3 /\ s # <<>>
    BY DEF RegisterFlag, Thing, UnderLock
  <2>3. s[1] \notin UnderLock /\ \A k \in 1 .. 3 : s[k] # "ask"
    BY DEF RegisterFlag, UnderLock
  <2> HIDE DEF s
  <2>4. Block(s)
    BY <2>1, <2>2, <2>3, ShortBlock
  <2>. QED
    BY <2>4 DEF s
<1>4. Block(Process)
  <2> DEFINE s == Process
  <2>1. Chained(s)
    BY DEF Process, Chained, UnderLock, LeavesLocked
  <2>2. s \in Seq(Thing) /\ Len(s) = 5 /\ s # <<>>
    BY DEF Process, Thing, UnderLock
  <2>3. s[1] \notin UnderLock /\ \A k \in 1 .. 5 : s[k] = "ask" => k = 3
    BY DEF Process, UnderLock
  <2>4. Refusal(s, 3, 2, 5)
    BY DEF Process, Refusal
  <2> HIDE DEF s
  <2>5. 5 \in Nat /\ 3 \in 1 .. 5 /\ 2 \in 1 .. 3
    OBVIOUS
  <2>6. Block(s)
    BY <2>1, <2>2, <2>3, <2>4, <2>5, AskingBlock
  <2>. QED
    BY <2>6 DEF s
<1>5. Block(<<"help", "report", "lock", "restore", "unlock">>)
  <2> DEFINE s == <<"help", "report", "lock", "restore", "unlock">>
  <2>1. Chained(s)
    BY DEF s, Chained, UnderLock, LeavesLocked
  <2>2. s \in Seq(Thing) /\ Len(s) = 5 /\ s # <<>>
    BY DEF s, Thing, UnderLock
  <2>3. s[1] \notin UnderLock /\ \A k \in 1 .. 5 : s[k] # "ask"
    BY DEF s, UnderLock
  <2> HIDE DEF s
  <2>4. Block(s)
    BY <2>1, <2>2, <2>3, ShortBlock
  <2>. QED
    BY <2>4 DEF s
<1>6. Block(<<"help", "lock", "ask", "unlock", "report">>)
  <2> DEFINE s == <<"help", "lock", "ask", "unlock", "report">>
  <2>1. Chained(s)
    BY DEF s, Chained, UnderLock, LeavesLocked
  <2>2. s \in Seq(Thing) /\ Len(s) = 5 /\ s # <<>>
    BY DEF s, Thing, UnderLock
  <2>3. s[1] \notin UnderLock /\ \A k \in 1 .. 5 : s[k] = "ask" => k = 3
    BY DEF s, UnderLock
  <2>4. Refusal(s, 3, 1, 5)
    BY DEF s, Refusal
  <2> HIDE DEF s
  <2>5. 5 \in Nat /\ 3 \in 1 .. 5 /\ 1 \in 1 .. 3
    OBVIOUS
  <2>6. Block(s)
    BY <2>1, <2>2, <2>3, <2>4, <2>5, AskingBlock
  <2>. QED
    BY <2>6 DEF s
<1>7. Block(<<"quit">>)
  <2> DEFINE s == <<"quit">>
  <2>1. Chained(s)
    BY DEF s, Chained, UnderLock, LeavesLocked
  <2>2. s \in Seq(Thing) /\ Len(s) = 1 /\ s # <<>>
    BY DEF s, Thing, UnderLock
  <2>3. s[1] \notin UnderLock /\ \A k \in 1 .. 1 : s[k] # "ask"
    BY DEF s, UnderLock
  <2> HIDE DEF s
  <2>4. Block(s)
    BY <2>1, <2>2, <2>3, ShortBlock
  <2>. QED
    BY <2>4 DEF s
<1>8. Block(<<"handlers">>)
  <2> DEFINE s == <<"handlers">>
  <2>1. Chained(s)
    BY DEF s, Chained, UnderLock, LeavesLocked
  <2>2. s \in Seq(Thing) /\ Len(s) = 1 /\ s # <<>>
    BY DEF s, Thing, UnderLock
  <2>3. s[1] \notin UnderLock /\ \A k \in 1 .. 1 : s[k] # "ask"
    BY DEF s, UnderLock
  <2> HIDE DEF s
  <2>4. Block(s)
    BY <2>1, <2>2, <2>3, ShortBlock
  <2>. QED
    BY <2>4 DEF s
<1>9. Block(<<"blocked">>)
  <2> DEFINE s == <<"blocked">>
  <2>1. Chained(s)
    BY DEF s, Chained, UnderLock, LeavesLocked
  <2>2. s \in Seq(Thing) /\ Len(s) = 1 /\ s # <<>>
    BY DEF s, Thing, UnderLock
  <2>3. s[1] \notin UnderLock /\ \A k \in 1 .. 1 : s[k] # "ask"
    BY DEF s, UnderLock
  <2> HIDE DEF s
  <2>4. Block(s)
    BY <2>1, <2>2, <2>3, ShortBlock
  <2>. QED
    BY <2>4 DEF s
<1>10. Block(ReadFlagsFromString)
  <2>1. Block(<<"lock", "look", "unlock">>)
    BY <1>1 DEF GetAllFlags
  <2>2. Block(<<"lock", "look", "unlock">> \o Process)
    BY <2>1, <1>4, Joined
  <2>. QED
    BY <2>2, <1>5, Joined DEF ReadFlagsFromString
<1>11. Block(ParseCommandLineFlags)
  <2>1. Block(Process \o Process)
    BY <1>4, Joined
  <2>. QED
    BY <2>1, <1>6, Joined DEF ParseCommandLineFlags
<1>12. Block(ShowUsage)
  BY <1>1, <1>7, Joined DEF ShowUsage
<1>. QED
  BY <1>1, <1>2, <1>3, <1>8, <1>9, <1>10, <1>11, <1>12 DEF Script

LEMMA ScriptsFit ==
  ASSUME NEW c \in DOMAIN Script
  PROVE  Fits(c, Script[c]) /\ Script[c] # <<>> /\ Script[c][1] \notin UnderLock
<1>1. Block(Script[c])
  BY ScriptsAreBlocks
<1>2. Skippable(c, Script[c])
  <2> SUFFICES ASSUME c = "ifdefault" PROVE Skippable(c, Script[c])
    BY DEF Skippable
  <2>1. Script[c] = SetCommandLineOption
    BY DEF Script
  <2>2. Skippable(c, SetCommandLineOption)
    BY DEF Skippable, SetCommandLineOption
  <2>. QED
    BY <2>1, <2>2
<1>3. Handlers(c, Script[c])
  <2>1. /\ c = "exit" => Script[c] = <<"handlers">>
        /\ c = "exitAgain" => Script[c] = <<"blocked">>
        /\ c = "usage" => Script[c] = ShowUsage
    BY DEF Script
  <2>2. \A k \in 1 .. Len(ShowUsage) : ShowUsage[k] # "help"
    BY DEF ShowUsage, GetAllFlags
  <2>. QED
    BY <2>1, <2>2 DEF Handlers
<1>. QED
  BY <1>1, <1>2, <1>3 DEF Fits, Block

(* What is left of what fits still fits.                                   *)
LEMMA RestFits ==
  ASSUME NEW c, NEW todo, Fits(c, todo), NEW n \in Nat, n = Len(todo),
         NEW k \in Nat, k > 0, k < n
  PROVE  LET rest == SubSeq(todo, k + 1, n)
         IN  Fits(c, rest) /\ rest # <<>> /\ rest[1] = todo[k + 1]
<1> DEFINE rest == SubSeq(todo, k + 1, n)
           m == n - k
<1>1. m \in Nat \ {0} /\ k + m = n
  OBVIOUS
<1>2. /\ rest \in Seq(Thing)
      /\ Len(rest) = m
      /\ \A i \in 1 .. m : rest[i] = todo[k + i]
  <2>1. k \in 0 .. n /\ todo \in Seq(Thing)
    BY DEF Fits
  <2>. QED
    BY <2>1, Remains
<1>3. \A i \in 1 .. m : rest[i] = todo[k + i]
  BY <1>2
<1>4. /\ \A i \in 1 .. n : todo[i] \in LeavesLocked <=> i < n /\ todo[i + 1] \in UnderLock
      /\ \A i \in 1 .. n : todo[i] = "ask" => \E j \in 1 .. 3 : Refusal(todo, i, j, n)
      /\ c = "ifdefault" =>
           \A i \in 1 .. n :
             /\ todo[i] = "look" => i + 3 <= n /\ todo[i + 3] = "files"
             /\ i > 1 /\ todo[i] \in {"ask", "store"} => todo[i - 1] \in {"look", "ask"}
  BY DEF Fits, Chained, Refusable, Skippable
<1>5. c \notin {"exit", "exitAgain"}
  <2>1. Len(<<"handlers">>) = 1 /\ Len(<<"blocked">>) = 1
    OBVIOUS
  <2>2. c \in {"exit", "exitAgain"} => n = 1
    BY <2>1 DEF Fits, Handlers
  <2>3. n # 1
    OBVIOUS
  <2>. QED
    BY <2>2, <2>3
<1> HIDE DEF rest, m
<1>6. \A i \in 1 .. m : k + i \in 1 .. n /\ (k + i < n <=> i < m)
  BY <1>1
<1>7. Chained(rest)
  <2> SUFFICES ASSUME NEW i \in 1 .. m
               PROVE  rest[i] \in LeavesLocked <=> i < m /\ rest[i + 1] \in UnderLock
    BY <1>2 DEF Chained
  <2>1. i < m => i + 1 \in 1 .. m /\ k + (i + 1) = (k + i) + 1
    BY <1>1
  <2>. QED
    BY <2>1, <1>3, <1>4, <1>6
<1>8. Refusable(rest)
  <2> SUFFICES ASSUME NEW i \in 1 .. m, rest[i] = "ask"
               PROVE  \E j \in 1 .. 3 : Refusal(rest, i, j, m)
    BY <1>2 DEF Refusable
  <2>1. PICK j \in 1 .. 3 : Refusal(todo, k + i, j, n)
    BY <1>3, <1>4, <1>6
  <2>2. i + j <= m
    BY <2>1, <1>1 DEF Refusal
  <2>3. \A x \in i .. i + j : x \in 1 .. m /\ rest[x] = todo[k + x]
    <3>1. \A x \in i .. i + j : x \in 1 .. m
      BY <2>2, <1>1
    <3>. QED
      BY <3>1, <1>3
  <2>4. rest[i + j] = "unlock"
    <3>1. k + (i + j) = (k + i) + j
      BY <1>1
    <3>. QED
      BY <3>1, <2>1, <2>3 DEF Refusal
  <2>5. ASSUME NEW x \in i .. i + j - 1 PROVE rest[x] # "unlock"
    <3>1. k + x \in k + i .. (k + i) + j - 1 /\ x \in i .. i + j
      BY <1>1
    <3>. QED
      BY <3>1, <2>1, <2>3 DEF Refusal
  <2>. QED
    BY <2>2, <2>4, <2>5 DEF Refusal
<1>9. Skippable(c, rest)
  <2> SUFFICES ASSUME c = "ifdefault", NEW i \in 1 .. m
               PROVE  /\ rest[i] = "look" => i + 3 <= m /\ rest[i + 3] = "files"
                      /\ i > 1 /\ rest[i] \in {"ask", "store"} =>
                           rest[i - 1] \in {"look", "ask"}
    BY <1>2 DEF Skippable
  <2>1. rest[i] = "look" => i + 3 <= m /\ rest[i + 3] = "files"
    <3>1. i + 3 <= m => i + 3 \in 1 .. m /\ k + (i + 3) = (k + i) + 3
      BY <1>1
    <3>2. (k + i) + 3 <= n => i + 3 <= m
      BY <1>1
    <3>. QED
      BY <3>1, <3>2, <1>3, <1>4, <1>6
  <2>2. i > 1 => i - 1 \in 1 .. m /\ k + (i - 1) = (k + i) - 1 /\ k + i > 1
    BY <1>1
  <2>3. i > 1 /\ rest[i] \in {"ask", "store"} => rest[i - 1] \in {"look", "ask"}
    BY <2>2, <1>3, <1>4, <1>6
  <2>. QED
    BY <2>1, <2>3
<1>10. rest # <<>> /\ rest[1] = todo[k + 1] /\ Handlers(c, rest)
  <2>1. c = "usage" => \A i \in 1 .. n : todo[i] # "help"
    BY DEF Fits, Handlers
  <2>2. c = "usage" => \A i \in 1 .. m : rest[i] # "help"
    BY <2>1, <1>3, <1>6
  <2>. QED
    BY <2>2, <1>1, <1>2, <1>3, <1>5 DEF Handlers
<1>11. Fits(c, rest)
  BY <1>2, <1>7, <1>8, <1>9, <1>10 DEF Fits
<1>. QED
  BY <1>10, <1>11 DEF rest

-----------------------------------------------------------------------------
(* The stacks.                                                             *)

Activation == [call : DOMAIN Script, todo : Seq(Thing), seen : Thread \cup {NULL}]

Fine(f) == Fits(f.call, f.todo) /\ f.todo # <<>>

(* What a call may be about to do while it waits for another to return:    *)
(* things the program's functions or exit() are called for, and --help,    *)
(* which the program has asked for.                                        *)
Waits(f, g) ==
  /\ \/ f.todo[1] \in {"ask", "handlers", "help", "quit", "report"}
     \/ f.todo[1] \in {"insert", "files"} /\ g.call \in {"exit", "exitAgain"}
  /\ g.call = "usage" => f.call \in API /\ f.todo[1] = "help"

Stacked(F) ==
  /\ F \in Seq(Activation)
  /\ \A i \in 1 .. Len(F) : Fine(F[i])
  /\ \A i \in 1 .. Len(F) - 1 : Waits(F[i], F[i + 1])
  /\ Len(F) > 0 => F[1].call # "usage"

(* The calls of a thread that have the lock.                               *)
Holds(F) == {i \in 1 .. Len(F) : F[i].todo[1] \in UnderLock}

(* SET_FLAG_IF_DEFAULT has found the flag as it was and has yet to store.  *)
Armed(f) == f.call = "ifdefault" /\ f.todo[1] \in {"ask", "store"}

(* From then on nobody else has set the flag, and nothing the validate     *)
(* function of the call does will bring back what somebody else set.       *)
Guarded(F, t, v) ==
  \A i \in 1 .. Len(F) : Armed(F[i]) =>
    v \in {NULL, t} /\ \A j \in i + 1 .. Len(F) : F[j].seen \in {NULL, t}

LEMMA Entered ==
  ASSUME NEW c \in DOMAIN Script
  PROVE  /\ Enter(c) \in Activation /\ Fine(Enter(c))
         /\ Enter(c).call = c /\ Enter(c).seen = NULL
         /\ Enter(c).todo[1] \notin UnderLock
<1>1. Script[c] \in Seq(Thing)
  BY ScriptsFit DEF Fits
<1>. QED
  BY <1>1, ScriptsFit DEF Enter, Activation, Fine

LEMMA Pushed ==
  ASSUME NEW t, NEW v, NEW F, Stacked(F), Guarded(F, t, v), NEW c \in DOMAIN Script,
         IF F = <<>> THEN c # "usage" ELSE Waits(F[Len(F)], Enter(c))
  PROVE  LET G == Append(F, Enter(c))
         IN  Stacked(G) /\ Holds(G) = Holds(F) /\ Guarded(G, t, v)
<1> DEFINE g == Enter(c)
           G == Append(F, g)
           n == Len(F)
<1>1. F \in Seq(Activation) /\ n \in Nat /\ (F = <<>> <=> n = 0)
  BY DEF Stacked
<1>2. g \in Activation /\ Fine(g) /\ g.call = c /\ g.seen = NULL /\ g.todo[1] \notin UnderLock
  BY Entered
<1>3. (n # 0 => Waits(F[n], g)) /\ (n = 0 => c # "usage")
  BY <1>1
<1> HIDE DEF g
<1>4. G \in Seq(Activation) /\ Len(G) = n + 1 /\ G[n + 1] = g /\ \A i \in 1 .. n : G[i] = F[i]
  BY <1>1, <1>2
<1> HIDE DEF G, n
<1>5. /\ \A i \in 1 .. n : Fine(F[i])
      /\ \A i \in 1 .. n - 1 : Waits(F[i], F[i + 1])
      /\ n > 0 => F[1].call # "usage"
  BY DEF Stacked, n
<1>6. Stacked(G)
  <2>1. ASSUME NEW i \in 1 .. n + 1 PROVE Fine(G[i])
    <3>1. i \in 1 .. n \/ i = n + 1
      BY <1>1
    <3>. QED
      BY <3>1, <1>2, <1>4, <1>5
  <2>2. ASSUME NEW i \in 1 .. (n + 1) - 1 PROVE Waits(G[i], G[i + 1])
    <3>1. i \in 1 .. n
      BY <1>1
    <3>2. CASE i = n
      BY <3>1, <3>2, <1>1, <1>3, <1>4
    <3>3. CASE i # n
      <4>1. i \in 1 .. n - 1 /\ i + 1 \in 1 .. n
        BY <3>1, <3>3, <1>1
      <4>. QED
        BY <3>1, <4>1, <1>4, <1>5
    <3>. QED
      BY <3>2, <3>3
  <2>3. G[1].call # "usage"
    <3>1. n = 0 \/ (n > 0 /\ 1 \in 1 .. n)
      BY <1>1
    <3>. QED
      BY <3>1, <1>2, <1>3, <1>4, <1>5
  <2>. QED
    BY <1>4, <2>1, <2>2, <2>3 DEF Stacked
<1>7. Holds(G) = Holds(F)
  <2>1. \A i \in 1 .. n + 1 : i \in 1 .. n \/ i = n + 1
    BY <1>1
  <2>2. \A i \in 1 .. n : i \in 1 .. n + 1
    BY <1>1
  <2>. QED
    BY <1>2, <1>4, <2>1, <2>2 DEF Holds, n
<1>8. Guarded(G, t, v)
  <2> SUFFICES ASSUME NEW i \in 1 .. n + 1, Armed(G[i])
               PROVE  v \in {NULL, t} /\ \A j \in i + 1 .. n + 1 : G[j].seen \in {NULL, t}
    BY <1>4 DEF Guarded
  <2>1. i \in 1 .. n
    <3>1. ~Armed(g)
      BY <1>2 DEF Armed, UnderLock
    <3>. QED
      BY <3>1, <1>1, <1>4
  <2>2. v \in {NULL, t} /\ \A j \in i + 1 .. n : F[j].seen \in {NULL, t}
    BY <2>1, <1>4 DEF Guarded, n
  <2>3. ASSUME NEW j \in i + 1 .. n + 1 PROVE G[j].seen \in {NULL, t}
    <3>1. (j \in i + 1 .. n /\ j \in 1 .. n) \/ j = n + 1
      BY <1>1, <2>1
    <3>. QED
      BY <3>1, <2>2, <1>2, <1>4
  <2>. QED
    BY <2>2, <2>3
<1>. QED
  BY <1>6, <1>7, <1>8 DEF G, g

(* What is done next once k things are, and whether that is under the lock. *)
StaysLocked(f, k) == k < Len(f.todo) /\ f.todo[k + 1] \in UnderLock

(* All the calls but the innermost.                                        *)
Outer(F) == SubSeq(F, 1, Len(F) - 1)

LEMMA Popped ==
  ASSUME NEW F, Stacked(F), NEW n \in Nat, n = Len(F), n > 0
  PROVE  LET G == Outer(F)
         IN  /\ Stacked(G) /\ Len(G) = n - 1
             /\ \A i \in 1 .. n - 1 : G[i] = F[i]
             /\ Holds(G) = Holds(F) \ {n}
<1> DEFINE G == Outer(F)
<1>1. F \in Seq(Activation) /\ F # <<>>
  BY DEF Stacked
<1>2. G \in Seq(Activation) /\ Len(G) = n - 1 /\ \A i \in 1 .. n - 1 : G[i] = F[i]
  BY <1>1, Lower DEF Outer
<1> HIDE DEF G
<1>3. \A i \in 1 .. n - 1 : i \in 1 .. n /\ i # n
  OBVIOUS
<1>4. Stacked(G)
  <2>1. \A i \in 1 .. n - 1 : Fine(G[i])
    BY <1>2, <1>3 DEF Stacked
  <2>2. \A i \in 1 .. (n - 1) - 1 : i \in 1 .. n - 1 /\ i + 1 \in 1 .. n - 1
    OBVIOUS
  <2>3. \A i \in 1 .. (n - 1) - 1 : Waits(G[i], G[i + 1])
    BY <1>2, <2>2 DEF Stacked
  <2>4. n - 1 > 0 => G[1].call # "usage"
    <3>1. n - 1 > 0 => 1 \in 1 .. n - 1
      OBVIOUS
    <3>. QED
      BY <3>1, <1>2 DEF Stacked
  <2>. QED
    BY <1>2, <2>1, <2>3, <2>4 DEF Stacked
<1>5. Holds(G) = Holds(F) \ {n}
  <2>1. \A i \in 1 .. n : i = n \/ i \in 1 .. n - 1
    OBVIOUS
  <2>. QED
    BY <1>2, <1>3, <2>1 DEF Holds
<1>. QED
  BY <1>2, <1>4, <1>5 DEF G

(* Stack G is stack F, but that its innermost call did k things, has       *)
(* become g, and may have returned.                                        *)
MovesOn(F, k, g, G) ==
  LET n == Len(F)
  IN  /\ Stacked(G)
      /\ Holds(G) = (Holds(F) \ {n}) \cup (IF StaysLocked(F[n], k) THEN {n} ELSE {})
      /\ \A i \in 1 .. n - 1 : G[i] = F[i]
      /\ \/ Len(G) = n - 1
         \/ Len(G) = n /\ G[n] = g /\ g.todo[1] = F[n].todo[k + 1] /\ k < Len(F[n].todo)

LEMMA Advanced ==
  ASSUME NEW F, NEW n \in Nat, n = Len(F), n > 0, Stacked(F),
         NEW f, f = F[n], NEW low, low = Outer(F),
         NEW k \in Nat, k > 0, k <= Len(f.todo), NEW s \in Thread \cup {NULL},
         NEW g, g = Rest(f, k, s), NEW G, G = Resume(low, g)
  PROVE  MovesOn(F, k, g, G)
<1> DEFINE m == Len(f.todo)
<1>1. f \in Activation /\ Fine(f) /\ f.todo \in Seq(Thing) /\ m \in Nat
  <2>1. n \in 1 .. n
    OBVIOUS
  <2>2. f \in Activation /\ Fine(f)
    BY <2>1 DEF Stacked
  <2>3. f.todo \in Seq(Thing)
    BY <2>2 DEF Activation
  <2>. QED
    BY <2>2, <2>3
<1>2. /\ Stacked(low) /\ Len(low) = n - 1
      /\ \A i \in 1 .. n - 1 : low[i] = F[i]
      /\ Holds(low) = Holds(F) \ {n}
  BY Popped
<1>3. g.call = f.call /\ g.todo = SubSeq(f.todo, k + 1, m) /\ g.seen = s
  BY DEF Rest
<1>4. CASE k = m
  <2>1. g.todo = <<>>
    <3>1. Len(SubSeq(f.todo, k + 1, m)) = 0 /\ SubSeq(f.todo, k + 1, m) \in Seq(Thing)
      BY <1>1, <1>4
    <3>. QED
      BY <3>1, <1>3
  <2>2. G = low
    BY <2>1 DEF Resume
  <2>3. ~StaysLocked(f, k)
    BY <1>1, <1>4 DEF StaysLocked
  <2>. QED
    BY <1>2, <2>2, <2>3 DEF MovesOn
<1>5. CASE k < m
  <2>1. Fits(g.call, g.todo) /\ g.todo # <<>> /\ g.todo[1] = f.todo[k + 1]
    <3> DEFINE c == f.call
               todo == f.todo
    <3>1. Fits(c, todo) /\ m = Len(todo) /\ m \in Nat
      BY <1>1 DEF Fine
    <3>2. k \in Nat /\ k > 0 /\ k < m
      BY <1>5
    <3> HIDE DEF m, c, todo
    <3>3. /\ Fits(c, SubSeq(todo, k + 1, m))
          /\ SubSeq(todo, k + 1, m) # <<>>
          /\ SubSeq(todo, k + 1, m)[1] = todo[k + 1]
      BY <3>1, <3>2, RestFits
    <3>. QED
      BY <3>3, <1>3 DEF c, todo
  <2>2. g \in Activation /\ Fine(g)
    <3>1. g.todo \in Seq(Thing)
      BY <2>1 DEF Fits
    <3>2. g = [call |-> f.call, todo |-> g.todo, seen |-> s]
      BY <1>3 DEF Rest
    <3>. QED
      BY <1>1, <2>1, <3>1, <3>2, <1>3 DEF Activation, Fine
  <2>3. G = Append(low, g)
    BY <2>1 DEF Resume
  <2>4. StaysLocked(f, k) <=> g.todo[1] \in UnderLock
    BY <1>5, <2>1 DEF StaysLocked
  <2> HIDE DEF m
  <2>5. low \in Seq(Activation) /\ F \in Seq(Activation)
    BY <1>2 DEF Stacked
  <2>6. G \in Seq(Activation) /\ Len(G) = n /\ G[n] = g /\ \A i \in 1 .. n - 1 : G[i] = low[i]
    <3>1. Append(low, g) \in Seq(Activation)
      BY <2>2, <2>5
    <3>2. Len(Append(low, g)) = n
      BY <1>2, <2>5
    <3>3. Append(low, g)[n] = g
      BY <1>2, <2>5
    <3>4. \A i \in 1 .. n - 1 : Append(low, g)[i] = low[i]
      BY <1>2, <2>5
    <3>. QED
      BY <2>3, <3>1, <3>2, <3>3, <3>4
  <2>7. \A i \in 1 .. n : i = n \/ i \in 1 .. n - 1
    OBVIOUS
  <2>8. \A i \in 1 .. n - 1 : i \in 1 .. n /\ i # n /\ i + 1 \in 1 .. n
    OBVIOUS
  <2>9. Stacked(G)
    <3>1. \A i \in 1 .. n : Fine(G[i])
      BY <1>2, <2>2, <2>6, <2>7 DEF Stacked
    <3>2. ASSUME NEW i \in 1 .. n - 1 PROVE Waits(G[i], G[i + 1])
      <4>1. Waits(F[i], F[i + 1])
        BY <2>8 DEF Stacked
      <4>2. CASE i + 1 = n
        <5>1. Waits(F[i], f)
          BY <4>1, <4>2
        <5>2. G[i] = F[i] /\ G[i + 1] = g
          BY <1>2, <2>6, <4>2
        <5>. QED
          BY <5>1, <5>2, <1>3 DEF Waits
      <4>3. CASE i + 1 # n
        <5>1. i + 1 \in 1 .. n - 1
          BY <4>3, <2>7, <2>8
        <5>. QED
          BY <4>1, <5>1, <1>2, <2>6
      <4>. QED
        BY <4>2, <4>3
    <3>3. G[1].call # "usage"
      <4>1. n = 1 \/ 1 \in 1 .. n - 1
        OBVIOUS
      <4>. QED
        BY <4>1, <1>2, <1>3, <2>6 DEF Stacked
    <3>. QED
      BY <2>6, <3>1, <3>2, <3>3 DEF Stacked
  <2>10. Holds(G) = Holds(low) \cup (IF g.todo[1] \in UnderLock THEN {n} ELSE {})
    <3>1. ASSUME NEW i \in 1 .. n - 1 PROVE i \in Holds(G) <=> i \in Holds(low)
      BY <1>2, <2>6, <2>8 DEF Holds
    <3>2. n \in Holds(G) <=> g.todo[1] \in UnderLock
      BY <2>6 DEF Holds
    <3>3. n \notin Holds(low) /\ Holds(low) \subseteq 1 .. n - 1 /\ Holds(G) \subseteq 1 .. n
      BY <1>2, <2>6 DEF Holds
    <3>. QED
      BY <3>1, <3>2, <3>3, <2>7
  <2>11. Holds(G) = (Holds(F) \ {n}) \cup (IF StaysLocked(f, k) THEN {n} ELSE {})
    BY <1>2, <2>4, <2>10
  <2>12. \A i \in 1 .. n - 1 : G[i] = F[i]
    BY <1>2, <2>6
  <2>. QED
    BY <2>1, <1>5, <2>6, <2>9, <2>11, <2>12 DEF m, MovesOn
<1>. QED
  BY <1>1, <1>4, <1>5

LEMMA HoldsIsFinite ==
  ASSUME NEW F, Stacked(F)
  PROVE  /\ IsFiniteSet(Holds(F)) /\ Cardinality(Holds(F)) \in Nat
         /\ Cardinality(Holds(F)) = 0 <=> Holds(F) = {}
<1>1. Len(F) \in Nat /\ Holds(F) \subseteq 1 .. Len(F)
  BY DEF Stacked, Holds
<1>2. IsFiniteSet(1 .. Len(F))
  BY <1>1, FS_Interval
<1>3. IsFiniteSet(Holds(F))
  BY <1>1, <1>2, FS_Subset
<1>. QED
  BY <1>3, FS_CardinalityType, FS_EmptySet

-----------------------------------------------------------------------------
(* The invariant: the calls of a thread that have the lock are as many as  *)
(* the times it took it.                                                   *)
Inv ==
  /\ owner \in Thread \cup {NULL}
  /\ depth \in Nat
  /\ owner = NULL <=> depth = 0
  /\ setBy \in Thread \cup {NULL}
  /\ stack \in [Thread -> Seq(Activation)]
  /\ \A t \in Thread :
       /\ Stacked(stack[t])
       /\ Guarded(stack[t], t, setBy)
       /\ Cardinality(Holds(stack[t])) = IF owner = t THEN depth ELSE 0

LEMMA InitInv == Init => Inv
<1> SUFFICES ASSUME Init PROVE Inv
  OBVIOUS
<1>1. ASSUME NEW t \in Thread
      PROVE  /\ Stacked(stack[t]) /\ Guarded(stack[t], t, setBy)
             /\ Cardinality(Holds(stack[t])) = 0
  <2>1. stack[t] = <<>> /\ <<>> \in Seq(Activation) /\ Len(<<>>) = 0
    BY DEF Init
  <2>2. Stacked(stack[t]) /\ Guarded(stack[t], t, setBy) /\ Holds(stack[t]) = {}
    BY <2>1 DEF Stacked, Guarded, Holds
  <2>. QED
    BY <2>2, FS_EmptySet
<1>2. stack \in [Thread -> Seq(Activation)]
  BY DEF Init
<1>3. owner = NULL /\ depth = 0 /\ setBy = NULL /\ NULL \notin Thread
  BY LockAssumption DEF Init
<1>. QED
  BY <1>1, <1>2, <1>3 DEF Inv

LEMMA Settled ==
  ASSUME Inv, NEW t \in Thread, NEW G, stack' = [stack EXCEPT ![t] = G],
         Stacked(G), Guarded(G, t, setBy'),
         owner' \in {owner, t, NULL}, owner \in {owner', t, NULL},
         depth' \in Nat, owner' = NULL <=> depth' = 0,
         owner' = owner /\ owner # t => depth' = depth,
         setBy' \in Thread \cup {NULL},
         \A u \in Thread \ {t} : Guarded(stack[u], u, setBy'),
         Cardinality(Holds(G)) = IF owner' = t THEN depth' ELSE 0
  PROVE  Inv'
<1>1. owner' \in Thread \cup {NULL}
  BY DEF Inv
<1>2. stack' \in [Thread -> Seq(Activation)]
  BY DEF Inv, Stacked
<1>3. ASSUME NEW u \in Thread
      PROVE  /\ Stacked(stack'[u]) /\ Guarded(stack'[u], u, setBy')
             /\ Cardinality(Holds(stack'[u])) = IF owner' = u THEN depth' ELSE 0
  <2>1. CASE u = t
    <3>1. stack'[u] = G
      BY <2>1 DEF Inv
    <3>. QED
      BY <2>1, <3>1
  <2>2. CASE u # t
    <3>1. stack'[u] = stack[u]
      BY <2>2 DEF Inv
    <3>2. Stacked(stack[u]) /\ Guarded(stack[u], u, setBy')
      BY <2>2 DEF Inv
    <3>3. Cardinality(Holds(stack[u])) = IF owner = u THEN depth ELSE 0
      BY DEF Inv
    <3>4. owner' = u <=> owner = u
      BY <2>2, LockAssumption
    <3>5. owner = u => depth' = depth
      BY <2>2, <3>4
    <3>. QED
      BY <3>1, <3>2, <3>3, <3>4, <3>5
  <2>. QED
    BY <2>1, <2>2
<1>. QED
  BY <1>1, <1>2, <1>3 DEF Inv

-----------------------------------------------------------------------------
(* The next thing a call does, and the one after it.                       *)
LEMMA NextThing ==
  ASSUME NEW f, Fine(f)
  PROVE  /\ f.todo \in Seq(Thing) /\ Len(f.todo) \in Nat \ {0} /\ Head(f.todo) = f.todo[1]
         /\ f.todo[1] \notin {"lock", "unlock"} =>
              (f.todo[1] \in UnderLock <=> StaysLocked(f, 1))
         /\ f.todo[1] = "lock" => StaysLocked(f, 1)
         /\ f.todo[1] = "unlock" => ~StaysLocked(f, 1)
         /\ f.call = "ifdefault" /\ 1 < Len(f.todo) /\ f.todo[2] \in {"ask", "store"} =>
              f.todo[1] \in {"look", "ask"}
<1> DEFINE todo == f.todo
           n == Len(todo)
<1>1. todo \in Seq(Thing) /\ todo # <<>> /\ Chained(todo) /\ Skippable(f.call, todo)
  BY DEF Fine, Fits
<1> HIDE DEF todo
<1>2. n \in Nat \ {0} /\ Head(todo) = todo[1]
  BY <1>1
<1>3. todo[1] \in LeavesLocked <=> StaysLocked(f, 1)
  <2>1. 1 \in 1 .. n /\ 1 + 1 = 2
    BY <1>2
  <2>2. todo[1] \in LeavesLocked <=> 1 < n /\ todo[1 + 1] \in UnderLock
    BY <2>1, <1>1 DEF Chained
  <2>. QED
    BY <2>2 DEF StaysLocked, todo
<1>4. f.call = "ifdefault" /\ 1 < n /\ todo[2] \in {"ask", "store"} => todo[1] \in {"look", "ask"}
  <2>1. 1 < n => 2 \in 1 .. n /\ 2 > 1 /\ 2 - 1 = 1
    BY <1>2
  <2>. QED
    BY <2>1, <1>1 DEF Skippable
<1>5. /\ todo[1] \notin {"lock", "unlock"} => (todo[1] \in UnderLock <=> todo[1] \in LeavesLocked)
      /\ "lock" \in LeavesLocked /\ "unlock" \notin LeavesLocked
  BY DEF UnderLock, LeavesLocked
<1>. QED
  BY <1>1, <1>2, <1>3, <1>4, <1>5 DEF todo

LEMMA Refused ==
  ASSUME NEW f, Fine(f), f.todo[1] = "ask"
  PROVE  LET k == UntilUnlock(f.todo)
         IN  k \in Nat /\ k > 0 /\ k < Len(f.todo) /\ f.todo[k + 1] = "unlock"
<1> DEFINE todo == f.todo
           n == Len(todo)
           P(k) == todo[k + 1] = "unlock" /\ \A i \in 1 .. k : todo[i] # "unlock"
<1>1. n \in Nat \ {0} /\ Refusable(todo)
  BY NextThing DEF Fine, Fits
<1>2. PICK j \in 1 .. 3 : Refusal(todo, 1, j, n)
  <2>1. 1 \in 1 .. n
    BY <1>1
  <2>. QED
    BY <2>1, <1>1 DEF Refusable
<1> HIDE DEF todo, n
<1>3. j \in 1 .. n /\ P(j)
  <2>1. 1 + j = j + 1 /\ 1 + j - 1 = j
    OBVIOUS
  <2>. QED
    BY <2>1, <1>1, <1>2 DEF Refusal
<1>4. UntilUnlock(todo) \in 1 .. n /\ P(UntilUnlock(todo))
  BY <1>3 DEF UntilUnlock, n
<1> DEFINE k == UntilUnlock(todo)
<1> HIDE DEF k
<1>5. k \in 1 .. n /\ P(k)
  BY <1>4 DEF k
<1>6. k < n
  <2>1. j \notin 1 .. k \/ j + 1 \notin 1 .. k
    BY <1>3, <1>5
  <2>2. j + 1 <= n
    BY <1>1, <1>2 DEF Refusal
  <2>3. k <= j
    BY <2>1, <1>1, <1>3, <1>5
  <2>. QED
    BY <2>2, <2>3, <1>1, <1>5
<1>. QED
  BY <1>1, <1>5, <1>6 DEF k, n, todo

LEMMA Skipped ==
  ASSUME NEW f, Fine(f), f.todo[1] = "look", f.call = "ifdefault"
  PROVE  3 < Len(f.todo) /\ f.todo[4] = "files"
<1>1. 1 \in 1 .. Len(f.todo) /\ Skippable(f.call, f.todo) /\ 1 + 3 = 4
  BY NextThing DEF Fine, Fits
<1>2. Len(f.todo) \in Nat
  BY NextThing
<1>. QED
  BY <1>1, <1>2 DEF Skippable

LEMMA TopOfStack ==
  ASSUME Inv, NEW t \in Thread, Busy(t), NEW n, n = Len(stack[t])
  PROVE  /\ n \in Nat /\ n > 0 /\ Stacked(stack[t]) /\ Guarded(stack[t], t, setBy)
         /\ Top(t) = stack[t][n] /\ Below(t) = Outer(stack[t])
         /\ Top(t) \in Activation /\ Fine(Top(t)) /\ Top(t).seen \in Thread \cup {NULL}
         /\ n \in Holds(stack[t]) <=> Top(t).todo[1] \in UnderLock
         /\ \A step : At(t, step) <=> Top(t).todo[1] = step
<1>1. Stacked(stack[t]) /\ Guarded(stack[t], t, setBy)
  BY DEF Inv
<1>2. stack[t] \in Seq(Activation) /\ stack[t] # <<>>
  BY <1>1 DEF Stacked, Busy
<1>3. n \in Nat /\ n > 0 /\ n \in 1 .. n
  BY <1>2
<1>4. Top(t) = stack[t][n] /\ Below(t) = Outer(stack[t])
  BY DEF Top, Below, Outer
<1>5. Top(t) \in Activation /\ Fine(Top(t))
  BY <1>1, <1>2, <1>3, <1>4 DEF Stacked
<1>6. Top(t).seen \in Thread \cup {NULL}
  BY <1>5 DEF Activation
<1>7. n \in Holds(stack[t]) <=> Top(t).todo[1] \in UnderLock
  BY <1>3, <1>4 DEF Holds
<1>8. \A step : At(t, step) <=> Top(t).todo[1] = step
  BY <1>5, NextThing DEF At
<1>. QED
  BY <1>1, <1>3, <1>4, <1>5, <1>6, <1>7, <1>8

-----------------------------------------------------------------------------
(* The steps.                                                              *)

(* The innermost call of F may do k things and have seen s then, if the    *)
(* flag was last set by v then.                                            *)
MayMove(F, t, k, s, v) ==
  LET f == F[Len(F)]
  IN  /\ \A i \in 1 .. Len(F) - 1 : Armed(F[i]) => v \in {NULL, t} /\ s \in {NULL, t}
      /\ f.call = "ifdefault" /\ k < Len(f.todo) /\ f.todo[k + 1] \in {"ask", "store"} =>
           v \in {NULL, t}

LEMMA StackMoves ==
  ASSUME NEW F, NEW n \in Nat, n = Len(F), n > 0, Stacked(F), NEW t, NEW w, Guarded(F, t, w),
         NEW f, f = F[n], NEW low, low = Outer(F),
         NEW k \in Nat, k > 0, k <= Len(f.todo), NEW s \in Thread \cup {NULL},
         NEW v, MayMove(F, t, k, s, v),
         NEW g, g = Rest(f, k, s), NEW G, G = Resume(low, g)
  PROVE  MovesOn(F, k, g, G) /\ Guarded(G, t, v)
<1>1. MovesOn(F, k, g, G)
  BY Advanced
<1>2. /\ \A i \in 1 .. n - 1 : G[i] = F[i]
      /\ \/ Len(G) = n - 1
         \/ Len(G) = n /\ G[n] = g /\ g.todo[1] = f.todo[k + 1] /\ k < Len(f.todo)
  BY <1>1 DEF MovesOn
<1>3. g.call = f.call /\ g.seen = s
  BY DEF Rest
<1>4. Guarded(G, t, v)
  <2> SUFFICES ASSUME NEW i \in 1 .. Len(G), Armed(G[i])
               PROVE  v \in {NULL, t} /\ \A j \in i + 1 .. Len(G) : G[j].seen \in {NULL, t}
    BY DEF Guarded
  <2>1. CASE i \in 1 .. n - 1
    <3>1. Armed(F[i]) /\ i \in 1 .. n
      BY <2>1, <1>2
    <3>2. /\ v \in {NULL, t} /\ s \in {NULL, t}
          /\ \A j \in i + 1 .. n : F[j].seen \in {NULL, t}
      BY <3>1, <2>1 DEF MayMove, Guarded
    <3>3. ASSUME NEW j \in i + 1 .. Len(G) PROVE G[j].seen \in {NULL, t}
      <4>1. (j \in 1 .. n - 1 /\ j \in i + 1 .. n) \/ (j = n /\ Len(G) = n)
        BY <1>2, <2>1
      <4>2. n # n - 1
        OBVIOUS
      <4>. QED
        BY <4>1, <4>2, <3>2, <1>2, <1>3
    <3>. QED
      BY <3>2, <3>3
  <2>2. CASE i \notin 1 .. n - 1
    <3>1. i = n /\ Len(G) = n /\ n # n - 1
      BY <2>2, <1>2
    <3>2. f.call = "ifdefault" /\ f.todo[k + 1] \in {"ask", "store"} /\ k < Len(f.todo)
      BY <3>1, <1>2, <1>3 DEF Armed
    <3>3. v \in {NULL, t}
      BY <3>2 DEF MayMove
    <3>. QED
      BY <3>1, <3>3
  <2>. QED
    BY <2>1, <2>2
<1>. QED
  BY <1>1, <1>4

LEMMA TopMoves ==
  ASSUME Inv, NEW t \in Thread, Busy(t),
         NEW k \in Nat, k > 0, k <= Len(Top(t).todo), NEW s \in Thread \cup {NULL},
         NEW v, MayMove(stack[t], t, k, s, v)
  PROVE  /\ MovesOn(stack[t], k, Rest(Top(t), k, s), Resume(Below(t), Rest(Top(t), k, s)))
         /\ Guarded(Resume(Below(t), Rest(Top(t), k, s)), t, v)
<1> DEFINE n == Len(stack[t])
<1>1. /\ n \in Nat /\ n > 0 /\ Stacked(stack[t]) /\ Guarded(stack[t], t, setBy)
      /\ Top(t) = stack[t][n] /\ Below(t) = Outer(stack[t])
  BY TopOfStack
<1>. QED
  BY <1>1, StackMoves

(* The guards say something of what the innermost call saw.                *)
LEMMA SeenIsGuarded ==
  ASSUME Inv, NEW t \in Thread, Busy(t)
  PROVE  \A i \in 1 .. Len(stack[t]) - 1 : Armed(stack[t][i]) =>
           setBy \in {NULL, t} /\ Top(t).seen \in {NULL, t}
<1> DEFINE n == Len(stack[t])
<1>1. n \in Nat /\ n > 0 /\ Guarded(stack[t], t, setBy) /\ Top(t) = stack[t][n]
  BY TopOfStack
<1>2. \A i \in 1 .. n - 1 : i \in 1 .. n /\ n \in i + 1 .. n
  BY <1>1
<1>. QED
  BY <1>1, <1>2 DEF Guarded

(* A step that neither takes nor gives the lock.                           *)
LEMMA KeepsLock ==
  ASSUME Inv, NEW t \in Thread, Busy(t),
         NEW k \in Nat, k > 0, k <= Len(Top(t).todo), NEW s \in Thread \cup {NULL},
         AdvanceSeeing(t, k, s), owner' = owner, depth' = depth,
         Top(t).todo[1] \in UnderLock <=> StaysLocked(Top(t), k),
         setBy' \in Thread \cup {NULL},
         \A u \in Thread \ {t} : Guarded(stack[u], u, setBy'),
         MayMove(stack[t], t, k, s, setBy')
  PROVE  Inv'
<1> DEFINE n == Len(stack[t])
           G == Resume(Below(t), Rest(Top(t), k, s))
<1>1. MovesOn(stack[t], k, Rest(Top(t), k, s), G) /\ Guarded(G, t, setBy')
  BY TopMoves
<1>2. (n \in Holds(stack[t]) <=> Top(t).todo[1] \in UnderLock) /\ Top(t) = stack[t][n]
  BY TopOfStack
<1>3. Stacked(G) /\ Holds(G) = Holds(stack[t])
  BY <1>1, <1>2 DEF MovesOn
<1>4. stack' = [stack EXCEPT ![t] = G]
  BY DEF AdvanceSeeing
<1>5. Cardinality(Holds(G)) = IF owner' = t THEN depth' ELSE 0
  BY <1>3 DEF Inv
<1>6. depth' \in Nat /\ (owner' = NULL <=> depth' = 0)
  BY DEF Inv
<1> HIDE DEF G
<1>. QED
  BY <1>1, <1>3, <1>4, <1>5, <1>6, Settled

(* A call made in a call that waits for it.                                *)
LEMMA PushKeeps ==
  ASSUME Inv, NEW t \in Thread, NEW c \in DOMAIN Script, Push(t, c),
         IF Busy(t) THEN Waits(Top(t), Enter(c)) ELSE c # "usage",
         owner' = owner, depth' = depth, setBy' = setBy
  PROVE  Inv'
<1> DEFINE G == Append(stack[t], Enter(c))
<1>1. Stacked(stack[t]) /\ Guarded(stack[t], t, setBy)
  BY DEF Inv
<1>2. Stacked(G) /\ Holds(G) = Holds(stack[t]) /\ Guarded(G, t, setBy)
  BY <1>1, Pushed DEF Busy, Top
<1>3. stack' = [stack EXCEPT ![t] = G]
  BY DEF Push
<1>4. Cardinality(Holds(G)) = IF owner' = t THEN depth' ELSE 0
  BY <1>2 DEF Inv
<1>5. /\ depth' \in Nat /\ (owner' = NULL <=> depth' = 0)
      /\ setBy' \in Thread \cup {NULL} /\ \A u \in Thread : Guarded(stack[u], u, setBy')
  BY DEF Inv
<1> HIDE DEF G
<1>. QED
  BY <1>2, <1>3, <1>4, <1>5, Settled

(* One thing done, and the flag left alone.                                *)
LEMMA MayGoOn ==
  ASSUME Inv, NEW t \in Thread, Busy(t), Top(t).todo[1] # "look"
  PROVE  MayMove(stack[t], t, 1, Top(t).seen, setBy)
<1> DEFINE n == Len(stack[t])
<1>1. /\ n \in Nat /\ n > 0 /\ Top(t) = stack[t][n] /\ Fine(Top(t))
      /\ Guarded(stack[t], t, setBy) /\ n \in 1 .. n
  BY TopOfStack
<1>2. \A i \in 1 .. n - 1 : Armed(stack[t][i]) => setBy \in {NULL, t} /\ Top(t).seen \in {NULL, t}
  BY SeenIsGuarded
<1>3. ASSUME Top(t).call = "ifdefault", 1 < Len(Top(t).todo), Top(t).todo[1 + 1] \in {"ask", "store"}
      PROVE  setBy \in {NULL, t}
  <2>1. Top(t).todo[1] \in {"look", "ask"}
    BY <1>1, <1>3, NextThing
  <2>2. Armed(stack[t][n])
    BY <2>1, <1>1, <1>3 DEF Armed
  <2>. QED
    BY <2>2, <1>1 DEF Guarded
<1>. QED
  BY <1>1, <1>2, <1>3 DEF MayMove

LEMMA ProceedKeeps ==
  ASSUME Inv, NEW t \in Thread, Busy(t), Top(t).todo[1] \notin {"look", "lock", "unlock"},
         Advance(t, 1), owner' = owner, depth' = depth, setBy' = setBy
  PROVE  Inv'
<1>1. Fine(Top(t)) /\ Top(t).seen \in Thread \cup {NULL}
  BY TopOfStack
<1>2. /\ Len(Top(t).todo) \in Nat \ {0}
      /\ Top(t).todo[1] \in UnderLock <=> StaysLocked(Top(t), 1)
  BY <1>1, NextThing
<1>3. 1 \in Nat /\ 1 > 0 /\ 1 <= Len(Top(t).todo)
  BY <1>2
<1>4. setBy' \in Thread \cup {NULL} /\ \A u \in Thread : Guarded(stack[u], u, setBy')
  BY DEF Inv
<1>5. MayMove(stack[t], t, 1, Top(t).seen, setBy')
  BY MayGoOn
<1>6. AdvanceSeeing(t, 1, Top(t).seen)
  BY DEF Advance
<1>. QED
  BY <1>1, <1>2, <1>3, <1>4, <1>5, <1>6, KeepsLock

LEMMA LockKeeps ==
  ASSUME Inv, NEW t \in Thread, At(t, "lock"), owner \in {NULL, t},
         owner' = t, depth' = depth + 1, Advance(t, 1), setBy' = setBy
  PROVE  Inv'
<1> DEFINE n == Len(stack[t])
           G == Resume(Below(t), Rest(Top(t), 1, Top(t).seen))
<1>1. /\ Busy(t) /\ Top(t).todo[1] = "lock" /\ Fine(Top(t)) /\ Top(t).seen \in Thread \cup {NULL}
      /\ Top(t) = stack[t][n] /\ Stacked(stack[t])
      /\ n \in Holds(stack[t]) <=> Top(t).todo[1] \in UnderLock
  BY TopOfStack DEF At
<1>2. StaysLocked(Top(t), 1) /\ 1 <= Len(Top(t).todo)
  BY <1>1, NextThing
<1>3. MovesOn(stack[t], 1, Rest(Top(t), 1, Top(t).seen), G) /\ Guarded(G, t, setBy)
  <2>1. MayMove(stack[t], t, 1, Top(t).seen, setBy)
    BY <1>1, MayGoOn
  <2>. QED
    BY <2>1, <1>1, <1>2, TopMoves
<1>4. Stacked(G) /\ n \notin Holds(stack[t]) /\ Holds(G) = Holds(stack[t]) \cup {n}
  BY <1>1, <1>2, <1>3 DEF MovesOn, UnderLock
<1>5. Cardinality(Holds(stack[t])) = depth /\ depth \in Nat /\ t # NULL
  BY LockAssumption DEF Inv
<1>6. Cardinality(Holds(G)) = depth + 1
  <2>1. IsFiniteSet(Holds(stack[t]))
    BY <1>1, HoldsIsFinite
  <2>. QED
    BY <2>1, <1>4, <1>5, FS_AddElement
<1>7. stack' = [stack EXCEPT ![t] = G]
  BY DEF Advance, AdvanceSeeing
<1>8. /\ setBy' \in Thread \cup {NULL} /\ \A u \in Thread : Guarded(stack[u], u, setBy')
      /\ depth' \in Nat /\ (owner' = NULL <=> depth' = 0)
      /\ Cardinality(Holds(G)) = IF owner' = t THEN depth' ELSE 0
  BY <1>5, <1>6 DEF Inv
<1> HIDE DEF G
<1>. QED
  BY <1>3, <1>4, <1>7, <1>8, Settled

LEMMA UnlockKeeps ==
  ASSUME Inv, NEW t \in Thread, Unlock(t) PROVE Inv'
<1> DEFINE n == Len(stack[t])
           G == Resume(Below(t), Rest(Top(t), 1, Top(t).seen))
<1>1. /\ Busy(t) /\ Top(t).todo[1] = "unlock" /\ Fine(Top(t)) /\ Top(t).seen \in Thread \cup {NULL}
      /\ Top(t) = stack[t][n] /\ Stacked(stack[t])
      /\ n \in Holds(stack[t]) <=> Top(t).todo[1] \in UnderLock
  BY TopOfStack DEF At, Unlock
<1>2. ~StaysLocked(Top(t), 1) /\ 1 <= Len(Top(t).todo)
  BY <1>1, NextThing
<1>3. MovesOn(stack[t], 1, Rest(Top(t), 1, Top(t).seen), G) /\ Guarded(G, t, setBy)
  <2>1. MayMove(stack[t], t, 1, Top(t).seen, setBy)
    BY <1>1, MayGoOn
  <2>. QED
    BY <2>1, <1>1, <1>2, TopMoves
<1>4. Stacked(G) /\ n \in Holds(stack[t]) /\ Holds(G) = Holds(stack[t]) \ {n}
  BY <1>1, <1>2, <1>3 DEF MovesOn, UnderLock
<1>5. /\ Cardinality(Holds(stack[t])) \in Nat \ {0}
      /\ Cardinality(Holds(G)) = Cardinality(Holds(stack[t])) - 1
  <2>1. IsFiniteSet(Holds(stack[t])) /\ Cardinality(Holds(stack[t])) \in Nat \ {0}
    BY <1>1, <1>4, HoldsIsFinite
  <2>. QED
    BY <2>1, <1>4, FS_RemoveElement
<1>6. owner = t /\ depth = Cardinality(Holds(stack[t])) /\ t # NULL
  BY <1>5, LockAssumption DEF Inv
<1>7. stack' = [stack EXCEPT ![t] = G] /\ setBy' = setBy
  BY DEF Unlock, Advance, AdvanceSeeing
<1>8. depth' = depth - 1 /\ owner' = IF depth' = 0 THEN NULL ELSE owner
  BY DEF Unlock
<1>9. /\ setBy' \in Thread \cup {NULL} /\ \A u \in Thread : Guarded(stack[u], u, setBy')
  BY <1>7 DEF Inv
<1>10. depth' \in Nat /\ (owner' = NULL <=> depth' = 0) /\ owner' \in {t, NULL}
  BY <1>5, <1>6, <1>8
<1>11. Cardinality(Holds(G)) = IF owner' = t THEN depth' ELSE 0
  BY <1>5, <1>6, <1>8
<1> HIDE DEF G
<1>. QED
  BY <1>3, <1>4, <1>6, <1>7, <1>9, <1>10, <1>11, Settled

LEMMA LookKeeps == ASSUME Inv, NEW t \in Thread, Look(t) PROVE Inv'
<1> DEFINE f == Top(t)
<1>1. Busy(t) /\ f.todo[1] = "look" /\ Fine(f) /\ f.seen \in Thread \cup {NULL}
  BY TopOfStack DEF At, Look
<1>2. f.todo[1] \in UnderLock /\ StaysLocked(f, 1) /\ 1 <= Len(f.todo)
  BY <1>1, NextThing DEF UnderLock
<1>3. /\ owner' = owner /\ depth' = depth /\ setBy' = setBy /\ setBy \in Thread \cup {NULL}
      /\ \A u \in Thread : Guarded(stack[u], u, setBy')
  BY DEF Look, Inv
<1>4. Top(t) = stack[t][Len(stack[t])]
  BY DEF Top
<1>5. \A i \in 1 .. Len(stack[t]) - 1 : Armed(stack[t][i]) =>
        setBy \in {NULL, t} /\ f.seen \in {NULL, t}
  BY <1>1, SeenIsGuarded
<1>6. CASE f.call = "ifdefault" /\ setBy # NULL
  <2>1. 3 < Len(f.todo) /\ f.todo[3 + 1] = "files"
    BY <1>1, <1>6, Skipped
  <2>2. StaysLocked(f, 3) /\ 3 <= Len(f.todo) /\ 3 \in Nat
    BY <2>1, <1>1, NextThing DEF StaysLocked, UnderLock
  <2>3. AdvanceSeeing(t, 3, f.seen)
    BY <1>6 DEF Look, Advance
  <2>4. MayMove(stack[t], t, 3, f.seen, setBy')
    BY <2>1, <1>3, <1>4, <1>5 DEF MayMove
  <2>. QED
    BY <2>2, <2>3, <2>4, <1>1, <1>2, <1>3, KeepsLock
<1>7. CASE ~(f.call = "ifdefault" /\ setBy # NULL)
  <2>1. AdvanceSeeing(t, 1, setBy)
    BY <1>7 DEF Look
  <2>2. MayMove(stack[t], t, 1, setBy, setBy')
    BY <1>3, <1>4, <1>5, <1>7 DEF MayMove
  <2>. QED
    BY <2>1, <2>2, <1>1, <1>2, <1>3, KeepsLock
<1>. QED
  BY <1>6, <1>7

(* Going on behind what is left out, with the flag left alone.             *)
LEMMA LeapKeeps ==
  ASSUME Inv, NEW t \in Thread, Busy(t), NEW k \in Nat, k > 0, k <= Len(Top(t).todo),
         k < Len(Top(t).todo) => Top(t).todo[k + 1] \notin {"ask", "store"},
         Top(t).todo[1] \in UnderLock <=> StaysLocked(Top(t), k),
         Advance(t, k), owner' = owner, depth' = depth, setBy' = setBy
  PROVE  Inv'
<1>1. Top(t).seen \in Thread \cup {NULL} /\ Top(t) = stack[t][Len(stack[t])]
  BY TopOfStack
<1>2. /\ setBy' \in Thread \cup {NULL}
      /\ \A u \in Thread : Guarded(stack[u], u, setBy')
  BY DEF Inv
<1>3. \A i \in 1 .. Len(stack[t]) - 1 : Armed(stack[t][i]) =>
        setBy \in {NULL, t} /\ Top(t).seen \in {NULL, t}
  BY SeenIsGuarded
<1>4. MayMove(stack[t], t, k, Top(t).seen, setBy')
  BY <1>1, <1>3 DEF MayMove
<1>5. AdvanceSeeing(t, k, Top(t).seen)
  BY DEF Advance
<1>. QED
  BY <1>1, <1>2, <1>4, <1>5, KeepsLock

LEMMA AnswerKeeps == ASSUME Inv, NEW t \in Thread, Answer(t) PROVE Inv'
<1> DEFINE f == Top(t)
           k == UntilUnlock(f.todo)
<1>1. Busy(t) /\ f.todo[1] = "ask" /\ Fine(f)
  BY TopOfStack DEF At, Answer
<1>2. owner' = owner /\ depth' = depth /\ setBy' = setBy
  BY DEF Answer
<1>3. CASE Advance(t, 1)
  BY <1>1, <1>2, <1>3, ProceedKeeps
<1>4. CASE Advance(t, k)
  <2>1. k \in Nat /\ k > 0 /\ k < Len(f.todo) /\ f.todo[k + 1] = "unlock"
    BY <1>1, Refused
  <2>2. k <= Len(f.todo) /\ StaysLocked(f, k) /\ f.todo[1] \in UnderLock
    <3>1. Len(f.todo) \in Nat
      BY <1>1, NextThing
    <3>. QED
      BY <3>1, <2>1, <1>1 DEF StaysLocked, UnderLock
  <2> HIDE DEF k
  <2>. QED
    BY <2>1, <2>2, <1>1, <1>2, <1>4, LeapKeeps
<1>. QED
  BY <1>3, <1>4 DEF Answer

LEMMA ReturnKeeps ==
  ASSUME Inv, NEW t \in Thread, At(t, "report"), Return(t) PROVE Inv'
<1> DEFINE f == Top(t)
           k == Len(f.todo)
<1>1. Busy(t) /\ f.todo[1] = "report" /\ Fine(f)
  BY TopOfStack DEF At
<1>2. owner' = owner /\ depth' = depth /\ setBy' = setBy /\ Advance(t, k)
  BY DEF Return
<1>3. k \in Nat /\ k > 0
  BY <1>1, NextThing
<1>4. k <= Len(f.todo) /\ ~(k < Len(f.todo))
  BY <1>3
<1>5. ~StaysLocked(f, k) /\ f.todo[1] \notin UnderLock
  BY <1>1, <1>4 DEF StaysLocked, UnderLock
<1> HIDE DEF k
<1>. QED
  BY <1>1, <1>2, <1>3, <1>4, <1>5, LeapKeeps

(* What is done under the lock is done by the thread that has it, and the  *)
(* guards of the others are then empty.                                    *)
LEMMA NobodyElse ==
  ASSUME Inv, NEW t \in Thread, Busy(t), Top(t).todo[1] \in UnderLock
  PROVE  owner = t /\ \A u \in Thread \ {t}, v \in Thread \cup {NULL} : Guarded(stack[u], u, v)
<1>1. Holds(stack[t]) # {} /\ Stacked(stack[t])
  BY TopOfStack
<1>2. owner = t
  BY <1>1, HoldsIsFinite DEF Inv
<1>3. ASSUME NEW u \in Thread \ {t}, NEW v \in Thread \cup {NULL} PROVE Guarded(stack[u], u, v)
  <2>1. Holds(stack[u]) = {}
    <3>1. Stacked(stack[u]) /\ Cardinality(Holds(stack[u])) = 0
      BY <1>2 DEF Inv
    <3>. QED
      BY <3>1, HoldsIsFinite
  <2>2. \A i \in 1 .. Len(stack[u]) : ~Armed(stack[u][i])
    BY <2>1 DEF Holds, Armed, UnderLock
  <2>. QED
    BY <2>2 DEF Guarded
<1>. QED
  BY <1>2, <1>3

LEMMA StoreKeeps == ASSUME Inv, NEW t \in Thread, Store(t) PROVE Inv'
<1> DEFINE f == Top(t)
<1>1. Busy(t) /\ f.todo[1] = "store" /\ Fine(f) /\ f.seen \in Thread \cup {NULL}
  BY TopOfStack DEF At, Store
<1>2. f.todo[1] \in UnderLock /\ StaysLocked(f, 1) /\ 1 <= Len(f.todo)
  BY <1>1, NextThing DEF UnderLock
<1>3. setBy' = t /\ owner' = owner /\ depth' = depth /\ AdvanceSeeing(t, 1, f.seen)
  BY DEF Store, Advance
<1>4. \A u \in Thread \ {t} : Guarded(stack[u], u, setBy')
  BY <1>1, <1>2, <1>3, NobodyElse
<1>5. MayMove(stack[t], t, 1, f.seen, setBy')
  BY <1>1, <1>3, SeenIsGuarded DEF MayMove
<1>. QED
  BY <1>1, <1>2, <1>3, <1>4, <1>5, KeepsLock

LEMMA RestoreKeeps == ASSUME Inv, NEW t \in Thread, Restore(t) PROVE Inv'
<1> DEFINE f == Top(t)
<1>1. /\ Busy(t) /\ f.todo[1] = "restore" /\ Fine(f) /\ f.seen \in Thread \cup {NULL}
      /\ f = stack[t][Len(stack[t])]
  BY TopOfStack DEF At, Restore
<1>2. f.todo[1] \in UnderLock /\ StaysLocked(f, 1) /\ 1 <= Len(f.todo)
  BY <1>1, NextThing DEF UnderLock
<1>3. setBy' = f.seen /\ owner' = owner /\ depth' = depth /\ AdvanceSeeing(t, 1, f.seen)
  BY DEF Restore, Advance
<1>4. \A u \in Thread \ {t} : Guarded(stack[u], u, setBy')
  BY <1>1, <1>2, <1>3, NobodyElse
<1>5. ~(f.call = "ifdefault" /\ 1 < Len(f.todo) /\ f.todo[1 + 1] \in {"ask", "store"})
  BY <1>1, NextThing
<1>6. MayMove(stack[t], t, 1, f.seen, setBy')
  BY <1>1, <1>3, <1>5, SeenIsGuarded DEF MayMove
<1>. QED
  BY <1>1, <1>2, <1>3, <1>4, <1>6, KeepsLock

LEMMA ExitKeeps ==
  ASSUME Inv, NEW t \in Thread, Busy(t), Exit(t),
         Top(t).todo[1] \in {"insert", "files", "quit", "report"}
  PROVE  Inv'
<1>1. ASSUME NEW c \in {"exit", "exitAgain"} PROVE c \in DOMAIN Script /\ Waits(Top(t), Enter(c))
  BY Kinds, Entered DEF Waits
<1>2. owner' = owner /\ depth' = depth /\ setBy' = setBy
  BY DEF Exit
<1>3. CASE Push(t, "exit")
  BY <1>1, <1>2, <1>3, PushKeeps
<1>4. CASE Push(t, "exitAgain")
  BY <1>1, <1>2, <1>4, PushKeeps
<1>. QED
  BY <1>3, <1>4 DEF Exit

LEMMA CallKeeps == ASSUME Inv, NEW t \in Thread, NEW c \in API, Call(t, c) PROVE Inv'
<1>1. c \in DOMAIN Script
  BY Kinds DEF API
<1>2. c # "usage" /\ (Busy(t) => Waits(Top(t), Enter(c)))
  BY <1>1, Entered, TopOfStack DEF Call, At, Waits, API
<1>. QED
  BY <1>1, <1>2, PushKeeps DEF Call

(* --help is handled by a call of the program.                             *)
LEMMA HelpIsAsked ==
  ASSUME NEW f \in Activation, Fine(f), f.todo[1] = "help" PROVE f.call \in API
<1>1. f.call \in DOMAIN Script
  BY DEF Activation
<1>2. Handlers(f.call, f.todo) /\ 1 \in 1 .. Len(f.todo)
  BY NextThing DEF Fine, Fits
<1>3. f.call \notin {"usage", "exit", "exitAgain"}
  BY <1>2 DEF Handlers
<1>. QED
  BY <1>1, <1>3, Kinds DEF API

LEMMA NothingMoves ==
  ASSUME Inv, UNCHANGED <<owner, depth, stack, setBy>> PROVE Inv'
BY DEF Inv

LEMMA NextInv == Inv /\ [Next]_vars => Inv'
<1> SUFFICES ASSUME Inv, [Next]_vars PROVE Inv'
  OBVIOUS
<1>1. ASSUME NEW t \in Thread, Goes(t) PROVE Inv'
  <2>1. \A step : At(t, step) => Busy(t) /\ Top(t).todo[1] = step
    BY TopOfStack DEF At
  <2>2. CASE Lock(t)
    <3>1. owner \in {NULL, t} /\ owner' = t /\ depth' = depth + 1
      BY <2>2 DEF Lock, Inv
    <3>. QED
      BY <2>2, <3>1, LockKeeps DEF Lock
  <2>3. CASE LockAgain(t)
    <3>1. owner \in {NULL, t} /\ owner' = t /\ setBy' = setBy /\ At(t, "lock")
      BY <2>3 DEF LockAgain
    <3>2. CASE depth' = depth + 1 /\ Advance(t, 1)
      BY <3>1, <3>2, LockKeeps
    <3>3. CASE UNCHANGED <<depth, stack>>
      <4>1. owner' = owner
        BY <2>3 DEF LockAgain
      <4>. QED
        BY <3>1, <3>3, <4>1, NothingMoves
    <3>. QED
      BY <2>3, <3>2, <3>3 DEF LockAgain
  <2>4. CASE Unlock(t)
    BY <2>4, UnlockKeeps
  <2>5. CASE Look(t)
    BY <2>5, LookKeeps
  <2>6. CASE Answer(t)
    BY <2>6, AnswerKeeps
  <2>7. CASE Store(t)
    BY <2>7, StoreKeeps
  <2>8. CASE Restore(t)
    BY <2>8, RestoreKeeps
  <2>9. CASE Proceed(t) /\ Busy(t) /\ Top(t).todo[1] \in {"insert", "files", "help", "report"}
    BY <2>9, ProceedKeeps DEF Proceed
  <2>10. CASE Exit(t) /\ Busy(t) /\ Top(t).todo[1] \in {"insert", "files", "quit", "report"}
    BY <2>10, ExitKeeps
  <2>11. CASE Insert(t)
    BY <2>1, <2>9, <2>10, <2>11 DEF Insert
  <2>12. CASE ReadFiles(t)
    BY <2>1, <2>9, <2>10, <2>12 DEF ReadFiles
  <2>13. CASE Quit(t)
    BY <2>1, <2>10, <2>13 DEF Quit
  <2>14. CASE Help(t)
    <3>1. Busy(t) /\ Top(t).todo[1] = "help"
      BY <2>1, <2>14 DEF Help
    <3>2. CASE Push(t, "usage") /\ UNCHANGED <<owner, depth, setBy>>
      <4>1. "usage" \in DOMAIN Script /\ Top(t).call \in API
        BY <3>1, Kinds, TopOfStack, HelpIsAsked
      <4>2. Waits(Top(t), Enter("usage"))
        BY <3>1, <4>1 DEF Waits
      <4>. QED
        BY <3>1, <3>2, <4>1, <4>2, PushKeeps
    <3>. QED
      BY <2>9, <2>14, <3>1, <3>2 DEF Help
  <2>15. CASE Report(t)
    <3>1. At(t, "report") /\ Busy(t) /\ Top(t).todo[1] = "report"
      BY <2>1, <2>15 DEF Report
    <3>. QED
      BY <2>9, <2>10, <2>15, <3>1, ReturnKeeps DEF Report
  <2>16. CASE End(t)
    BY <2>16, NothingMoves DEF End
  <2>. QED
    BY <1>1, <2>2, <2>3, <2>4, <2>5, <2>6, <2>7, <2>8, <2>11, <2>12, <2>13, <2>14, <2>15, <2>16
    DEF Goes
<1>2. CASE Still \/ UNCHANGED vars
  BY <1>2, NothingMoves DEF Still, vars
<1>. QED
  BY <1>1, <1>2, CallKeeps DEF Next

LEMMA InvHolds == Spec => []Inv
BY InitInv, NextInv, PTL DEF Spec

-----------------------------------------------------------------------------
(* A thread that has the lock has a call under it, and every call below    *)
(* the innermost waits for a function of the program, or for exit().       *)
LEMMA OwnerHolds ==
  ASSUME Inv, NEW t \in Thread, owner = t
  PROVE  /\ Stacked(stack[t])
         /\ \E i \in 1 .. Len(stack[t]) : stack[t][i].todo[1] \in UnderLock
<1>1. Stacked(stack[t]) /\ Cardinality(Holds(stack[t])) = depth /\ depth # 0
  BY LockAssumption DEF Inv
<1>2. Holds(stack[t]) # {}
  BY <1>1, HoldsIsFinite
<1>. QED
  BY <1>1, <1>2 DEF Holds

LEMMA HeadOfCall ==
  ASSUME NEW F, Stacked(F), NEW i \in 1 .. Len(F)
  PROVE  Fine(F[i]) /\ Head(F[i].todo) = F[i].todo[1]
BY NextThing DEF Stacked

LEMMA ReentryInv == Inv => LibraryNeverReenters
<1> SUFFICES ASSUME Inv, NEW t \in Thread, WaitsForItself(t)
             PROVE  \E i \in 1 .. Len(stack[t]) - 1 : CalledBack(stack[t][i])
  BY DEF LibraryNeverReenters
<1> DEFINE F == stack[t]
           n == Len(F)
<1>1. /\ n \in Nat /\ n > 0 /\ Stacked(F) /\ F[n].todo[1] = "lock"
  BY TopOfStack DEF WaitsForItself, At
<1>2. PICK i \in 1 .. n : F[i].todo[1] \in UnderLock
  BY OwnerHolds DEF WaitsForItself
<1> HIDE DEF F
<1>3. i < n
  BY <1>1, <1>2 DEF UnderLock
<1>4. i \in 1 .. n - 1 /\ i + 1 \in 1 .. n /\ Waits(F[i], F[i + 1])
  <2>1. i \in 1 .. n - 1 /\ i + 1 \in 1 .. n
    BY <1>1, <1>3
  <2>. QED
    BY <2>1, <1>1 DEF Stacked
<1>5. CASE F[i].todo[1] = "ask"
  BY <1>1, <1>4, <1>5, HeadOfCall DEF CalledBack, F
<1>6. CASE F[i + 1].call \in {"exit", "exitAgain"}
  <2>1. Fine(F[i + 1]) /\ Head(F[i + 1].todo) = F[i + 1].todo[1]
    BY <1>1, <1>4, HeadOfCall
  <2>2. F[i + 1].todo \in {<<"handlers">>, <<"blocked">>}
    BY <2>1, <1>6 DEF Fine, Fits, Handlers
  <2>3. F[i + 1].todo[1] \in {"handlers", "blocked"}
    BY <2>2
  <2>4. i + 1 # n
    BY <2>3, <1>1
  <2>5. i + 1 \in 1 .. n - 1 /\ Waits(F[i + 1], F[(i + 1) + 1])
    <3>1. i + 1 \in 1 .. n - 1
      BY <2>4, <1>1, <1>4
    <3>. QED
      BY <3>1, <1>1 DEF Stacked
  <2>6. F[i + 1].todo[1] = "handlers"
    BY <2>3, <2>5 DEF Waits
  <2>. QED
    BY <2>1, <2>5, <2>6 DEF CalledBack, F
<1>. QED
  BY <1>2, <1>4, <1>5, <1>6 DEF Waits, UnderLock

LEMMA ExitsInv == Inv => ExitsUnlocked
<1> SUFFICES ASSUME Inv, NEW t \in Thread, NEW n \in 1 .. Len(stack[t]),
                    stack[t][n].call = "exit", owner = t, n = Len(stack[t])
             PROVE  \E j \in 1 .. n - 1 : Head(stack[t][j].todo) \in {"insert", "files", "ask"}
  BY DEF ExitsUnlocked
<1> DEFINE F == stack[t]
<1>1. Stacked(F) /\ n \in Nat
  BY DEF Inv
<1>2. PICK i \in 1 .. n : F[i].todo[1] \in UnderLock
  BY OwnerHolds
<1> HIDE DEF F
<1>3. F[n].todo[1] = "handlers"
  <2>1. Fine(F[n]) /\ F[n].call = "exit"
    BY <1>1, HeadOfCall DEF F
  <2>. QED
    BY <2>1 DEF Fine, Fits, Handlers
<1>4. i \in 1 .. n - 1
  BY <1>1, <1>2, <1>3 DEF UnderLock
<1>5. Waits(F[i], F[i + 1]) /\ Head(F[i].todo) = F[i].todo[1]
  BY <1>1, <1>4, HeadOfCall DEF Stacked, F
<1>. QED
  BY <1>2, <1>4, <1>5 DEF Waits, UnderLock, F

(* No function of the library asks for the lock it has, unless it is       *)
(* called back, whatever the threads and their callbacks call.             *)
THEOREM OnlyCallbacksReenter == Spec => []LibraryNeverReenters
BY InvHolds, ReentryInv, PTL

(* Errors and --help are reported with the lock free.                      *)
THEOREM ReportsUnlocked == Spec => []ExitsUnlocked
BY InvHolds, ExitsInv, PTL

(* SET_FLAG_IF_DEFAULT never replaces what another thread set, even where  *)
(* the lock lets its owner in twice and validate functions set the flag.   *)
THEOREM SetIfDefaultYields == Spec => FirstSetterWins
<1> DEFINE Yields == \A t \in Thread : Store(t) /\ Top(t).call = "ifdefault" => setBy \in {NULL, t}
<1>1. Inv => Yields
  <2> SUFFICES ASSUME Inv, NEW t \in Thread, Store(t), Top(t).call = "ifdefault"
               PROVE  setBy \in {NULL, t}
    OBVIOUS
  <2>1. /\ Busy(t) /\ Top(t).todo[1] = "store" /\ Top(t) = stack[t][Len(stack[t])]
        /\ Len(stack[t]) \in 1 .. Len(stack[t]) /\ Guarded(stack[t], t, setBy)
    BY TopOfStack DEF Store, At
  <2>. QED
    BY <2>1 DEF Armed, Guarded
<1>2. Inv => [Yields]_vars
  BY <1>1
<1>. QED
  BY InvHolds, <1>2, PTL DEF FirstSetterWins
-----------------------------------------------------------------------------
(* The lock is taken at most as often as the program may call: a call that *)
(* has it is one of the program's, or handles the --help of one.           *)

(* The calls of a thread that the program made.                            *)
Called(F) == {i \in 1 .. Len(F) : F[i].call \in API}

LEMMA CalledIsFinite ==
  ASSUME NEW F, Stacked(F)
  PROVE  Called(F) \subseteq 1 .. Len(F) /\ IsFiniteSet(Called(F)) /\ Cardinality(Called(F)) \in Nat
<1>1. Len(F) \in Nat /\ Called(F) \subseteq 1 .. Len(F)
  BY DEF Stacked, Called
<1>2. IsFiniteSet(1 .. Len(F))
  BY <1>1, FS_Interval
<1>3. IsFiniteSet(Called(F))
  BY <1>1, <1>2, FS_Subset
<1>. QED
  BY <1>1, <1>3, FS_CardinalityType

LEMMA HeldByCalls ==
  ASSUME NEW F, Stacked(F)
  PROVE  Cardinality(Holds(F)) <= Cardinality(Called(F))
<1> DEFINE caller == [i \in Holds(F) |-> IF F[i].call \in API THEN i ELSE i - 1]
<1>1. Len(F) \in Nat /\ F \in Seq(Activation) /\ Holds(F) \subseteq 1 .. Len(F)
  BY DEF Stacked, Holds
<1>2. ASSUME NEW i \in Holds(F), F[i].call \notin API
      PROVE  i - 1 \in Called(F) /\ i - 1 \notin Holds(F)
  <2>1. i \in 1 .. Len(F) /\ Fine(F[i]) /\ F[i].todo[1] \in UnderLock /\ F[i].call \in DOMAIN Script
    <3>1. i \in 1 .. Len(F) /\ F[i].todo[1] \in UnderLock
      BY DEF Holds
    <3>2. Fine(F[i])
      BY <3>1 DEF Stacked
    <3>3. F[i] \in Activation
      BY <3>1, <1>1
    <3>. QED
      BY <3>1, <3>2, <3>3 DEF Activation
  <2>2. F[i].call \notin {"exit", "exitAgain"}
    BY <2>1 DEF Fine, Fits, Handlers, UnderLock
  <2>3. F[i].call = "usage"
    BY <2>1, <2>2, <1>2, Kinds DEF API
  <2>4. i - 1 \in 1 .. Len(F) - 1 /\ (i - 1) + 1 = i
    <3>1. i # 1
      BY <2>1, <2>3, <1>1 DEF Stacked
    <3>. QED
      BY <3>1, <2>1, <1>1
  <2>5. F[i - 1].call \in API /\ F[i - 1].todo[1] = "help"
    BY <2>3, <2>4 DEF Stacked, Waits
  <2>6. i - 1 \in 1 .. Len(F)
    BY <2>4, <1>1
  <2>. QED
    BY <2>5, <2>6 DEF Called, Holds, UnderLock
<1>3. \A i \in Holds(F) : F[i].call \in API => i \in Called(F)
  BY <1>1 DEF Called
<1>4. caller \in [Holds(F) -> Called(F)]
  BY <1>2, <1>3
<1>5. ASSUME NEW i \in Holds(F), NEW j \in Holds(F), caller[i] = caller[j] PROVE i = j
  <2>1. i \in Int /\ j \in Int
    BY <1>1
  <2>2. CASE F[i].call \in API /\ F[j].call \notin API
    BY <2>2, <1>2, <1>5
  <2>3. CASE F[i].call \notin API /\ F[j].call \in API
    BY <2>3, <1>2, <1>5
  <2>. QED
    BY <2>1, <2>2, <2>3, <1>5
<1> HIDE DEF caller
<1>6. caller \in Injection(Holds(F), Called(F))
  BY <1>4, <1>5, Fun_IsInj
<1>. QED
  BY <1>6, CalledIsFinite, FS_Injection

(* A stack whose innermost call has gone on.                               *)
LEMMA CallsGoOn ==
  ASSUME Inv, NEW t \in Thread, Busy(t), NEW k, NEW s
  PROVE  Called(Resume(Below(t), Rest(Top(t), k, s))) \subseteq Called(stack[t])
<1> DEFINE F   == stack[t]
           low == Below(t)
           g   == Rest(Top(t), k, s)
<1>1. F \in Seq(Activation) /\ F # <<>> /\ Top(t) = F[Len(F)]
  BY DEF Inv, Busy, Top
<1>2. /\ low \in Seq(Activation) /\ Len(low) = Len(F) - 1
      /\ \A i \in 1 .. Len(F) - 1 : low[i] = F[i]
  BY <1>1, Lower DEF Below
<1>3. g.call = F[Len(F)].call
  BY <1>1 DEF Rest
<1>4. Len(F) \in Nat /\ Len(F) \in 1 .. Len(F) /\ \A i \in 1 .. Len(F) - 1 : i \in 1 .. Len(F)
  BY <1>1
<1> HIDE DEF F, low, g
<1>5. Called(low) \subseteq Called(F)
  BY <1>2, <1>4 DEF Called
<1>6. Called(Append(low, g)) \subseteq Called(F)
  <2>1. low \in Seq(Activation \cup {g})
    BY <1>2
  <2>2. /\ Len(Append(low, g)) = Len(F) /\ Append(low, g)[Len(F)] = g
        /\ \A i \in 1 .. Len(F) - 1 : Append(low, g)[i] = F[i]
    BY <2>1, <1>2, <1>4
  <2>3. \A i \in 1 .. Len(F) : i = Len(F) \/ i \in 1 .. Len(F) - 1
    BY <1>4
  <2>. QED
    BY <2>2, <2>3, <1>3 DEF Called
<1>. QED
  BY <1>5, <1>6 DEF Resume, F, low, g

LEMMA CallsPushed ==
  ASSUME NEW F \in Seq(Activation), NEW c \in DOMAIN Script
  PROVE  Called(Append(F, Enter(c))) = IF c \in API THEN Called(F) \cup {Len(F) + 1} ELSE Called(F)
<1>1. Enter(c) \in Activation /\ Enter(c).call = c
  BY Entered
<1>2. /\ Len(Append(F, Enter(c))) = Len(F) + 1 /\ Append(F, Enter(c))[Len(F) + 1] = Enter(c)
      /\ \A i \in 1 .. Len(F) : Append(F, Enter(c))[i] = F[i]
      /\ Len(F) \in Nat
  BY <1>1
<1>3. \A i : i \in 1 .. Len(F) + 1 <=> i \in 1 .. Len(F) \/ i = Len(F) + 1
  BY <1>2
<1>. QED
  BY <1>1, <1>2, <1>3 DEF Called

(* The invariant of the budget.                                            *)
Budgeted ==
  /\ reentry \in Reentry
  /\ exiting \subseteq Thread
  /\ ended \in BOOLEAN
  /\ budget \in 0 .. MaxCalls
  /\ \A t \in Thread : budget + Cardinality(Called(stack[t])) <= MaxCalls

(* What a step of the library does to the stack of its thread.             *)
LEMMA ThreadMoves ==
  ASSUME Inv, NEW t \in Thread, Goes(t)
  PROVE  /\ reentry' = reentry /\ budget' = budget
         /\ exiting' \in {exiting, exiting \cup {t}} /\ ended' \in {ended, TRUE}
         /\ \/ stack' = stack
            \/ \E c \in {"usage", "exit", "exitAgain"} : Push(t, c)
            \/ \E k, s : Busy(t) /\ AdvanceSeeing(t, k, s)
<1> DEFINE Quiet == /\ reentry' = reentry /\ budget' = budget
                    /\ exiting' \in {exiting, exiting \cup {t}} /\ ended' \in {ended, TRUE}
           Pushes == \E c \in {"usage", "exit", "exitAgain"} : Push(t, c)
           Moves == \E k, s : AdvanceSeeing(t, k, s)
<1>1. Busy(t)
  BY DEF Goes, Lock, LockAgain, Unlock, Look, Answer, Store, Restore, Insert, ReadFiles, Quit,
         Help, Report, End, At
<1>2. \A k : Advance(t, k) => Moves
  BY DEF Advance
<1>3. Exit(t) => Quiet /\ Pushes
  BY DEF Exit
<1>4. Proceed(t) \/ Return(t) => Quiet /\ Moves
  BY <1>2 DEF Proceed, Return
<1>5. Lock(t) \/ Unlock(t) \/ Answer(t) \/ Store(t) \/ Restore(t) => Quiet /\ Moves
  BY <1>2 DEF Lock, Unlock, Answer, Store, Restore
<1>6. LockAgain(t) => Quiet /\ (Moves \/ stack' = stack)
  BY <1>2 DEF LockAgain
<1>7. Look(t) => Quiet /\ Moves
  BY <1>2 DEF Look
<1>8. End(t) => Quiet /\ stack' = stack
  BY DEF End
<1>9. Insert(t) \/ ReadFiles(t) \/ Quit(t) \/ Report(t) => Quiet /\ (Moves \/ Pushes)
  BY <1>3, <1>4 DEF Insert, ReadFiles, Quit, Report
<1>10. Help(t) => Quiet /\ (Moves \/ Pushes)
  BY <1>4 DEF Help
<1> HIDE DEF Quiet, Pushes, Moves
<1>11. Quiet /\ (stack' = stack \/ Pushes \/ Moves)
  BY <1>5, <1>6, <1>7, <1>8, <1>9, <1>10 DEF Goes
<1>. QED
  BY <1>1, <1>11 DEF Quiet, Pushes, Moves

LEMMA FewerCalls ==
  ASSUME Inv, NEW t \in Thread, NEW G, Called(G) \subseteq Called(stack[t])
  PROVE  Cardinality(Called(G)) \in Nat /\ Cardinality(Called(G)) <= Cardinality(Called(stack[t]))
<1>1. IsFiniteSet(Called(stack[t]))
  BY CalledIsFinite DEF Inv
<1>. QED
  BY <1>1, FS_Subset, FS_CardinalityType

LEMMA NextBudget ==
  ASSUME Inv, Budgeted, [Next]_vars PROVE Budgeted'
<1>1. \A u \in Thread : Cardinality(Called(stack[u])) \in Nat
  BY CalledIsFinite DEF Inv
<1>2. \A u \in Thread : stack[u] \in Seq(Activation)
  BY DEF Inv
<1>3. ASSUME NEW t \in Thread, Goes(t) PROVE Budgeted'
  <2>1. /\ reentry' = reentry /\ budget' = budget
        /\ exiting' \in {exiting, exiting \cup {t}} /\ ended' \in {ended, TRUE}
        /\ \/ stack' = stack
           \/ \E c \in {"usage", "exit", "exitAgain"} : Push(t, c)
           \/ \E k, s : Busy(t) /\ AdvanceSeeing(t, k, s)
    BY <1>3, ThreadMoves
  <2>2. CASE stack' = stack
    BY <2>1, <2>2 DEF Budgeted
  <2>3. ASSUME NEW G, stack' = [stack EXCEPT ![t] = G], Called(G) \subseteq Called(stack[t])
        PROVE  Budgeted'
    <3>1. ASSUME NEW u \in Thread PROVE budget' + Cardinality(Called(stack'[u])) <= MaxCalls
      <4>1. /\ Cardinality(Called(stack[u])) \in Nat
            /\ budget + Cardinality(Called(stack[u])) <= MaxCalls /\ budget \in Nat
        BY <1>1 DEF Budgeted
      <4>2. CASE u = t
        <5>1. stack'[u] = G
          BY <2>3, <4>2 DEF Inv
        <5>2. /\ Cardinality(Called(G)) \in Nat
              /\ Cardinality(Called(G)) <= Cardinality(Called(stack[u]))
          BY <2>3, <4>2, FewerCalls
        <5>. QED
          BY <2>1, <4>1, <5>1, <5>2, LockAssumption
      <4>3. CASE u # t
        <5>1. stack'[u] = stack[u]
          BY <2>3, <4>3 DEF Inv
        <5>. QED
          BY <2>1, <4>1, <5>1
      <4>. QED
        BY <4>2, <4>3
    <3>. QED
      BY <2>1, <3>1 DEF Budgeted
  <2>4. ASSUME NEW c \in {"usage", "exit", "exitAgain"}, Push(t, c) PROVE Budgeted'
    <3>1. c \in DOMAIN Script /\ c \notin API
      BY Kinds DEF API
    <3>2. Called(Append(stack[t], Enter(c))) = Called(stack[t])
      BY <3>1, <1>2, CallsPushed
    <3>3. stack' = [stack EXCEPT ![t] = Append(stack[t], Enter(c))]
      BY <2>4 DEF Push
    <3>. QED
      BY <3>2, <3>3, <2>3
  <2>5. ASSUME NEW k, NEW s, Busy(t), AdvanceSeeing(t, k, s) PROVE Budgeted'
    <3>1. Called(Resume(Below(t), Rest(Top(t), k, s))) \subseteq Called(stack[t])
      BY <2>5, CallsGoOn
    <3>2. stack' = [stack EXCEPT ![t] = Resume(Below(t), Rest(Top(t), k, s))]
      BY <2>5 DEF AdvanceSeeing
    <3>. QED
      BY <3>1, <3>2, <2>3
  <2>. QED
    BY <2>1, <2>2, <2>4, <2>5
<1>4. ASSUME NEW t \in Thread, NEW c \in API, Call(t, c) PROVE Budgeted'
  <2>1. c \in DOMAIN Script
    BY Kinds DEF API
  <2>2. /\ budget > 0 /\ budget' = budget - 1 /\ budget \in Nat
        /\ reentry' = reentry /\ exiting' = exiting /\ ended' = ended
        /\ stack' = [stack EXCEPT ![t] = Append(stack[t], Enter(c))]
    BY <1>4 DEF Call, Push, Budgeted
  <2>3. Called(Append(stack[t], Enter(c))) = Called(stack[t]) \cup {Len(stack[t]) + 1}
    BY <2>1, <1>2, CallsPushed
  <2>4. Cardinality(Called(stack[t]) \cup {Len(stack[t]) + 1}) = Cardinality(Called(stack[t])) + 1
    <3>1. IsFiniteSet(Called(stack[t])) /\ Called(stack[t]) \subseteq 1 .. Len(stack[t])
      BY CalledIsFinite DEF Inv
    <3>2. Len(stack[t]) + 1 \notin Called(stack[t])
      BY <3>1, <1>2
    <3>. QED
      BY <3>1, <3>2, FS_AddElement
  <2>5. ASSUME NEW u \in Thread PROVE budget' + Cardinality(Called(stack'[u])) <= MaxCalls
    <3>1. /\ Cardinality(Called(stack[u])) \in Nat
          /\ budget + Cardinality(Called(stack[u])) <= MaxCalls
      BY <1>1 DEF Budgeted
    <3>2. CASE u = t
      <4>1. stack'[u] = Append(stack[t], Enter(c))
        BY <2>2, <3>2 DEF Inv
      <4>2. Cardinality(Called(stack'[u])) = Cardinality(Called(stack[u])) + 1
        BY <2>3, <2>4, <3>2, <4>1
      <4>. QED
        BY <2>2, <3>1, <4>2, LockAssumption
    <3>3. CASE u # t
      <4>1. stack'[u] = stack[u]
        BY <2>2, <3>3 DEF Inv
      <4>. QED
        BY <2>2, <3>1, <4>1, LockAssumption
    <3>. QED
      BY <3>2, <3>3
  <2>6. budget' \in 0 .. MaxCalls
    BY <2>2, LockAssumption DEF Budgeted
  <2>. QED
    BY <2>2, <2>5, <2>6 DEF Budgeted
<1>5. CASE Still \/ UNCHANGED vars
  BY <1>5 DEF Still, vars, Budgeted
<1>. QED
  BY <1>3, <1>4, <1>5 DEF Next

LEMMA InitBudget == Init => Budgeted
<1> SUFFICES ASSUME Init PROVE Budgeted
  OBVIOUS
<1>1. ASSUME NEW t \in Thread PROVE budget + Cardinality(Called(stack[t])) <= MaxCalls
  <2>1. stack[t] = <<>> /\ Len(<<>>) = 0 /\ budget = MaxCalls
    BY DEF Init
  <2>2. Called(stack[t]) = {}
    BY <2>1 DEF Called
  <2>. QED
    BY <2>1, <2>2, FS_EmptySet, LockAssumption
<1>. QED
  <2>1. reentry \in Reentry /\ exiting = {} /\ ended = FALSE /\ budget = MaxCalls
    BY DEF Init
  <2>2. exiting \subseteq Thread /\ budget \in 0 .. MaxCalls
    BY <2>1, LockAssumption
  <2>. QED
    BY <1>1, <2>1, <2>2 DEF Budgeted

(* Every thing is one that some function of the library does.              *)
LEMMA ScriptSteps ==
  ASSUME NEW c \in DOMAIN Script, NEW s, s = Script[c], NEW i \in 1 .. Len(s)
  PROVE  s[i] \in Step
BY DEF Step

LEMMA Behind ==
  ASSUME NEW S, NEW p \in Seq(S), NEW q \in Seq(S)
  PROVE  Len(p \o q) = Len(p) + Len(q) /\ \A i \in 1 .. Len(q) : (p \o q)[Len(p) + i] = q[i]
<1>1. Len(p) \in Nat /\ Len(q) \in Nat /\ Len(p \o q) = Len(p) + Len(q)
  OBVIOUS
<1>2. ASSUME NEW i \in 1 .. Len(q) PROVE (p \o q)[Len(p) + i] = q[i]
  OBVIOUS
<1>. QED
  BY <1>1, <1>2

LEMMA ThingsAreSteps == Thing \subseteq Step
<1>1. {"lock", "look", "ask", "store", "files", "unlock"} \subseteq Step
  <2> DEFINE s == SetCommandLineOption
  <2>1. Script["set"] = s /\ "set" \in DOMAIN Script
    BY Kinds DEF Script
  <2>2. /\ Len(s) = 6 /\ s[1] = "lock" /\ s[2] = "look" /\ s[3] = "ask" /\ s[4] = "store"
        /\ s[5] = "files" /\ s[6] = "unlock"
    BY DEF SetCommandLineOption
  <2> HIDE DEF s
  <2>3. \A i \in 1 .. 6 : s[i] \in Step
    BY <2>1, <2>2, ScriptSteps
  <2>. QED
    BY <2>2, <2>3
<1>2. "insert" \in Step
  <2> DEFINE s == RegisterFlag
  <2>1. Script["register"] = s /\ "register" \in DOMAIN Script
    BY Kinds DEF Script
  <2>2. Len(s) = 3 /\ s[2] = "insert"
    BY DEF RegisterFlag
  <2> HIDE DEF s
  <2>3. s[2] \in Step
    <3>1. 2 \in 1 .. Len(s)
      BY <2>2
    <3>. QED
      BY <3>1, <2>1, ScriptSteps
  <2>. QED
    BY <2>2, <2>3
<1>3. {"help", "report", "restore"} \subseteq Step
  <2> DEFINE p == <<"lock", "look", "unlock">> \o Process
             q == <<"help", "report", "lock", "restore", "unlock">>
             s == ReadFlagsFromString
  <2>1. Script["read"] = s /\ "read" \in DOMAIN Script
    BY Kinds DEF Script
  <2>2. p \in Seq(Thing) /\ Len(p) = 8
    BY DEF Process, Thing, UnderLock
  <2>3. q \in Seq(Thing) /\ Len(q) = 5
    BY DEF Thing, UnderLock
  <2>4. q[1] = "help" /\ q[2] = "report" /\ q[4] = "restore"
    OBVIOUS
  <2>5. s = p \o q
    BY DEF ReadFlagsFromString
  <2> HIDE DEF p, q, s
  <2>6. Len(p \o q) = Len(p) + Len(q) /\ \A i \in 1 .. Len(q) : (p \o q)[Len(p) + i] = q[i]
    <3>1. p \in Seq(Thing) /\ q \in Seq(Thing)
      BY <2>2, <2>3
    <3>. QED
      BY <3>1, Behind, Zenon
  <2>7. s[9] = q[1] /\ s[10] = q[2] /\ s[12] = q[4] /\ Len(s) = 13
    <3>1. 1 \in 1 .. 5 /\ 2 \in 1 .. 5 /\ 4 \in 1 .. 5
      OBVIOUS
    <3>2. s[8 + 1] = q[1] /\ s[8 + 2] = q[2] /\ s[8 + 4] = q[4] /\ Len(s) = 8 + 5
      BY <3>1, <2>2, <2>3, <2>5, <2>6, Zenon
    <3>. QED
      BY <3>2
  <2>8. s[9] \in Step /\ s[10] \in Step /\ s[12] \in Step
    BY <2>1, <2>7, ScriptSteps
  <2>. QED
    BY <2>4, <2>7, <2>8
<1>4. "quit" \in Step
  <2> DEFINE s == ShowUsage
  <2>1. Script["usage"] = s /\ "usage" \in DOMAIN Script
    BY Kinds DEF Script
  <2>2. Len(s) = 4 /\ s[4] = "quit"
    BY DEF ShowUsage, GetAllFlags
  <2> HIDE DEF s
  <2>3. s[4] \in Step
    BY <2>1, <2>2, ScriptSteps
  <2>. QED
    BY <2>2, <2>3
<1>5. "handlers" \in Step /\ "blocked" \in Step
  <2> DEFINE s == <<"handlers">>
             b == <<"blocked">>
  <2>1. /\ Script["exit"] = s /\ "exit" \in DOMAIN Script
        /\ Script["exitAgain"] = b /\ "exitAgain" \in DOMAIN Script
    BY Kinds DEF Script
  <2>2. Len(s) = 1 /\ s[1] = "handlers" /\ Len(b) = 1 /\ b[1] = "blocked"
    OBVIOUS
  <2> HIDE DEF s, b
  <2>3. s[1] \in Step /\ b[1] \in Step
    BY <2>1, <2>2, ScriptSteps
  <2>. QED
    BY <2>2, <2>3
<1>. QED
  BY <1>1, <1>2, <1>3, <1>4, <1>5 DEF Thing, UnderLock

LEMMA TypeFollows == Inv /\ Budgeted => TypeOK
<1> SUFFICES ASSUME Inv, Budgeted PROVE TypeOK
  OBVIOUS
<1>1. stack \in [Thread -> Seq(Frame)]
  <2>1. Activation \subseteq Frame
    <3>1. Seq(Thing) \subseteq Seq(Step)
      BY ThingsAreSteps
    <3>. QED
      BY <3>1 DEF Activation, Frame
  <2>2. Seq(Activation) \subseteq Seq(Frame)
    BY <2>1
  <2>. QED
    BY <2>2 DEF Inv
<1>2. depth \in 0 .. MaxCalls
  <2>1. CASE owner = NULL
    BY <2>1, LockAssumption DEF Inv
  <2>2. CASE owner # NULL
    <3> DEFINE held == Cardinality(Holds(stack[owner]))
               called == Cardinality(Called(stack[owner]))
    <3>1. owner \in Thread /\ Stacked(stack[owner]) /\ depth = held /\ depth \in Nat
      BY <2>2 DEF Inv
    <3>2. held <= called /\ called \in Nat
      BY <3>1, HeldByCalls, CalledIsFinite
    <3>3. budget + called <= MaxCalls /\ budget \in 0 .. MaxCalls
      BY <3>1 DEF Budgeted
    <3> HIDE DEF held, called
    <3>. QED
      BY <3>1, <3>2, <3>3, LockAssumption
  <2>. QED
    BY <2>1, <2>2
<1>. QED
  BY <1>1, <1>2 DEF Inv, Budgeted, TypeOK

(* Every variable has its type; above all, no lock is taken more often     *)
(* than the program called: a call gives the lock back before it returns.  *)
THEOREM LockTypeCorrect == Spec => []TypeOK
<1>1. Init => Inv /\ Budgeted
  BY InitInv, InitBudget
<1>2. Inv /\ Budgeted /\ [Next]_vars => Inv' /\ Budgeted'
  BY NextInv, NextBudget
<1>. QED
  BY <1>1, <1>2, TypeFollows, PTL DEF Spec
=============================================================================
