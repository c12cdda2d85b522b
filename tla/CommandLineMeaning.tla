------------------------- MODULE CommandLineMeaning -------------------------
(***************************************************************************)
(* What a command line means, independently of the steps of the parser: a  *)
(* flat list of events, each file and list in the place of the option that *)
(* names it.                                                               *)
(***************************************************************************)
EXTENDS CommandLineHistory

SetEvent(n, text) == [kind |-> "set", name |-> n, text |-> text]
Fail(n)           == [kind |-> "fail", name |-> n]
Unknown(n)        == [kind |-> "unknown", name |-> n]
Die               == [kind |-> "die"]

Acceptable(n, text) == before[n] # NULL /\ TryParseLocked(n, before[n], text) # Illegal

(* What events depend on, which a parse does not change: the names that are *)
(* registered, the texts their flags accept, and the environment.           *)
World ==
  [split   |-> [key \in Name |-> [value \in Text \cup {NULL} |-> SplitArgumentLocked(key, value)]],
   find    |-> [name \in Name |-> FindFlagLocked(name)],
   accepts |-> [n \in Name |-> {text \in Text : Acceptable(n, text)}],
   env     |-> env]

-----------------------------------------------------------------------------
(* An option sets its flag and, if it is one of the recursive ones, does    *)
(* what its value leads to: nested[n][v].                                   *)
Process(w, nested, n, text) ==
  <<SetEvent(n, text)>> \o
  (IF n \in Recursive /\ text \in w.accepts[n] THEN nested[n][Parse[n][text]] ELSE <<>>)

(* A flag line belongs to the block of file names that precedes it.         *)
Applies(lines, i) ==
  LET named == {j \in 1 .. i - 1 : lines[j].kind = "filenames"}
      block == {j \in named : \A k \in j .. Max(named) : lines[k].kind # "flag"}
  IN  named = {} \/ \E j \in block : lines[j].matches

OfLine(w, nested, line, applies) ==
  IF line.kind # "flag" \/ ~applies THEN <<>>
  ELSE LET arg == w.split[line.key][line.value]
       IN  IF arg.flag = NULL \/ arg.value = NULL THEN <<>>
           ELSE Process(w, nested, arg.flag, arg.value)

OfFile(w, nested, f) ==
  LET lines == Contents[f]
  IN  IF lines = NULL THEN <<Die>>
      ELSE FlattenSeq([i \in DOMAIN lines |-> OfLine(w, nested, lines[i], Applies(lines, i))])

OfVariable(w, nested, name, required) ==
  LET n == w.find[name]
  IN  CASE n = NULL -> <<Unknown(name)>>
        [] n # NULL /\ w.env[name] = NULL -> IF required THEN <<Fail(name)>> ELSE <<>>
        [] n # NULL /\ w.env[name] \in {"fromenv", "tryfromenv"} -> <<Fail(name)>>
        [] OTHER -> Process(w, nested, n, w.env[name])

OfEntry(w, inner, n, entry) ==
  IF n = "flagfile" THEN inner.file[entry]
  ELSE OfVariable(w, inner.list, entry, n = "fromenv")

OfList(w, inner, n, v) ==
  IF Entries[v] = NULL THEN <<Die>>
  ELSE FlattenSeq([i \in DOMAIN Entries[v] |-> OfEntry(w, inner, n, Entries[v][i])])

(* What the files and the values of the recursive flags mean where d calls  *)
(* can still be made inside each other.  Files and lists that name each     *)
(* other without end overflow the stack of the process.                     *)
Overflow == [file |-> [f \in Text |-> <<Die>>],
             list |-> [n \in Recursive |-> [v \in Value |-> <<Die>>]]]

OneMoreCall(w, inner) ==
  [file |-> [f \in Text |-> OfFile(w, inner.list, f)],
   list |-> [n \in Recursive |-> [v \in Value |-> OfList(w, inner, n, v)]]]

Meaning(w) ==
  LET at[d \in 0 .. MaxDepth] == IF d = 0 THEN Overflow ELSE OneMoreCall(w, at[d - 1])
  IN  at

Nested(w) == Meaning(w)[MaxDepth].list

(* What the options among the arguments from position k on do.              *)
OfArgument(w, k) ==
  LET arg == command[k]
      opt == w.split[arg.key][arg.value]
  IN  CASE arg.kind # "flag" -> <<>>
        [] arg.kind = "flag" /\ opt.flag = NULL -> <<Unknown(opt.key)>>
        [] arg.kind = "flag" /\ opt.flag # NULL /\ opt.value # NULL ->
             Process(w, Nested(w), opt.flag, opt.value)
        [] arg.kind = "flag" /\ opt.flag # NULL /\ opt.value = NULL ->
             IF k = Len(command) THEN <<Fail(opt.key)>>
             ELSE Process(w, Nested(w), opt.flag, command[k + 1].text)

ArgumentAfter(w, k) ==
  CASE command[k].kind = "word" -> k + 1
    [] command[k].kind = "end"  -> Len(command) + 1
    [] command[k].kind = "flag" ->
         LET opt == w.split[command[k].key][command[k].value]
         IN  IF opt.flag # NULL /\ opt.value = NULL /\ k < Len(command) THEN k + 2 ELSE k + 1

Scan(w) ==
  LET from[k \in 1 .. Len(command) + 1] ==
        IF k > Len(command) THEN <<>> ELSE OfArgument(w, k) \o from[ArgumentAfter(w, k)]
  IN  from

-----------------------------------------------------------------------------
ValueAfter(events, n) ==
  LET last == {i \in DOMAIN events : /\ events[i].kind = "set" /\ events[i].name = n
                                     /\ Acceptable(n, events[i].text)}
  IN  IF last = {} THEN before[n].current ELSE Parse[n][events[Max(last)].text]

(* FLAGS_flagfile, FLAGS_fromenv and FLAGS_tryfromenv come first, each with *)
(* the value that the ones before it leave.                                 *)
First(w)  == Nested(w)["flagfile"][before["flagfile"].current]
Second(w) == First(w) \o Nested(w)["fromenv"][ValueAfter(First(w), "fromenv")]
Third(w)  == Second(w) \o Nested(w)["tryfromenv"][ValueAfter(Second(w), "tryfromenv")]
Events(w) == Third(w) \o Scan(w)[1]

(* Once a parse is over every flag has the last value given to it that its  *)
(* type and its validate function accept, whether it came from argv, a flag *)
(* file or the environment at whatever depth (doc/index.html:452); one that *)
(* was given none keeps what it had (ProcessSingleOptionLocked).            *)
LastAcceptedValueWins ==
  pc = "done" =>
    LET events == Events(World)
    IN  \A n \in Name : Registered(n) => flags[n].current = ValueAfter(events, n)

(* A parse ends the program if and only if something was wrong: a name that *)
(* nothing defines and --undefok does not list, a value that was refused,   *)
(* a value that is missing, or a flag left alone whose own value is not     *)
(* valid (ReportErrors, ValidateFlags).  One good value later does not      *)
(* redeem a bad one.                                                        *)
ExitsExactlyOnError ==
  pc = "done" =>
    LET events  == Events(World)
        of(k)   == {e \in ToSet(events) : e.kind = k}
        unknown == {e.name : e \in of("unknown")}
        refused == {e.name : e \in {d \in of("set") : ~Acceptable(d.name, d.text)}}
        invalid == {n \in Name : /\ Registered(n) /\ ~flags[n].modified
                                 /\ ~Validate(n, flags[n], flags[n].current)}
        undefok == Entries[flags["undefok"].current]
        ok(m)   == \/ reparsing
                   \/ m \in ToSet(undefok)
                   \/ \E x \in ToSet(undefok) : Positive[m] = x /\ x \notin unknown
    IN  /\ of("die") = {}
        /\ exited <=> \/ undefok = NULL
                      \/ refused \cup invalid \cup {e.name : e \in of("fail")} # {}
                      \/ \E m \in unknown : ~ok(m)
=============================================================================
