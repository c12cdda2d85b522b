-------------------------- MODULE CommandLineFlag --------------------------
(***************************************************************************)
(* One command-line flag of gflags: the non-const members of class         *)
(* CommandLineFlag (src/gflags.cc) and the operations the registry applies *)
(* to it while it holds the registry lock.  Values are opaque: what the    *)
(* library can tell about two of them is the C++ operator==, and that      *)
(* relation is a parameter because on doubles it is not the identity: NaN  *)
(* is not equal to itself and 0.0 equals -0.0.                             *)
(***************************************************************************)
CONSTANTS
  Name,          \* flag names, spelled with dashes or with underscores
  Value,         \* values of the flags' C++ type
  Text,          \* textual values handed to the library
  Validator,     \* validation functions the program owns
  NULL,          \* "no such flag", "no validate function", "no object"
  Illegal,       \* the answer of TryParseLocked for a text it refuses
  Underscored,   \* a name with every '-' replaced by '_'
  Parse,         \* Parse[n][text]: FlagValue::ParseFrom, or Illegal
  Equals,        \* Equals[v]: the values w with v == w
  Fresh,         \* Fresh[n]: what FlagValue::New() allocates (0, false, "")
  Accepts        \* Accepts[f]: the <<name, value>> pairs f returns true for

SettingMode == {"SET_FLAGS_VALUE", "SET_FLAG_IF_DEFAULT", "SET_FLAGS_DEFAULT"}

Flag == [current     : Value,
         defvalue    : Value,
         modified    : BOOLEAN,
         validate_fn : Validator \cup {NULL}]

(* FlagValue::Equal *)
Equal(v, w) == w \in Equals[v]

(* Identical, or indistinguishable with ==.                                *)
Agree(v, w) == v = w \/ Equal(v, w)

AgreeOnFlag(f, g) == /\ Agree(f.current, g.current)
                     /\ Agree(f.defvalue, g.defvalue)
                     /\ f.modified = g.modified
                     /\ f.validate_fn = g.validate_fn

(* modified_ tells the truth: an unmodified flag has its default value.     *)
InSync(f) == ~f.modified => Agree(f.current, f.defvalue)

(* C++ == on the flag types is symmetric and transitive, though not        *)
(* reflexive, and a validate function answers alike on values that compare *)
(* equal; it is a function of its arguments only.                          *)
ASSUME FlagAssumption ==
  /\ NULL \notin Name \cup Validator \cup Flag
  /\ Illegal \notin Value
  /\ Underscored \in [Name -> Name]
  /\ Parse \in [Name -> [Text -> Value \cup {Illegal}]]
  /\ Equals \in [Value -> SUBSET Value]
  /\ \A v, w \in Value : Equal(v, w) => Equal(w, v)
  /\ \A u, v, w \in Value : Equal(u, v) /\ Equal(v, w) => Equal(u, w)
  /\ Fresh \in [Name -> Value]
  /\ Accepts \in [Validator -> SUBSET (Name \X Value)]
  /\ \A f \in Validator, n \in Name, v, w \in Value :
       Equal(v, w) => (<<n, v>> \in Accepts[f] <=> <<n, w>> \in Accepts[f])

-----------------------------------------------------------------------------
(* CommandLineFlag::CommandLineFlag, with the one initializer that the     *)
(* DEFINE_ macros give to both the current and the default value.          *)
NewFlag(v) ==
  [current |-> v, defvalue |-> v, modified |-> FALSE, validate_fn |-> NULL]

(* Seeded fault: a direct assignment to FLAGS_x is never noticed.          *)
NeverNoticed(f) == f

UpdateModifiedBit(f) ==
  [f EXCEPT !.modified = @ \/ ~Equal(f.current, f.defvalue)]

(* Seeded fault: the validate function is never asked.                     *)
ValidateNothing(n, f, v) == v \in Value

(* CommandLineFlag::Validate *)
Validate(n, f, v) ==
  f.validate_fn # NULL => <<n, v>> \in Accepts[f.validate_fn]

(* Both values of the flag satisfy its validate function.                  *)
Vetted(n, f) == Validate(n, f, f.current) /\ Validate(n, f, f.defvalue)

(* Seeded fault: the text is parsed and not validated.                     *)
ParseOnly(n, f, text) == Parse[n][text]

(* TryParseLocked: the value it would store, or Illegal.                   *)
TryParseLocked(n, f, text) ==
  LET tentative == Parse[n][text]
  IN  IF tentative # Illegal /\ Validate(n, f, tentative)
      THEN tentative ELSE Illegal

(* Seeded faults: the outcome of TryParseLocked is not looked at;          *)
(* SET_FLAGS_DEFAULT leaves the current value behind.                      *)
SetDespiteError(n, flag, text, mode) ==
  LET v == TryParseLocked(n, flag, text)
  IN  IF mode = "SET_FLAGS_DEFAULT" THEN [flag EXCEPT !.defvalue = v]
      ELSE [flag EXCEPT !.current = v, !.modified = TRUE]

SetDefaultOnly(n, flag, text, mode) ==
  LET f == UpdateModifiedBit(flag)
      v == TryParseLocked(n, f, text)
  IN  IF v = Illegal THEN f
      ELSE IF mode = "SET_FLAGS_DEFAULT" THEN [f EXCEPT !.defvalue = v]
      ELSE [f EXCEPT !.current = v, !.modified = TRUE]

(* The flag as FlagRegistry::SetFlagLocked leaves it.                      *)
SetFlagLocked(n, flag, text, mode) ==
  LET f          == UpdateModifiedBit(flag)
      v          == TryParseLocked(n, f, text)
      setDefault == mode = "SET_FLAGS_DEFAULT"
      setCurrent == mode = "SET_FLAGS_VALUE" \/ ~f.modified
  IN  IF v = Illegal THEN f
      ELSE [f EXCEPT !.current  = IF setCurrent THEN v ELSE @,
                     !.defvalue = IF setDefault THEN v ELSE @,
                     !.modified = @ \/ ~setDefault]

(* What SetFlagLocked returns: a flag that is already modified is not even *)
(* parsed for SET_FLAG_IF_DEFAULT.                                         *)
SetFlagSucceeds(n, flag, text, mode) ==
  LET f == UpdateModifiedBit(flag)
  IN  \/ mode = "SET_FLAG_IF_DEFAULT" /\ f.modified
      \/ TryParseLocked(n, f, text) # Illegal

(* Seeded faults: the validate function, or the default, is not copied.    *)
CopyWithoutValidator(f, src) ==
  [f EXCEPT !.current  = IF Equal(f.current, src.current) THEN @ ELSE src.current,
            !.defvalue = IF Equal(f.defvalue, src.defvalue) THEN @ ELSE src.defvalue,
            !.modified = src.modified]

CopyWithoutDefault(f, src) ==
  [src EXCEPT !.current  = IF Equal(f.current, @) THEN f.current ELSE @,
              !.defvalue = f.defvalue]

(* CommandLineFlag::CopyFrom: a value that compares equal is left alone.   *)
CopyFrom(f, src) ==
  [src EXCEPT !.current  = IF Equal(f.current, @) THEN f.current ELSE @,
              !.defvalue = IF Equal(f.defvalue, @) THEN f.defvalue ELSE @]

(* The backup FlagSaverImpl makes: CopyFrom onto freshly allocated values. *)
Backup(n, f) == CopyFrom(NewFlag(Fresh[n]), f)
=============================================================================
