------------------------ MODULE CommandLineFlagProofs ------------------------
(***************************************************************************)
(* Lemmas about one flag, for every set of values, texts and validators:   *)
(* what the operations of CommandLineFlag return and what they preserve.   *)
(***************************************************************************)
EXTENDS CommandLineFlag, TLAPS

(* Being identical or comparing equal is an equivalence, even though == is *)
(* not reflexive: this is what lets CopyFrom skip equal values.            *)
LEMMA AgreeIsEquivalence ==
  \A u, v, w \in Value :
    /\ Agree(u, u)
    /\ Agree(u, v) => Agree(v, u)
    /\ Agree(u, v) /\ Agree(v, w) => Agree(u, w)
BY FlagAssumption DEF Agree

(* A validate function gives the same answer on values that agree.         *)
LEMMA ValidateRespectsAgree ==
  ASSUME NEW n \in Name, NEW f \in Flag, NEW g \in Flag,
         f.validate_fn = g.validate_fn,
         NEW v \in Value, NEW w \in Value, Agree(v, w), Validate(n, f, v)
  PROVE  Validate(n, g, w)
BY FlagAssumption DEF Agree, Validate, Flag

(* The operations on a flag yield flags.                                   *)
LEMMA NewFlagType == \A v \in Value : NewFlag(v) \in Flag
BY DEF NewFlag, Flag

LEMMA UpdateType == \A f \in Flag : UpdateModifiedBit(f) \in Flag
BY DEF UpdateModifiedBit, Flag

LEMMA ParsedType ==
  ASSUME NEW n \in Name, NEW f \in Flag, NEW text \in Text
  PROVE  LET v == TryParseLocked(n, f, text)
         IN  v # Illegal => v \in Value /\ Validate(n, f, v)
BY FlagAssumption DEF TryParseLocked

LEMMA CopyFromType == \A f, g \in Flag : CopyFrom(f, g) \in Flag
BY DEF CopyFrom, Flag

LEMMA BackupType == \A n \in Name, f \in Flag : Backup(n, f) \in Flag
BY FlagAssumption, NewFlagType, CopyFromType DEF Backup

(* After CopyFrom the flag agrees with its source in all four fields.      *)
LEMMA CopyFromAgrees == \A f, g \in Flag : AgreeOnFlag(CopyFrom(f, g), g)
BY DEF CopyFrom, AgreeOnFlag, Agree, Flag

LEMMA BackupAgrees == \A n \in Name, f \in Flag : AgreeOnFlag(Backup(n, f), f)
BY FlagAssumption, NewFlagType, CopyFromAgrees DEF Backup

LEMMA AgreeOnFlagTransitive ==
  ASSUME NEW f \in Flag, NEW g \in Flag, NEW h \in Flag,
         AgreeOnFlag(f, g), AgreeOnFlag(g, h)
  PROVE  AgreeOnFlag(f, h)
BY AgreeIsEquivalence DEF AgreeOnFlag, Flag

(* Flags that agree are in sync together and valid together.               *)
LEMMA AgreeKeepsInSync ==
  ASSUME NEW f \in Flag, NEW g \in Flag, AgreeOnFlag(f, g), InSync(g)
  PROVE  InSync(f)
BY AgreeIsEquivalence DEF AgreeOnFlag, InSync, Flag

LEMMA AgreeKeepsVetted ==
  ASSUME NEW n \in Name, NEW f \in Flag, NEW g \in Flag,
         AgreeOnFlag(f, g), Vetted(n, g)
  PROVE  Vetted(n, f)
BY AgreeIsEquivalence, ValidateRespectsAgree DEF AgreeOnFlag, Vetted, Flag

(* UpdateModifiedBit brings a flag in sync and leaves its values alone.    *)
LEMMA UpdateSyncs ==
  ASSUME NEW n \in Name, NEW f \in Flag
  PROVE  /\ InSync(UpdateModifiedBit(f))
         /\ Vetted(n, f) => Vetted(n, UpdateModifiedBit(f))
BY DEF UpdateModifiedBit, InSync, Agree, Vetted, Validate, Flag

(* So does SetFlagLocked in every mode, and it stores nothing that the     *)
(* validate function refuses.                                              *)
LEMMA SetFlagIsSafe ==
  ASSUME NEW n \in Name, NEW f \in Flag, NEW text \in Text, NEW mode \in SettingMode
  PROVE  LET g == SetFlagLocked(n, f, text, mode)
         IN  g \in Flag /\ InSync(g) /\ (Vetted(n, f) => Vetted(n, g))
<1> DEFINE u == UpdateModifiedBit(f)
           v == TryParseLocked(n, u, text)
<1>1. u \in Flag /\ InSync(u) /\ (Vetted(n, f) => Vetted(n, u))
  BY UpdateType, UpdateSyncs
<1>2. CASE v = Illegal
  BY <1>1, <1>2 DEF SetFlagLocked
<1>3. CASE v # Illegal
  <2>1. v \in Value /\ Validate(n, u, v)
    BY <1>1, <1>3, ParsedType
  <2>2. SetFlagLocked(n, f, text, mode) =
          [u EXCEPT !.current  = IF mode = "SET_FLAGS_VALUE" \/ ~u.modified THEN v ELSE @,
                    !.defvalue = IF mode = "SET_FLAGS_DEFAULT" THEN v ELSE @,
                    !.modified = @ \/ ~(mode = "SET_FLAGS_DEFAULT")]
    BY <1>3 DEF SetFlagLocked
  <2> HIDE DEF u, v
  <2>3. QED
    BY <1>1, <2>1, <2>2 DEF Flag, InSync, Agree, Vetted, Validate, SettingMode
<1>4. QED BY <1>2, <1>3

(* SET_FLAGS_VALUE stores a value that is valid, or no value at all, and   *)
(* its answer says which.                                                  *)
LEMMA SetValueStoresValid ==
  ASSUME NEW n \in Name, NEW f \in Flag, NEW text \in Text
  PROVE  LET g == SetFlagLocked(n, f, text, "SET_FLAGS_VALUE")
         IN  SetFlagSucceeds(n, f, text, "SET_FLAGS_VALUE") => Validate(n, g, g.current)
<1> DEFINE u == UpdateModifiedBit(f)
           v == TryParseLocked(n, u, text)
<1> SUFFICES ASSUME SetFlagSucceeds(n, f, text, "SET_FLAGS_VALUE")
             PROVE  LET g == SetFlagLocked(n, f, text, "SET_FLAGS_VALUE")
                    IN  Validate(n, g, g.current)
  OBVIOUS
<1>1. u \in Flag
  BY UpdateType
<1>2. v # Illegal
  BY DEF SetFlagSucceeds
<1>3. v \in Value /\ Validate(n, u, v)
  BY <1>1, <1>2, ParsedType
<1>4. SetFlagLocked(n, f, text, "SET_FLAGS_VALUE") =
        [u EXCEPT !.current = v, !.defvalue = @, !.modified = TRUE]
  BY <1>1, <1>2 DEF SetFlagLocked, Flag
<1> HIDE DEF u, v
<1>5. QED
  BY <1>1, <1>3, <1>4 DEF Flag, Validate

(* The other modes leave the current value of a modified flag alone.       *)
LEMMA OtherModesYield ==
  ASSUME NEW n \in Name, NEW f \in Flag, NEW text \in Text, NEW mode \in SettingMode,
         mode # "SET_FLAGS_VALUE", UpdateModifiedBit(f).modified
  PROVE  SetFlagLocked(n, f, text, mode).current = f.current
<1> DEFINE u == UpdateModifiedBit(f)
           v == TryParseLocked(n, u, text)
<1>1. u \in Flag /\ u.current = f.current /\ u.modified
  BY UpdateType DEF UpdateModifiedBit, Flag
<1>2. CASE v = Illegal
  BY <1>1, <1>2 DEF SetFlagLocked
<1>3. CASE v # Illegal
  <2>1. SetFlagLocked(n, f, text, mode) =
          [u EXCEPT !.current  = IF mode = "SET_FLAGS_VALUE" \/ ~u.modified THEN v ELSE @,
                    !.defvalue = IF mode = "SET_FLAGS_DEFAULT" THEN v ELSE @,
                    !.modified = @ \/ ~(mode = "SET_FLAGS_DEFAULT")]
    BY <1>3 DEF SetFlagLocked
  <2> HIDE DEF u, v
  <2>2. QED
    BY <1>1, <2>1 DEF Flag
<1>4. QED
  BY <1>2, <1>3
=============================================================================
