------------------------- MODULE FlagRegistryProofs -------------------------
(***************************************************************************)
(* Proofs about FlagRegistry for every set of flags, values, texts,        *)
(* validators, threads, savers and files; among them that it implements    *)
(* Settings.                                                               *)
(***************************************************************************)
EXTENDS FlagRegistryRefinement, CommandLineFlagProofs, TLAPS

-----------------------------------------------------------------------------
(* FlagSaverImpl::SaveFromRegistry makes a snapshot.                       *)
LEMMA SaveType ==
  ASSUME flags \in Store, unsynced \in SUBSET Name
  PROVE  SaveFromRegistry \in Snapshot
BY BackupType DEF SaveFromRegistry, Snapshot, Store, Registered

LEMMA RestoreType ==
  ASSUME flags \in Store, unsynced \in SUBSET Name,
         NEW snap \in Snapshot, RestoreToRegistry(snap)
  PROVE  flags' \in Store /\ unsynced' \in SUBSET Name
BY CopyFromType DEF RestoreToRegistry, Restorable, Registered, Snapshot, Store

LEMMA FindType == \A name \in Name : FindFlagLocked(name) # NULL =>
                     FindFlagLocked(name) \in Name /\ Registered(FindFlagLocked(name))
BY FlagAssumption DEF FindFlagLocked

(* The variables keep their types.                                         *)
LEMMA IdleReaderType == IdleReader \in Reader
<1>1. <<>> \in Seq(Name \X Text)
  OBVIOUS
<1>2. QED BY <1>1 DEF IdleReader, Reader

LEMMA InitType == Init => TypeOK
<1> SUFFICES ASSUME Init PROVE TypeOK
  OBVIOUS
<1>1. reader \in [Thread -> Reader]
  BY IdleReaderType DEF Init
<1>2. \A t \in Thread : reader[t].pc # "idle" => reader[t].snap \in Snapshot
  BY DEF Init, IdleReader
<1>3. flags \in Store
  BY DEF Init, Store
<1>4. QED BY <1>1, <1>2, <1>3 DEF Init, TypeOK

(* Moving a reader on keeps its type.                                      *)
LEMMA ReaderMoves ==
  ASSUME TypeOK, NEW t \in Thread, NEW r \in Reader,
         reader' = [reader EXCEPT ![t] = r], r.pc # "idle" => r.snap \in Snapshot
  PROVE  /\ reader' \in [Thread -> Reader]
         /\ \A u \in Thread : reader'[u].pc # "idle" => reader'[u].snap \in Snapshot
BY DEF TypeOK

LEMMA GotoType ==
  ASSUME TypeOK, NEW t \in Thread, reader[t].pc # "idle",
         NEW pc \in {"saved", "applying", "applied", "restoring"}, Goto(t, pc)
  PROVE  /\ reader' \in [Thread -> Reader]
         /\ \A u \in Thread : reader'[u].pc # "idle" => reader'[u].snap \in Snapshot
<1>1. [reader[t] EXCEPT !.pc = pc] \in Reader
  BY DEF TypeOK, Reader
<1>2. reader' = [reader EXCEPT ![t] = [reader[t] EXCEPT !.pc = pc]]
  BY DEF Goto
<1>3. [reader[t] EXCEPT !.pc = pc].snap = reader[t].snap
  BY DEF TypeOK, Reader
<1>4. QED BY <1>1, <1>2, <1>3, ReaderMoves DEF TypeOK

LEMMA NextType == TypeOK /\ [Next]_vars => TypeOK'
<1> SUFFICES ASSUME TypeOK, [Next]_vars PROVE TypeOK'
  OBVIOUS
<1> USE DEF TypeOK
<1>1. ASSUME NEW n \in Name, NEW v \in Value, RegisterFlag(n, v) PROVE TypeOK'
  BY <1>1, NewFlagType DEF RegisterFlag, Store
<1>2. ASSUME NEW n \in Name, NEW v \in Value, AssignDirectly(n, v) PROVE TypeOK'
  <2>1. [flags[n] EXCEPT !.current = v] \in Flag
    BY <1>2 DEF AssignDirectly, Registered, Store, Flag
  <2>2. flags' = [flags EXCEPT ![n] = [flags[n] EXCEPT !.current = v]]
    BY <1>2 DEF AssignDirectly
  <2>3. flags' \in Store
    BY <2>1, <2>2 DEF Store
  <2>4. QED BY <1>2, <2>3 DEF AssignDirectly
<1>3. ASSUME NEW n \in Name, NEW f \in Validator \cup {NULL}, AddFlagValidator(n, f)
      PROVE  TypeOK'
  <2>1. [flags[n] EXCEPT !.validate_fn = f] \in Flag
    BY <1>3 DEF AddFlagValidator, Registered, Store, Flag
  <2>2. flags' = [flags EXCEPT ![n] = [flags[n] EXCEPT !.validate_fn = f]]
    BY <1>3 DEF AddFlagValidator
  <2>3. flags' \in Store
    BY <2>1, <2>2 DEF Store
  <2>4. QED BY <1>3, <2>3 DEF AddFlagValidator
<1>4. ASSUME NEW n \in Name, NEW text \in Text, NEW mode \in SettingMode, SetFlag(n, text, mode),
             Registered(n)
      PROVE  flags' \in Store /\ unsynced' \in SUBSET Name
  BY <1>4, SetFlagIsSafe DEF SetFlag, Store, Registered
<1>5. ASSUME NEW n \in Name, NEW text \in Text, NEW mode \in SettingMode,
             SetCommandLineOptionWithMode(n, text, mode)
      PROVE  TypeOK'
  BY <1>4, <1>5, FindType DEF SetCommandLineOptionWithMode
<1>6. ASSUME NEW n \in Name, GetCommandLineFlagInfo(n) PROVE TypeOK'
  BY <1>6, FindType, UpdateType DEF GetCommandLineFlagInfo, Store, Registered
<1>7. CASE GetAllFlags
  BY <1>7, UpdateType DEF GetAllFlags, Store, Registered
<1>8. ASSUME NEW s \in Saver, ConstructSaver(s) PROVE TypeOK'
  BY <1>8, SaveType DEF ConstructSaver
<1>9. ASSUME NEW s \in Saver, DestroySaver(s) PROVE TypeOK'
  BY <1>9, RestoreType DEF DestroySaver
<1>10. ASSUME NEW t \in Thread, NEW file \in Files, ReadSave(t, file) PROVE TypeOK'
  <2> DEFINE r == [pc |-> "saved", todo |-> file, failed |-> FALSE, snap |-> SaveFromRegistry]
  <2>1. SaveFromRegistry \in Snapshot
    BY SaveType
  <2>2. r \in Reader /\ r.snap \in Snapshot
    BY <2>1, RegistryAssumption DEF Reader
  <2>3. reader' = [reader EXCEPT ![t] = r]
    BY <1>10 DEF ReadSave
  <2>4. QED BY <1>10, <2>2, <2>3, ReaderMoves DEF ReadSave
<1>11. ASSUME NEW t \in Thread, ReadLock(t) PROVE TypeOK'
  BY <1>11, GotoType DEF ReadLock
<1>12. ASSUME NEW t \in Thread, ReadLine(t) PROVE TypeOK'
  <2> DEFINE line == Head(reader[t].todo)
             n    == FindFlagLocked(line[1])
  <2>1. line \in Name \X Text /\ Tail(reader[t].todo) \in Seq(Name \X Text)
    BY <1>12 DEF ReadLine, Reader
  <2>2. flags' \in Store /\ unsynced' \in SUBSET Name
    BY <1>4, <1>12, <2>1, FindType DEF ReadLine, SettingMode
  <2>3. PICK b \in BOOLEAN :
          reader' = [reader EXCEPT ![t].todo = Tail(@), ![t].failed = b]
    <3>1. CASE n = NULL
      <4>1. reader' = [reader EXCEPT ![t].todo = Tail(@)]
        BY <1>12, <3>1 DEF ReadLine
      <4>2. reader' = [reader EXCEPT ![t].todo = Tail(@), ![t].failed = reader[t].failed]
        BY <4>1 DEF Reader
      <4>3. QED BY <4>2 DEF Reader
    <3>2. CASE n # NULL
      <4> DEFINE ok == SetFlagSucceeds(n, flags[n], line[2], "SET_FLAGS_VALUE")
      <4>1. reader' = [reader EXCEPT ![t].todo = Tail(@), ![t].failed = @ \/ ~ok]
        BY <1>12, <3>2 DEF ReadLine
      <4>2. (reader[t].failed \/ ~ok) \in BOOLEAN
        OBVIOUS
      <4> HIDE DEF ok
      <4>3. QED BY <4>1, <4>2, Zenon
    <3>3. QED BY <3>1, <3>2
  <2>4. [reader[t] EXCEPT !.todo = Tail(@), !.failed = b] \in Reader
    BY <2>1 DEF Reader
  <2>5. [reader[t] EXCEPT !.todo = Tail(@), !.failed = b].snap \in Snapshot
    BY <1>12 DEF ReadLine, Reader
  <2>6. reader' = [reader EXCEPT ![t] = [reader[t] EXCEPT !.todo = Tail(@), !.failed = b]]
    BY <2>3
  <2>7. QED BY <1>12, <2>2, <2>4, <2>5, <2>6, ReaderMoves DEF ReadLine
<1>13. ASSUME NEW t \in Thread, ReadUnlock(t) PROVE TypeOK'
  BY <1>13, GotoType DEF ReadUnlock
<1>14. ASSUME NEW t \in Thread, NEW fatal \in BOOLEAN, ReadReport(t, fatal) PROVE TypeOK'
  <2>1. exited' \in BOOLEAN
    BY <1>14 DEF ReadReport
  <2>2. \/ reader' = reader
        \/ reader' = [reader EXCEPT ![t].pc = "restoring"]
        \/ reader' = [reader EXCEPT ![t] = IdleReader]
    BY <1>14, Zenon DEF ReadReport
  <2>3. /\ reader' \in [Thread -> Reader]
        /\ \A u \in Thread : reader'[u].pc # "idle" => reader'[u].snap \in Snapshot
    <3>1. CASE reader' = reader
      BY <3>1
    <3>2. CASE reader' = [reader EXCEPT ![t].pc = "restoring"]
      BY <1>14, <3>2, GotoType DEF ReadReport, Goto
    <3>3. CASE reader' = [reader EXCEPT ![t] = IdleReader]
      BY <3>3, IdleReaderType, ReaderMoves DEF IdleReader
    <3>4. QED BY <2>2, <3>1, <3>2, <3>3
  <2>4. QED BY <1>14, <2>1, <2>3 DEF ReadReport
<1>15. ASSUME NEW t \in Thread, ReadRestore(t) PROVE TypeOK'
  <2>1. flags' \in Store /\ unsynced' \in SUBSET Name
    BY <1>15, RestoreType DEF ReadRestore
  <2>2. /\ reader' \in [Thread -> Reader]
        /\ \A u \in Thread : reader'[u].pc # "idle" => reader'[u].snap \in Snapshot
    BY <1>15, IdleReaderType, ReaderMoves DEF ReadRestore, IdleReader
  <2>3. QED BY <1>15, <2>1, <2>2 DEF ReadRestore
<1>16. CASE UNCHANGED vars
  BY <1>16 DEF vars
<1>17. QED
  BY <1>1, <1>2, <1>3, <1>5, <1>6, <1>7, <1>8, <1>9, <1>10, <1>11, <1>12, <1>13, <1>14,
     <1>15, <1>16 DEF Next, Running, Exited, ReadStep

(* Every variable has its type in every reachable state.                   *)
THEOREM TypeCorrect == Spec => []TypeOK
BY InitType, NextType, PTL DEF Spec

-----------------------------------------------------------------------------
(* The inductive invariant.  DefaultFollows and AlwaysValid are not        *)
(* inductive by themselves: a restore copies a backup over the flags, so   *)
(* the backups must be as good as the flags they will replace.             *)
Inv == TypeOK /\ DefaultFollows /\ AlwaysValid /\ BackupsAreFaithful

LEMMA InitInv == Init => Inv
BY InitType DEF Init, Inv, DefaultFollows, AlwaysValid, BackupsAreFaithful, Registered,
               IdleReader

(* A snapshot taken now is faithful.                                       *)
LEMMA SaveIsFaithful ==
  ASSUME Inv PROVE Faithful(SaveFromRegistry)
<1> DEFINE snap == SaveFromRegistry
<1> SUFFICES ASSUME NEW n \in Name
             PROVE  /\ snap.original[n] # NULL <=> snap.backup[n] # NULL
                    /\ snap.backup[n] # NULL =>
                         /\ Registered(n)
                         /\ AgreeOnFlag(snap.backup[n], snap.original[n])
                         /\ n \notin snap.unsynced => InSync(snap.backup[n])
                         /\ n \notin unvetted => Vetted(n, snap.backup[n])
  BY DEF Faithful
<1>1. /\ snap.original[n] = flags[n]
      /\ snap.backup[n] = IF Registered(n) THEN Backup(n, flags[n]) ELSE NULL
      /\ snap.unsynced = unsynced
  BY DEF SaveFromRegistry
<1>2. CASE Registered(n)
  <2>1. flags[n] \in Flag /\ Backup(n, flags[n]) \in Flag
    BY <1>2, BackupType DEF Inv, TypeOK, Store, Registered
  <2>2. Backup(n, flags[n]) # NULL
    BY <2>1, FlagAssumption
  <2>3. AgreeOnFlag(Backup(n, flags[n]), flags[n])
    BY <2>1, BackupAgrees
  <2>4. n \notin unsynced => InSync(Backup(n, flags[n]))
    BY <1>2, <2>1, <2>3, AgreeKeepsInSync DEF Inv, DefaultFollows
  <2>5. n \notin unvetted => Vetted(n, Backup(n, flags[n]))
    BY <1>2, <2>1, <2>3, AgreeKeepsVetted DEF Inv, AlwaysValid
  <2>6. QED BY <1>1, <1>2, <2>2, <2>3, <2>4, <2>5 DEF Registered
<1>3. CASE ~Registered(n)
  BY <1>1, <1>3 DEF Registered
<1>4. QED BY <1>2, <1>3

(* A faithful backup stays faithful as long as no flag disappears and no   *)
(* flag loses its place among the unvetted.                                *)
LEMMA FaithfulIsStable ==
  ASSUME NEW snap, Faithful(snap),
         \A n \in Name : Registered(n) => flags'[n] # NULL,
         unvetted \subseteq unvetted'
  PROVE  Faithful(snap)'
BY DEF Faithful, Registered

(* Restoring a faithful backup keeps flags in sync and valid, and brings   *)
(* back every flag it holds.                                               *)
LEMMA RestoreIsSafe ==
  ASSUME Inv, NEW snap \in Snapshot, Faithful(snap), RestoreToRegistry(snap),
         unvetted' = unvetted
  PROVE  DefaultFollows' /\ AlwaysValid' /\ BringsBack(snap)
<1> SUFFICES ASSUME NEW n \in Name
             PROVE  /\ (flags'[n] # NULL /\ n \notin unsynced') => InSync(flags'[n])
                    /\ (flags'[n] # NULL /\ n \notin unvetted) => Vetted(n, flags'[n])
                    /\ snap.original[n] # NULL => AgreeOnFlag(flags'[n], snap.original[n])
  BY DEF DefaultFollows, AlwaysValid, BringsBack, Registered
<1>1. CASE snap.backup[n] # NULL
  <2>1. /\ flags[n] \in Flag /\ snap.backup[n] \in Flag /\ snap.original[n] \in Flag
        /\ Restorable(snap, n)
    BY <1>1 DEF Faithful, Inv, TypeOK, Store, Snapshot, Registered, Restorable
  <2>2. /\ flags'[n] = CopyFrom(flags[n], snap.backup[n])
        /\ n \in unsynced' <=> n \in snap.unsynced
    BY <2>1 DEF RestoreToRegistry
  <2>3. flags'[n] \in Flag /\ AgreeOnFlag(flags'[n], snap.backup[n])
    BY <2>1, <2>2, CopyFromType, CopyFromAgrees
  <2>4. n \notin snap.unsynced => InSync(flags'[n])
    BY <1>1, <2>1, <2>3, AgreeKeepsInSync DEF Faithful
  <2>5. n \notin unvetted => Vetted(n, flags'[n])
    BY <1>1, <2>1, <2>3, AgreeKeepsVetted DEF Faithful
  <2>6. AgreeOnFlag(flags'[n], snap.original[n])
    BY <1>1, <2>1, <2>3, AgreeOnFlagTransitive DEF Faithful
  <2>7. QED BY <2>2, <2>4, <2>5, <2>6
<1>2. CASE snap.backup[n] = NULL
  <2>1. flags'[n] = flags[n] /\ (n \in unsynced' <=> n \in unsynced)
    BY <1>2 DEF RestoreToRegistry, Restorable
  <2>2. snap.original[n] = NULL
    BY <1>2 DEF Faithful
  <2>3. QED BY <2>1, <2>2 DEF Inv, DefaultFollows, AlwaysValid, Registered
<1>3. QED BY <1>1, <1>2

(* What every step owes: no flag disappears, none is forgotten among the   *)
(* unvetted, and the two invariants on flags hold afterwards.              *)
FlagsAreKept == /\ \A n \in Name : Registered(n) => flags'[n] # NULL
                /\ unvetted \subseteq unvetted'
                /\ DefaultFollows'
                /\ AlwaysValid'

LEMMA NothingChanges ==
  ASSUME Inv, UNCHANGED <<flags, unsynced, unvetted>>
  PROVE  FlagsAreKept
BY DEF FlagsAreKept, Inv, DefaultFollows, AlwaysValid, Registered

LEMMA OneFlagChanges ==
  ASSUME Inv, NEW n \in Name, NEW g \in Flag, flags' = [flags EXCEPT ![n] = g],
         unsynced' \cup {n} = unsynced \cup {n}, unvetted \subseteq unvetted',
         n \in unsynced' \/ InSync(g), n \in unvetted' \/ Vetted(n, g)
  PROVE  FlagsAreKept
<1>1. g # NULL
  BY FlagAssumption
<1>2. \A m \in Name : flags'[m] = IF m = n THEN g ELSE flags[m]
  BY DEF Inv, TypeOK, Store
<1>3. QED
  BY <1>1, <1>2 DEF FlagsAreKept, Inv, DefaultFollows, AlwaysValid, Registered

LEMMA SetFlagKeeps ==
  ASSUME Inv, NEW n \in Name, NEW text \in Text, NEW mode \in SettingMode,
         Registered(n), SetFlag(n, text, mode), UNCHANGED unvetted
  PROVE  FlagsAreKept
<1> DEFINE g == SetFlagLocked(n, flags[n], text, mode)
<1>1. flags[n] \in Flag
  BY DEF Inv, TypeOK, Store, Registered
<1>2. g \in Flag /\ InSync(g) /\ (Vetted(n, flags[n]) => Vetted(n, g))
  BY <1>1, SetFlagIsSafe
<1>3. n \in unvetted' \/ Vetted(n, g)
  BY <1>2 DEF Inv, AlwaysValid
<1>4. flags' = [flags EXCEPT ![n] = g] /\ unsynced' \cup {n} = unsynced \cup {n}
  BY DEF SetFlag
<1> HIDE DEF g
<1>5. QED BY <1>2, <1>3, <1>4, OneFlagChanges

LEMMA RestoreKeeps ==
  ASSUME Inv, NEW snap \in Snapshot, Faithful(snap), RestoreToRegistry(snap),
         unvetted' = unvetted
  PROVE  FlagsAreKept
<1>1. DefaultFollows' /\ AlwaysValid'
  BY RestoreIsSafe
<1>2. ASSUME NEW n \in Name, Registered(n) PROVE flags'[n] # NULL
  <2>1. CASE Restorable(snap, n)
    <3>1. flags'[n] = CopyFrom(flags[n], snap.backup[n])
      BY <2>1 DEF RestoreToRegistry
    <3>2. CopyFrom(flags[n], snap.backup[n]) \in Flag
      BY <2>1, CopyFromType DEF Restorable, Registered, Inv, TypeOK, Store, Snapshot
    <3>3. QED BY <3>1, <3>2, FlagAssumption
  <2>2. CASE ~Restorable(snap, n)
    BY <1>2, <2>2 DEF RestoreToRegistry, Registered
  <2>3. QED BY <2>1, <2>2
<1>3. QED BY <1>1, <1>2 DEF FlagsAreKept

LEMMA NextKeepsFlags ==
  ASSUME Inv, [Next]_vars PROVE FlagsAreKept
<1>1. ASSUME NEW n \in Name, NEW v \in Value, RegisterFlag(n, v) PROVE FlagsAreKept
  <2>1. CASE Registered(n)
    BY <1>1, <2>1, NothingChanges DEF RegisterFlag
  <2>2. CASE ~Registered(n)
    <3>1. NewFlag(v) \in Flag /\ InSync(NewFlag(v)) /\ Vetted(n, NewFlag(v))
      BY NewFlagType DEF NewFlag, InSync, Agree, Vetted, Validate
    <3>2. flags' = [flags EXCEPT ![n] = NewFlag(v)] /\ UNCHANGED <<unsynced, unvetted>>
      BY <1>1, <2>2 DEF RegisterFlag
    <3>3. QED BY <3>1, <3>2, OneFlagChanges
  <2>3. QED BY <2>1, <2>2
<1>2. ASSUME NEW n \in Name, NEW v \in Value, AssignDirectly(n, v) PROVE FlagsAreKept
  <2> DEFINE g == [flags[n] EXCEPT !.current = v]
  <2>1. flags[n] \in Flag
    BY <1>2 DEF AssignDirectly, Registered, Inv, TypeOK, Store
  <2>2. g \in Flag
    BY <2>1 DEF Flag
  <2>3. n \in unvetted' \/ Vetted(n, g)
    <3>1. CASE n \in unvetted
      BY <1>2, <3>1 DEF AssignDirectly
    <3>2. CASE n \notin unvetted /\ Validate(n, flags[n], v)
      BY <1>2, <2>1, <3>2 DEF AssignDirectly, Inv, AlwaysValid, Vetted, Validate, Flag
    <3>3. CASE n \notin unvetted /\ ~Validate(n, flags[n], v)
      BY <1>2, <3>3 DEF AssignDirectly
    <3>4. QED BY <3>1, <3>2, <3>3
  <2>4. /\ flags' = [flags EXCEPT ![n] = g]
        /\ unsynced' = unsynced \cup {n} /\ unvetted \subseteq unvetted'
    BY <1>2 DEF AssignDirectly
  <2> HIDE DEF g
  <2>5. QED BY <2>2, <2>3, <2>4, OneFlagChanges
<1>3. ASSUME NEW n \in Name, NEW f \in Validator \cup {NULL}, AddFlagValidator(n, f)
      PROVE  FlagsAreKept
  <2> DEFINE g == [flags[n] EXCEPT !.validate_fn = f]
  <2>1. flags[n] \in Flag
    BY <1>3 DEF AddFlagValidator, Registered, Inv, TypeOK, Store
  <2>2. g \in Flag
    BY <2>1 DEF Flag
  <2>3. n \in unvetted' \/ Vetted(n, g)
    <3>1. g.current = flags[n].current /\ g.defvalue = flags[n].defvalue
      BY <2>1 DEF Flag
    <3>2. CASE \A v \in {flags[n].current, flags[n].defvalue} : Validate(n, g, v)
      BY <3>1, <3>2 DEF Vetted
    <3>3. CASE ~ \A v \in {flags[n].current, flags[n].defvalue} : Validate(n, g, v)
      BY <1>3, <3>3 DEF AddFlagValidator
    <3>4. QED BY <3>2, <3>3
  <2>4. n \in unsynced' \/ InSync(g)
    BY <1>3, <2>1 DEF AddFlagValidator, Inv, DefaultFollows, InSync, Flag
  <2>5. /\ flags' = [flags EXCEPT ![n] = g]
        /\ unsynced' = unsynced /\ unvetted \subseteq unvetted'
    BY <1>3 DEF AddFlagValidator
  <2> HIDE DEF g
  <2>6. QED BY <2>2, <2>3, <2>4, <2>5, OneFlagChanges
<1>4. ASSUME NEW n \in Name, NEW text \in Text, NEW mode \in SettingMode,
             SetCommandLineOptionWithMode(n, text, mode)
      PROVE  FlagsAreKept
  BY <1>4, FindType, SetFlagKeeps DEF SetCommandLineOptionWithMode
<1>5. ASSUME NEW name \in Name, GetCommandLineFlagInfo(name) PROVE FlagsAreKept
  <2> DEFINE n == FindFlagLocked(name)
             g == UpdateModifiedBit(flags[n])
  <2>1. n \in Name /\ flags[n] \in Flag /\ Registered(n)
    BY <1>5, FindType DEF GetCommandLineFlagInfo, Inv, TypeOK, Store, Registered
  <2>2. g \in Flag /\ InSync(g) /\ (Vetted(n, flags[n]) => Vetted(n, g))
    BY <2>1, UpdateType, UpdateSyncs
  <2>3. n \in unvetted' \/ Vetted(n, g)
    BY <1>5, <2>1, <2>2 DEF GetCommandLineFlagInfo, Inv, AlwaysValid
  <2>4. /\ flags' = [flags EXCEPT ![n] = g]
        /\ unsynced' = unsynced \ {n} /\ unvetted' = unvetted
    BY <1>5 DEF GetCommandLineFlagInfo
  <2> HIDE DEF n, g
  <2>5. QED BY <2>1, <2>2, <2>3, <2>4, OneFlagChanges
<1>6. CASE GetAllFlags
  <2>1. ASSUME NEW n \in Name
        PROVE  /\ Registered(n) => flags'[n] # NULL
               /\ flags'[n] # NULL => InSync(flags'[n])
               /\ flags'[n] # NULL /\ n \notin unvetted => Vetted(n, flags'[n])
    <3>1. CASE Registered(n)
      <4>1. flags[n] \in Flag /\ flags'[n] = UpdateModifiedBit(flags[n])
        BY <1>6, <3>1 DEF GetAllFlags, Inv, TypeOK, Store, Registered
      <4>2. /\ flags'[n] \in Flag /\ InSync(flags'[n])
            /\ Vetted(n, flags[n]) => Vetted(n, flags'[n])
        BY <4>1, UpdateType, UpdateSyncs
      <4>3. QED BY <3>1, <4>2, FlagAssumption DEF Inv, AlwaysValid
    <3>2. CASE ~Registered(n)
      BY <1>6, <3>2 DEF GetAllFlags
    <3>3. QED BY <3>1, <3>2
  <2>2. unvetted' = unvetted
    BY <1>6 DEF GetAllFlags
  <2>3. QED BY <2>1, <2>2 DEF FlagsAreKept, DefaultFollows, AlwaysValid, Registered
<1>7. ASSUME NEW s \in Saver, ConstructSaver(s) PROVE FlagsAreKept
  BY <1>7, NothingChanges DEF ConstructSaver
<1>8. ASSUME NEW s \in Saver, DestroySaver(s) PROVE FlagsAreKept
  <2>1. saved[s] \in Snapshot /\ Faithful(saved[s])
    BY <1>8 DEF DestroySaver, Inv, TypeOK, BackupsAreFaithful
  <2>2. QED BY <1>8, <2>1, RestoreKeeps DEF DestroySaver
<1>9. ASSUME NEW t \in Thread, NEW file \in Files, ReadSave(t, file) PROVE FlagsAreKept
  BY <1>9, NothingChanges DEF ReadSave
<1>10. ASSUME NEW t \in Thread, ReadLock(t) \/ ReadUnlock(t) PROVE FlagsAreKept
  BY <1>10, NothingChanges DEF ReadLock, ReadUnlock
<1>11. ASSUME NEW t \in Thread, ReadLine(t) PROVE FlagsAreKept
  <2> DEFINE line == Head(reader[t].todo)
             n    == FindFlagLocked(line[1])
  <2>1. CASE n = NULL
    BY <1>11, <2>1, NothingChanges DEF ReadLine
  <2>2. CASE n # NULL
    <3>1. line \in Name \X Text
      BY <1>11 DEF ReadLine, Inv, TypeOK, Reader
    <3>2. n \in Name /\ Registered(n)
      BY <2>2, <3>1, FindType
    <3>3. SetFlag(n, line[2], "SET_FLAGS_VALUE") /\ unvetted' = unvetted
      BY <1>11, <2>2 DEF ReadLine
    <3> HIDE DEF n
    <3>4. QED BY <3>1, <3>2, <3>3, SetFlagKeeps DEF SettingMode
  <2>3. QED BY <2>1, <2>2
<1>12. ASSUME NEW t \in Thread, NEW fatal \in BOOLEAN, ReadReport(t, fatal)
       PROVE  FlagsAreKept
  BY <1>12, NothingChanges DEF ReadReport
<1>13. ASSUME NEW t \in Thread, ReadRestore(t) PROVE FlagsAreKept
  <2>1. reader[t].snap \in Snapshot /\ Faithful(reader[t].snap)
    BY <1>13 DEF ReadRestore, Inv, TypeOK, BackupsAreFaithful
  <2>2. QED BY <1>13, <2>1, RestoreKeeps DEF ReadRestore
<1>14. CASE UNCHANGED vars
  BY <1>14, NothingChanges DEF vars
<1>15. QED
  BY <1>1, <1>2, <1>3, <1>4, <1>5, <1>6, <1>7, <1>8, <1>9, <1>10, <1>11, <1>12, <1>13,
     <1>14 DEF Next, Running, Exited, ReadStep

-----------------------------------------------------------------------------
(* Where the snapshot a saver or a reader holds after a step comes from.   *)
LEMMA SaverHolds ==
  ASSUME Inv, [Next]_vars, NEW s \in Saver, saved'[s] # NULL
  PROVE  (saved'[s] = saved[s] /\ saved[s] # NULL) \/ saved'[s] = SaveFromRegistry
<1>1. CASE saved' = saved
  BY <1>1
<1>2. ASSUME NEW u \in Saver, ConstructSaver(u)
      PROVE  saved'[s] = saved[s] \/ saved'[s] = SaveFromRegistry
  BY <1>2 DEF ConstructSaver, Inv, TypeOK
<1>3. ASSUME NEW u \in Saver, DestroySaver(u)
      PROVE  saved'[s] = saved[s] \/ saved'[s] = NULL
  BY <1>3 DEF DestroySaver, Inv, TypeOK
<1>4. (\E u \in Saver : ConstructSaver(u) \/ DestroySaver(u)) \/ saved' = saved
  BY DEF Next, Running, Exited, vars, RegisterFlag, AssignDirectly, AddFlagValidator,
         SetCommandLineOptionWithMode, GetCommandLineFlagInfo, GetAllFlags, ReadSave,
         ReadStep, ReadLock, ReadLine, ReadUnlock, ReadReport, ReadRestore
<1>5. QED BY <1>1, <1>2, <1>3, <1>4

LEMMA ReaderHolds ==
  ASSUME Inv, [Next]_vars, NEW t \in Thread, reader'[t].pc # "idle"
  PROVE  \/ reader'[t].snap = reader[t].snap /\ reader[t].pc # "idle"
         \/ reader'[t].snap = SaveFromRegistry
<1>1. CASE reader' = reader
  BY <1>1
<1>2. ASSUME NEW u \in Thread, NEW file \in Files, ReadSave(u, file)
      PROVE  \/ reader'[t] = reader[t]
             \/ reader'[t].snap = SaveFromRegistry
  BY <1>2 DEF ReadSave, Inv, TypeOK
<1>3. ASSUME NEW u \in Thread, ReadLock(u) \/ ReadUnlock(u)
      PROVE  reader'[t] = reader[t] \/ (reader'[t].snap = reader[t].snap /\ reader[t].pc # "idle")
  BY <1>3 DEF ReadLock, ReadUnlock, Goto, Inv, TypeOK, Reader
<1>4. ASSUME NEW u \in Thread, ReadLine(u)
      PROVE  reader'[t] = reader[t] \/ (reader'[t].snap = reader[t].snap /\ reader[t].pc # "idle")
  <2>1. reader[u].pc = "applying" /\ reader[u] \in Reader
    BY <1>4 DEF ReadLine, Inv, TypeOK
  <2>2. CASE t = u
    BY <1>4, <2>1, <2>2 DEF ReadLine, Inv, TypeOK, Reader
  <2>3. CASE t # u
    BY <1>4, <2>3 DEF ReadLine, Inv, TypeOK
  <2>4. QED BY <2>2, <2>3
<1>5. ASSUME NEW u \in Thread, NEW fatal \in BOOLEAN, ReadReport(u, fatal)
      PROVE  \/ reader'[t] = reader[t]
             \/ reader'[t] = IdleReader
             \/ reader'[t].snap = reader[t].snap /\ reader[t].pc # "idle"
  <2>1. \/ reader' = reader
        \/ reader' = [reader EXCEPT ![u].pc = "restoring"]
        \/ reader' = [reader EXCEPT ![u] = IdleReader]
    BY <1>5, Zenon DEF ReadReport
  <2>2. reader[u].pc # "idle"
    BY <1>5 DEF ReadReport
  <2>3. QED BY <2>1, <2>2 DEF Inv, TypeOK, Reader
<1>6. ASSUME NEW u \in Thread, ReadRestore(u)
      PROVE  reader'[t] = reader[t] \/ reader'[t] = IdleReader
  BY <1>6 DEF ReadRestore, Inv, TypeOK
<1>7. \/ reader' = reader
      \/ \E u \in Thread : (\E file \in Files : ReadSave(u, file)) \/ ReadStep(u)
  BY DEF Next, Running, Exited, vars, RegisterFlag, AssignDirectly, AddFlagValidator,
         SetCommandLineOptionWithMode, GetCommandLineFlagInfo, GetAllFlags,
         ConstructSaver, DestroySaver
<1>8. QED
  BY <1>1, <1>2, <1>3, <1>4, <1>5, <1>6, <1>7 DEF ReadStep, IdleReader

(* Backups are made faithful and stay so.                                  *)
LEMMA NextKeepsBackups ==
  ASSUME Inv, [Next]_vars PROVE BackupsAreFaithful'
<1>1. FlagsAreKept
  BY NextKeepsFlags
<1>2. ASSUME NEW snap, Faithful(snap) PROVE Faithful(snap)'
  BY <1>1, <1>2, FaithfulIsStable DEF FlagsAreKept
<1>3. Faithful(SaveFromRegistry)
  BY SaveIsFaithful
<1>4. ASSUME NEW s \in Saver, saved'[s] # NULL PROVE Faithful(saved[s])'
  <2> SUFFICES ASSUME NEW c, c = saved'[s] PROVE Faithful(saved[s])'
    OBVIOUS
  <2>1. Faithful(c)
    BY <1>3, <1>4, SaverHolds DEF Inv, BackupsAreFaithful
  <2>2. Faithful(c)'
    BY <1>2, <2>1
  <2>3. QED BY <2>2 DEF Faithful
<1>5. ASSUME NEW t \in Thread, reader'[t].pc # "idle" PROVE Faithful(reader[t].snap)'
  <2> SUFFICES ASSUME NEW c, c = reader'[t].snap PROVE Faithful(reader[t].snap)'
    OBVIOUS
  <2>1. Faithful(c)
    BY <1>3, <1>5, ReaderHolds DEF Inv, BackupsAreFaithful
  <2>2. Faithful(c)'
    BY <1>2, <2>1
  <2>3. QED BY <2>2 DEF Faithful
<1>6. QED BY <1>4, <1>5 DEF BackupsAreFaithful

LEMMA NextInv == Inv /\ [Next]_vars => Inv'
BY NextType, NextKeepsFlags, NextKeepsBackups DEF Inv, FlagsAreKept

LEMMA InvHolds == Spec => []Inv
BY InitInv, NextInv, PTL DEF Spec

(* An unmodified flag has its default value, unless the program assigned   *)
(* it directly and the library has not looked at it since.                 *)
THEOREM DefaultFollowsHolds == Spec => []DefaultFollows
<1>1. Inv => DefaultFollows
  BY DEF Inv
<1>2. QED BY <1>1, InvHolds, PTL

(* Every flag's values satisfy its validator unless the program went       *)
(* around it.                                                              *)
THEOREM AlwaysValidHolds == Spec => []AlwaysValid
<1>1. Inv => AlwaysValid
  BY DEF Inv
<1>2. QED BY <1>1, InvHolds, PTL

(* Every backup in memory, of a FlagSaver or of a read, is a faithful copy *)
(* of the flags at the moment it was made.                                 *)
THEOREM BackupsAreFaithfulHolds == Spec => []BackupsAreFaithful
<1>1. Inv => BackupsAreFaithful
  BY DEF Inv
<1>2. QED BY <1>1, InvHolds, PTL

(* The end of a FlagSaver's life brings back every flag it saved.          *)
THEOREM RestoreIsExactHolds == Spec => RestoreIsExact
<1> DEFINE A == \A s \in Saver : saved[s] # NULL /\ saved'[s] = NULL => BringsBack(saved[s])
<1>1. Inv /\ [Next]_vars => [A]_vars
  <2> SUFFICES ASSUME Inv, [Next]_vars, NEW s \in Saver, saved[s] # NULL, saved'[s] = NULL
               PROVE  BringsBack(saved[s])
    BY Zenon
  <2>1. ASSUME NEW u \in Saver, ConstructSaver(u) PROVE FALSE
    BY <2>1 DEF ConstructSaver, Inv, TypeOK
  <2>2. ASSUME NEW u \in Saver, DestroySaver(u) PROVE BringsBack(saved[s])
    <3>1. u = s
      BY <2>2 DEF DestroySaver, Inv, TypeOK
    <3>2. saved[s] \in Snapshot /\ Faithful(saved[s]) /\ RestoreToRegistry(saved[s])
      BY <2>2, <3>1 DEF DestroySaver, Inv, TypeOK, BackupsAreFaithful
    <3>3. QED BY <2>2, <3>2, RestoreIsSafe DEF DestroySaver
  <2>3. (\E u \in Saver : ConstructSaver(u) \/ DestroySaver(u)) \/ saved' = saved
    BY DEF Next, Running, Exited, vars, RegisterFlag, AssignDirectly, AddFlagValidator,
           SetCommandLineOptionWithMode, GetCommandLineFlagInfo, GetAllFlags, ReadSave,
           ReadStep, ReadLock, ReadLine, ReadUnlock, ReadReport, ReadRestore
  <2>4. QED BY <2>1, <2>2, <2>3
<1>2. QED BY <1>1, InvHolds, PTL DEF Spec, RestoreIsExact

(* A flag file that is refused leaves every flag as it was at the call.    *)
THEOREM RollbackIsExactHolds == Spec => RollbackIsExact
<1> DEFINE A == \A t \in Thread : reader[t].pc = "restoring" /\ reader'[t].pc = "idle"
                  => BringsBack(reader[t].snap)
<1>1. Inv /\ [Next]_vars => [A]_vars
  <2> SUFFICES ASSUME Inv, [Next]_vars, NEW t \in Thread,
                      reader[t].pc = "restoring", reader'[t].pc = "idle"
               PROVE  BringsBack(reader[t].snap)
    BY Zenon
  <2>1. CASE reader' = reader
    BY <2>1
  <2>2. ASSUME NEW u \in Thread,
               \/ \E file \in Files : ReadSave(u, file)
               \/ ReadLock(u) \/ ReadLine(u) \/ ReadUnlock(u)
               \/ \E fatal \in BOOLEAN : ReadReport(u, fatal)
        PROVE  FALSE
    <3>1. reader[u].pc # "restoring"
      BY <2>2 DEF ReadSave, ReadLock, ReadLine, ReadUnlock, ReadReport
    <3>2. \A v \in Thread \ {u} : reader'[v] = reader[v]
      BY <2>2 DEF ReadSave, ReadLock, ReadLine, ReadUnlock, ReadReport, Goto, Inv, TypeOK
    <3>3. QED BY <3>1, <3>2
  <2>3. ASSUME NEW u \in Thread, ReadRestore(u) PROVE BringsBack(reader[t].snap)
    <3>1. u = t
      BY <2>3 DEF ReadRestore, Inv, TypeOK
    <3>2. reader[t].snap \in Snapshot /\ Faithful(reader[t].snap) /\ RestoreToRegistry(reader[t].snap)
      BY <2>3, <3>1 DEF ReadRestore, Inv, TypeOK, BackupsAreFaithful
    <3>3. QED BY <2>3, <3>2, RestoreIsSafe DEF ReadRestore
  <2>4. \/ reader' = reader
        \/ \E u \in Thread : (\E file \in Files : ReadSave(u, file)) \/ ReadStep(u)
    BY DEF Next, Running, Exited, vars, RegisterFlag, AssignDirectly, AddFlagValidator,
           SetCommandLineOptionWithMode, GetCommandLineFlagInfo, GetAllFlags,
           ConstructSaver, DestroySaver
  <2>5. QED BY <2>1, <2>2, <2>3, <2>4 DEF ReadStep
<1>2. QED BY <1>1, InvHolds, PTL DEF Spec, RollbackIsExact

(* The two default-setting modes never replace a value somebody chose.     *)
THEOREM DefaultModesYieldHolds == Spec => DefaultModesYield
<1> DEFINE A == \A n \in Name :
                  Registered(n) /\ Chosen(n) /\ flags'[n].current # flags[n].current =>
                    ~ \E text \in Text, mode \in SettingMode \ {"SET_FLAGS_VALUE"} :
                        SetCommandLineOptionWithMode(n, text, mode)
<1>1. Inv /\ [Next]_vars => [A]_vars
  <2> SUFFICES ASSUME Inv, NEW n \in Name, Registered(n), Chosen(n), NEW text \in Text,
                      NEW mode \in SettingMode \ {"SET_FLAGS_VALUE"},
                      SetCommandLineOptionWithMode(n, text, mode)
               PROVE  flags'[n].current = flags[n].current
    BY Zenon
  <2>1. FindFlagLocked(n) = n
    BY DEF FindFlagLocked
  <2>2. flags[n] \in Flag
    BY DEF Inv, TypeOK, Store, Registered
  <2>3. flags'[n] = SetFlagLocked(n, flags[n], text, mode)
    BY <2>1 DEF SetCommandLineOptionWithMode, SetFlag, Inv, TypeOK, Store
  <2> DEFINE f == UpdateModifiedBit(flags[n])
  <2>4. f \in Flag /\ f.modified /\ f.current = flags[n].current
    BY <2>2 DEF Chosen, UpdateModifiedBit, Flag
  <2>5. SetFlagLocked(n, flags[n], text, mode).current = f.current
    <3> HIDE DEF f
    <3>1. CASE TryParseLocked(n, f, text) = Illegal
      BY <3>1 DEF SetFlagLocked, f
    <3>2. CASE TryParseLocked(n, f, text) # Illegal
      <4> DEFINE v == TryParseLocked(n, f, text)
      <4>1. SetFlagLocked(n, flags[n], text, mode) =
              [f EXCEPT !.current  = IF mode = "SET_FLAGS_VALUE" \/ ~f.modified THEN v ELSE @,
                        !.defvalue = IF mode = "SET_FLAGS_DEFAULT" THEN v ELSE @,
                        !.modified = @ \/ ~(mode = "SET_FLAGS_DEFAULT")]
        BY <3>2 DEF SetFlagLocked, f
      <4> HIDE DEF v
      <4>2. QED BY <2>4, <4>1 DEF Flag
    <3>3. QED BY <3>1, <3>2
  <2>6. QED BY <2>3, <2>4, <2>5
<1>2. QED BY <1>1, InvHolds, PTL DEF Spec, DefaultModesYield

-----------------------------------------------------------------------------
(* FlagRegistry implements Settings.                                       *)
Snapshots == [o \in Saver \cup Thread |-> SnapshotOf(o)]

-----------------------------------------------------------------------------
(* A flag has a setting, and nothing else has.                             *)
LEMMA SettingFields ==
  ASSUME NEW f \in Flag
  PROVE  /\ SettingOf(f) = [value     |-> f.current,
                            default   |-> f.defvalue,
                            chosen    |-> f.modified \/ ~Equal(f.current, f.defvalue),
                            validator |-> f.validate_fn]
         /\ SettingOf(f) # NULL
<1>1. f # NULL
  BY FlagAssumption
<1> DEFINE c == f.modified \/ ~Equal(f.current, f.defvalue)
<1>2. SettingOf(f) = [value |-> f.current, default |-> f.defvalue, chosen |-> c,
                      validator |-> f.validate_fn]
  BY <1>1 DEF SettingOf
<1>3. f.current \in Value /\ f.defvalue \in Value /\ f.validate_fn \in Validator \cup {NULL}
  BY DEF Flag
<1>4. c \in BOOLEAN
  OBVIOUS
<1> HIDE DEF c
<1>5. SettingOf(f) \in S!Setting
  BY <1>2, <1>3, <1>4 DEF S!Setting
<1>6. QED BY <1>2, <1>5, RefinementAssumption DEF c

LEMMA SettingType == \A f \in Flag : SettingOf(f) \in S!Setting
<1> SUFFICES ASSUME NEW f \in Flag PROVE SettingOf(f) \in S!Setting
  OBVIOUS
<1> DEFINE c == f.modified \/ ~Equal(f.current, f.defvalue)
<1>1. SettingOf(f) = [value |-> f.current, default |-> f.defvalue, chosen |-> c,
                      validator |-> f.validate_fn]
  BY SettingFields
<1>2. f.current \in Value /\ f.defvalue \in Value /\ f.validate_fn \in Validator \cup {NULL}
  BY DEF Flag
<1>3. c \in BOOLEAN
  OBVIOUS
<1> HIDE DEF c
<1>4. QED BY <1>1, <1>2, <1>3 DEF S!Setting

(* Two settings with the same fields are the same setting.                 *)
LEMMA SettingsEqual ==
  ASSUME NEW s \in S!Setting, NEW t \in S!Setting, s.value = t.value,
         s.default = t.default, s.chosen = t.chosen, s.validator = t.validator
  PROVE  s = t
BY DEF S!Setting

LEMMA ValueChanges ==
  ASSUME NEW s \in S!Setting, NEW v \in Value, NEW c \in BOOLEAN,
         NEW t \in S!Setting, t.value = v, t.default = s.default, t.chosen = c,
         t.validator = s.validator
  PROVE  t = [s EXCEPT !.value = v, !.chosen = c]
<1>1. [s EXCEPT !.value = v, !.chosen = c] \in S!Setting
  BY DEF S!Setting
<1>2. QED BY <1>1, SettingsEqual DEF S!Setting

LEMMA DefaultChanges ==
  ASSUME NEW s \in S!Setting, NEW v \in Value, NEW w \in Value, NEW c \in BOOLEAN,
         NEW t \in S!Setting, t.value = v, t.default = w, t.chosen = c,
         t.validator = s.validator
  PROVE  t = [s EXCEPT !.value = v, !.default = w, !.chosen = c]
<1>1. [s EXCEPT !.value = v, !.default = w, !.chosen = c] \in S!Setting
  BY DEF S!Setting
<1>2. QED BY <1>1, SettingsEqual DEF S!Setting

LEMMA KnownIsRegistered ==
  ASSUME TypeOK, NEW n \in Name
  PROVE  /\ SettingsOf(flags)[n] = SettingOf(flags[n])
         /\ (SettingOf(flags[n]) # NULL <=> Registered(n))
         /\ (Registered(n) => flags[n] \in Flag)
BY SettingFields DEF SettingsOf, SettingOf, Registered, TypeOK, Store

(* Looking at a flag does not change its setting.                          *)
LEMMA LookingIsInvisible ==
  ASSUME NEW f \in Flag
  PROVE  SettingOf(UpdateModifiedBit(f)) = SettingOf(f)
<1>1. /\ UpdateModifiedBit(f) \in Flag
      /\ UpdateModifiedBit(f).current = f.current
      /\ UpdateModifiedBit(f).defvalue = f.defvalue
      /\ UpdateModifiedBit(f).validate_fn = f.validate_fn
      /\ UpdateModifiedBit(f).modified = (f.modified \/ ~Equal(f.current, f.defvalue))
  BY UpdateType DEF UpdateModifiedBit, Flag
<1>2. QED BY <1>1, SettingFields

(* Two flags that agree have settings that are the same, up to ==.         *)
LEMMA AgreeingSettings ==
  ASSUME NEW f \in Flag, NEW g \in Flag, AgreeOnFlag(f, g)
  PROVE  S!SameAs(SettingOf(f), SettingOf(g))
<1>1. /\ f.current \in Value /\ f.defvalue \in Value
      /\ g.current \in Value /\ g.defvalue \in Value
  BY DEF Flag
<1>2. Equal(f.current, f.defvalue) <=> Equal(g.current, g.defvalue)
  BY <1>1, FlagAssumption DEF AgreeOnFlag, Agree, Equal
<1>3. QED
  BY <1>2, SettingFields DEF AgreeOnFlag, Agree, Equal, S!SameAs, S!Alike

-----------------------------------------------------------------------------
(* How a change of the concrete variables shows in the mapped ones.        *)
LEMMA OneSettingChanges ==
  ASSUME TypeOK, NEW n \in Name, NEW g, flags' = [flags EXCEPT ![n] = g]
  PROVE  SettingsOf(flags)' = [SettingsOf(flags) EXCEPT ![n] = SettingOf(g)]
BY DEF SettingsOf, SettingOf, TypeOK, Store

LEMMA SettingsStay ==
  ASSUME TypeOK, NEW n \in Name, NEW g, flags' = [flags EXCEPT ![n] = g],
         SettingOf(g) = SettingOf(flags[n])
  PROVE  SettingsOf(flags)' = SettingsOf(flags)
BY DEF SettingsOf, SettingOf, TypeOK, Store

LEMMA SnapshotsStay ==
  ASSUME UNCHANGED saved,
         \A t \in Thread : \/ reader'[t] = reader[t]
                           \/ /\ reader[t].pc # "idle" /\ reader'[t].pc # "idle"
                              /\ reader'[t].snap = reader[t].snap
  PROVE  Snapshots' = Snapshots
<1>1. ASSUME NEW o \in Saver \cup Thread PROVE SnapshotOf(o)' = SnapshotOf(o)
  BY DEF SnapshotOf
<1>2. QED BY <1>1 DEF Snapshots

LEMMA NothingShows ==
  ASSUME UNCHANGED <<flags, saved, reader, unvetted>>
  PROVE  UNCHANGED S!vars
BY DEF S!vars, SettingsOf, SettingOf, SnapshotOf

(* A setter is a step of Settings, or shows nothing: the text is refused,  *)
(* or the value of the flag was chosen before.                             *)
LEMMA SettersImplement ==
  ASSUME TypeOK, NEW n \in Name, NEW text \in Text, NEW mode \in SettingMode,
         Registered(n), SetFlag(n, text, mode), UNCHANGED unvetted, Snapshots' = Snapshots
  PROVE  S!Next \/ UNCHANGED S!vars
<1> DEFINE f == UpdateModifiedBit(flags[n])
           v == TryParseLocked(n, f, text)
           g == SetFlagLocked(n, flags[n], text, mode)
           s == SettingOf(flags[n])
<1>1. flags[n] \in Flag /\ f \in Flag /\ SettingOf(f) = s
  BY KnownIsRegistered, UpdateType, LookingIsInvisible
<1>2. flags' = [flags EXCEPT ![n] = g] /\ g \in Flag
  BY <1>1, SetFlagIsSafe DEF SetFlag
<1>3. /\ s.value = f.current /\ s.default = f.defvalue /\ s.validator = f.validate_fn
      /\ s.chosen = f.modified
  <2>1. /\ f.modified = (flags[n].modified \/ ~Equal(flags[n].current, flags[n].defvalue))
        /\ f.current = flags[n].current /\ f.defvalue = flags[n].defvalue
        /\ f.validate_fn = flags[n].validate_fn
    BY <1>1 DEF UpdateModifiedBit, Flag
  <2>2. QED BY <1>1, <2>1, SettingFields
<1>4. S!Known(n) /\ SettingsOf(flags)[n] = s
  BY KnownIsRegistered DEF S!Known
<1>5. CASE v = Illegal
  <2>1. g = f
    BY <1>5 DEF SetFlagLocked
  <2>2. SettingsOf(flags)' = SettingsOf(flags)
    BY <1>1, <1>2, <2>1, SettingsStay
  <2>3. QED BY <2>2 DEF S!vars, Snapshots
<1>6. CASE v # Illegal
  <2>1. v \in Value /\ Validate(n, f, v)
    BY <1>1, <1>6, ParsedType
  <2>2. S!Allowed(n, s.validator, v)
    BY <1>3, <2>1 DEF S!Allowed, Validate
  <2>3. g = [f EXCEPT !.current  = IF mode = "SET_FLAGS_VALUE" \/ ~f.modified THEN v ELSE @,
                      !.defvalue = IF mode = "SET_FLAGS_DEFAULT" THEN v ELSE @,
                      !.modified = @ \/ ~(mode = "SET_FLAGS_DEFAULT")]
    BY <1>6 DEF SetFlagLocked
  <2>4. SettingsOf(flags)' = [SettingsOf(flags) EXCEPT ![n] = SettingOf(g)]
    BY <1>2, OneSettingChanges
  <2>5. UNCHANGED <<[o \in Saver \cup Thread |-> SnapshotOf(o)], unvetted>>
    BY DEF Snapshots
  <2> HIDE DEF f, v, g
  <2>6. SettingOf(g) = [value     |-> g.current,
                        default   |-> g.defvalue,
                        chosen    |-> g.modified \/ ~Equal(g.current, g.defvalue),
                        validator |-> g.validate_fn]
    BY <1>2, SettingFields
  <2>7. s = [value |-> f.current, default |-> f.defvalue, chosen |-> f.modified,
             validator |-> f.validate_fn]
    BY <1>1, <1>3, SettingFields
  <2> HIDE DEF s
  <2>8. CASE mode = "SET_FLAGS_VALUE" \/ (mode = "SET_FLAG_IF_DEFAULT" /\ ~f.modified)
    <3>1. /\ g.current = v /\ g.defvalue = f.defvalue /\ g.modified = TRUE
          /\ g.validate_fn = f.validate_fn
      BY <1>1, <2>1, <2>3, <2>8 DEF Flag
    <3>2. /\ SettingOf(g).value = v /\ SettingOf(g).default = s.default
          /\ SettingOf(g).chosen = TRUE /\ SettingOf(g).validator = s.validator
      <4> DEFINE c == g.modified \/ ~Equal(g.current, g.defvalue)
      <4>1. c = TRUE
        BY <3>1
      <4> HIDE DEF c
      <4>2. SettingOf(g) = [value |-> g.current, default |-> g.defvalue, chosen |-> c,
                            validator |-> g.validate_fn]
        BY <2>6 DEF c
      <4>3. QED BY <2>7, <3>1, <4>1, <4>2
    <3>3. SettingOf(g) = [s EXCEPT !.value = v, !.chosen = TRUE]
      BY <1>1, <1>2, <2>1, <3>2, SettingType, ValueChanges DEF s
    <3>4. S!Set(n, v)
      BY <1>4, <2>2, <2>4, <2>5, <3>3 DEF S!Set, S!Change
    <3>5. QED BY <2>1, <3>4 DEF S!Next
  <2>9. CASE mode = "SET_FLAG_IF_DEFAULT" /\ f.modified
    <3>1. g = f
      BY <1>1, <2>3, <2>9 DEF Flag
    <3>2. SettingsOf(flags)' = SettingsOf(flags)
      BY <1>1, <1>2, <3>1, SettingsStay DEF s
    <3>3. QED BY <2>5, <3>2 DEF S!vars
  <2>10. CASE mode = "SET_FLAGS_DEFAULT"
    <3>1. /\ g.current = (IF f.modified THEN f.current ELSE v) /\ g.defvalue = v
          /\ g.modified = f.modified /\ g.validate_fn = f.validate_fn
      BY <1>1, <2>1, <2>3, <2>10 DEF Flag
    <3> DEFINE c == s.chosen \/ S!Differs(v, v)
               w == IF s.chosen THEN s.value ELSE v
    <3>2. /\ SettingOf(g).value = w /\ SettingOf(g).default = v
          /\ SettingOf(g).chosen = c /\ SettingOf(g).validator = s.validator
      BY <2>6, <2>7, <3>1 DEF S!Differs, Equal
    <3>3. s \in S!Setting /\ SettingOf(g) \in S!Setting
      BY <1>1, <1>2, SettingType DEF s
    <3>4. w \in Value /\ c \in BOOLEAN
      BY <2>1, <3>3 DEF S!Setting
    <3>5. SettingOf(g) = [s EXCEPT !.value = w, !.default = v, !.chosen = c]
      <4> HIDE DEF w, c
      <4>1. QED BY <2>1, <3>2, <3>3, <3>4, DefaultChanges
    <3>6. S!SetDefault(n, v)
      BY <1>4, <2>2, <2>4, <2>5, <3>5 DEF S!SetDefault, S!Change
    <3>7. QED BY <2>1, <3>6 DEF S!Next
  <2>11. QED BY <2>8, <2>9, <2>10 DEF SettingMode
<1>7. QED BY <1>5, <1>6

-----------------------------------------------------------------------------
(* A restore goes back to the snapshot, up to ==.                          *)
LEMMA RestoreImplements ==
  ASSUME Inv, NEW o \in Saver \cup Thread, NEW snap \in Snapshot, Faithful(snap),
         RestoreToRegistry(snap), UNCHANGED unvetted, SnapshotOf(o) = SettingsOf(snap.original),
         SnapshotOf(o) # NULL, Snapshots' = [Snapshots EXCEPT ![o] = NULL]
  PROVE  S!Next
<1> DEFINE shot == SettingsOf(snap.original)
<1>1. ASSUME NEW n \in Name
      PROVE  IF shot[n] = NULL THEN SettingsOf(flags)'[n] = SettingsOf(flags)[n]
             ELSE S!SameAs(SettingsOf(flags)'[n], shot[n])
  <2>1. /\ shot[n] = SettingOf(snap.original[n])
        /\ SettingsOf(flags)'[n] = SettingOf(flags'[n])
        /\ SettingsOf(flags)[n] = SettingOf(flags[n])
    BY DEF SettingsOf, SettingOf
  <2>2. CASE snap.original[n] = NULL
    <3>1. flags'[n] = flags[n]
      BY <2>2 DEF Faithful, RestoreToRegistry, Restorable
    <3>2. QED BY <2>1, <2>2, <3>1 DEF SettingOf
  <2>3. CASE snap.original[n] # NULL
    <3>1. BringsBack(snap)
      BY RestoreIsSafe
    <3>2. AgreeOnFlag(flags'[n], snap.original[n])
      BY <2>3, <3>1 DEF BringsBack
    <3>3. snap.original[n] \in Flag /\ flags[n] \in Flag /\ snap.backup[n] \in Flag
      BY <2>3 DEF Faithful, Inv, TypeOK, Store, Snapshot, Registered
    <3>4. flags'[n] \in Flag
      BY <2>3, <3>3, CopyFromType, FlagAssumption DEF RestoreToRegistry
    <3>5. QED BY <2>1, <3>2, <3>3, <3>4, AgreeingSettings, SettingFields
  <2>4. QED BY <2>2, <2>3
<1>2. Snapshots[o] = shot /\ shot # NULL
  BY DEF Snapshots
<1>3. S!GoBack(o)
  BY <1>1, <1>2 DEF S!GoBack, Snapshots
<1>4. QED BY <1>3 DEF S!Next

(* A snapshot is made of the settings of the moment.                       *)
LEMMA SaveImplements ==
  ASSUME NEW o \in Saver \cup Thread, SnapshotOf(o) = NULL, UNCHANGED <<flags, unvetted>>,
         Snapshots' = [Snapshots EXCEPT ![o] = SettingsOf(flags)]
  PROVE  S!Next
<1>1. Snapshots[o] = NULL
  BY DEF Snapshots
<1>2. SettingsOf(flags)' = SettingsOf(flags)
  BY DEF SettingsOf, SettingOf
<1>3. S!Take(o)
  BY <1>1, <1>2 DEF S!Take, Snapshots
<1>4. QED BY <1>3 DEF S!Next

LEMMA SnapshotTaken ==
  ASSUME TypeOK
  PROVE  SaveFromRegistry # NULL /\ SaveFromRegistry.original = flags
BY SaveType, RefinementAssumption DEF SaveFromRegistry, TypeOK

(* One saver, or one reader, gains or loses its snapshot.                  *)
LEMMA SaverMoves ==
  ASSUME TypeOK, NEW s \in Saver, NEW c, saved' = [saved EXCEPT ![s] = c], UNCHANGED reader
  PROVE  Snapshots' = [Snapshots EXCEPT ![s] = IF c = NULL THEN NULL
                                               ELSE SettingsOf(c.original)]
<1>1. ASSUME NEW o \in (Saver \cup Thread) \ {s} PROVE SnapshotOf(o)' = SnapshotOf(o)
  BY DEF SnapshotOf, TypeOK
<1>2. SnapshotOf(s)' = IF c = NULL THEN NULL ELSE SettingsOf(c.original)
  BY DEF SnapshotOf, TypeOK
<1>3. QED BY <1>1, <1>2 DEF Snapshots

LEMMA ReaderMovesShot ==
  ASSUME TypeOK, NEW t \in Thread, NEW r, reader' = [reader EXCEPT ![t] = r], UNCHANGED saved
  PROVE  Snapshots' = [Snapshots EXCEPT ![t] = IF r.pc = "idle" THEN NULL
                                               ELSE SettingsOf(r.snap.original)]
<1>1. ASSUME NEW o \in (Saver \cup Thread) \ {t} PROVE SnapshotOf(o)' = SnapshotOf(o)
  BY DEF SnapshotOf, TypeOK
<1>2. t \notin Saver
  BY RefinementAssumption
<1>3. SnapshotOf(t)' = IF r.pc = "idle" THEN NULL ELSE SettingsOf(r.snap.original)
  BY <1>2 DEF SnapshotOf, TypeOK
<1>4. QED BY <1>1, <1>3 DEF Snapshots

LEMMA ReaderEnds ==
  ASSUME TypeOK, NEW t \in Thread, reader' = [reader EXCEPT ![t] = IdleReader], UNCHANGED saved
  PROVE  Snapshots' = [Snapshots EXCEPT ![t] = NULL]
<1>1. IdleReader.pc = "idle"
  BY DEF IdleReader
<1>2. QED BY <1>1, ReaderMovesShot

(* A snapshot is a function, which NULL is not.                            *)
LEMMA SettingsAreSomething ==
  ASSUME NEW snap \in Snapshot PROVE SettingsOf(snap.original) # NULL
<1>1. SettingsOf(snap.original) \in [Name -> S!Setting \cup {NULL}]
  BY SettingType DEF SettingsOf, SettingOf, Snapshot, Store
<1>2. QED BY <1>1, RefinementAssumption

-----------------------------------------------------------------------------
LEMMA InitImplements == Init => S!Init
BY RefinementAssumption DEF Init, S!Init, SettingsOf, SettingOf, SnapshotOf, IdleReader

(* A new flag starts out with its default.                                 *)
LEMMA RegisterImplements ==
  ASSUME TypeOK, NEW n \in Name, NEW v \in Value, RegisterFlag(n, v)
  PROVE  S!Next \/ UNCHANGED S!vars
<1>1. CASE Registered(n)
  BY <1>1, NothingShows DEF RegisterFlag
<1>2. CASE ~Registered(n)
  <2> DEFINE g == NewFlag(v)
             c == S!Differs(v, v)
  <2>1. g \in Flag /\ flags' = [flags EXCEPT ![n] = g]
    BY <1>2, NewFlagType DEF RegisterFlag
  <2>2. SettingOf(g) = [value |-> v, default |-> v, chosen |-> c, validator |-> NULL]
    <3>1. SettingOf(g) = [value |-> g.current, default |-> g.defvalue,
                          chosen |-> g.modified \/ ~Equal(g.current, g.defvalue),
                          validator |-> g.validate_fn]
      BY <2>1, SettingFields
    <3>2. /\ g.current = v /\ g.defvalue = v /\ g.validate_fn = NULL
          /\ (g.modified \/ ~Equal(g.current, g.defvalue)) = c
      BY DEF NewFlag, S!Differs, Equal
    <3> HIDE DEF g, c
    <3>3. QED BY <3>1, <3>2
  <2>3. SettingsOf(flags)' = [SettingsOf(flags) EXCEPT ![n] = SettingOf(g)]
    BY <2>1, OneSettingChanges
  <2>4. UNCHANGED <<[o \in Saver \cup Thread |-> SnapshotOf(o)], unvetted>>
    BY <1>2, SnapshotsStay DEF RegisterFlag, Snapshots
  <2>5. ~S!Known(n)
    BY <1>2, KnownIsRegistered DEF S!Known
  <2>6. S!Register(n, v)
    BY <2>2, <2>3, <2>4, <2>5 DEF S!Register
  <2>7. QED BY <2>6 DEF S!Next
<1>3. QED BY <1>1, <1>2

LEMMA AssignImplements ==
  ASSUME TypeOK, NEW n \in Name, NEW v \in Value, AssignDirectly(n, v)
  PROVE  S!Next
<1> DEFINE g == [flags[n] EXCEPT !.current = v]
           s == SettingOf(flags[n])
           c == flags[n].modified \/ S!Differs(v, s.default)
<1>1. flags[n] \in Flag /\ g \in Flag /\ flags' = [flags EXCEPT ![n] = g]
  BY KnownIsRegistered DEF AssignDirectly, Flag
<1>2. /\ g.current = v /\ g.defvalue = flags[n].defvalue /\ g.modified = flags[n].modified
      /\ g.validate_fn = flags[n].validate_fn
  BY <1>1 DEF Flag
<1>3. /\ s \in S!Setting /\ s.default = flags[n].defvalue /\ s.validator = flags[n].validate_fn
      /\ s.chosen = (flags[n].modified \/ ~Equal(flags[n].current, flags[n].defvalue))
  BY <1>1, SettingFields, SettingType
<1>4. SettingOf(g) = [s EXCEPT !.value = v, !.chosen = c]
  <2>1. /\ SettingOf(g).value = v /\ SettingOf(g).default = s.default
        /\ SettingOf(g).chosen = c /\ SettingOf(g).validator = s.validator
    <3> DEFINE d == g.modified \/ ~Equal(g.current, g.defvalue)
    <3>1. d = c
      BY <1>2, <1>3 DEF S!Differs, Equal
    <3>2. SettingOf(g) = [value |-> g.current, default |-> g.defvalue, chosen |-> d,
                          validator |-> g.validate_fn]
      BY <1>1, SettingFields
    <3> HIDE DEF c, d, g, s
    <3>3. QED BY <1>2, <1>3, <3>1, <3>2
  <2>2. SettingOf(g) \in S!Setting
    BY <1>1, SettingType
  <2>3. c \in BOOLEAN
    BY <1>1 DEF Flag
  <2> HIDE DEF c, s, g
  <2>4. QED BY <1>3, <2>1, <2>2, <2>3, ValueChanges
<1>5. /\ S!Differs(v, s.default) => c
      /\ c => s.chosen \/ S!Differs(v, s.default)
  BY <1>3
<1>6. SettingsOf(flags)' = [SettingsOf(flags) EXCEPT ![n] = SettingOf(g)]
  BY <1>1, OneSettingChanges
<1>7. UNCHANGED [o \in Saver \cup Thread |-> SnapshotOf(o)]
  BY SnapshotsStay DEF AssignDirectly, Snapshots
<1>8. S!Note(n, S!Allowed(n, s.validator, v))
  BY <1>3 DEF AssignDirectly, S!Note, S!Allowed, Validate
<1>9. S!Known(n) /\ SettingsOf(flags)[n] = s
  BY KnownIsRegistered DEF AssignDirectly, S!Known
<1>10. c \in BOOLEAN
  BY <1>1 DEF Flag
<1> HIDE DEF c, s, g
<1>11. S!Assign(n, v, c)
  BY <1>4, <1>5, <1>6, <1>7, <1>8, <1>9 DEF S!Assign, S!Change
<1>12. QED BY <1>10, <1>11 DEF S!Next

LEMMA ValidatorImplements ==
  ASSUME TypeOK, NEW n \in Name, NEW f \in Validator \cup {NULL}, AddFlagValidator(n, f)
  PROVE  S!Next
<1> DEFINE g == [flags[n] EXCEPT !.validate_fn = f]
           s == SettingOf(flags[n])
<1>1. flags[n] \in Flag /\ g \in Flag /\ flags' = [flags EXCEPT ![n] = g]
  BY KnownIsRegistered DEF AddFlagValidator, Flag
<1>2. /\ g.current = flags[n].current /\ g.defvalue = flags[n].defvalue
      /\ g.modified = flags[n].modified /\ g.validate_fn = f
  BY <1>1 DEF Flag
<1>3. /\ s \in S!Setting /\ s.value = flags[n].current /\ s.default = flags[n].defvalue
      /\ s.validator = flags[n].validate_fn
  BY <1>1, SettingFields, SettingType
<1>4. SettingOf(g) = [s EXCEPT !.validator = f]
  <2>1. /\ SettingOf(g).value = s.value /\ SettingOf(g).default = s.default
        /\ SettingOf(g).chosen = s.chosen /\ SettingOf(g).validator = f
    <3> DEFINE c == g.modified \/ ~Equal(g.current, g.defvalue)
               d == flags[n].modified \/ ~Equal(flags[n].current, flags[n].defvalue)
    <3>1. c = d
      BY <1>2
    <3>2. SettingOf(g) = [value |-> g.current, default |-> g.defvalue, chosen |-> c,
                          validator |-> g.validate_fn]
      BY <1>1, SettingFields
    <3>3. s = [value |-> flags[n].current, default |-> flags[n].defvalue, chosen |-> d,
               validator |-> flags[n].validate_fn]
      BY <1>1, SettingFields
    <3> HIDE DEF c, d, g, s
    <3>4. QED BY <1>2, <1>3, <3>1, <3>2, <3>3
  <2>2. SettingOf(g) \in S!Setting
    BY <1>1, SettingType
  <2>3. [s EXCEPT !.validator = f] \in S!Setting
    BY <1>3 DEF S!Setting
  <2> HIDE DEF s, g
  <2>4. QED BY <1>3, <2>1, <2>2, <2>3, SettingsEqual DEF S!Setting
<1>5. SettingsOf(flags)' = [SettingsOf(flags) EXCEPT ![n] = SettingOf(g)]
  BY <1>1, OneSettingChanges
<1>6. UNCHANGED [o \in Saver \cup Thread |-> SnapshotOf(o)]
  BY SnapshotsStay DEF AddFlagValidator, Snapshots
<1>7. S!Note(n, S!Allowed(n, f, s.value) /\ S!Allowed(n, f, s.default))
  <2>1. (\A v \in {flags[n].current, flags[n].defvalue} : Validate(n, g, v))
          <=> S!Allowed(n, f, s.value) /\ S!Allowed(n, f, s.default)
    BY <1>2, <1>3 DEF Validate, S!Allowed
  <2>2. unvetted' = IF \A v \in {flags[n].current, flags[n].defvalue} : Validate(n, g, v)
                    THEN unvetted ELSE unvetted \cup {n}
    BY DEF AddFlagValidator
  <2> HIDE DEF s, g
  <2>3. QED BY <2>1, <2>2 DEF S!Note
<1>8. S!Known(n) /\ SettingsOf(flags)[n] = s /\ (f = NULL \/ s.validator = NULL)
  BY <1>3, KnownIsRegistered DEF AddFlagValidator, S!Known
<1> HIDE DEF s, g
<1>9. S!Install(n, f)
  BY <1>4, <1>5, <1>6, <1>7, <1>8 DEF S!Install, S!Change
<1>10. QED BY <1>9 DEF S!Next

(* The getters show nothing.                                               *)
LEMMA GettersImplement ==
  ASSUME TypeOK, (\E name \in Name : GetCommandLineFlagInfo(name)) \/ GetAllFlags
  PROVE  UNCHANGED S!vars
<1>1. ASSUME NEW n \in Name
      PROVE  \/ flags'[n] = flags[n]
             \/ flags[n] \in Flag /\ flags'[n] = UpdateModifiedBit(flags[n])
  BY FindType, KnownIsRegistered
     DEF GetCommandLineFlagInfo, GetAllFlags, TypeOK, Store, Registered
<1>2. SettingsOf(flags)' = SettingsOf(flags)
  BY <1>1, LookingIsInvisible DEF SettingsOf, SettingOf
<1>3. UNCHANGED <<saved, reader, unvetted>>
  BY DEF GetCommandLineFlagInfo, GetAllFlags
<1>4. QED BY <1>2, <1>3 DEF S!vars, SnapshotOf

-----------------------------------------------------------------------------
(* ReadFlagsFromString shows when it saves, sets a flag, succeeds or rolls  *)
(* back, and nowhere else.                                                 *)
LEMMA LineImplements ==
  ASSUME Inv, NEW t \in Thread, ReadLine(t)
  PROVE  S!Next \/ UNCHANGED S!vars
<1> DEFINE line == Head(reader[t].todo)
           n    == FindFlagLocked(line[1])
<1>1. line \in Name \X Text
  BY DEF ReadLine, Inv, TypeOK, Reader
<1>2. Snapshots' = Snapshots
  <2>1. ASSUME NEW u \in Thread
        PROVE  reader'[u] = reader[u] \/ (u = t /\ reader'[u].pc = reader[u].pc
                                         /\ reader'[u].snap = reader[u].snap)
    BY DEF ReadLine, Inv, TypeOK, Reader
  <2>2. UNCHANGED saved /\ reader[t].pc # "idle"
    BY DEF ReadLine
  <2>3. QED BY <2>1, <2>2, SnapshotsStay
<1>3. CASE n = NULL
  <2>1. UNCHANGED <<flags, unvetted>>
    BY <1>3 DEF ReadLine
  <2>2. QED BY <1>2, <2>1 DEF S!vars, Snapshots, SettingsOf, SettingOf
<1>4. CASE n # NULL
  <2>1. n \in Name /\ Registered(n)
    BY <1>1, <1>4, FindType
  <2>2. SetFlag(n, line[2], "SET_FLAGS_VALUE") /\ UNCHANGED unvetted
    BY <1>4 DEF ReadLine
  <2> HIDE DEF n
  <2>3. QED BY <1>1, <1>2, <2>1, <2>2, SettersImplement DEF SettingMode, Inv
<1>5. QED BY <1>3, <1>4

LEMMA ReportImplements ==
  ASSUME Inv, NEW t \in Thread, NEW fatal \in BOOLEAN, ReadReport(t, fatal)
  PROVE  S!Next \/ UNCHANGED S!vars
<1>1. /\ UNCHANGED <<flags, saved, unvetted>> /\ reader[t].pc = "applied"
      /\ \/ reader' = reader
         \/ reader' = [reader EXCEPT ![t].pc = "restoring"]
         \/ reader' = [reader EXCEPT ![t] = IdleReader]
  BY Zenon DEF ReadReport
<1>2. CASE reader' = reader
  BY <1>1, <1>2, NothingShows
<1>3. CASE reader' = [reader EXCEPT ![t].pc = "restoring"]
  <2>1. Snapshots' = Snapshots
    BY <1>1, <1>3, SnapshotsStay DEF Inv, TypeOK, Reader
  <2>2. QED BY <1>1, <2>1 DEF S!vars, Snapshots, SettingsOf, SettingOf
<1>4. CASE reader' = [reader EXCEPT ![t] = IdleReader]
  <2>1. Snapshots' = [Snapshots EXCEPT ![t] = NULL]
    BY <1>1, <1>4, ReaderEnds DEF Inv
  <2>2. Snapshots[t] # NULL
    <3>1. reader[t].snap \in Snapshot /\ t \notin Saver
      BY <1>1, RefinementAssumption DEF Inv, TypeOK
    <3>2. QED BY <1>1, <3>1, SettingsAreSomething DEF Snapshots, SnapshotOf
  <2>3. S!Forget(t)
    BY <1>1, <2>1, <2>2 DEF S!Forget, Snapshots, SettingsOf, SettingOf
  <2>4. QED BY <2>3 DEF S!Next
<1>5. QED BY <1>1, <1>2, <1>3, <1>4

LEMMA NextImplements ==
  ASSUME Inv, [Next]_vars PROVE S!Next \/ UNCHANGED S!vars
<1>0. TypeOK
  BY DEF Inv
<1>1. ASSUME NEW n \in Name, NEW v \in Value, RegisterFlag(n, v) \/ AssignDirectly(n, v)
      PROVE  S!Next \/ UNCHANGED S!vars
  BY <1>0, <1>1, RegisterImplements, AssignImplements
<1>2. ASSUME NEW n \in Name, NEW f \in Validator \cup {NULL}, AddFlagValidator(n, f)
      PROVE  S!Next
  BY <1>0, <1>2, ValidatorImplements
<1>3. ASSUME NEW n \in Name, NEW text \in Text, NEW mode \in SettingMode,
             SetCommandLineOptionWithMode(n, text, mode)
      PROVE  S!Next \/ UNCHANGED S!vars
  <2>1. Snapshots' = Snapshots
    BY <1>3, SnapshotsStay DEF SetCommandLineOptionWithMode
  <2>2. QED BY <1>0, <1>3, <2>1, FindType, SettersImplement DEF SetCommandLineOptionWithMode
<1>4. ASSUME (\E name \in Name : GetCommandLineFlagInfo(name)) \/ GetAllFlags
      PROVE  UNCHANGED S!vars
  BY <1>0, <1>4, GettersImplement
<1>5. ASSUME NEW s \in Saver, ConstructSaver(s) PROVE S!Next
  <2>1. Snapshots' = [Snapshots EXCEPT ![s] = SettingsOf(flags)]
    BY <1>0, <1>5, SaverMoves, SnapshotTaken DEF ConstructSaver
  <2>2. SnapshotOf(s) = NULL
    BY <1>5 DEF ConstructSaver, SnapshotOf
  <2>3. QED BY <1>5, <2>1, <2>2, SaveImplements DEF ConstructSaver
<1>6. ASSUME NEW s \in Saver, DestroySaver(s) PROVE S!Next
  <2>1. Snapshots' = [Snapshots EXCEPT ![s] = NULL]
    BY <1>0, <1>6, SaverMoves DEF DestroySaver
  <2>2. saved[s] \in Snapshot /\ Faithful(saved[s])
    BY <1>6 DEF DestroySaver, Inv, TypeOK, BackupsAreFaithful
  <2>3. SnapshotOf(s) = SettingsOf(saved[s].original) /\ SnapshotOf(s) # NULL
    BY <1>6, <2>2, SettingsAreSomething DEF DestroySaver, SnapshotOf
  <2>4. QED BY <1>6, <2>1, <2>2, <2>3, RestoreImplements DEF DestroySaver
<1>7. ASSUME NEW t \in Thread, NEW file \in Files, ReadSave(t, file) PROVE S!Next
  <2>1. Snapshots' = [Snapshots EXCEPT ![t] = SettingsOf(flags)]
    <3> DEFINE r == [pc |-> "saved", todo |-> file, failed |-> FALSE, snap |-> SaveFromRegistry]
    <3>1. reader' = [reader EXCEPT ![t] = r] /\ UNCHANGED saved
      BY <1>7 DEF ReadSave
    <3>2. r.pc = "saved" /\ r.snap = SaveFromRegistry
      OBVIOUS
    <3>3. SettingsOf(r.snap.original) = SettingsOf(flags)
      BY <1>0, <3>2, SnapshotTaken
    <3> HIDE DEF r
    <3>4. QED BY <1>0, <3>1, <3>2, <3>3, ReaderMovesShot
  <2>2. SnapshotOf(t) = NULL
    BY <1>7, RefinementAssumption DEF ReadSave, SnapshotOf
  <2>3. QED BY <1>7, <2>1, <2>2, SaveImplements DEF ReadSave
<1>8. ASSUME NEW t \in Thread, ReadLock(t) \/ ReadUnlock(t) PROVE UNCHANGED S!vars
  <2>1. Snapshots' = Snapshots
    BY <1>0, <1>8, SnapshotsStay DEF ReadLock, ReadUnlock, Goto, TypeOK, Reader
  <2>2. QED BY <1>8, <2>1 DEF ReadLock, ReadUnlock, S!vars, Snapshots, SettingsOf, SettingOf
<1>9. ASSUME NEW t \in Thread, ReadRestore(t) PROVE S!Next
  <2>1. Snapshots' = [Snapshots EXCEPT ![t] = NULL]
    BY <1>0, <1>9, ReaderEnds DEF ReadRestore
  <2>2. reader[t].snap \in Snapshot /\ Faithful(reader[t].snap) /\ t \notin Saver
    BY <1>9, RefinementAssumption DEF ReadRestore, Inv, TypeOK, BackupsAreFaithful
  <2>3. SnapshotOf(t) = SettingsOf(reader[t].snap.original) /\ SnapshotOf(t) # NULL
    BY <1>9, <2>2, SettingsAreSomething DEF ReadRestore, SnapshotOf
  <2>4. QED BY <1>9, <2>1, <2>2, <2>3, RestoreImplements DEF ReadRestore
<1>10. CASE UNCHANGED vars
  BY <1>10, NothingShows DEF vars
<1>11. QED
  BY <1>1, <1>2, <1>3, <1>4, <1>5, <1>6, <1>7, <1>8, <1>9, <1>10, LineImplements,
     ReportImplements DEF Next, Running, Exited, ReadStep

(* Every behaviour of the registry, with its modified bits, its backups,   *)
(* its lock and its stretches, is one of the settings a program sees.       *)
THEOREM RegistryImplementsSettings == Spec => ImplementsSettings
<1>1. Inv /\ [Next]_vars => [S!Next]_(S!vars)
  BY NextImplements
<1>2. QED BY <1>1, InitImplements, InvHolds, PTL DEF Spec, ImplementsSettings, S!Spec
=============================================================================
