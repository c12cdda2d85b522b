---------------------------- MODULE FlagRegistry ----------------------------
(***************************************************************************)
(* The flag registry of gflags and everything a program does to it after   *)
(* its command line is parsed: registering flags, assigning FLAGS_x        *)
(* directly, the thread-safe getters and setters, validators, FlagSaver    *)
(* and ReadFlagsFromString.  A call that takes the registry lock once is   *)
(* one step; ReadFlagsFromString takes it up to three times and is one     *)
(* step per stretch between them, and one per line of the file while it    *)
(* holds the lock, because direct assignments do not wait for the lock.    *)
(***************************************************************************)
EXTENDS CommandLineFlag, Sequences

CONSTANTS
  Thread,       \* threads that call ReadFlagsFromString
  Saver,        \* FlagSaver objects the program may construct
  Files,        \* flag files: sequences of <<flag name, value>> lines
  Reporting     \* --help, --version, ...: flags that make the program exit

ASSUME RegistryAssumption ==
  /\ NULL \notin Thread
  /\ Files \subseteq Seq(Name \X Text)
  /\ Reporting \subseteq Name

VARIABLES
  flags,        \* FlagRegistry::flags_: the flag registered under each name
  lock,         \* the thread inside FlagRegistry::lock_ between two steps
  saved,        \* the FlagSaverImpl of each live FlagSaver
  reader,       \* where each thread is in ReadFlagsFromString
  exited,       \* gflags_exitfunc was called
  unsynced,     \* history: flags assigned directly since modified_ was updated
  unvetted      \* history: flags that got a value past their validator

vars == <<flags, lock, saved, reader, exited, unsynced, unvetted>>

-----------------------------------------------------------------------------
Store == [Name -> Flag \cup {NULL}]

(* A FlagSaverImpl holds backup_registry_; the other two fields are history: *)
(* the flags as they were, and which of them had been assigned directly.   *)
Snapshot == [backup : Store, original : Store, unsynced : SUBSET Name]

Reader == [pc     : {"idle", "saved", "applying", "applied", "restoring"},
           todo   : Seq(Name \X Text),
           failed : BOOLEAN,
           snap   : Snapshot \cup {NULL}]

IdleReader == [pc |-> "idle", todo |-> <<>>, failed |-> FALSE,
               snap |-> NULL]

Init ==
  /\ flags = [n \in Name |-> NULL]
  /\ lock = NULL
  /\ saved = [s \in Saver |-> NULL]
  /\ reader = [t \in Thread |-> IdleReader]
  /\ exited = FALSE
  /\ unsynced = {}
  /\ unvetted = {}

Registered(n) == flags[n] # NULL

(* FlagRegistry::FindFlagLocked, as the name the flag is registered under.  *)
FindFlagLocked(name) ==
  CASE Registered(name)                    -> name
    [] /\ ~Registered(name)
       /\ Registered(Underscored[name])    -> Underscored[name]
    [] OTHER                               -> NULL

(* FlagSaverImpl::SaveFromRegistry                                         *)
SaveFromRegistry ==
  [backup   |-> [n \in Name |-> IF Registered(n) THEN Backup(n, flags[n]) ELSE NULL],
   original |-> flags,
   unsynced |-> unsynced]

Restorable(snap, n) == snap.backup[n] # NULL /\ Registered(n)

(* Seeded fault: flags nobody marked as modified are not put back.         *)
RestoreModifiedOnly(snap) ==
  /\ flags' = [n \in Name |-> IF Restorable(snap, n) /\ flags[n].modified
                              THEN CopyFrom(flags[n], snap.backup[n]) ELSE flags[n]]
  /\ unsynced' = {n \in Name : n \in IF Restorable(snap, n) THEN snap.unsynced ELSE unsynced}

(* FlagSaverImpl::RestoreToRegistry                                        *)
RestoreToRegistry(snap) ==
  /\ flags' = [n \in Name |-> IF Restorable(snap, n)
                              THEN CopyFrom(flags[n], snap.backup[n]) ELSE flags[n]]
  /\ unsynced' = {n \in Name : n \in IF Restorable(snap, n) THEN snap.unsynced ELSE unsynced}

-----------------------------------------------------------------------------
(* Start-up, dlopen: FlagRegisterer hands a new flag to RegisterFlag, which *)
(* exits, with the lock still held, when the name is taken.                *)
RegisterFlag(n, v) ==
  /\ lock = NULL
  /\ Underscored[n] = n
  /\ IF Registered(n)
     THEN exited' = TRUE /\ UNCHANGED flags
     ELSE flags' = [flags EXCEPT ![n] = NewFlag(v)] /\ UNCHANGED exited
  /\ UNCHANGED <<lock, saved, reader, unsynced, unvetted>>

(* The program says FLAGS_n = v: no lock, no validation.                   *)
AssignDirectly(n, v) ==
  /\ Registered(n)
  /\ flags' = [flags EXCEPT ![n].current = v]
  /\ unsynced' = unsynced \cup {n}
  /\ unvetted' = IF Validate(n, flags[n], v) THEN unvetted ELSE unvetted \cup {n}
  /\ UNCHANGED <<lock, saved, reader, exited>>

(* AddFlagValidator, where it changes anything: a flag without a validate  *)
(* function gets one, or the one it has is removed.  Neither value of the  *)
(* flag is looked at.                                                      *)
AddFlagValidator(n, f) ==
  /\ lock = NULL
  /\ Registered(n)
  /\ f = NULL \/ flags[n].validate_fn = NULL
  /\ flags' = [flags EXCEPT ![n].validate_fn = f]
  /\ unvetted' = IF \A v \in {flags[n].current, flags[n].defvalue} :
                      Validate(n, [flags[n] EXCEPT !.validate_fn = f], v)
                 THEN unvetted ELSE unvetted \cup {n}
  /\ UNCHANGED <<lock, saved, reader, exited, unsynced>>

SetFlag(n, text, mode) ==
  /\ flags' = [flags EXCEPT ![n] = SetFlagLocked(n, @, text, mode)]
  /\ unsynced' = unsynced \ {n}

SetCommandLineOptionWithMode(name, text, mode) ==
  /\ lock = NULL
  /\ FindFlagLocked(name) # NULL
  /\ SetFlag(FindFlagLocked(name), text, mode)
  /\ UNCHANGED <<lock, saved, reader, exited, unvetted>>

(* FillCommandLineFlagInfo, on one flag and, under one lock, on all.       *)
GetCommandLineFlagInfo(name) ==
  /\ lock = NULL
  /\ FindFlagLocked(name) # NULL
  /\ flags' = [flags EXCEPT ![FindFlagLocked(name)] = UpdateModifiedBit(@)]
  /\ unsynced' = unsynced \ {FindFlagLocked(name)}
  /\ UNCHANGED <<lock, saved, reader, exited, unvetted>>

GetAllFlags ==
  /\ lock = NULL
  /\ flags' = [n \in Name |-> IF Registered(n) THEN UpdateModifiedBit(flags[n]) ELSE NULL]
  /\ unsynced' = {}
  /\ UNCHANGED <<lock, saved, reader, exited, unvetted>>

-----------------------------------------------------------------------------
(* FlagSaver::FlagSaver and FlagSaver::~FlagSaver                          *)
ConstructSaver(s) ==
  /\ lock = NULL
  /\ saved[s] = NULL
  /\ saved' = [saved EXCEPT ![s] = SaveFromRegistry]
  /\ UNCHANGED <<flags, lock, reader, exited, unsynced, unvetted>>

DestroySaver(s) ==
  /\ lock = NULL
  /\ saved[s] # NULL
  /\ RestoreToRegistry(saved[s])
  /\ saved' = [saved EXCEPT ![s] = NULL]
  /\ UNCHANGED <<lock, reader, exited, unvetted>>

-----------------------------------------------------------------------------
(* ReadFlagsFromString, stretch by stretch.                                *)
Goto(t, pc) == reader' = [reader EXCEPT ![t].pc = pc]

ReadSave(t, file) ==
  /\ reader[t].pc = "idle"
  /\ lock = NULL
  /\ reader' = [reader EXCEPT ![t] = [pc |-> "saved", todo |-> file, failed |-> FALSE,
                                      snap |-> SaveFromRegistry]]
  /\ UNCHANGED <<flags, lock, saved, exited, unsynced, unvetted>>

ReadLock(t) ==
  /\ reader[t].pc = "saved"
  /\ lock = NULL
  /\ lock' = t
  /\ Goto(t, "applying")
  /\ UNCHANGED <<flags, saved, exited, unsynced, unvetted>>

(* Seeded fault: a line that is refused is tried again.                    *)
ReadLineRetries(t) ==
  /\ reader[t].pc = "applying"
  /\ reader[t].todo # <<>>
  /\ LET line == Head(reader[t].todo)
         n    == FindFlagLocked(line[1])
     IN  IF n = NULL
         THEN /\ reader' = [reader EXCEPT ![t].todo = Tail(@)]
              /\ UNCHANGED <<flags, unsynced>>
         ELSE LET ok == SetFlagSucceeds(n, flags[n], line[2], "SET_FLAGS_VALUE")
              IN  /\ SetFlag(n, line[2], "SET_FLAGS_VALUE")
                  /\ reader' = [reader EXCEPT ![t].todo = IF ok THEN Tail(@) ELSE @]
  /\ UNCHANGED <<lock, saved, exited, unvetted>>

(* One line of ProcessOptionsFromStringLocked: a name nobody registered is *)
(* skipped, a value that is refused is an error to report at the end.      *)
ReadLine(t) ==
  /\ reader[t].pc = "applying"
  /\ reader[t].todo # <<>>
  /\ LET line == Head(reader[t].todo)
         n    == FindFlagLocked(line[1])
     IN  IF n = NULL
         THEN /\ reader' = [reader EXCEPT ![t].todo = Tail(@)]
              /\ UNCHANGED <<flags, unsynced>>
         ELSE LET ok == SetFlagSucceeds(n, flags[n], line[2], "SET_FLAGS_VALUE")
              IN  /\ SetFlag(n, line[2], "SET_FLAGS_VALUE")
                  /\ reader' = [reader EXCEPT ![t].todo = Tail(@), ![t].failed = @ \/ ~ok]
  /\ UNCHANGED <<lock, saved, exited, unvetted>>

ReadUnlock(t) ==
  /\ reader[t].pc = "applying"
  /\ reader[t].todo = <<>>
  /\ lock' = NULL
  /\ Goto(t, "applied")
  /\ UNCHANGED <<flags, saved, exited, unsynced, unvetted>>

HelpRequested == \E n \in Reporting : Registered(n) /\ flags[n].current # Fresh[n]

(* HandleCommandLineHelpFlags, then ReportErrors, neither under the lock;  *)
(* errors_are_fatal, the caller's choice, is first looked at here.         *)
ReadReport(t, fatal) ==
  /\ reader[t].pc = "applied"
  /\ exited' = (HelpRequested \/ (reader[t].failed /\ fatal))
  /\ reader' = IF exited' THEN reader
               ELSE IF reader[t].failed
               THEN [reader EXCEPT ![t].pc = "restoring"]
               ELSE [reader EXCEPT ![t] = IdleReader]
  /\ UNCHANGED <<flags, lock, saved, unsynced, unvetted>>

ReadRestore(t) ==
  /\ reader[t].pc = "restoring"
  /\ lock = NULL
  /\ RestoreToRegistry(reader[t].snap)
  /\ reader' = [reader EXCEPT ![t] = IdleReader]
  /\ UNCHANGED <<lock, saved, exited, unvetted>>

ReadStep(t) ==
  \/ ReadLock(t) \/ ReadLine(t) \/ ReadUnlock(t)
  \/ \E fatal \in BOOLEAN : ReadReport(t, fatal)
  \/ ReadRestore(t)

-----------------------------------------------------------------------------
Running ==
  \/ \E n \in Name, v \in Value : RegisterFlag(n, v) \/ AssignDirectly(n, v)
  \/ \E n \in Name, f \in Validator \cup {NULL} : AddFlagValidator(n, f)
  \/ \E n \in Name, text \in Text, mode \in SettingMode :
        SetCommandLineOptionWithMode(n, text, mode)
  \/ \E n \in Name : GetCommandLineFlagInfo(n)
  \/ GetAllFlags
  \/ \E s \in Saver : ConstructSaver(s) \/ DestroySaver(s)
  \/ \E t \in Thread : (\E file \in Files : ReadSave(t, file)) \/ ReadStep(t)

(* After exit() nothing happens any more.                                  *)
Exited == exited /\ UNCHANGED vars

Next == (~exited /\ Running) \/ Exited

(* A thread inside ReadFlagsFromString keeps executing; nothing forces the *)
(* program to make any other call.                                         *)
Fairness == \A t \in Thread : WF_vars(~exited /\ ReadStep(t))

Spec == Init /\ [][Next]_vars /\ Fairness

-----------------------------------------------------------------------------
TypeOK ==
  /\ flags \in Store
  /\ lock \in Thread \cup {NULL}
  /\ saved \in [Saver -> Snapshot \cup {NULL}]
  /\ reader \in [Thread -> Reader]
  /\ \A t \in Thread : reader[t].pc # "idle" => reader[t].snap \in Snapshot
  /\ exited \in BOOLEAN
  /\ unsynced \in SUBSET Name
  /\ unvetted \in SUBSET Name

(* An unmodified flag still has its default value, unless the program has   *)
(* assigned it directly and the library has not looked at it since:        *)
(* SET_FLAGS_DEFAULT moves both values, every other setter marks the flag  *)
(* modified, and a restore brings back a matching triple.                  *)
DefaultFollows ==
  \A n \in Name : Registered(n) /\ n \notin unsynced => InSync(flags[n])

(* The current and the default value of a flag satisfy its validator, by   *)
(* whatever interleaving of setters, savers and reads they came about,     *)
(* unless the program went around it: assigned the variable directly, or   *)
(* installed the validator over a value it refuses.                        *)
AlwaysValid ==
  \A n \in Name : Registered(n) /\ n \notin unvetted => Vetted(n, flags[n])

(* Every live backup, of a FlagSaver or of a read, is a faithful copy of   *)
(* the flags that existed when it was made, all of them still registered,  *)
(* and would satisfy the two invariants above if it were restored now.     *)
Faithful(snap) ==
  \A n \in Name :
    /\ snap.original[n] # NULL <=> snap.backup[n] # NULL
    /\ snap.backup[n] # NULL =>
         /\ Registered(n)
         /\ AgreeOnFlag(snap.backup[n], snap.original[n])
         /\ n \notin snap.unsynced => InSync(snap.backup[n])
         /\ n \notin unvetted => Vetted(n, snap.backup[n])

BackupsAreFaithful ==
  /\ \A s \in Saver : saved[s] # NULL => Faithful(saved[s])
  /\ \A t \in Thread : reader[t].pc # "idle" => Faithful(reader[t].snap)

BringsBack(snap) ==
  \A n \in Name : snap.original[n] # NULL => AgreeOnFlag(flags'[n], snap.original[n])

(* Destroying a FlagSaver puts every flag that existed when it was made    *)
(* back to its current value, default, modified bit and validator of that  *)
(* moment, whatever was set, validated or saved in between ("saves the     *)
(* states ... of all flags, and restores them", gflags.h.in).              *)
RestoreIsExact ==
  [][\A s \in Saver : saved[s] # NULL /\ saved'[s] = NULL => BringsBack(saved[s])]_vars

(* A flag file with an error in it leaves nothing behind: when             *)
(* ReadFlagsFromString returns false every flag is as it was at the call,  *)
(* even where other threads wrote meanwhile.                               *)
RollbackIsExact ==
  [][\A t \in Thread : reader[t].pc = "restoring" /\ reader'[t].pc = "idle"
       => BringsBack(reader[t].snap)]_vars

(* SET_FLAG_IF_DEFAULT and SET_FLAGS_DEFAULT leave the current value of a  *)
(* flag alone when it has been set, and also when the program only ever    *)
(* assigned the variable something other than the default.                 *)
Chosen(n) == flags[n].modified \/ ~Equal(flags[n].current, flags[n].defvalue)

DefaultModesYield ==
  [][\A n \in Name : Registered(n) /\ Chosen(n) /\ flags'[n].current # flags[n].current =>
       ~ \E text \in Text, mode \in SettingMode \ {"SET_FLAGS_VALUE"} :
            SetCommandLineOptionWithMode(n, text, mode)]_vars

(* The registry lock that ReadFlagsFromString holds is given back.         *)
LockIsReleased == \A t \in Thread : lock = t ~> (lock # t \/ exited)
=============================================================================
