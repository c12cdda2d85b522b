----------------------- MODULE FlagRegistryRefinement -----------------------
(* FlagRegistry, modified bits, backups, lock and all, implements Settings. *)
EXTENDS FlagRegistry

(* A value counts as chosen when the modified bit says so or would say so  *)
(* the next time the library looks.                                        *)
SettingOf(f) ==
  IF f = NULL THEN NULL
  ELSE [value     |-> f.current,
        default   |-> f.defvalue,
        chosen    |-> f.modified \/ ~Equal(f.current, f.defvalue),
        validator |-> f.validate_fn]

SettingsOf(store) == [n \in Name |-> SettingOf(store[n])]

(* The states an object or a call may go back to: the flags as they were,  *)
(* not the copies that were made of them.                                  *)
SnapshotOf(o) ==
  IF o \in Saver
  THEN IF saved[o] = NULL THEN NULL ELSE SettingsOf(saved[o].original)
  ELSE IF reader[o].pc = "idle" THEN NULL ELSE SettingsOf(reader[o].snap.original)

S == INSTANCE Settings WITH
       Owner    <- Saver \cup Thread,
       Reader   <- Thread,
       setting  <- SettingsOf(flags),
       snapshot <- [o \in Saver \cup Thread |-> SnapshotOf(o)]

ASSUME RefinementAssumption ==
  /\ Saver \cap Thread = {}
  /\ NULL \notin Snapshot \cup S!Setting \cup [Name -> S!Setting \cup {NULL}]

(* Whatever the interleaving, a program sees flags that behave like         *)
(* settings: a default moves the value exactly until one was chosen, a     *)
(* look at a flag is invisible, nothing invalid gets in through a setter,  *)
(* and a FlagSaver or a failed read brings back the settings it saw, not   *)
(* merely values that resemble them.                                       *)
ImplementsSettings == S!Spec
=============================================================================
