------------------------------ MODULE Settings ------------------------------
(***************************************************************************)
(* What gflags promises about its flags to a program that is not looking   *)
(* inside: every flag has a value and a default, the default moves the     *)
(* value until somebody has chosen one, and whoever takes a snapshot can   *)
(* go back to it.  There are no modified bits, no backups, no lock and no  *)
(* stretches of a call in this specification, and looking at a flag        *)
(* changes nothing.                                                        *)
(***************************************************************************)
CONSTANTS
  Name, Value, Validator, NULL,
  Equals,        \* Equals[v]: the values w with v == w
  Accepts,       \* Accepts[f]: the <<name, value>> pairs f returns true for
  Owner,         \* those who take snapshots: FlagSavers and flag file readers
  Reader         \* the readers, who go back only when they fail

Setting == [value     : Value,
            default   : Value,
            chosen    : BOOLEAN,
            validator : Validator \cup {NULL}]

VARIABLES
  setting,       \* the setting of each registered flag
  snapshot,      \* the settings each owner may go back to
  unvetted       \* flags that got a value past their validator

vars == <<setting, snapshot, unvetted>>

(* What == can tell about the two values.                                  *)
Alike(v, w) == v = w \/ w \in Equals[v]

Differs(v, w) == w \notin Equals[v]

Allowed(n, f, v) == f # NULL => <<n, v>> \in Accepts[f]

Note(n, ok) == unvetted' = IF ok THEN unvetted ELSE unvetted \cup {n}

Known(n) == setting[n] # NULL

Change(n, s) ==
  /\ setting' = [setting EXCEPT ![n] = s]
  /\ UNCHANGED snapshot

-----------------------------------------------------------------------------
Init ==
  /\ setting = [n \in Name |-> NULL]
  /\ snapshot = [o \in Owner |-> NULL]
  /\ unvetted = {}

(* Looking at a flag, and failing to set one.                              *)
Look == UNCHANGED vars

(* A default that is not even equal to itself counts as chosen.            *)
Register(n, v) ==
  /\ ~Known(n)
  /\ setting' = [setting EXCEPT ![n] = [value |-> v, default |-> v,
                                        chosen |-> Differs(v, v), validator |-> NULL]]
  /\ UNCHANGED <<snapshot, unvetted>>

(* The program's own assignment.  A value other than the default is a      *)
(* choice from now on; assigning the default again undoes the choice or    *)
(* not, and the library does not say which.                                *)
Assign(n, v, c) ==
  /\ Known(n)
  /\ Differs(v, setting[n].default) => c
  /\ c => setting[n].chosen \/ Differs(v, setting[n].default)
  /\ Change(n, [setting[n] EXCEPT !.value = v, !.chosen = c])
  /\ Note(n, Allowed(n, setting[n].validator, v))

Install(n, f) ==
  /\ Known(n)
  /\ f = NULL \/ setting[n].validator = NULL
  /\ Change(n, [setting[n] EXCEPT !.validator = f])
  /\ Note(n, Allowed(n, f, setting[n].value) /\ Allowed(n, f, setting[n].default))

(* The setters take only what the validator takes.  A chosen value stands  *)
(* until it is set outright.                                               *)
Set(n, v) ==
  /\ Known(n)
  /\ Allowed(n, setting[n].validator, v)
  /\ Change(n, [setting[n] EXCEPT !.value = v, !.chosen = TRUE])
  /\ UNCHANGED unvetted

SetDefault(n, v) ==
  /\ Known(n)
  /\ Allowed(n, setting[n].validator, v)
  /\ Change(n, [setting[n] EXCEPT !.value   = IF setting[n].chosen THEN @ ELSE v,
                                  !.default = v,
                                  !.chosen  = @ \/ Differs(v, v)])
  /\ UNCHANGED unvetted

Take(o) ==
  /\ snapshot[o] = NULL
  /\ snapshot' = [snapshot EXCEPT ![o] = setting]
  /\ UNCHANGED <<setting, unvetted>>

SameAs(s, t) == /\ Alike(s.value, t.value)
                /\ Alike(s.default, t.default)
                /\ s.chosen = t.chosen
                /\ s.validator = t.validator

(* Every flag of the snapshot is as it was, and no other flag is touched.   *)
GoBack(o) ==
  /\ snapshot[o] # NULL
  /\ \A n \in Name : IF snapshot[o][n] = NULL THEN setting'[n] = setting[n]
                     ELSE SameAs(setting'[n], snapshot[o][n])
  /\ snapshot' = [snapshot EXCEPT ![o] = NULL]
  /\ UNCHANGED unvetted

(* A reader that succeeds keeps what it set; a FlagSaver always goes back.  *)
Forget(o) ==
  /\ snapshot[o] # NULL
  /\ snapshot' = [snapshot EXCEPT ![o] = NULL]
  /\ UNCHANGED <<setting, unvetted>>

Next ==
  \/ Look
  \/ \E n \in Name, v \in Value :
        \/ Register(n, v) \/ Set(n, v) \/ SetDefault(n, v)
        \/ \E c \in BOOLEAN : Assign(n, v, c)
  \/ \E n \in Name, f \in Validator \cup {NULL} : Install(n, f)
  \/ \E o \in Owner : Take(o) \/ GoBack(o)
  \/ \E o \in Reader : Forget(o)

Spec == Init /\ [][Next]_vars
=============================================================================
