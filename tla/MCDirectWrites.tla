--------------------------- MODULE MCDirectWrites ---------------------------
(* FlagRegistry with a history variable for what gflags.h.in says of the    *)
(* direct assignment "FLAGS_xxx = nondef".                                  *)
EXTENDS MCFlagRegistry

VARIABLE updated   \* flags that ever held a value other than their default

HistoryInit == Init /\ updated = {}

HistoryNext ==
  /\ Next
  /\ updated' = {n \in Name : n \in updated \/
                   (flags'[n] # NULL /\ ~Equal(flags'[n].current, flags'[n].defvalue))}

HistorySpec == HistoryInit /\ [][HistoryNext]_<<vars, updated>>

(* gflags.h.in:229: SET_FLAG_IF_DEFAULT updates the value "but *only if* it *)
(* has not yet been updated with SET_FLAGS_VALUE, SET_FLAG_IF_DEFAULT, or   *)
(* "FLAGS_xxx = nondef"".                                                   *)
IfDefaultYieldsToAssignment ==
  [][\A n \in updated : flags'[n].current # flags[n].current =>
       ~ \E text \in Text :
            SetCommandLineOptionWithMode(n, text, "SET_FLAG_IF_DEFAULT")]_<<vars, updated>>
=============================================================================
