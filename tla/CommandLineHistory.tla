------------------------- MODULE CommandLineHistory -------------------------
(***************************************************************************)
(* CommandLineParser with history variables: what the flags were when a    *)
(* parse began and when the one before it ended, and whether the program   *)
(* has come between the command line and its flags.                        *)
(***************************************************************************)
EXTENDS CommandLineParser

VARIABLES
  before,    \* flags when the parse in progress, or the last one, began
  settled,   \* flags when the parse before that ended
  disturbed  \* something else than the command line has named what to process

HistoryInit == Init /\ before = flags /\ settled = flags /\ disturbed = FALSE

(* FLAGS_flagfile, FLAGS_fromenv or FLAGS_tryfromenv is set by hand: it     *)
(* names something when the first parse begins, or is not what the parse    *)
(* before left.                                                             *)
SetByHand ==
  \E n \in Recursive : IF parses = 0 THEN Entries[flags[n].current] # <<>>
                       ELSE flags[n].current # settled'[n].current

(* A library brings a flag that takes its value from the next argument, as  *)
(* gflags.h.in:377 forbids, or one with a name that another flag, whose    *)
(* spelling it is, has answered to.                                        *)
Owner(key) == SplitArgumentLocked(key, NULL).flag
TakesOver  == \/ NeedsNext' # NeedsNext
              \/ \E key \in Name : Owner(key) \notin {NULL, Owner(key)'}

HistoryNext ==
  /\ Next
  /\ IF parses' # parses THEN before' = flags ELSE UNCHANGED before
  /\ IF pc = "done" /\ pc' # "done" THEN settled' = flags ELSE UNCHANGED settled
  /\ disturbed' = \/ disturbed
                  \/ parses' # parses /\ SetByHand
                  \/ parses > 0 /\ (\E n \in Late : RegisterLate(n)) /\ TakesOver

HistorySpec == HistoryInit /\ [][HistoryNext]_<<vars, before, settled, disturbed>>
                 /\ WF_vars(~exited /\ ParseStep)

-----------------------------------------------------------------------------
(* When a parse returns every flag is valid, except one that had been set   *)
(* to an invalid value before and is left so (ValidateUnmodifiedFlags).     *)
ReturnMeansValid ==
  pc = "done" /\ ~exited =>
    \A n \in Name : Registered(n) /\ ~Validate(n, flags[n], flags[n].current) =>
      before[n].modified /\ flags[n].current = before[n].current

(* Reparsing the saved argv brings the flags of a new library their values  *)
(* and leaves every other flag as the parse before left it, if the program  *)
(* changed none in between, has not set FLAGS_flagfile, FLAGS_fromenv or    *)
(* FLAGS_tryfromenv by hand, and the new flags take no argument away from   *)
(* others (ReparseCommandLineNonHelpFlags).                                 *)
ReparseIsIdempotent ==
  pc = "done" /\ parses > 1 /\ ~disturbed
    /\ (\A n \in Name : settled[n] # NULL => before[n] = settled[n])
    => \A n \in Name : settled[n] # NULL => flags[n].current = settled[n].current
=============================================================================
