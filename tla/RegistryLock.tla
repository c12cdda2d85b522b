---------------------------- MODULE RegistryLock ----------------------------
(***************************************************************************)
(* Who waits for whom at the registry lock.  Each function of the API is   *)
(* the list of things it does that matter to the lock, and a thread is a   *)
(* stack of such calls, because the library calls the program back:        *)
(* validate functions run under the lock, and exit handlers run wherever   *)
(* the library exits, sometimes under the lock too.  The one flag here is  *)
(* reduced to who set it last.                                             *)
(***************************************************************************)
EXTENDS Integers, Sequences

CONSTANTS
  Thread,
  NULL,
  MaxCalls,     \* calls the program makes, on its own or called back
  CallBacks     \* calls its validate functions and exit handlers make

ASSUME LockAssumption == NULL \notin Thread /\ MaxCalls \in Nat

(* What Lock() does to the thread that has the lock: an rwlock answers     *)
(* EDEADLK and SAFE_PTHREAD aborts, as the assert of NO_THREADS does; a    *)
(* plain pthread_mutex waits; a Windows critical section, and NO_THREADS   *)
(* without asserts, let the thread in.                                     *)
Reentry == {"abort", "wait", "enter"}

(* Taking options from argv, a file or the environment.                    *)
Process == <<"lock", "files", "ask", "store", "unlock">>

(* Seeded faults: --help is handled, or the errors are reported, before    *)
(* the lock is given back.                                                 *)
ReadHelpsEarly ==
  <<"lock", "look", "unlock", "lock", "files", "ask", "store", "help", "unlock", "report",
    "lock", "restore", "unlock">>

ParseReportsEarly ==
  Process \o Process \o <<"help", "lock", "ask", "report", "unlock">>

(* Seeded fault: the modified bit is looked at before the lock is taken.   *)
SetLooksEarly == <<"look", "lock", "ask", "store", "files", "unlock">>

ReadFlagsFromString ==
  <<"lock", "look", "unlock">> \o Process
  \o <<"help", "report", "lock", "restore", "unlock">>

ParseCommandLineFlags ==
  Process \o Process \o <<"help", "lock", "ask", "unlock", "report">>

(* A flag that names files has them read once it is set.                   *)
SetCommandLineOption == <<"lock", "look", "ask", "store", "files", "unlock">>

GetAllFlags == <<"lock", "look", "unlock">>

RegisterFlag == <<"lock", "insert", "unlock">>

ShowUsage == GetAllFlags \o <<"quit">>

(* What each kind of call has to do.  An exit() during another thread's is *)
(* undefined: it runs the handlers too, or waits for the process to end.   *)
Script ==
  [get       |-> GetAllFlags,
   set       |-> SetCommandLineOption,
   ifdefault |-> SetCommandLineOption,
   register  |-> RegisterFlag,
   read      |-> ReadFlagsFromString,
   parse     |-> ParseCommandLineFlags,
   usage     |-> ShowUsage,
   exit      |-> <<"handlers">>,
   exitAgain |-> <<"blocked">>]

API == {"get", "set", "ifdefault", "register", "read", "parse"}

Step == UNION {{Script[c][i] : i \in 1 .. Len(Script[c])} : c \in DOMAIN Script}

VARIABLES
  reentry,      \* the build
  owner, depth, \* who has the lock, and how many times over
  stack,        \* the calls each thread is inside, innermost last
  setBy,        \* who set the flag last; NULL while it has its default
  exiting,      \* the threads inside exit()
  ended,        \* the process is gone
  budget        \* calls left, of MaxCalls

vars == <<reentry, owner, depth, stack, setBy, exiting, ended, budget>>

-----------------------------------------------------------------------------
(* A call: its kind, what is left of it, and what it saw when it looked.   *)
Frame == [call : DOMAIN Script, todo : Seq(Step), seen : Thread \cup {NULL}]

Enter(c) == [call |-> c, todo |-> Script[c], seen |-> NULL]

Busy(t)  == stack[t] # <<>>
Top(t)   == stack[t][Len(stack[t])]
Below(t) == SubSeq(stack[t], 1, Len(stack[t]) - 1)

(* The next thing thread t does.                                           *)
At(t, step) == Busy(t) /\ Head(Top(t).todo) = step

(* What is left of call f when k things more are done and it saw s.         *)
Rest(f, k, s) ==
  [call |-> f.call, todo |-> SubSeq(f.todo, k + 1, Len(f.todo)), seen |-> s]

(* A call that has nothing left to do has returned.                        *)
Resume(frames, f) == IF f.todo = <<>> THEN frames ELSE Append(frames, f)

AdvanceSeeing(t, k, s) ==
  stack' = [stack EXCEPT ![t] = Resume(Below(t), Rest(Top(t), k, s))]

Advance(t, k) == AdvanceSeeing(t, k, Top(t).seen)

Push(t, c) == stack' = [stack EXCEPT ![t] = Append(@, Enter(c))]

-----------------------------------------------------------------------------
Init ==
  /\ reentry \in Reentry
  /\ owner = NULL
  /\ depth = 0
  /\ stack = [t \in Thread |-> <<>>]
  /\ setBy = NULL
  /\ exiting = {}
  /\ ended = FALSE
  /\ budget = MaxCalls

Call(t, c) ==
  /\ ~Busy(t) \/ (c \in CallBacks /\ (At(t, "ask") \/ At(t, "handlers")))
  /\ budget > 0
  /\ budget' = budget - 1
  /\ Push(t, c)
  /\ UNCHANGED <<reentry, owner, depth, setBy, exiting, ended>>

(* Mutex::Lock, by a thread that does not have the lock and by one that    *)
(* does, and Mutex::Unlock.                                                *)
Lock(t) ==
  /\ At(t, "lock")
  /\ owner = NULL
  /\ owner' = t
  /\ depth' = 1
  /\ Advance(t, 1)
  /\ UNCHANGED <<reentry, setBy, exiting, ended, budget>>

LockAgain(t) ==
  /\ At(t, "lock")
  /\ owner = t
  /\ \/ /\ reentry = "enter"
        /\ depth' = depth + 1
        /\ Advance(t, 1)
        /\ UNCHANGED ended
     \/ /\ reentry = "abort"
        /\ ended' = TRUE
        /\ UNCHANGED <<depth, stack>>
  /\ UNCHANGED <<reentry, owner, setBy, exiting, budget>>

(* Seeded fault: the last Unlock does not free the lock.                   *)
UnlockForgets(t) ==
  /\ At(t, "unlock")
  /\ depth' = depth - 1
  /\ Advance(t, 1)
  /\ UNCHANGED <<reentry, owner, setBy, exiting, ended, budget>>

Unlock(t) ==
  /\ At(t, "unlock")
  /\ depth' = depth - 1
  /\ owner' = IF depth' = 0 THEN NULL ELSE owner
  /\ Advance(t, 1)
  /\ UNCHANGED <<reentry, setBy, exiting, ended, budget>>

(* The flag is looked at: SET_FLAG_IF_DEFAULT leaves a flag that is set    *)
(* alone, and SaveFromRegistry keeps what it sees.                         *)
Look(t) ==
  /\ At(t, "look")
  /\ IF Top(t).call = "ifdefault" /\ setBy # NULL THEN Advance(t, 3)
     ELSE AdvanceSeeing(t, 1, setBy)
  /\ UNCHANGED <<reentry, owner, depth, setBy, exiting, ended, budget>>

(* The validate function answers; a value it refuses goes no further.       *)
UntilUnlock(todo) ==
  CHOOSE k \in 1 .. Len(todo) :
    todo[k + 1] = "unlock" /\ \A i \in 1 .. k : todo[i] # "unlock"

Answer(t) ==
  /\ At(t, "ask")
  /\ \E k \in {1, UntilUnlock(Top(t).todo)} : Advance(t, k)
  /\ UNCHANGED <<reentry, owner, depth, setBy, exiting, ended, budget>>

Store(t) ==
  /\ At(t, "store")
  /\ setBy' = t
  /\ Advance(t, 1)
  /\ UNCHANGED <<reentry, owner, depth, exiting, ended, budget>>

Restore(t) ==
  /\ At(t, "restore")
  /\ setBy' = Top(t).seen
  /\ Advance(t, 1)
  /\ UNCHANGED <<reentry, owner, depth, exiting, ended, budget>>

-----------------------------------------------------------------------------
Exit(t) ==
  /\ exiting' = exiting \cup {t}
  /\ \/ Push(t, "exit")
     \/ exiting # {} /\ t \notin exiting /\ Push(t, "exitAgain")
  /\ UNCHANGED <<reentry, owner, depth, setBy, ended, budget>>

Proceed(t) ==
  /\ Advance(t, 1)
  /\ UNCHANGED <<reentry, owner, depth, setBy, exiting, ended, budget>>

(* A flag of that name exists, or not; a list of flags is well formed and  *)
(* a file can be read, or not.                                             *)
Insert(t)      == At(t, "insert") /\ (Proceed(t) \/ Exit(t))
ReadFiles(t)   == At(t, "files") /\ (Proceed(t) \/ Exit(t))
Quit(t)        == At(t, "quit") /\ Exit(t)

(* HandleCommandLineHelpFlags: nothing was asked for, or flags are listed. *)
Help(t) ==
  /\ At(t, "help")
  /\ \/ Proceed(t)
     \/ Push(t, "usage") /\ UNCHANGED <<reentry, owner, depth, setBy, exiting, ended, budget>>

(* ReportErrors: none, and the call is over; or some, and the program      *)
(* exits or, when they are not fatal, goes on to restore the flags.        *)
Return(t) ==
  /\ Advance(t, Len(Top(t).todo))
  /\ UNCHANGED <<reentry, owner, depth, setBy, exiting, ended, budget>>

(* Seeded fault: what had errors in it is read once more.                  *)
ReportRetries(t) ==
  /\ At(t, "report")
  /\ \/ Return(t) \/ Exit(t)
     \/ /\ Top(t).call = "read"
        /\ stack' = [stack EXCEPT ![t] = Append(Below(t), Enter("read"))]
        /\ UNCHANGED <<reentry, owner, depth, setBy, exiting, ended, budget>>

Report(t) ==
  /\ At(t, "report")
  /\ Return(t) \/ Exit(t) \/ (Top(t).call = "read" /\ Proceed(t))

(* The last exit handler is done.                                          *)
End(t) ==
  /\ At(t, "handlers")
  /\ ended' = TRUE
  /\ UNCHANGED <<reentry, owner, depth, stack, setBy, exiting, budget>>

-----------------------------------------------------------------------------
Goes(t) ==
  \/ Lock(t) \/ LockAgain(t) \/ Unlock(t)
  \/ Look(t) \/ Answer(t) \/ Store(t) \/ Restore(t)
  \/ Insert(t) \/ ReadFiles(t) \/ Quit(t) \/ Help(t) \/ Report(t) \/ End(t)

WaitsForItself(t) == At(t, "lock") /\ owner = t

(* The lock will never be free again.                                      *)
Stuck == \E t \in Thread :
           \/ WaitsForItself(t) /\ reentry = "wait"
           \/ At(t, "blocked") /\ owner = t

Idle == \A t \in Thread : ~Busy(t)

(* Nothing happens after the end, and nothing has to happen when no call   *)
(* is left or the lock is lost; any other standstill is a deadlock.        *)
Still == (ended \/ Stuck \/ (Idle /\ budget = 0)) /\ UNCHANGED vars

Next ==
  \/ ~ended /\ \E t \in Thread : Goes(t) \/ \E c \in API : Call(t, c)
  \/ Still

(* A thread inside the library, a validate function or an exit handler     *)
(* goes on; nothing makes the program call.                                *)
Fairness == \A t \in Thread : WF_vars(~ended /\ Goes(t))

Spec == Init /\ [][Next]_vars /\ Fairness

-----------------------------------------------------------------------------
TypeOK ==
  /\ reentry \in Reentry
  /\ owner \in Thread \cup {NULL}
  /\ depth \in 0 .. MaxCalls
  /\ owner = NULL <=> depth = 0
  /\ stack \in [Thread -> Seq(Frame)]
  /\ setBy \in Thread \cup {NULL}
  /\ exiting \subseteq Thread
  /\ ended \in BOOLEAN
  /\ budget \in 0 .. MaxCalls

CalledBack(f) == Head(f.todo) \in {"ask", "handlers"}

(* A thread asks for a lock it already has only from inside the program's  *)
(* own code, a validate function or an exit handler: no function of the    *)
(* library, however they call one another, does it by itself.              *)
LibraryNeverReenters ==
  \A t \in Thread : WaitsForItself(t) =>
    \E i \in 1 .. Len(stack[t]) - 1 : CalledBack(stack[t][i])

(* What the user typed wrong, or asked for with --help, is reported with   *)
(* the lock free, so that exit handlers may use flags.  Under the lock the *)
(* library exits only for a flag registered twice, a malformed list of     *)
(* flags and a file it cannot read, and below validate functions.          *)
ExitsUnlocked ==
  \A t \in Thread : \A i \in 1 .. Len(stack[t]) :
    stack[t][i].call = "exit" /\ owner = t /\ i = Len(stack[t]) =>
      \E j \in 1 .. i - 1 : Head(stack[t][j].todo) \in {"insert", "files", "ask"}

(* SET_FLAG_IF_DEFAULT never replaces what somebody else set, however the  *)
(* calls of the threads interleave: nothing comes between the look at the  *)
(* modified bit and the store but the validate function of the call, which *)
(* a build with a recursive lock lets set the flag.                        *)
FirstSetterWins ==
  [][\A t \in Thread : Store(t) /\ Top(t).call = "ifdefault" => setBy \in {NULL, t}]_vars

(* Every call returns and every exit ends, unless the lock is lost to one  *)
(* thread that waits for itself, or sits under it in a second exit().      *)
CallsReturn ==
  \A t \in Thread : Busy(t) ~> (~Busy(t) \/ ended \/ Stuck)
=============================================================================
