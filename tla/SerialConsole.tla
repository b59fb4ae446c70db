---------------------------- MODULE SerialConsole ----------------------------
(***************************************************************************)
(* The protocol the host speaks with the guest's shell over one serial     *)
(* console (lib/atspi.pm): it types a command that ends by printing a      *)
(* marker, and reads the console up to that marker or until its budget is  *)
(* spent.  Some operations have a marker of their own for every call, some *)
(* share one; some interrupt a command they give up on and wait for the    *)
(* shell to come back, some just go on.                                    *)
(***************************************************************************)
EXTENDS Naturals, Sequences

CONSTANTS
  Kinds,      \* "probe", "handoff", "child" and "command"
  Shared,     \* kinds whose marker is the same for every call
  Recovering, \* kinds that interrupt the command they give up on
  MaxOps,     \* bound on the operations of a session
  Interrupt,  \* what ETX is to the terminal
  Nothing     \* no operation, no command

ASSUME ConsoleAssumption ==
  /\ Shared \subseteq Kinds /\ Recovering \subseteq Kinds /\ MaxOps \in Nat
  /\ Nothing \notin [id : Nat, kind : Kinds]
  /\ {Nothing, Interrupt} \intersect [op : [id : Nat, kind : Kinds], back : BOOLEAN] = {}

VARIABLES
  hostPc,   \* the host: "idle", "waiting" or "recovering"
  op,       \* its operation, the last one when it is idle
  answer,   \* what the last operation was answered by, the id of a call
  typed,    \* what the guest has not taken from the console
  running,  \* the command in the foreground of the shell
  serial,   \* what the guest printed and the host has not read past
  behind    \* history: the host went on without seeing the shell come back

hostVars    == <<hostPc, op, answer, behind>>
guestVars   == <<typed, running, serial>>
consoleVars == <<hostVars, guestVars>>

Ops == [id : 1..MaxOps, kind : Kinds]

(* A line is the command of an operation, or its "are you back" after one   *)
(* that was interrupted.  What is printed is the echo of a line or what it  *)
(* prints at its end.                                                       *)
Line(o, back) == [op |-> o, back |-> back]
Lines  == [op : Ops, back : BOOLEAN]
Printed == [line : Lines, echo : BOOLEAN]

(* Mutant: a marker that is typed as it is also stands in its line's echo.  *)
MarksEcho(item, line) ==
  /\ item.line.back = line.back /\ item.line.op.kind = line.op.kind
  /\ line.op.kind \notin Shared => item.line.op.id = line.op.id

(* The console shows the marker the host waits for.  It is typed as escapes,*)
(* so that the echo of the line does not show it.                           *)
Marks(item, line) ==
  /\ ~item.echo
  /\ item.line.back = line.back /\ item.line.op.kind = line.op.kind
  /\ line.op.kind \notin Shared => item.line.op.id = line.op.id

(* Where the host stops to read: the first marker that fits.                *)
Seen(line) == {i \in DOMAIN serial : Marks(serial[i], line)}
First(line) == CHOOSE i \in Seen(line) : \A j \in Seen(line) : i <= j
After(i) == SubSeq(serial, i + 1, Len(serial))

(* Of an earlier call, or of the same.                                      *)
NotAfter(one, other) == one.op.id <= other.op.id

ConsoleTypeOK ==
  /\ hostPc \in {"idle", "waiting", "recovering"}
  /\ op \in Ops \union {Nothing} /\ answer \in 0..MaxOps
  /\ typed \in Seq(Lines \union {Interrupt}) /\ running \in Lines \union {Nothing}
  /\ serial \in Seq(Printed) /\ behind \in BOOLEAN
  \* the console keeps the order of the calls
  /\ \A i, j \in DOMAIN serial : i < j => NotAfter(serial[i].line, serial[j].line)
  /\ running # Nothing => \A i \in DOMAIN serial : NotAfter(serial[i].line, running)
  /\ \A j \in DOMAIN typed : typed[j] # Interrupt =>
       /\ \A i \in DOMAIN serial : NotAfter(serial[i].line, typed[j])
       /\ running # Nothing => NotAfter(running, typed[j])
       /\ \A i \in 1..(j-1) : typed[i] # Interrupt => NotAfter(typed[i], typed[j])

ConsoleInit ==
  /\ hostPc = "idle" /\ op = Nothing /\ answer = 0 /\ behind = FALSE
  /\ typed = <<>> /\ running = Nothing /\ serial = <<>>

-----------------------------------------------------------------------------
(* The host.                                                                *)

(* Mutant: the number in a marker comes around.                             *)
NextIdWraps == IF op = Nothing \/ op.id = 2 THEN 1 ELSE op.id + 1

NextId == IF op = Nothing THEN 1 ELSE op.id + 1

Begin(kind) ==
  /\ hostPc = "idle" /\ NextId <= MaxOps
  /\ hostPc' = "waiting" /\ op' = [id |-> NextId, kind |-> kind] /\ answer' = 0
  /\ typed' = Append(typed, Line(op', FALSE))
  /\ UNCHANGED <<running, serial, behind>>

(* The marker is read, with what was printed before it.  Only a marker of   *)
(* this very call tells that the host has caught up with the console.       *)
Answered ==
  /\ hostPc = "waiting" /\ Seen(Line(op, FALSE)) # {}
  /\ LET i == First(Line(op, FALSE))
     IN serial' = After(i) /\ answer' = serial[i].line.op.id
  /\ hostPc' = "idle" /\ behind' = (behind /\ op.kind \in Shared)
  /\ UNCHANGED <<op, typed, running>>

(* Mutant: the host types the next command while the last may still run.    *)
GiveUpQuietly ==
  /\ hostPc = "waiting" /\ Seen(Line(op, FALSE)) = {}
  /\ hostPc' = "idle" /\ behind' = (behind \/ op.kind \notin Recovering)
  /\ UNCHANGED <<op, answer, guestVars>>

(* The budget is spent.  What is on the console already stays there.        *)
GiveUp ==
  /\ hostPc = "waiting" /\ Seen(Line(op, FALSE)) = {}
  /\ IF op.kind \in Recovering
     THEN /\ hostPc' = "recovering" /\ typed' = typed \o <<Interrupt, Line(op, TRUE)>>
          /\ UNCHANGED behind
     ELSE hostPc' = "idle" /\ behind' = TRUE /\ UNCHANGED typed
  /\ UNCHANGED <<op, answer, running, serial>>

Recovered ==
  /\ hostPc = "recovering" /\ Seen(Line(op, TRUE)) # {}
  /\ serial' = After(First(Line(op, TRUE)))
  /\ hostPc' = "idle" /\ behind' = (behind /\ op.kind \in Shared)
  /\ UNCHANGED <<op, answer, typed, running>>

(* The shell is not back in time; the host goes on.                         *)
GiveUpRecovery ==
  /\ hostPc = "recovering" /\ Seen(Line(op, TRUE)) = {}
  /\ hostPc' = "idle" /\ behind' = TRUE
  /\ UNCHANGED <<op, answer, guestVars>>

-----------------------------------------------------------------------------
(* The guest.                                                               *)

TakeLine ==
  /\ running = Nothing /\ typed # <<>> /\ Head(typed) # Interrupt
  /\ running' = Head(typed) /\ typed' = Tail(typed)
  /\ serial' = Append(serial, [line |-> running', echo |-> TRUE])
  /\ UNCHANGED hostVars

Finish ==
  /\ running # Nothing
  /\ serial' = Append(serial, [line |-> running, echo |-> FALSE])
  /\ running' = Nothing
  /\ UNCHANGED <<hostVars, typed>>

(* An interrupt ends the command, sooner or later, without its marker, and  *)
(* the terminal drops what was typed before it.                             *)
Interrupted ==
  /\ \E i \in DOMAIN typed :
       /\ typed[i] = Interrupt /\ \A j \in 1..(i-1) : typed[j] # Interrupt
       /\ typed' = SubSeq(typed, i + 1, Len(typed))
  /\ running' = Nothing
  /\ UNCHANGED <<hostVars, serial>>

ConsoleNext ==
  \/ \E kind \in Kinds : Begin(kind)
  \/ Answered \/ GiveUp \/ Recovered \/ GiveUpRecovery
  \/ TakeLine \/ Finish \/ Interrupted

ConsoleSpec == ConsoleInit /\ [][ConsoleNext]_consoleVars

-----------------------------------------------------------------------------
(* Properties.                                                              *)

(* While every command the host gave up on was seen to end, an answer is    *)
(* the one of the call that asked for it, and once a call with a marker of  *)
(* its own is answered, whatever was missed before no longer matters.       *)
OwnUnlessBehind == answer # 0 /\ ~behind => answer = op.id

(* "Keep the serial shell usable": when the host goes on, no command of it  *)
(* is left in the shell and no answer on the console, but for a shell that  *)
(* was not seen to come back.                                               *)
ShellIsFree ==
  hostPc = "idle" /\ ~behind =>
    /\ running = Nothing /\ typed = <<>>
    /\ \A i \in DOMAIN serial : serial[i].echo

(* "Keep the serial shell usable so the remaining inventory still gets a    *)
(* result": every result belongs to the operation that asked for it.  A     *)
(* late answer of the operation before may be taken for it.                 *)
AnswerIsOwn == answer # 0 => answer = op.id

=============================================================================
