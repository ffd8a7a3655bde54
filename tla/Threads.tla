------------------------------ MODULE Threads ------------------------------
(***************************************************************************)
(* What the coroutine runtime promises: a task that is started, with the   *)
(* tasks it awaits, behaves like a thread with a call stack.  Awaiting a   *)
(* task, or starting a plain one, is a call, finishing is the return to    *)
(* the caller, and a thread is resumed in its innermost call, once for     *)
(* each time it gave up control.                                           *)
(***************************************************************************)
EXTENDS Naturals, Sequences, Functions

CONSTANT Main        \* the program outside all threads

VARIABLES caller,    \* caller[f]: who called f, for each call f that is open;
                     \* Main for the outermost call of a thread
          ready,     \* the innermost calls of the threads that may go on
          running    \* the call that runs, or Main

vars == <<caller, ready, running>>

Init ==
  /\ caller = <<>>
  /\ ready = <<>>
  /\ running = Main

Open == DOMAIN caller
Innermost(f) == f \in Open /\ f \notin Range(caller)
Blocked(f) == f # running /\ f \notin Range(ready)

\* The calls with f added, called by c.
With(f, c) == [g \in Open \cup {f} |-> IF g = f THEN c ELSE caller[g]]

\* A new thread.
Begin(f) ==
  /\ f \notin Open
  /\ caller' = With(f, Main)
  /\ ready' = Append(ready, f)
  /\ UNCHANGED running

\* The thread that has been ready for longest goes on.
Resume ==
  /\ running = Main /\ ready # <<>>
  /\ running' = Head(ready) /\ ready' = Tail(ready)
  /\ UNCHANGED caller

\* A call by a thread, or by the main program.
Call(f) ==
  /\ f \notin Open
  /\ caller' = With(f, running)
  /\ running' = f
  /\ UNCHANGED ready

Return ==
  /\ Innermost(running)
  /\ running' = caller[running]
  /\ caller' = Restrict(caller, Open \ {running})
  /\ UNCHANGED ready

\* The running thread gives up control, and is ready again at once or waits.
Yield ==
  /\ running # Main /\ running' = Main
  /\ ready' \in {ready, Append(ready, running)}
  /\ UNCHANGED caller

Wake(f) ==
  /\ Innermost(f) /\ Blocked(f)
  /\ ready' = Append(ready, f)
  /\ UNCHANGED <<caller, running>>

\* Threads that wait are given up, each with all its calls.
Kill(D) ==
  /\ \A f \in D : Blocked(f)
  /\ caller' = Restrict(caller, Open \ D)
  /\ Range(caller') \subseteq DOMAIN caller' \cup {Main}
  /\ UNCHANGED <<ready, running>>

Next ==
  \/ \E f \in DOMAIN caller' \ Open : Begin(f) \/ Call(f)
  \/ Resume \/ Return \/ Yield
  \/ \E f \in Open : Wake(f)
  \/ Kill(Open \ DOMAIN caller')

Spec == Init /\ [][Next]_vars
=============================================================================
