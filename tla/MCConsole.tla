----------------------------- MODULE MCConsole -----------------------------
(***************************************************************************)
(* Console on a small instance: the values of the constants that a         *)
(* configuration cannot write down.                                        *)
(***************************************************************************)
EXTENDS Console

CONSTANTS app,   \* a schedulable task, of the main program or of the command
          sub    \* a plain task, of the command

\* One command, "a"; "aa" and "aaa" are names nobody knows.
MCCommand == {<<"a">>}

MCCalls == {<<App, app>>, <<cmd, app>>, <<cmd, sub>>}
=============================================================================
