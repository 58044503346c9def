------------------------------- MODULE Permit -------------------------------
(***************************************************************************)
(* What SingleWaiterNotify promises: one permit, stored until a wait       *)
(* completes with it.  A wait that is given up takes nothing, and two      *)
(* notifications before a wait completes are one.                          *)
(***************************************************************************)
VARIABLES permit,  \* a notification is stored
          wait     \* the wait: "idle" (none), "waiting" or "done"

vars == <<permit, wait>>

Init == permit = FALSE /\ wait = "idle"

Notify == permit' = TRUE /\ UNCHANGED wait

Begin == wait' = "waiting" /\ UNCHANGED permit

\* A wait completes only with a permit, and takes it; one that finds the
\* permit at once begins and completes in the same step.
Complete == /\ permit /\ wait # "done"
            /\ wait' = "done"
            /\ permit' = FALSE

\* The future is dropped, and the permit stays.
Cancel == wait' = "idle" /\ UNCHANGED permit

Next == Notify \/ Begin \/ Complete \/ Cancel

Spec == Init /\ [][Next]_vars /\ WF_vars(wait = "waiting" /\ Complete)
=============================================================================
