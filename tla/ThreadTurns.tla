---------------------------- MODULE ThreadTurns ----------------------------
(***************************************************************************)
(* What the run endpoints promise of a thread: its routes execute one at a *)
(* time, each request gets at most one turn, and every turn ends.  No      *)
(* interleaving of the handlers is visible here.                           *)
(***************************************************************************)
CONSTANTS Run, NoRun

VARIABLES
    turn,     \* the run whose route executes, or NoRun
    started   \* the runs that have had their turn

turnVars == <<turn, started>>

Init == turn = NoRun /\ started = {}

Start(r) == /\ turn = NoRun
            /\ r \notin started
            /\ turn' = r
            /\ started' = started \cup {r}

End == /\ turn # NoRun
       /\ turn' = NoRun
       /\ UNCHANGED started

Next == End \/ \E r \in Run : Start(r)

Spec == Init /\ [][Next]_turnVars /\ WF_turnVars(End)
=============================================================================
