----------------------------- MODULE AtomicSave -----------------------------
(* What save_store.c promises to main.c once a first save has committed:   *)
(* the storage is one register.  A save either replaces the register by    *)
(* the game in memory or leaves it alone, whatever fails in between, and a *)
(* program that starts finds exactly what the register holds.              *)
CONSTANTS
    States,   \* the game states that can be saved
    NoState   \* not one of them: nothing has been committed, or the program
              \* is not running

VARIABLES
    stored,   \* the state of the last committed save
    game      \* the state the running program holds

vars == <<stored, game>>

TypeOK == stored \in States \cup {NoState} /\ game \in States \cup {NoState}

Init == stored = NoState /\ game = NoState

\* The program starts.  Before the first commit nothing is promised about
\* what it finds.
Open ==
    /\ game = NoState
    /\ game' \in States
    /\ stored # NoState => game' = stored
    /\ UNCHANGED stored

\* The player changes the game.
Play ==
    /\ game # NoState
    /\ game' \in States
    /\ UNCHANGED stored

\* A save takes effect, all at once.
Commit ==
    /\ game # NoState
    /\ stored' = game
    /\ UNCHANGED game

\* The program ends, in whatever way.
Close ==
    /\ game # NoState
    /\ game' = NoState
    /\ UNCHANGED stored

Next == Open \/ Play \/ Commit \/ Close

Spec == Init /\ [][Next]_vars
=============================================================================
