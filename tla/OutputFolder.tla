----------------------------- MODULE OutputFolder -----------------------------
(* AutoSeasonsRunner::run as the output folder sees it: a run looks first,      *)
(* touches nothing that is in use or in a preview, and otherwise takes out what *)
(* earlier runs wrote before it writes.  A run may stop at any time.  In which  *)
(* order files are taken out and written, and what is in them, is left open.    *)
EXTENDS Naturals

CONSTANTS
    File,       \* what a run may write: all but its log
    MaxRuns     \* bound: the program is started so many times

VARIABLES
    written,    \* the run that wrote a file, 0 if it is not there
    run,        \* runs started
    phase,      \* what the run is allowed to do to the folder
    inUse,      \* files that are part of the game's data
    stuck       \* files of earlier runs that could not be taken out

vars == <<written, run, phase, inUse, stuck>>

Present == {f \in File : written[f] # 0}

Init ==
    /\ written = [f \in File |-> 0] /\ run = 0 /\ phase = "closed"
    /\ inUse = {} /\ stuck = {}

Look ==
    /\ phase = "closed" /\ run < MaxRuns
    /\ phase' = "looking" /\ run' = run + 1 /\ inUse' \in SUBSET Present
    /\ UNCHANGED <<written, stuck>>

Empty ==
    /\ phase = "looking" /\ inUse = {}
    /\ phase' = "emptying"
    /\ UNCHANGED <<written, run, inUse, stuck>>

\* A file goes: taken out by the run or deleted by the user between runs.
TakeOut(f) ==
    /\ phase \in {"emptying", "closed"} /\ f \in Present
    /\ written' = [written EXCEPT ![f] = 0] /\ stuck' = stuck \ {f}
    /\ UNCHANGED <<run, phase, inUse>>

GiveUp(fs) ==
    /\ phase = "emptying" /\ fs \subseteq Present
    /\ stuck' = stuck \cup fs
    /\ UNCHANGED <<written, run, phase, inUse>>

\* Nothing is written as long as a file of an earlier run is there that was not tried.
Fill ==
    /\ phase = "emptying"
    /\ phase' = "filling" /\ stuck' = Present
    /\ UNCHANGED <<written, run, inUse>>

Put(f) ==
    /\ phase = "filling"
    /\ written' = [written EXCEPT ![f] = run] /\ stuck' = stuck \ {f}
    /\ UNCHANGED <<run, phase, inUse>>

Close ==
    /\ phase # "closed"
    /\ phase' = "closed" /\ inUse' = {}
    /\ UNCHANGED <<written, run, stuck>>

Next ==
    \/ Look \/ Empty \/ Fill \/ Close
    \/ \E f \in File : TakeOut(f) \/ Put(f)
    \/ \E fs \in SUBSET File : GiveUp(fs)

Spec == Init /\ [][Next]_vars

=============================================================================
