--------------------------- MODULE ProgressWindow ---------------------------
(***************************************************************************)
(* ProgressWindow: the run is on a thread of its own; what it has to say   *)
(* is queued with CallAfter and shown by the thread of the window, which   *)
(* the user may ask to close at any time.                                  *)
(*                                                                         *)
(* wxWidgets is external: queued calls are made in their order by the      *)
(* event loop, also by that of a message box, and not by a window's end.   *)
(***************************************************************************)
EXTENDS Naturals, Sequences

CONSTANT MaxLogs    \* bound: log lines queued and not shown

ASSUME WindowAssumption == MaxLogs \in Nat

VARIABLES
    worker,         \* "running", then "threw" or "returned", then "ended"
    calls,          \* what is queued: log lines, the error, the end of the run
    window,         \* "open", "message" box, "closing" or "destroyed"
    closeEnabled,   \* m_closeButton
    shown           \* history: what the window has shown of the end of the run

windowVars == <<worker, calls, window, closeEnabled, shown>>

WindowInit ==
    /\ worker = "running"
    /\ calls = <<>>
    /\ window = "open" /\ closeEnabled = FALSE
    /\ shown = {}

-----------------------------------------------------------------------------
(* The worker thread *)

Log ==
    /\ worker = "running" /\ Len(calls) < MaxLogs
    /\ calls' = Append(calls, "log")
    /\ UNCHANGED <<worker, window, closeEnabled, shown>>

RunReturns ==
    /\ worker = "running" /\ worker' = "returned"
    /\ UNCHANGED <<calls, window, closeEnabled, shown>>

RunThrows ==
    /\ worker = "running" /\ worker' = "threw"
    /\ calls' = Append(calls, "error")
    /\ UNCHANGED <<window, closeEnabled, shown>>

QueueEnd ==
    /\ worker \in {"returned", "threw"}
    /\ calls' = Append(calls, IF worker = "returned" THEN "done" ELSE "failed")
    /\ worker' = "ended"
    /\ UNCHANGED <<window, closeEnabled, shown>>

-----------------------------------------------------------------------------
(* The thread of the window *)

\* appendLog and onWorkerFinished; a successful run ends in a message box
ShowCall ==
    /\ calls # <<>>
    /\ calls' = Tail(calls)
    /\ shown' = IF Head(calls) = "log" THEN shown ELSE shown \cup {Head(calls)}
    /\ closeEnabled' = (closeEnabled \/ Head(calls) \in {"done", "failed"})
    /\ window' = IF Head(calls) = "done" THEN "message" ELSE window
    /\ UNCHANGED worker

DismissMessage ==
    /\ window = "message" /\ window' = "closing"
    /\ UNCHANGED <<worker, calls, closeEnabled, shown>>

\* A mutant: the window closes whenever it is asked to.
CloseAlways ==
    /\ window = "open"
    /\ window' = "closing"
    /\ UNCHANGED <<worker, calls, closeEnabled, shown>>

\* by the button or the title bar: vetoed while the button is disabled
Close ==
    /\ window = "open" /\ closeEnabled
    /\ window' = "closing"
    /\ UNCHANGED <<worker, calls, closeEnabled, shown>>

\* the destructor joins the worker
Destroy ==
    /\ window = "closing" /\ worker = "ended"
    /\ window' = "destroyed"
    /\ UNCHANGED <<worker, calls, closeEnabled, shown>>

WindowStep == ShowCall \/ DismissMessage \/ Close \/ Destroy

WindowNext == Log \/ RunReturns \/ RunThrows \/ QueueEnd \/ WindowStep

WindowSpec == WindowInit /\ [][WindowNext]_windowVars

-----------------------------------------------------------------------------

\* No call is made to a window that is gone, and none is lost: the window is closed only after
\* everything the run had to say was shown, the error of a failed run before its end, and only
\* a run that failed or was reported done has ended (ProgressWindow).
ClosedAfterTheRun ==
    window \in {"closing", "destroyed"} =>
        /\ calls = <<>> /\ worker = "ended"
        /\ shown \in {{"done"}, {"error", "failed"}}

=============================================================================
