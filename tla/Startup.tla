------------------------------- MODULE Startup -------------------------------
(***************************************************************************)
(* A run of the program up to the files it writes: the command line or the *)
(* launcher start AutoSeasonsRunner::run, which finds the game, the GPU,   *)
(* the load order, the records and the files, classifies textures and      *)
(* enumerates what may be made seasonal.  The run may fail in every step,  *)
(* and what came of it is told by the exit code or the progress window.    *)
(*                                                                         *)
(* The steps of the run share `at'.  What the run then does with the       *)
(* records is the subject of SeasonalSlots, SeasonsPlugin, ForeignCoverage *)
(* and OutputPipeline: here it generates files.  Of the mesh tasks and the *)
(* classification queue, the subjects of TaskPoolRunner and TaskQueue,     *)
(* there is what decides how a run ends: tasks that throw, and threads     *)
(* that are waited for and do not come.                                    *)
(***************************************************************************)
EXTENDS LoadOrder, GpuClassification, ProgressWindow

CONSTANT Nif    \* names of mesh files

ASSUME StartupAssumption ==
    \A p \in Params :
        /\ p.front \in {"cli", "gui"} /\ p.multithreading \in BOOLEAN
        /\ p.front = "cli" => p.gameDir # NoFile
        /\ p.front = "gui" => p.multithreading     \* the default of AutoSeasonsRunner::run

VARIABLES
    mapping,    \* mapFiles: "none", "tasks", "confirm" when the tasks are done, or it "hangs"
    queue,      \* the classification queue: "none", "open", "closed", or its end "hangs"
    stored,     \* the flag of ExceptionHandler
    exitCode    \* of the command line, -1 before it has ended

taskVars == <<mapping, queue, stored>>
startupVars == <<loadVars, fileVars, gpuVars, windowVars, taskVars, exitCode>>

StartupInit ==
    /\ LoadInit /\ FileInit /\ GpuInit
    /\ WindowInit
    /\ mapping = "none" /\ queue = "none" /\ stored = FALSE
    /\ exitCode = -1

Gui == params.front = "gui"

Run == worker = "running"

Throw ==
    /\ at' = "failed"
    /\ UNCHANGED <<installation, params, line, outputLO, initVars, indexVars>>

-----------------------------------------------------------------------------
(* Up to the records *)

\* PGDirectory is made with its queue as soon as the game is found.  The GPU comes before the
\* load order.
FindGame ==
    /\ \/ Construct /\ queue' = "open"
       \/ (ConstructThrows \/ (gpu = "ready" /\ GetActivePlugins)) /\ UNCHANGED queue
    /\ UNCHANGED <<initVars, indexVars, fileVars, gpuVars, mapping, stored>>

FindGPU ==
    /\ at = "constructed"
    /\ InitGPU \/ InitShaders
    /\ UNCHANGED <<loadVars, fileVars, taskVars>>

\* no GPU, no shader, an output folder that is the Data folder or whose output is active
Refuse ==
    /\ at = "constructed" /\ Throw
    /\ UNCHANGED <<fileVars, gpuVars, taskVars>>

Load ==
    /\ Initialize \/ PopulateObjs \/ (at # "populated" /\ CallThrows)
    /\ UNCHANGED <<fileVars, gpuVars, taskVars>>

-----------------------------------------------------------------------------
(* Files and textures *)

MapFiles ==
    /\ at = "populated" /\ Populate
    /\ UNCHANGED <<loadVars, gpuVars, taskVars>>

\* an iterator may throw in the middle of a walk, findFiles when the map is empty, and a pool may
\* be refused its threads
MappingThrows ==
    /\ at = "populated" /\ mapping = "none" /\ Throw
    /\ UNCHANGED <<fileVars, gpuVars, taskVars>>

StartTasks ==
    /\ at = "populated" /\ filling = "filled" /\ fileMap # <<>> /\ mapping = "none"
    /\ mapping' = "tasks"
    /\ UNCHANGED <<loadVars, fileVars, gpuVars, queue, stored>>

TasksReturn ==
    /\ mapping = "tasks" /\ mapping' = "confirm"
    /\ UNCHANGED <<loadVars, fileVars, gpuVars, queue, stored>>

HasMesh == \E f \in DOMAIN fileMap : f[1] = "meshes" /\ f[Len(f)] \in Nif

\* A task that threw is never counted: runTasks polls for ever, unless it runs the tasks itself
\* and stops at the first that throws.
TaskThrows ==
    /\ mapping = "tasks" /\ HasMesh
    /\ stored' = TRUE
    /\ mapping' = IF params.multithreading THEN "hangs" ELSE "confirm"
    /\ UNCHANGED <<loadVars, fileVars, gpuVars, queue>>

\* Textures of the map that won as environment masks, in the order they are confirmed.
ClassifyTextures ==
    /\ mapping = "confirm" /\ queue = "open"
    /\ (\E t \in Texture \cap DOMAIN fileMap : CheckIfCM(t)) \/ CheckStep
    /\ UNCHANGED <<loadVars, fileVars, taskVars>>

\* What a classification found cannot be stored.  The worker ends and what is queued behind is
\* never counted down: waitForCompletion does not return if it had begun.
ClassifyThrows ==
    /\ mapping = "confirm" /\ queue = "open" /\ at = "populated" /\ classifying = "idle"
    /\ \E t \in Texture : verdict[t] \notin {<<"none">>, <<"unprocessed">>}
    /\ \/ params.multithreading /\ stored' = TRUE /\ queue' \in {"closed", "hangs"}
          /\ UNCHANGED loadVars
       \/ ~params.multithreading /\ Throw /\ UNCHANGED <<queue, stored>>
    /\ UNCHANGED <<fileVars, gpuVars, mapping>>

\* shutdown joins the worker, which may have missed its notification; waitForCMClassification
\* calls it, or the end of PGDirectory in a run that throws before that
Shutdown ==
    /\ queue = "open" /\ classifying = "idle"
    /\ (at = "populated" /\ mapping = "confirm") \/ at = "failed"
    /\ queue' \in {"closed", "hangs"}
    /\ UNCHANGED <<loadVars, fileVars, gpuVars, mapping, stored>>

Enumerate ==
    /\ mapping = "confirm" /\ queue = "closed"
    /\ EnumerateAllModelUses \/ (at = "populated" /\ CallThrows)
    /\ UNCHANGED <<fileVars, gpuVars, taskVars>>

MapStep ==
    \/ MapFiles \/ MappingThrows \/ StartTasks \/ TasksReturn \/ TaskThrows
    \/ ClassifyTextures \/ ClassifyThrows \/ Shutdown

RunStep ==
    /\ Run
    /\ FindGame \/ FindGPU \/ Refuse \/ Load \/ MapStep \/ Enumerate
    /\ UNCHANGED <<windowVars, exitCode>>

\* The patcher adds the files it writes, and may fail.
Generate ==
    /\ Run /\ at = "enumerated"
    /\ \/ (\E f \in installation.generated : AddGeneratedFile(f)) /\ UNCHANGED loadVars
       \/ Throw /\ UNCHANGED fileVars
    /\ UNCHANGED <<gpuVars, windowVars, taskVars, exitCode>>

-----------------------------------------------------------------------------
(* Its end *)

\* A mutant: only what run throws decides the exit code.
EndRunThrown ==
    /\ at \in {"enumerated", "failed"} /\ queue \in {"none", "closed"}
    /\ IF Gui THEN (IF at = "failed" THEN RunThrows ELSE RunReturns) /\ UNCHANGED exitCode
       ELSE /\ Run /\ worker' = "ended"
            /\ exitCode' = IF at = "failed" THEN 1 ELSE 0
            /\ UNCHANGED <<calls, window, closeEnabled, shown>>
    /\ UNCHANGED <<loadVars, fileVars, gpuVars, taskVars>>

\* runCLI hands what run throws to ExceptionHandler and then asks it; the launcher does not.
EndRun ==
    /\ at \in {"enumerated", "failed"} /\ queue \in {"none", "closed"}
    /\ IF Gui THEN (IF at = "failed" THEN RunThrows ELSE RunReturns) /\ UNCHANGED <<stored, exitCode>>
       ELSE /\ Run /\ worker' = "ended"
            /\ stored' = (stored \/ at = "failed")
            /\ exitCode' = IF stored' THEN 1 ELSE 0
            /\ UNCHANGED <<calls, window, closeEnabled, shown>>
    /\ UNCHANGED <<loadVars, fileVars, gpuVars, mapping, queue>>

GpuStep == Execute /\ UNCHANGED <<loadVars, fileVars, windowVars, taskVars, exitCode>>

WorkerSays == (Log \/ QueueEnd) /\ Gui /\ UNCHANGED <<loadVars, fileVars, gpuVars, taskVars, exitCode>>

WindowActs == WindowStep /\ Gui /\ UNCHANGED <<loadVars, fileVars, gpuVars, taskVars, exitCode>>

StartupNext ==
    RunStep \/ Generate \/ EndRun \/ GpuStep \/ WorkerSays \/ WindowActs

\* The run is one thread whose steps end, those that wait for ever apart; the GPU executes what
\* it was given; the thread of the window handles what is queued, and the user answers a message.
StartupSpec ==
    /\ StartupInit /\ [][StartupNext]_startupVars
    /\ WF_startupVars(RunStep) /\ WF_startupVars(EndRun) /\ WF_startupVars(GpuStep)
    /\ WF_startupVars(QueueEnd /\ Gui /\ UNCHANGED <<loadVars, fileVars, gpuVars, taskVars, exitCode>>)
    /\ WF_startupVars(WindowActs)

-----------------------------------------------------------------------------

\* runTasks, waitForCompletion or shutdown does not return
Hangs == mapping = "hangs" \/ queue = "hangs"

\* Every run that does not wait for ever for its own threads ends and is told apart: the window
\* says what run threw, and can be closed; the exit code tells whether anything threw, also a
\* task whose exception did not end the run (runCLI, ProgressWindow), though classification waits
\* for a GPU that works at its own time.
EveryRunIsReported ==
    <>(\/ Hangs
       \/ IF Gui THEN closeEnabled /\ shown = (IF at = "failed" THEN {"error", "failed"} ELSE {"done"})
          ELSE exitCode = IF at = "failed" \/ stored THEN 1 ELSE 0)

=============================================================================
