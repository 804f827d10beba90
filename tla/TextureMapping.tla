--------------------------- MODULE TextureMapping ---------------------------
(***************************************************************************)
(* PGDirectory::mapFiles and waitForCMClassification: mesh tasks count in  *)
(* which slot and as what type each texture is used, the main thread then  *)
(* confirms the textures one by one by majority, and environment masks are *)
(* classified by checkIfCM on the worker of a TaskQueue, which the main    *)
(* thread waits for and shuts down.                                        *)
(*                                                                         *)
(* The tasks of TaskQueue are the textures found in the load order.  The   *)
(* lists that filter meshes and pin types are empty, as AutoSeasonsRunner  *)
(* passes them.  The mesh tasks run on a TaskPoolRunner, which has done    *)
(* all of them when it returns (TaskPoolRunner!ReturnMeansDone), so that   *)
(* any two of them may be under way; without multithreading they are run   *)
(* one by one, which is one of the orders.                                 *)
(***************************************************************************)
EXTENDS TaskQueue, Integers, FiniteSets

CONSTANTS
    Mesh,
    Uses,       \* what the meshes may contain, shape by shape
    Suffix      \* the slot and the type a texture's name suggests

\* the shaders and the flags mapTexturesFromNIF looks at
Shader == {"DEFAULT", "ENVMAP", "GLOWMAP", "PARALLAX", "SKINTINT", "HAIRTINT", "MULTILAYERPARALLAX"}
Flag == {"FACEGEN_RGB_TINT", "GLOW_MAP", "UNUSED01", "MULTI_LAYER_PARALLAX", "PARALLAX",
         "ENVIRONMENT_MAPPING", "BACK_LIGHTING"}

\* one texture of one shape
Slot == {"DIFFUSE", "NORMAL", "GLOW", "PARALLAX", "CUBEMAP", "ENVMASK", "MULTILAYER", "BACKLIGHT",
         "UNUSED"}
Use == [texture : Task, slot : Slot, shader : Shader, flags : SUBSET Flag]

TextureType == {"DIFFUSE", "NORMAL", "MODELSPACENORMAL", "EMISSIVE", "SUBSURFACECOLOR", "SKINTINT",
                "HEIGHT", "HEIGHTPBR", "CUBEMAP", "ENVIRONMENTMASK", "RMAOS", "SUBSURFACETINT",
                "INNERLAYER", "FUZZPBR", "COATNORMALROUGHNESS", "SUBSURFACEPBR", "HAIR_FLOWMAP",
                "SPECULAR", "BACKLIGHT", "COMPLEXMATERIAL", "UNKNOWN"}

\* what a name may suggest: that a material is complex, the GPU alone says
SuffixType == TextureType \ {"COMPLEXMATERIAL"}

ASSUME MappingAssumption ==
    /\ Uses \subseteq [Mesh -> Seq(Use)]
    /\ Suffix \in [Task -> [slot : Slot \cup {"UNKNOWN"}, type : SuffixType]]
    /\ \A t \in Task : Suffix[t].slot = "UNKNOWN" <=> Suffix[t].type = "UNKNOWN"

VARIABLES
    multithreading,
    uses,           \* the shapes of the meshes (input)
    mesh,           \* how many uses each mesh task has counted; -1 if it failed
    slots,          \* m_unconfirmedTextures: per texture, the count of each slot
    types,          \* ... and of each type
    unconfirmed,    \* the textures not confirmed yet
    textureMaps,    \* m_textureMaps: entries of the slots' maps
    textureTypes,   \* m_textureTypes, "UNKNOWN" where there is no entry
    failed,         \* textures checkIfCM could not process
    main            \* where the main thread is

counted == <<mesh, slots, types>>
mapped == <<textureMaps, textureTypes, failed>>
mapping == <<multithreading, uses, counted, unconfirmed, mapped, main>>
allVars == <<vars, mapping>>

MapInit ==
    /\ Init
    /\ multithreading \in BOOLEAN /\ uses \in Uses
    /\ mesh = [m \in Mesh |-> 0]
    /\ slots = [t \in Task |-> [s \in Slot |-> 0]]
    /\ types = [t \in Task |-> [y \in TextureType |-> 0]]
    /\ unconfirmed = Task
    /\ textureMaps = {} /\ textureTypes = [t \in Task |-> "UNKNOWN"] /\ failed = {}
    /\ main = "scan"

-----------------------------------------------------------------------------
(* mapTexturesFromNIF *)

\* the rules of a slot, the first that applies decides: shader ("" for any), flags, type
Rules(slot) ==
    CASE slot = "DIFFUSE" -> << <<"", {}, "DIFFUSE">> >>
      [] slot = "NORMAL" -> << <<"SKINTINT", {"FACEGEN_RGB_TINT"}, "MODELSPACENORMAL">>,
                               <<"", {}, "NORMAL">> >>
      [] slot = "GLOW" -> << <<"GLOWMAP", {"GLOW_MAP"}, "EMISSIVE">>,
                             <<"DEFAULT", {"UNUSED01"}, "EMISSIVE">>,
                             <<"MULTILAYERPARALLAX", {"MULTI_LAYER_PARALLAX"}, "SUBSURFACECOLOR">>,
                             <<"SKINTINT", {"FACEGEN_RGB_TINT"}, "SKINTINT">> >>
      [] slot = "PARALLAX" -> << <<"PARALLAX", {"PARALLAX"}, "HEIGHT">>,
                                 <<"DEFAULT", {"UNUSED01"}, "HEIGHTPBR">> >>
      [] slot = "CUBEMAP" -> << <<"ENVMAP", {"ENVIRONMENT_MAPPING"}, "CUBEMAP">> >>
      [] slot = "ENVMASK" -> << <<"ENVMAP", {"ENVIRONMENT_MAPPING"}, "ENVIRONMENTMASK">>,
                                <<"DEFAULT", {"UNUSED01"}, "RMAOS">> >>
      [] slot = "MULTILAYER" -> << <<"MULTILAYERPARALLAX", {"MULTI_LAYER_PARALLAX", "UNUSED01"},
                                     "COATNORMALROUGHNESS">>,
                                   <<"MULTILAYERPARALLAX", {"MULTI_LAYER_PARALLAX"}, "INNERLAYER">> >>
      [] slot = "BACKLIGHT" -> << <<"MULTILAYERPARALLAX", {"UNUSED01"}, "SUBSURFACEPBR">>,
                                  <<"HAIRTINT", {"BACK_LIGHTING"}, "HAIR_FLOWMAP">>,
                                  <<"SKINTINT", {"FACEGEN_RGB_TINT"}, "SPECULAR">>,
                                  <<"", {"BACK_LIGHTING"}, "BACKLIGHT">> >>
      [] OTHER -> << <<"", {}, "UNKNOWN">> >>

\* the type a use speaks for: the use is skipped if there is none
UsedAs(use) ==
    LET rules == Rules(use.slot)
        applies(i) == rules[i][1] \in {"", use.shader} /\ rules[i][2] \subseteq use.flags
    IN  {rules[i][3] : i \in {i \in DOMAIN rules :
                                 applies(i) /\ \A j \in 1 .. i - 1 : ~applies(j)}}

\* A mutant: only the first use of a texture in a slot is counted.
UpdateUnconfirmedOnce(use, type) ==
    /\ slots' = [slots EXCEPT ![use.texture][use.slot] = 1]
    /\ types' = [types EXCEPT ![use.texture][type] = @ + 1]

\* updateUnconfirmedTexturesMap, under a mutex
UpdateUnconfirmed(use, type) ==
    /\ slots' = [slots EXCEPT ![use.texture][use.slot] = @ + 1]
    /\ types' = [types EXCEPT ![use.texture][type] = @ + 1]

Loaded(m) == mesh[m] >= 0

CountUse(m) ==
    /\ main = "scan" /\ Loaded(m) /\ mesh[m] < Len(uses[m])
    /\ mesh' = [mesh EXCEPT ![m] = @ + 1]
    /\ LET use == uses[m][mesh[m] + 1]
       IN  \/ UsedAs(use) = {} /\ UNCHANGED <<slots, types>>
           \/ \E type \in UsedAs(use) : UpdateUnconfirmed(use, type)
    /\ UNCHANGED <<vars, multithreading, uses, unconfirmed, mapped, main>>

\* the file cannot be read or is no NIF
LoadFails(m) ==
    /\ main = "scan" /\ mesh[m] = 0
    /\ mesh' = [mesh EXCEPT ![m] = -1]
    /\ UNCHANGED <<vars, multithreading, uses, slots, types, unconfirmed, mapped, main>>

\* A mutant: the task of a mesh that fails is not counted, as if it threw.
EndScanWithoutFailures ==
    /\ main = "scan" /\ \A m \in Mesh : mesh[m] = Len(uses[m])
    /\ main' = "confirm"
    /\ UNCHANGED <<vars, multithreading, uses, counted, unconfirmed, mapped>>

\* runTasks returns
EndScan ==
    /\ main = "scan" /\ \A m \in Mesh : Loaded(m) => mesh[m] = Len(uses[m])
    /\ main' = "confirm"
    /\ UNCHANGED <<vars, multithreading, uses, counted, unconfirmed, mapped>>

-----------------------------------------------------------------------------
(* mapFiles: a texture is confirmed *)

\* of those with the highest count, the first in the order of a hash map
Winning(count) == {v \in DOMAIN count : count[v] > 0 /\ \A w \in DOMAIN count : count[w] <= count[v]}

\* slot and type win apart from each other
WinningSlots(t) == IF Winning(slots[t]) = {} THEN {Suffix[t].slot} ELSE Winning(slots[t])
WinningTypes(t) == IF Winning(slots[t]) = {} THEN {Suffix[t].type} ELSE Winning(types[t])

\* Each of the two maps is under a mutex of its own; nobody reads them before mapping is over.
AddToTextureMaps(t, slot, type) ==
    /\ textureMaps' = textureMaps \cup {[slot |-> slot, texture |-> t, type |-> type]}
    /\ textureTypes' = [textureTypes EXCEPT ![t] = type]

\* Classification is deferred for what won as environment mask.
ConfirmPlain(t, slot, type) ==
    /\ main = "confirm" /\ client = "idle" /\ t \in unconfirmed
    /\ type # "ENVIRONMENTMASK"
    /\ unconfirmed' = unconfirmed \ {t}
    /\ \/ slot # "UNKNOWN" /\ AddToTextureMaps(t, slot, type)
       \/ slot = "UNKNOWN" /\ UNCHANGED <<textureMaps, textureTypes>>
    /\ UNCHANGED <<vars, multithreading, uses, counted, failed, main>>

\* A mutant: what is no complex material is not mapped.
ClassifyComplexOnly(t, slot) ==
    \/ failed' = failed \cup {t} /\ UNCHANGED <<textureMaps, textureTypes>>
    \/ UNCHANGED <<textureMaps, textureTypes, failed>>
    \/ AddToTextureMaps(t, slot, "COMPLEXMATERIAL") /\ UNCHANGED failed

\* checkIfCMAddToMap: the GPU answers or does not
Classify(t, slot) ==
    \/ failed' = failed \cup {t} /\ UNCHANGED <<textureMaps, textureTypes>>
    \/ AddToTextureMaps(t, slot, "ENVIRONMENTMASK") /\ UNCHANGED failed
    \/ AddToTextureMaps(t, slot, "COMPLEXMATERIAL") /\ UNCHANGED failed

ConfirmMaskHere(t, slot) ==
    /\ main = "confirm" /\ client = "idle" /\ t \in unconfirmed
    /\ ~multithreading
    /\ unconfirmed' = unconfirmed \ {t}
    /\ Classify(t, slot)
    /\ UNCHANGED <<vars, multithreading, uses, counted, main>>

\* The winning slot is bound into the callable.
ConfirmMaskQueued(t) ==
    /\ main = "confirm" /\ t \in unconfirmed
    /\ multithreading
    /\ unconfirmed' = unconfirmed \ {t}
    /\ QueueTask(t)
    /\ UNCHANGED <<multithreading, uses, counted, mapped, main>>

Confirm(t) ==
    \E slot \in WinningSlots(t), type \in WinningTypes(t) :
        \/ ConfirmPlain(t, slot, type)
        \/ type = "ENVIRONMENTMASK" /\ ConfirmMaskHere(t, slot)
        \/ type = "ENVIRONMENTMASK" /\ ConfirmMaskQueued(t)

EndMapFiles ==
    /\ main = "confirm" /\ client = "idle" /\ unconfirmed = {}
    /\ main' = "mapped"
    /\ UNCHANGED <<vars, multithreading, uses, counted, unconfirmed, mapped>>

-----------------------------------------------------------------------------
(* waitForCMClassification, called once, when the queue is not shut down *)

WaitForCMClassification ==
    /\ main = "mapped" /\ main' = "asked"
    /\ UNCHANGED <<vars, multithreading, uses, counted, unconfirmed, mapped>>

\* isProcessing: a task is being run at this moment
Processing ==
    /\ main = "asked" /\ isBusy
    /\ main' = "waiting"
    /\ WaitForCompletion
    /\ UNCHANGED <<multithreading, uses, counted, unconfirmed, mapped>>

NotProcessing ==
    /\ main = "asked" /\ ~isBusy
    /\ main' = "stop"
    /\ UNCHANGED <<vars, multithreading, uses, counted, unconfirmed, mapped>>

Completed ==
    /\ main = "waiting" /\ client = "idle"
    /\ main' = "stop"
    /\ UNCHANGED <<vars, multithreading, uses, counted, unconfirmed, mapped>>

ShutDownQueue ==
    /\ main = "stop" /\ main' = "joining"
    /\ Shutdown
    /\ UNCHANGED <<multithreading, uses, counted, unconfirmed, mapped>>

ShutDown ==
    /\ main = "joining" /\ client = "stopped"
    /\ main' = "done"
    /\ UNCHANGED <<vars, multithreading, uses, counted, unconfirmed, mapped>>

-----------------------------------------------------------------------------

\* The callable of a texture ends as checkIfCMAddToMap does, which catches what the GPU
\* throws; its slot is one that won.
ClassifyQueued ==
    /\ TaskReturns
    /\ \E slot \in WinningSlots(task) : Classify(task, slot)
    /\ UNCHANGED <<multithreading, uses, counted, unconfirmed, main>>

WorkerStep ==
    \/ ClassifyQueued
    \/ /\ LoopTop \/ CheckException \/ PredicateFails \/ Block \/ ExitEmpty \/ Pop \/ Begin \/ EndBusy
       /\ UNCHANGED mapping

MeshStep(m) == CountUse(m) \/ LoadFails(m)

MainStep ==
    \/ EndScan
    \/ \E t \in Task : Confirm(t)
    \/ EndMapFiles \/ WaitForCMClassification \/ Processing \/ NotProcessing \/ Completed
    \/ ShutDownQueue \/ ShutDown
    \/ GoOn /\ UNCHANGED mapping

MapNext ==
    \/ \E m \in Mesh : MeshStep(m)
    \/ MainStep \/ WorkerStep
    \/ SpuriousWakeup /\ UNCHANGED mapping

\* as in TaskQueue: the threads are scheduled, and the mutex is not withheld from the client
MapFairness ==
    /\ \A m \in Mesh : WF_allVars(MeshStep(m))
    /\ WF_allVars(MainStep) /\ WF_allVars(WorkerStep)
    /\ SF_allVars(Push /\ UNCHANGED mapping)

MapSpec == MapInit /\ [][MapNext]_allVars /\ MapFairness

-----------------------------------------------------------------------------

\* the uses of a texture in the meshes that were loaded
Position == UNION {{m} \X DOMAIN uses[m] : m \in Mesh}
UseAt(u) == uses[u[1]][u[2]]
UsesOf(t) == {u \in Position : Loaded(u[1]) /\ UseAt(u).texture = t /\ UsedAs(UseAt(u)) # {}}

InSlot(t, slot) == Cardinality({u \in UsesOf(t) : UseAt(u).slot = slot})
AsType(t, type) == Cardinality({u \in UsesOf(t) : type \in UsedAs(UseAt(u))})

\* However the threads interleave, a texture is in the map of one slot only, the one most
\* shapes use it in, under the type most shapes use it as (or the classification that
\* replaces that type), and the type map says the same.
MapsAsVoted ==
    main = "done" => \A e \in textureMaps :
        /\ textureTypes[e.texture] = e.type
        /\ \A f \in textureMaps : f.texture = e.texture => f = e
        /\ LET voted == IF e.type = "COMPLEXMATERIAL" THEN "ENVIRONMENTMASK" ELSE e.type
           IN  IF UsesOf(e.texture) = {}
               THEN e.slot = Suffix[e.texture].slot /\ voted = Suffix[e.texture].type
               ELSE /\ \A s \in Slot : InSlot(e.texture, s) <= InSlot(e.texture, e.slot)
                    /\ \A y \in TextureType : AsType(e.texture, y) <= AsType(e.texture, voted)

\* When waitForCMClassification has returned, every texture that is used or whose name tells
\* its slot is in the maps, unless the GPU failed on it or its classification was discarded
\* with the queue; without multithreading nothing is discarded.
NoTextureForgotten ==
    main = "done" =>
        \A t \in Task :
            \/ UsesOf(t) = {} /\ Suffix[t].slot = "UNKNOWN"
            \/ \E e \in textureMaps : e.texture = t
            \/ t \in failed
            \/ multithreading /\ t \in Range(queue)

\* mapFiles returns, although meshes fail to load and the worker takes the mutex again and
\* again while tasks are queued.
MapFilesReturns == (main = "scan") ~> (main \notin {"scan", "confirm"})

\* "Blocks until all background Complex Material classification tasks have completed, then
\* shuts down the queue" (PGDirectory.hpp): no queued classification is lost.
ClassifiedWhenWaitedFor ==
    main = "done" => Range(submitted) \subseteq failed \cup {e.texture : e \in textureMaps}

=============================================================================
