-------------------------- MODULE GpuClassification --------------------------
(***************************************************************************)
(* PGD3D: one texture after the other is classified as complex material by *)
(* counting its pixels on the GPU (checkIfCM, countPixelValues).           *)
(*                                                                         *)
(* Direct3D is external: the context queues commands, the GPU executes     *)
(* them in their order and at its own time, and Map waits for what the     *)
(* mapped resource depends on.  Any Direct3D call may fail.  A call of     *)
(* checkIfCM has a texture, an output buffer and a staging buffer of its   *)
(* own; what stays behind is the queue, what is bound and the cache of     *)
(* metadata.                                                               *)
(***************************************************************************)
EXTENDS FileMap

CONSTANTS
    Texture,
    Dds     \* the data of a texture: header (can be read), opaque, format (has alpha), width,
            \* height, and counts of pixels: red, green, blue, and fully opaque

NoTexture == <<>>

ASSUME TextureAssumption ==
    /\ Texture \subseteq Path /\ NoTexture \notin Texture
    /\ \A t \in Texture :
           /\ Dds[t].header \in BOOLEAN /\ Dds[t].opaque \in BOOLEAN /\ Dds[t].format \in BOOLEAN
           /\ Dds[t].width \in Nat /\ Dds[t].height \in Nat
           /\ Dds[t].counts \in [1 .. 4 -> 0 .. Dds[t].width * Dds[t].height]

Zeros == [c \in 1 .. 4 |-> 0]

VARIABLES
    gpu,            \* "none", "device" or "ready", with its shader compiled
    classifying,    \* the step of checkIfCM
    texture,        \* its ddsPath
    metadata,       \* m_ddsMetaDataCache
    commands,       \* what the GPU has still to execute
    bound,          \* the texture and output buffer bound to the shader, by their texture
    output,         \* the output buffer of a texture
    staging,        \* its staging buffer
    verdict         \* what checkIfCM has answered

gpuVars == <<gpu, classifying, texture, metadata, commands, bound, output, staging, verdict>>
deviceVars == <<commands, bound, output, staging>>

GpuInit ==
    /\ gpu = "none" /\ classifying = "idle" /\ texture = NoTexture
    /\ metadata = {}
    /\ commands = <<>> /\ bound = NoTexture
    /\ output = [t \in Texture |-> Zeros] /\ staging = [t \in Texture |-> Zeros]
    /\ verdict = [t \in Texture |-> <<"none">>]

-----------------------------------------------------------------------------
(* initGPU, initShaders *)

InitGPU ==
    /\ gpu = "none" /\ gpu' = "device"
    /\ UNCHANGED <<classifying, texture, metadata, deviceVars, verdict>>

InitShaders ==
    /\ gpu = "device" /\ gpu' = "ready"
    /\ UNCHANGED <<classifying, texture, metadata, deviceVars, verdict>>

-----------------------------------------------------------------------------
(* checkIfCM *)

\* complex material: its red, green and blue tell what it masks
Material(counts) ==
    {flag \in {"ENVMASK", "GLOSSINESS", "METALNESS"} :
        \/ flag = "ENVMASK" /\ counts[1] > 0
        \/ flag = "GLOSSINESS" /\ counts[2] > 0
        \/ flag = "METALNESS" /\ counts[3] > 0}

\* an alpha channel that is mostly opaque masks nothing
Decide(t, counts) ==
    IF counts[4] > (Dds[t].width * Dds[t].height) \div 2
    THEN <<"ENVIRONMENTMASK">> ELSE <<"COMPLEXMATERIAL", Material(counts)>>

Answer(v) ==
    /\ verdict' = [verdict EXCEPT ![texture] = v]
    /\ classifying' = "idle" /\ texture' = NoTexture

Continue(step) ==
    /\ classifying' = step
    /\ UNCHANGED <<texture, verdict>>

Unprocessed == Answer(<<"unprocessed">>) /\ UNCHANGED <<gpu, metadata, deviceVars>>

\* A texture is classified once: the confirmation asks for each winning mask.
CheckIfCM(t) ==
    /\ gpu = "ready" /\ classifying = "idle" /\ verdict[t] = <<"none">>
    /\ texture' = t /\ classifying' = "metadata"
    /\ UNCHANGED <<gpu, metadata, deviceVars, verdict>>

\* getDDSMetadata: failures are not cached
GetMetadata ==
    /\ classifying = "metadata"
    /\ texture \in metadata \/ (IsFile(texture) /\ Dds[texture].header)
    /\ metadata' = metadata \cup {texture}
    /\ IF Dds[texture].opaque \/ ~Dds[texture].format
       THEN Answer(<<"ENVIRONMENTMASK">>) ELSE Continue("image")
    /\ UNCHANGED <<gpu, deviceVars>>

GetDDS ==
    /\ classifying = "image" /\ IsFile(texture)
    /\ Continue("create")
    /\ UNCHANGED <<gpu, metadata, deviceVars>>

PowerOfTwo(n) == \E k \in 0 .. n : n = 2 ^ k

\* createTexture2D, the views, and the output buffer, created with zeros
CreateResources ==
    /\ classifying = "create"
    /\ PowerOfTwo(Dds[texture].width) /\ PowerOfTwo(Dds[texture].height)
    /\ output' = [output EXCEPT ![texture] = Zeros]
    /\ Continue("dispatch")
    /\ UNCHANGED <<gpu, metadata, commands, bound, staging>>

\* A mutant: what is bound stays bound.
BindOnce ==
    /\ classifying = "dispatch"
    /\ bound' = IF bound = NoTexture THEN texture ELSE bound
    /\ Continue("query")
    /\ UNCHANGED <<gpu, metadata, commands, output, staging>>

Bind ==
    /\ classifying = "dispatch"
    /\ bound' = texture
    /\ Continue("query")
    /\ UNCHANGED <<gpu, metadata, commands, output, staging>>

\* The query is asked once, without waiting: GetData returns whether or not it is done.
Dispatch ==
    /\ classifying = "query"
    /\ commands' = Append(commands, [op |-> "count", texture |-> bound])
    /\ Continue("unbind")
    /\ UNCHANGED <<gpu, metadata, bound, output, staging>>

Unbind ==
    /\ classifying = "unbind"
    /\ bound' = NoTexture
    /\ Continue("copy")
    /\ UNCHANGED <<gpu, metadata, commands, output, staging>>

\* readBack: a staging buffer, a copy into it, and Map
CopyResource ==
    /\ classifying = "copy"
    /\ commands' = Append(commands, [op |-> "copy", texture |-> texture])
    /\ Continue("map")
    /\ UNCHANGED <<gpu, metadata, bound, output, staging>>

Map ==
    /\ classifying = "map" /\ commands = <<>>
    /\ Answer(Decide(texture, staging[texture]))
    /\ UNCHANGED <<gpu, metadata, deviceVars>>

\* Any step fails on its own: a file that is gone or damaged, a size that is no power of two, a
\* resource, a query or a mapping the driver refuses.  What is bound and queued stays so.
Fails ==
    /\ classifying # "idle"
    /\ Unprocessed

CheckStep ==
    \/ GetMetadata \/ GetDDS \/ CreateResources \/ Bind \/ Dispatch \/ Unbind
    \/ CopyResource \/ Map \/ Fails

\* the shader adds to its output buffer, once for every pixel that counts
Execute ==
    /\ commands # <<>>
    /\ commands' = Tail(commands)
    /\ LET t == Head(commands).texture IN
       \/ /\ Head(commands).op = "count"
          /\ output' = [output EXCEPT ![t] = [c \in 1 .. 4 |-> @[c] + Dds[t].counts[c]]]
          /\ UNCHANGED staging
       \/ /\ Head(commands).op = "copy"
          /\ staging' = [staging EXCEPT ![t] = output[t]]
          /\ UNCHANGED output
    /\ UNCHANGED <<gpu, classifying, texture, metadata, bound, verdict>>

GpuNext ==
    InitGPU \/ InitShaders \/ (\E t \in Texture : CheckIfCM(t)) \/ CheckStep \/ Execute

\* textures are classified while other threads use the file map
GpuSpec ==
    /\ GameInit /\ FileInit /\ GpuInit
    /\ [][\/ GpuNext /\ UNCHANGED <<gameVars, fileVars>>
          \/ FileMapNext /\ UNCHANGED gpuVars]_<<gameVars, fileVars, gpuVars>>

-----------------------------------------------------------------------------

\* A texture that is answered for is judged by its own pixels, all of them counted once, though
\* the dispatch does not wait, and though classifications before it have failed between any two
\* steps and left commands queued and views bound (checkIfCM, countPixelValues).
JudgedByItsPixels ==
    \A t \in Texture : verdict[t] \notin {<<"none">>, <<"unprocessed">>} =>
        verdict[t] = IF Dds[t].opaque \/ ~Dds[t].format THEN <<"ENVIRONMENTMASK">>
                     ELSE Decide(t, Dds[t].counts)

=============================================================================
