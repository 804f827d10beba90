------------------------------ MODULE LoadOrder ------------------------------
(***************************************************************************)
(* ASMutagen's Initialize, PopulateObjs and EnumerateAllModelUses: which   *)
(* of the active plugins are loaded, and the indices of the models and     *)
(* grasses of their records.                                               *)
(*                                                                         *)
(* Mutagen is external: it reads a plugin or throws, builds an environment *)
(* or throws, and enumerates the winning overrides, those of the last      *)
(* plugin loaded that has the record.  A record that cannot be read ends   *)
(* the enumeration of its type, or not.                                    *)
(***************************************************************************)
EXTENDS BethesdaGame

CONSTANTS
    NullMod,        \* ModKey.Null
    NoMesh          \* a model without a path, or with one that cannot be read

SupportedSeasonRecordTypes == {"STAT", "ACTI", "FURN", "MSTT", "TREE", "FLOR"}

\* a mesh is a name with the suffix "_0.nif" or "_1.nif", or with neither
Mesh == [name : STRING, weight : {"_0", "_1", ""}]

\* A record has one version in each plugin that overrides it; a model is in a submodel of its
\* record.
ASSUME LoadAssumption ==
    \A inst \in Installation :
        /\ inst.masters \in [Plugin -> SUBSET Plugin]
        /\ inst.unreadable \subseteq Plugin
        /\ DOMAIN inst.records = 1 .. Len(inst.records) /\ Len(inst.records) \in Nat
        /\ \A i \in DOMAIN inst.records : LET rec == inst.records[i] IN
               /\ rec.mod \in Plugin \cup {NullMod}
               /\ DOMAIN rec.versions \subseteq Plugin
               /\ \A p \in DOMAIN rec.versions :
                      \A m \in rec.versions[p].models :
                          m.mesh = NoMesh \/ m.mesh \in Mesh

VARIABLES
    validMods,
    modsWithMissingMasters,
    finalLoadOrder,
    env,            \* Env: null, or built over finalLoadOrder
    modelUses,      \* ModelUses: which submodel of which record uses a mesh
    grassByEditorID,
    allUses,        \* what EnumerateAllModelUses has returned
    unread          \* history: records the enumeration did not get to

initVars == <<validMods, modsWithMissingMasters, finalLoadOrder, env>>
indexVars == <<modelUses, grassByEditorID, allUses, unread>>
loadVars == <<gameVars, initVars, indexVars>>

LoadInit ==
    /\ GameInit
    /\ validMods = {} /\ modsWithMissingMasters = {} /\ finalLoadOrder = <<>>
    /\ env = "null"
    /\ modelUses = {} /\ grassByEditorID = <<>> /\ allUses = {} /\ unread = {}

-----------------------------------------------------------------------------
(* Initialize *)

FindValidMods ==
    /\ at = "initialize"
    /\ validMods' = {p \in Plugin : Listed(p) /\ Present(p)}
    /\ at' = "masters"
    /\ line' = 1
    /\ UNCHANGED <<installation, params, outputLO, modsWithMissingMasters, finalLoadOrder, env,
                   indexVars>>

\* Two mutants: masters are only looked for on disk, or all of them are marked with a missing one.
MissingMastersOnDisk(p) == {m \in installation.masters[p] : m \notin validMods}
MissingMastersAll(p) ==
    IF \E m \in installation.masters[p] : m \notin validMods \/ m \in modsWithMissingMasters
    THEN installation.masters[p] ELSE {}

MissingMasters(p) ==
    {m \in installation.masters[p] : m \notin validMods \/ m \in modsWithMissingMasters}

LoadPlugin(p) ==
    \/ /\ p \notin validMods
       /\ UNCHANGED <<modsWithMissingMasters, finalLoadOrder>>
    \/ /\ p \in validMods /\ p \in installation.unreadable
       /\ modsWithMissingMasters' = modsWithMissingMasters \cup {p}
       /\ UNCHANGED finalLoadOrder
    \/ /\ p \in validMods \ installation.unreadable /\ MissingMasters(p) = {}
       /\ finalLoadOrder' = Append(finalLoadOrder, p)
       /\ UNCHANGED modsWithMissingMasters
    \/ /\ p \in validMods \ installation.unreadable /\ MissingMasters(p) # {}
       /\ modsWithMissingMasters' = modsWithMissingMasters \cup MissingMasters(p) \cup {p}
       /\ UNCHANGED finalLoadOrder

LoadNextPlugin ==
    /\ at = "masters" /\ line <= Len(outputLO)
    /\ LoadPlugin(outputLO[line])
    /\ line' = line + 1
    /\ UNCHANGED <<installation, params, at, outputLO, validMods, env, indexVars>>

\* an environment that cannot be built is logged and leaves Env null
BuildEnvironment ==
    /\ at = "masters" /\ line > Len(outputLO)
    /\ env' \in {"null", "built"}
    /\ at' = "populate"
    /\ UNCHANGED <<installation, params, line, outputLO, validMods, modsWithMissingMasters,
                   finalLoadOrder, indexVars>>

-----------------------------------------------------------------------------
(* PopulateObjs *)

Rec(i) == installation.records[i]

\* where the plugin of the winning version of a record is in the load order, 0 if none has it
Winner(i) ==
    LET having == {k \in DOMAIN finalLoadOrder : finalLoadOrder[k] \in DOMAIN Rec(i).versions}
    IN  IF having = {} THEN 0 ELSE CHOOSE k \in having : \A l \in having : l <= k

Winning(i) == Rec(i).versions[finalLoadOrder[Winner(i)]]
Loaded(i) == Winner(i) > 0

Counterpart(mesh) ==
    [mesh EXCEPT !.weight = IF mesh.weight = "_0" THEN "_1" ELSE "_0"]

Weighted(i, model) == Rec(i).type = "ARMA" /\ model.slider

\* an armor addon of a weight slider uses both meshes of the pair, or none if the name has no
\* weight
MeshesOf(i, model) ==
    IF model.mesh = NoMesh \/ (Weighted(i, model) /\ model.mesh.weight = "") THEN {}
    ELSE IF Weighted(i, model) THEN {model.mesh, Counterpart(model.mesh)}
    ELSE {model.mesh}

UsesOf(i, model) ==
    {[mesh |-> mesh, record |-> i, sub |-> model.sub] : mesh \in MeshesOf(i, model)}

\* A mutant: every version of a record in the load order is indexed, not the winning one.
RecordUsesOverridden(i) ==
    UNION {UsesOf(i, m) : m \in UNION {Rec(i).versions[p].models :
        p \in {finalLoadOrder[k] : k \in DOMAIN finalLoadOrder} \cap DOMAIN Rec(i).versions}}

RecordUses(i) ==
    IF Rec(i).mod = NullMod THEN {} ELSE UNION {UsesOf(i, m) : m \in Winning(i).models}

\* PopulateObjs needs an environment.  Any call may throw: the exception is kept, and thrown by
\* the caller.
CallThrows ==
    /\ \/ at = "populate" /\ env = "null"
       \/ at \in {"initialize", "masters", "records", "populated"}
    /\ at' = "failed"
    /\ UNCHANGED <<installation, params, line, outputLO, initVars, indexVars>>

BeginPopulate ==
    /\ at = "populate" /\ env = "built"
    /\ at' = "records" /\ line' = 1
    /\ UNCHANGED <<installation, params, outputLO, initVars, indexVars>>

\* The records are enumerated type by type, in the order of installation.records.
IndexRecord ==
    /\ at = "records" /\ line <= Len(installation.records)
    /\ modelUses' = IF Loaded(line) THEN modelUses \cup RecordUses(line) ELSE modelUses
    /\ line' = line + 1
    /\ UNCHANGED <<installation, params, at, outputLO, initVars, grassByEditorID, allUses, unread>>

\* EnumerateModelRecordsSafe goes on after a record that throws.
EndOfType(i) ==
    {j \in i + 1 .. Len(installation.records) + 1 :
        /\ \A k \in i .. j - 1 : Rec(k).type = Rec(i).type
        /\ j <= Len(installation.records) => Rec(j).type # Rec(i).type}

RecordThrows ==
    /\ at = "records" /\ line <= Len(installation.records) /\ Loaded(line)
    /\ \E next \in {line + 1} \cup EndOfType(line) :
           /\ line' = next
           /\ unread' = unread \cup line .. next - 1
    /\ UNCHANGED <<installation, params, at, outputLO, initVars, modelUses, grassByEditorID,
                   allUses>>

\* GrassByEditorID is written from the plugin of the highest priority down: of two grasses with
\* the same EditorID the one whose winning version comes first in the load order stays, of two
\* in one plugin the later one.
Grasses == {i \in DOMAIN installation.records : Rec(i).type = "GRAS" /\ Loaded(i)}
EditorIDs == {Winning(i).editorID : i \in Grasses} \ {""}

GrassOf(eid) ==
    CHOOSE i \in Grasses :
        /\ Winning(i).editorID = eid
        /\ \A j \in Grasses : Winning(j).editorID = eid =>
               Winner(i) < Winner(j) \/ (Winner(i) = Winner(j) /\ j <= i)

IndexGrass ==
    /\ at = "records" /\ line > Len(installation.records)
    /\ grassByEditorID' = [eid \in EditorIDs |-> GrassOf(eid)]
    /\ at' = "populated"
    /\ UNCHANGED <<installation, params, line, outputLO, initVars, modelUses, allUses, unread>>

-----------------------------------------------------------------------------
(* EnumerateAllModelUses *)

\* BuildModelUseOffset looks the record up in the link cache, and its submodel in the record.
Resolves(use) ==
    Loaded(use.record) /\ \E m \in Winning(use.record).models : m.sub = use.sub

EnumerateAllModelUses ==
    /\ at = "populated"
    /\ allUses' = {use \in modelUses :
                      Resolves(use) /\ Rec(use.record).type \in SupportedSeasonRecordTypes}
    /\ at' = "enumerated"
    /\ UNCHANGED <<installation, params, line, outputLO, initVars, modelUses, grassByEditorID,
                   unread>>

Initialize == FindValidMods \/ LoadNextPlugin \/ BuildEnvironment

PopulateObjs == BeginPopulate \/ IndexRecord \/ RecordThrows \/ IndexGrass

LoadNext ==
    \/ GameNext /\ UNCHANGED <<initVars, indexVars>>
    \/ Initialize \/ PopulateObjs \/ EnumerateAllModelUses \/ CallThrows

LoadSpec == LoadInit /\ [][LoadNext]_loadVars

-----------------------------------------------------------------------------

\* places of the active plugins whose plugin Initialize has loaded
LoadedAt == {i \in DOMAIN outputLO : \E k \in DOMAIN finalLoadOrder :
                                         finalLoadOrder[k] = outputLO[i]}

\* the list of active plugins is complete and its plugins are being loaded, or are
Loading == at \in {"masters", "populate", "records", "populated", "enumerated"}

\* A plugin that is loaded has its masters loaded, through any chain of plugins that were left
\* out, for every master that comes before it among the active plugins (Initialize).
MastersLoaded ==
    Loading => \A i, j \in DOMAIN outputLO :
        /\ i \in LoadedAt /\ j < i
        /\ outputLO[j] \in installation.masters[outputLO[i]]
        => j \in LoadedAt

\* the plugins of S need no plugin outside of S
SelfContained(S) == \A p \in S : installation.masters[p] \subseteq S

\* No plugin is left out for the faults of others: plugins that are there, can be read and need
\* only each other are all loaded, in whatever order they come (Initialize).
LoadsAllItCan ==
    at = "populate" => \A S \in SUBSET (validMods \ installation.unreadable) :
        SelfContained(S) => \A i \in DOMAIN outputLO : outputLO[i] \in S => i \in LoadedAt

\* what the models of the loaded records that could be read are
IndexedUses ==
    UNION {{[mesh |-> m.mesh, record |-> i, sub |-> m.sub] :
                m \in {n \in Winning(i).models : n.mesh # NoMesh}} :
           i \in {j \in DOMAIN installation.records :
                      Loaded(j) /\ Rec(j).mod # NullMod /\ j \notin unread}}

\* The index that is built once answers for every later call: an entry resolves to a submodel
\* of the winning version of its record that has this mesh or, for the armor addons of a weight
\* slider, its counterpart, and both of the pair are there; all models of the records seasons
\* are made for are returned, of whatever plugin and mesh, unless their record could not be
\* read (PopulateObjs, EnumerateAllModelUses).
UsesResolve ==
    at \in {"populated", "enumerated"} =>
        /\ \A use \in modelUses : \E m \in Winning(use.record).models :
               /\ Resolves(use) /\ m.sub = use.sub
               /\ \/ m.mesh = use.mesh
                  \/ Weighted(use.record, m) /\ m.mesh = Counterpart(use.mesh)
               /\ Weighted(use.record, m) => [use EXCEPT !.mesh = Counterpart(@)] \in modelUses
        /\ at = "enumerated" =>
               allUses = {use \in IndexedUses :
                             Rec(use.record).type \in SupportedSeasonRecordTypes}

=============================================================================
