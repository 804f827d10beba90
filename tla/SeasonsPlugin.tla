---------------------------- MODULE SeasonsPlugin ----------------------------
(***************************************************************************)
(* The output plugin AutoSeasons.esp as the C# backend (ASMutagen.cs)      *)
(* builds it: FormIDs are found, reserved and given to seasonal duplicates *)
(* of records, to the texture sets (TXST) the duplicates point at and to   *)
(* duplicated grasses, and the plugin is flagged and written at the end.   *)
(*                                                                         *)
(* The backend is driven by SeasonPatcher::run on one thread, one exported *)
(* call at a time.  Calls that allocate once are one action; a call of     *)
(* GenerateSeasonalDuplicates is one action per request and per shape      *)
(* override, because each of them may allocate and may throw.  SeasonPatcher *)
(* batches the requests by season and record type in a hash map: here they *)
(* are served in any order.                                                *)
(***************************************************************************)
EXTENDS Integers, Sequences, FiniteSets

CONSTANTS
    Base,               \* records of the load order that requests name
    ModelLess,          \* those among them whose own Model is null
    Shape,              \* shape indices of a mesh
    Slots,              \* 8-slot texture arrays
    DiffuseOf,          \* the diffuse file name of a slot array
    TextureName,        \* EditorIDs of base texture sets, diffuse file names
    NoName,             \* the empty EditorID
    Season,
    Grass,              \* grass records of the load order
    Requests,           \* what SeasonPatcher may ask to be duplicated
    LandscapeDefaultID, \* the FormID of TerrainHelper.esp's "LandscapeDefault"
    LightMax,           \* 0xFFF, the last FormID of a light plugin
    MaxFormID           \* 0xFFFFFF, the last FormID of any plugin

RecordType == {"STAT", "LTEX"}   \* "STAT" stands for the six Model types

\* a name and its suffix
EditorID == (TextureName \cup {"DefaultPBRLand"}) \X (Season \cup {"", "ltex"})

Override == [shape : Shape, slots : Slots]

RequestType == [base : Base, type : RecordType, season : Season,
                txstEdid : TextureName \cup {NoName},
                overrides : Seq(Override), grasses : SUBSET Grass, pbr : BOOLEAN]

\* SeasonPatcher sends one override for a LTEX and at least one for a model.  pbr: it also
\* clones a PBRTextureSets config for the request, under the EditorID txstEdid_season.
ASSUME PluginAssumption ==
    /\ MaxFormID \in Nat /\ LightMax \in Nat /\ LandscapeDefaultID \in Nat
    /\ MaxFormID >= 1
    /\ ModelLess \subseteq Base
    /\ DiffuseOf \in [Slots -> TextureName]
    /\ Requests \subseteq RequestType
    /\ \A r \in Requests : /\ r.overrides # << >>
                           /\ r.type = "LTEX" => Len(r.overrides) = 1
                           /\ r.pbr => r.type = "LTEX" /\ r.txstEdid # NoName

VARIABLES
    phase,          \* the step SeasonPatcher::run has come to
    allocated,      \* allocatedFormIDs
    lastUsed,       \* lastUsedFormID
    cache,          \* NewTextureSets: the FormID for a slot array, 0 if none
    textureSets,    \* SeasonsMod.TextureSets, the new records
    defaultPatched, \* ... and whether it overrides "LandscapeDefault"
    duplicates,     \* SeasonsMod.Statics, .LandscapeTextures, ...
    grassRecords,   \* SeasonsMod.Grasses
    grassCache,     \* grassDuplicateCache; id 0: no grass of this plugin
    pending,        \* requests not served yet
    building,       \* the duplicate being built, if any
    light           \* SeasonsMod.IsSmallMaster

allocation == <<allocated, lastUsed>>
records == <<textureSets, defaultPatched, duplicates, grassRecords>>
vars == <<phase, allocation, cache, records, grassCache, pending, building, light>>

FormID == 2 .. MaxFormID

TextureSet == [id : FormID, slots : Slots, edid : EditorID]

\* textures[s] = 0: shape s keeps what the base record had
Duplicate == [id : FormID, req : Requests, textures : [Shape -> FormID \cup {0}],
              grasses : SUBSET FormID]

Building == [id : FormID, req : Requests, textures : [Shape -> FormID \cup {0}],
             next : Nat \ {0}]

GrassRecord == [id : FormID, grass : Grass, season : Season]

Phases == {"collect", "patch", "ensure", "generate", "written", "empty", "aborted"}

IDs(recs) == {r.id : r \in recs}

\* the FormIDs the plugin's own records have
RecordIDs == IDs(textureSets) \cup IDs(duplicates) \cup IDs(grassRecords)

-----------------------------------------------------------------------------
(* FormID allocation *)

\* Two mutants: the scan runs one ID too far, or asks the records instead of the reservations.
FreeIDsPastEnd == {id \in (lastUsed + 1) .. (MaxFormID + 1) : id \notin allocated}
FreeIDsByRecords == {id \in FormID : id \notin RecordIDs \cup IDs(building)}

FreeIDs == {id \in (lastUsed + 1) .. MaxFormID : id \notin allocated}

\* GetLowestAvailableFormID: the least free ID; none left means it throws
LowestAvailableFormID == {id \in FreeIDs : \A other \in FreeIDs : id <= other}

Reserve(id) ==
    /\ allocated' = allocated \cup {id}
    /\ lastUsed' = id

\* A call throws before it changes anything, no ID being left for instance: the C++
\* wrapper rethrows and the run ends without a plugin.  GenerateSeasonalDuplicates is not
\* here: it catches what a request throws.
CallThrows ==
    /\ phase \in {"collect", "patch", "ensure"}
    /\ phase' = "aborted"
    /\ UNCHANGED <<allocation, cache, records, grassCache, pending, building, light>>

-----------------------------------------------------------------------------
(* While it walks the landscape textures, SeasonPatcher asks once for each   *)
(* (grass, season) it meets.                                                 *)

Asked(g, s) == \E c \in grassCache : c.grass = g /\ c.season = s

RememberGrass(g, s, id) ==
    grassCache' = grassCache \cup {[grass |-> g, season |-> s, id |-> id]}

\* A mutant: the ID a grass duplicate takes is not reserved.
DuplicateGrassUnreserved(g, s) ==
    /\ phase = "collect" /\ ~Asked(g, s)
    /\ \E id \in LowestAvailableFormID :
           /\ grassRecords' = grassRecords \cup {[id |-> id, grass |-> g, season |-> s]}
           /\ RememberGrass(g, s, id)
    /\ UNCHANGED <<phase, allocation, cache, textureSets, defaultPatched, duplicates,
                   pending, building, light>>

DuplicateGrass(g, s) ==
    /\ phase = "collect" /\ ~Asked(g, s)
    /\ \E id \in LowestAvailableFormID :
           /\ Reserve(id)
           /\ grassRecords' = grassRecords \cup {[id |-> id, grass |-> g, season |-> s]}
           /\ RememberGrass(g, s, id)
    /\ UNCHANGED <<phase, cache, textureSets, defaultPatched, duplicates, pending,
                   building, light>>

\* the duplicated grass has no Model: its ID stays reserved, no record is added
DuplicateGrassWithoutModel(g, s) ==
    /\ phase = "collect" /\ ~Asked(g, s)
    /\ \E id \in LowestAvailableFormID : Reserve(id)
    /\ RememberGrass(g, s, 0)
    /\ UNCHANGED <<phase, cache, records, pending, building, light>>

\* a mod ships the seasonal grass, or there is no seasonal mesh for it
NoGrassDuplicate(g, s) ==
    /\ phase = "collect" /\ ~Asked(g, s)
    /\ RememberGrass(g, s, 0)
    /\ UNCHANGED <<phase, allocation, cache, records, pending, building, light>>

\* the record is malformed: Duplicate() throws once the ID is reserved
DuplicateGrassThrows(g, s) ==
    /\ phase = "collect" /\ ~Asked(g, s)
    /\ phase' = "aborted"
    /\ \E id \in LowestAvailableFormID : Reserve(id)
    /\ UNCHANGED <<cache, records, grassCache, pending, building, light>>

\* every grass of a landscape request has been asked for when the walk ends
EndCollect ==
    /\ phase = "collect"
    /\ \A r \in pending : \A g \in r.grasses : Asked(g, r.season)
    /\ phase' = "patch"
    /\ UNCHANGED <<allocation, cache, records, grassCache, pending, building, light>>

-----------------------------------------------------------------------------
(* The two landscape fallbacks *)

\* an override of a record of TerrainHelper.esp, a no-op without that plugin
PatchLandscapeDefaultParallax ==
    /\ phase = "patch" /\ phase' = "ensure"
    /\ defaultPatched' \in BOOLEAN
    /\ UNCHANGED <<allocation, cache, textureSets, duplicates, grassRecords, grassCache,
                   pending, building, light>>

DefaultPBRLand(id, slots) ==
    [id |-> id, slots |-> slots, edid |-> <<"DefaultPBRLand", "">>]

EnsureDefaultPBRLand(slots) ==
    /\ phase = "ensure" /\ phase' = "generate"
    /\ \E id \in LowestAvailableFormID :
           /\ Reserve(id)
           /\ textureSets' = textureSets \cup {DefaultPBRLand(id, slots)}
    /\ UNCHANGED <<cache, defaultPatched, duplicates, grassRecords, grassCache, pending,
                   building, light>>

\* the default landscape is not PBR, or a mod has its own DefaultPBRLand
NoDefaultPBRLand ==
    /\ phase = "ensure" /\ phase' = "generate"
    /\ UNCHANGED <<allocation, cache, records, grassCache, pending, building, light>>

-----------------------------------------------------------------------------
(* GenerateSeasonalDuplicates *)

\* A record without a Model takes no override.
Overrides(r) == IF r.base \in ModelLess /\ r.type # "LTEX" THEN << >> ELSE r.overrides

\* the duplicate takes and reserves its own ID before any texture set does
BeginRequest(r) ==
    /\ phase = "generate" /\ building = {} /\ r \in pending
    /\ pending' = pending \ {r}
    /\ \E id \in LowestAvailableFormID :
           /\ Reserve(id)
           /\ building' = {[id |-> id, req |-> r, next |-> 1,
                            textures |-> [s \in Shape |-> 0]]}
    /\ UNCHANGED <<phase, cache, records, grassCache, light>>

\* Duplicate() throws on a malformed record, or the record has another type:
\* logged, and the reserved ID is not given back
AbandonRequest(r) ==
    /\ phase = "generate" /\ building = {} /\ r \in pending
    /\ pending' = pending \ {r}
    /\ \E id \in LowestAvailableFormID : Reserve(id)
    /\ UNCHANGED <<phase, cache, records, grassCache, building, light>>

\* the record no longer resolves, or no ID is left for it
SkipRequest(r) ==
    /\ phase = "generate" /\ building = {} /\ r \in pending
    /\ pending' = pending \ {r}
    /\ UNCHANGED <<phase, allocation, cache, records, grassCache, building, light>>

\* NewTextureSets compares slot arrays element by element.
\* A mutant: only the diffuse slot is compared.
CacheKeyDiffuseOnly(slots) == CHOOSE t \in Slots : DiffuseOf[t] = DiffuseOf[slots]

CacheKey(slots) == slots

\* the EditorID GetOrCreateSeasonalTXST builds for the request at hand
SeasonalEditorID(r, slots) ==
    CASE r.type = "LTEX" /\ r.txstEdid # NoName -> <<r.txstEdid, r.season>>
      [] r.type = "LTEX" /\ r.txstEdid = NoName -> <<DiffuseOf[slots], "ltex">>
      [] OTHER -> <<DiffuseOf[slots], "">>

PointAt(b, o, id) ==
    [b EXCEPT !.next = @ + 1, !.textures = [@ EXCEPT ![o.shape] = id]]

ReuseTextureSet(b, o) ==
    /\ building' = {PointAt(b, o, cache[CacheKey(o.slots)])}
    /\ UNCHANGED <<allocation, cache, textureSets>>

CreateTextureSet(b, o, id) ==
    /\ textureSets' = textureSets \cup {[id |-> id, slots |-> o.slots,
                                         edid |-> SeasonalEditorID(b.req, o.slots)]}
    /\ Reserve(id)
    /\ cache' = [cache EXCEPT ![CacheKey(o.slots)] = id]
    /\ building' = {PointAt(b, o, id)}

\* one turn of the loop over the request's shape overrides
ApplyOverride ==
    /\ phase = "generate"
    /\ \E b \in building :
           /\ b.next <= Len(Overrides(b.req))
           /\ LET o == Overrides(b.req)[b.next]
              IN  \/ /\ cache[CacheKey(o.slots)] # 0
                     /\ ReuseTextureSet(b, o)
                  \/ /\ cache[CacheKey(o.slots)] = 0
                     /\ \E id \in LowestAvailableFormID : CreateTextureSet(b, o, id)
    /\ UNCHANGED <<phase, defaultPatched, duplicates, grassRecords, grassCache, pending,
                   light>>

\* The texture sets the request at hand put in and no finished duplicate uses.
OnlyHere == {t \in textureSets : /\ \E b \in building, x \in Shape : b.textures[x] = t.id
                                 /\ \A d \in duplicates, x \in Shape : d.textures[x] # t.id}

\* Two mutants: a failed request takes its texture sets out of the plugin but leaves them in
\* the cache, or out of the cache but leaves them in the plugin.
RequestThrowsUndoesRecords ==
    /\ phase = "generate" /\ building # {} /\ building' = {}
    /\ textureSets' = textureSets \ OnlyHere
    /\ UNCHANGED <<phase, allocation, cache, defaultPatched, duplicates, grassRecords,
                   grassCache, pending, light>>

RequestThrowsUndoesCache ==
    /\ phase = "generate" /\ building # {} /\ building' = {}
    /\ cache' = [s \in Slots |-> IF cache[s] \in IDs(OnlyHere) THEN 0 ELSE cache[s]]
    /\ UNCHANGED <<phase, allocation, records, grassCache, pending, light>>

\* Anything thrown while the duplicate is worked on, whether no ID is left, a shape or a
\* grass cannot be read or the record cannot be added, is caught around the whole request:
\* logged, and what the request made before stays, cached and reserved.
RequestThrows ==
    /\ phase = "generate" /\ building # {}
    /\ building' = {}
    /\ UNCHANGED <<phase, allocation, cache, records, grassCache, pending, light>>

\* the grass list of a landscape request: what the grass cache answered
GrassesOf(r) == {c.id : c \in {c \in grassCache : /\ c.grass \in r.grasses
                                                  /\ c.season = r.season
                                                  /\ c.id # 0}}

FinishRequest ==
    /\ phase = "generate"
    /\ \E b \in building :
           /\ b.next > Len(Overrides(b.req))
           /\ duplicates' = duplicates \cup
                  {[id |-> b.id, req |-> b.req, textures |-> b.textures,
                    grasses |-> GrassesOf(b.req)]}
    /\ building' = {}
    /\ UNCHANGED <<phase, allocation, cache, textureSets, defaultPatched, grassRecords,
                   grassCache, pending, light>>

-----------------------------------------------------------------------------
(* Finalize *)

\* the FormIDs of every record of the plugin, of the override too
\* A mutant: the texture sets are forgotten.
WrittenIDsWithoutTextureSets ==
    IDs(duplicates) \cup IDs(grassRecords)
        \cup (IF defaultPatched THEN {LandscapeDefaultID} ELSE {})

WrittenIDs ==
    RecordIDs \cup (IF defaultPatched THEN {LandscapeDefaultID} ELSE {})

AllServed == phase = "generate" /\ pending = {} /\ building = {}

Finalize ==
    /\ AllServed /\ WrittenIDs # {}
    /\ light' = (\A id \in WrittenIDs : id <= LightMax)
    /\ phase' = "written"
    /\ UNCHANGED <<allocation, cache, records, grassCache, pending, building>>

FinalizeNothing ==
    /\ AllServed /\ WrittenIDs = {}
    /\ phase' = "empty"
    /\ UNCHANGED <<allocation, cache, records, grassCache, pending, building, light>>

\* the write fails after the flags were set
FinalizeThrows ==
    /\ AllServed /\ WrittenIDs # {}
    /\ light' = (\A id \in WrittenIDs : id <= LightMax)
    /\ phase' = "aborted"
    /\ UNCHANGED <<allocation, cache, records, grassCache, pending, building>>

-----------------------------------------------------------------------------

Init ==
    /\ phase = "collect"
    /\ allocated = {} /\ lastUsed = 1
    /\ cache = [s \in Slots |-> 0]
    /\ textureSets = {} /\ duplicates = {} /\ grassRecords = {}
    /\ defaultPatched = FALSE
    /\ grassCache = {}
    /\ pending \in SUBSET Requests
    /\ building = {}
    /\ light = FALSE

CollectNext ==
    \/ \E g \in Grass, s \in Season :
           \/ DuplicateGrass(g, s)
           \/ DuplicateGrassWithoutModel(g, s)
           \/ NoGrassDuplicate(g, s)
           \/ DuplicateGrassThrows(g, s)
    \/ EndCollect

DefaultsNext ==
    \/ PatchLandscapeDefaultParallax
    \/ \E slots \in Slots : EnsureDefaultPBRLand(slots)
    \/ NoDefaultPBRLand

GenerateNext ==
    \/ \E r \in Requests : \/ BeginRequest(r)
                           \/ AbandonRequest(r)
                           \/ SkipRequest(r)
    \/ ApplyOverride
    \/ RequestThrows
    \/ FinishRequest

FinalizeNext == Finalize \/ FinalizeNothing \/ FinalizeThrows

Next == CallThrows \/ CollectNext \/ DefaultsNext \/ GenerateNext \/ FinalizeNext

Spec == Init /\ [][Next]_vars

-----------------------------------------------------------------------------
(* What the plugin must satisfy *)

\* Types of the backend's state and of the plugin it builds.
TypeOK ==
    /\ phase \in Phases
    /\ allocated \in SUBSET FormID /\ lastUsed \in 1 .. MaxFormID
    /\ cache \in [Slots -> FormID \cup {0}]
    /\ textureSets \in SUBSET TextureSet
    /\ defaultPatched \in BOOLEAN
    /\ duplicates \in SUBSET Duplicate
    /\ grassRecords \in SUBSET GrassRecord
    /\ grassCache \in SUBSET [grass : Grass, season : Season, id : FormID \cup {0}]
    /\ pending \in SUBSET Requests
    /\ building \in SUBSET Building
    /\ light \in BOOLEAN

\* No two records of the plugin have the same FormID, whatever their type, and the record
\* under construction shares its FormID with none: every allocation site reserves what the
\* scan found before the next scan (the duplicate-FormID bug of release 1.2.2).
UniqueFormIDs ==
    /\ \A s, t \in textureSets : s.id = t.id => s = t
    /\ \A d, e \in duplicates : d.id = e.id => d = e
    /\ \A g, h \in grassRecords : g.id = h.id => g = h
    /\ IDs(textureSets) \cap IDs(duplicates) = {}
    /\ IDs(textureSets) \cap IDs(grassRecords) = {}
    /\ IDs(duplicates) \cap IDs(grassRecords) = {}
    /\ IDs(building) \cap RecordIDs = {}

\* Every texture set and every grass of its own that a duplicate of the plugin refers to is
\* a record of the plugin, although requests fail half-way, texture sets are shared through
\* a cache and grass is duplicated long before the landscape record that lists it.
NoDanglingReference ==
    \A d \in duplicates :
        /\ \A s \in Shape : d.textures[s] # 0 => d.textures[s] \in IDs(textureSets)
        /\ d.grasses \subseteq IDs(grassRecords)

\* A shape of a finished duplicate shows exactly the eight textures the last override for it
\* asked for, even when the texture set was created for another record or request.
TexturesAsRequested ==
    \A d \in duplicates :
        LET over == Overrides(d.req)
        IN  \A i \in DOMAIN over :
                (\A j \in DOMAIN over : j > i => over[j].shape # over[i].shape)
                    => \E t \in textureSets : /\ t.id = d.textures[over[i].shape]
                                              /\ t.slots = over[i].slots

\* Seasonal texture sets are shared: the plugin never has two with the same eight textures,
\* also not after a request that created one has failed and later requests ask for it again.
OneTextureSetPerSlots ==
    \A s, t \in textureSets :
        s.slots = t.slots /\ "DefaultPBRLand" \notin {s.edid[1], t.edid[1]} => s = t

\* A plugin written with the light flag has no FormID past the light range, whichever group
\* the record is in.
LightPluginFits ==
    phase = "written" /\ light => \A id \in RecordIDs : id <= LightMax

\* The FormID a record got stays its FormID, and one that was reserved once, for a request
\* that failed too, is never handed out again: no step drops or renumbers a record.
AddsRecords ==
    /\ textureSets \subseteq textureSets' /\ duplicates \subseteq duplicates'
    /\ grassRecords \subseteq grassRecords'
    /\ \A id \in RecordIDs' \cup IDs(building') :
           id \in RecordIDs \cup IDs(building) \/ id \notin allocated

RecordsOnlyAdded == [][AddsRecords]_vars

\* The EditorID under which SeasonPatcher clones a PBRTextureSets config is the EditorID of
\* the texture set the landscape duplicate got ("must match exactly", SeasonPatcher.cpp).
ConfigNamesTextureSet ==
    \A d \in duplicates :
        d.req.pbr => \E t \in textureSets :
                        /\ \E s \in Shape : d.textures[s] = t.id
                        /\ t.edid = <<d.req.txstEdid, d.req.season>>

=============================================================================
