------------------------- MODULE SeasonsPluginProofs -------------------------
(* Proofs about SeasonsPlugin for every load order, every set of requests and   *)
(* every FormID range.                                                          *)
EXTENDS SeasonsPlugin, TLAPS

-----------------------------------------------------------------------------
(* Types *)

\* What the scan of GetLowestAvailableFormID returns is a FormID of the plugin past the last
\* one used.
LEMMA LowestIsFormID ==
    ASSUME TypeOK, NEW id \in LowestAvailableFormID
    PROVE  id \in FormID /\ id > lastUsed /\ id <= MaxFormID
BY PluginAssumption DEF TypeOK, LowestAvailableFormID, FreeIDs, FormID

\* Reserving the scan's result keeps the allocator's state typed.
LEMMA ReserveTyped ==
    ASSUME TypeOK, NEW id \in LowestAvailableFormID, Reserve(id)
    PROVE  allocated' \in SUBSET FormID /\ lastUsed' \in 1 .. MaxFormID
<1>1. id \in FormID /\ id \in 1 .. MaxFormID
  BY LowestIsFormID, PluginAssumption DEF FormID
<1>2. allocated \in SUBSET FormID
  BY DEF TypeOK
<1>. QED BY <1>1, <1>2 DEF Reserve

\* The overrides of a request are a sequence of overrides, also when its record has no Model.
LEMMA OverridesTyped ==
    ASSUME NEW r \in Requests
    PROVE  Overrides(r) \in Seq(Override)
BY PluginAssumption DEF Overrides, RequestType

\* The override a duplicate under construction has come to.
LEMMA NextOverride ==
    ASSUME NEW b \in Building, b.next <= Len(Overrides(b.req))
    PROVE  /\ b.next \in DOMAIN Overrides(b.req)
           /\ Overrides(b.req)[b.next] \in Override
           /\ Overrides(b.req)[b.next].slots \in Slots
<1>1. Overrides(b.req) \in Seq(Override) /\ b.next \in Nat \ {0}
  BY OverridesTyped DEF Building
<1>2. b.next \in 1 .. Len(Overrides(b.req))
  BY <1>1
<1>3. Overrides(b.req)[b.next] \in Override
  BY <1>1, <1>2
<1>. QED BY <1>1, <1>2, <1>3 DEF Override

\* The EditorID built for a texture set is an EditorID.
LEMMA SeasonalEditorIDTyped ==
    ASSUME NEW r \in Requests, NEW slots \in Slots
    PROVE  SeasonalEditorID(r, slots) \in EditorID
<1>1. r \in RequestType /\ DiffuseOf[slots] \in TextureName
  BY PluginAssumption
<1>2. /\ r.txstEdid \in TextureName \cup {NoName}
      /\ r.season \in Season
  BY <1>1 DEF RequestType
<1>3. CASE r.type = "LTEX" /\ r.txstEdid # NoName
  BY <1>2, <1>3 DEF SeasonalEditorID, EditorID
<1>4. CASE r.type = "LTEX" /\ r.txstEdid = NoName
  BY <1>1, <1>4 DEF SeasonalEditorID, EditorID
<1>5. CASE r.type # "LTEX"
  BY <1>1, <1>5 DEF SeasonalEditorID, EditorID
<1>. QED BY <1>3, <1>4, <1>5

\* Pointing a shape of the duplicate under construction at a texture set keeps it typed.
LEMMA PointAtTyped ==
    ASSUME NEW b \in Building, NEW o \in Override, NEW id \in FormID \cup {0}
    PROVE  PointAt(b, o, id) \in Building
<1>1. /\ b.next + 1 \in Nat \ {0}
      /\ [b.textures EXCEPT ![o.shape] = id] \in [Shape -> FormID \cup {0}]
  BY DEF Building, Override
<1>. QED BY <1>1 DEF PointAt, Building

\* The grass cache answers with FormIDs.
LEMMA GrassesOfTyped ==
    ASSUME TypeOK, NEW r \in Requests
    PROVE  GrassesOf(r) \in SUBSET FormID
BY DEF TypeOK, GrassesOf

\* At the start the plugin is empty and the scan begins at 2.
LEMMA InitTyped == Init => TypeOK
<1> SUFFICES ASSUME Init PROVE TypeOK
  OBVIOUS
<1>1. lastUsed \in 1 .. MaxFormID
  BY PluginAssumption DEF Init
<1>2. cache \in [Slots -> FormID \cup {0}]
  BY DEF Init
<1>. QED BY <1>1, <1>2 DEF Init, TypeOK, Phases

\* Asking for grass duplicates keeps the types, also when a call throws half-way.
LEMMA CollectTyped == TypeOK /\ CollectNext => TypeOK'
<1> SUFFICES ASSUME TypeOK, CollectNext PROVE TypeOK'
  OBVIOUS
<1> USE DEF Phases
<1>1. ASSUME NEW g \in Grass, NEW s \in Season, DuplicateGrass(g, s) PROVE TypeOK'
  <2>1. PICK id \in LowestAvailableFormID :
            /\ Reserve(id)
            /\ grassRecords' = grassRecords \cup {[id |-> id, grass |-> g, season |-> s]}
            /\ RememberGrass(g, s, id)
    BY <1>1 DEF DuplicateGrass
  <2>2. id \in FormID
    BY LowestIsFormID
  <2>3. allocated' \in SUBSET FormID /\ lastUsed' \in 1 .. MaxFormID
    BY <2>1, ReserveTyped
  <2>4. grassRecords' \in SUBSET GrassRecord
    BY <2>1, <2>2 DEF TypeOK, GrassRecord
  <2>5. grassCache' \in SUBSET [grass : Grass, season : Season, id : FormID \cup {0}]
    BY <2>1, <2>2 DEF TypeOK, RememberGrass
  <2>. QED BY <1>1, <2>3, <2>4, <2>5 DEF TypeOK, DuplicateGrass
<1>2. ASSUME NEW g \in Grass, NEW s \in Season, DuplicateGrassWithoutModel(g, s)
      PROVE  TypeOK'
  <2>1. allocated' \in SUBSET FormID /\ lastUsed' \in 1 .. MaxFormID
    BY <1>2, ReserveTyped DEF DuplicateGrassWithoutModel
  <2>2. grassCache' \in SUBSET [grass : Grass, season : Season, id : FormID \cup {0}]
    BY <1>2 DEF DuplicateGrassWithoutModel, TypeOK, RememberGrass
  <2>. QED BY <1>2, <2>1, <2>2 DEF TypeOK, DuplicateGrassWithoutModel, records
<1>3. ASSUME NEW g \in Grass, NEW s \in Season, NoGrassDuplicate(g, s) PROVE TypeOK'
  <2>1. grassCache' \in SUBSET [grass : Grass, season : Season, id : FormID \cup {0}]
    BY <1>3 DEF NoGrassDuplicate, TypeOK, RememberGrass
  <2>. QED BY <1>3, <2>1 DEF TypeOK, NoGrassDuplicate, records, allocation
<1>4. ASSUME NEW g \in Grass, NEW s \in Season, DuplicateGrassThrows(g, s) PROVE TypeOK'
  <2>1. allocated' \in SUBSET FormID /\ lastUsed' \in 1 .. MaxFormID
    BY <1>4, ReserveTyped DEF DuplicateGrassThrows
  <2>. QED BY <1>4, <2>1 DEF TypeOK, DuplicateGrassThrows, records
<1>5. ASSUME EndCollect PROVE TypeOK'
  BY <1>5 DEF EndCollect, TypeOK, records, allocation
<1>. QED BY <1>1, <1>2, <1>3, <1>4, <1>5 DEF CollectNext

\* The two landscape fallbacks keep the types.
LEMMA DefaultsTyped == TypeOK /\ DefaultsNext => TypeOK'
<1> SUFFICES ASSUME TypeOK, DefaultsNext PROVE TypeOK'
  OBVIOUS
<1> USE DEF Phases
<1>1. ASSUME PatchLandscapeDefaultParallax PROVE TypeOK'
  BY <1>1 DEF PatchLandscapeDefaultParallax, TypeOK, allocation
<1>2. ASSUME NEW slots \in Slots, EnsureDefaultPBRLand(slots) PROVE TypeOK'
  <2>1. PICK id \in LowestAvailableFormID :
            Reserve(id) /\ textureSets' = textureSets \cup {DefaultPBRLand(id, slots)}
    BY <1>2 DEF EnsureDefaultPBRLand
  <2>2. allocated' \in SUBSET FormID /\ lastUsed' \in 1 .. MaxFormID
    BY <2>1, ReserveTyped
  <2>3. DefaultPBRLand(id, slots) \in TextureSet
    BY LowestIsFormID DEF DefaultPBRLand, TextureSet, EditorID
  <2>. QED BY <1>2, <2>1, <2>2, <2>3 DEF TypeOK, EnsureDefaultPBRLand
<1>3. ASSUME NoDefaultPBRLand PROVE TypeOK'
  BY <1>3 DEF NoDefaultPBRLand, TypeOK, records, allocation
<1>. QED BY <1>1, <1>2, <1>3 DEF DefaultsNext

\* GenerateSeasonalDuplicates keeps the types, request by request and override by override.
LEMMA GenerateTyped == TypeOK /\ GenerateNext => TypeOK'
<1> SUFFICES ASSUME TypeOK, GenerateNext PROVE TypeOK'
  OBVIOUS
<1>1. ASSUME NEW r \in Requests, BeginRequest(r) PROVE TypeOK'
  <2>1. PICK id \in LowestAvailableFormID :
            /\ Reserve(id)
            /\ building' = {[id |-> id, req |-> r, next |-> 1,
                             textures |-> [s \in Shape |-> 0]]}
    BY <1>1 DEF BeginRequest
  <2>2. allocated' \in SUBSET FormID /\ lastUsed' \in 1 .. MaxFormID
    BY <2>1, ReserveTyped
  <2>3. building' \in SUBSET Building
    BY <2>1, LowestIsFormID DEF Building
  <2>. QED BY <1>1, <2>2, <2>3 DEF TypeOK, BeginRequest, records
<1>2. ASSUME NEW r \in Requests, AbandonRequest(r) PROVE TypeOK'
  <2>1. allocated' \in SUBSET FormID /\ lastUsed' \in 1 .. MaxFormID
    BY <1>2, ReserveTyped DEF AbandonRequest
  <2>. QED BY <1>2, <2>1 DEF TypeOK, AbandonRequest, records
<1>3. ASSUME NEW r \in Requests, SkipRequest(r) PROVE TypeOK'
  BY <1>3 DEF SkipRequest, TypeOK, records, allocation
<1>4. ASSUME ApplyOverride PROVE TypeOK'
  <2>1. PICK b \in building :
            /\ b.next <= Len(Overrides(b.req))
            /\ LET o == Overrides(b.req)[b.next]
               IN  \/ /\ cache[CacheKey(o.slots)] # 0
                      /\ ReuseTextureSet(b, o)
                   \/ /\ cache[CacheKey(o.slots)] = 0
                      /\ \E id \in LowestAvailableFormID : CreateTextureSet(b, o, id)
    BY <1>4 DEF ApplyOverride
  <2> DEFINE o == Overrides(b.req)[b.next]
  <2>2. b \in Building /\ b.req \in Requests /\ b.next \in Nat \ {0}
    BY DEF TypeOK, Building
  <2>3. o \in Override /\ o.slots \in Slots
    BY <2>1, <2>2, NextOverride
  <2> HIDE DEF o
  <2>4. CASE ReuseTextureSet(b, o)
    <3>1. cache[CacheKey(o.slots)] \in FormID \cup {0}
      BY <2>3 DEF TypeOK, CacheKey
    <3>2. building' \in SUBSET Building
      BY <2>2, <2>3, <2>4, <3>1, PointAtTyped DEF ReuseTextureSet
    <3>. QED BY <1>4, <2>4, <3>2 DEF TypeOK, ApplyOverride, ReuseTextureSet, allocation
  <2>5. ASSUME NEW id \in LowestAvailableFormID, CreateTextureSet(b, o, id) PROVE TypeOK'
    <3>1. id \in FormID
      BY LowestIsFormID
    <3>2. allocated' \in SUBSET FormID /\ lastUsed' \in 1 .. MaxFormID
      BY <2>5, ReserveTyped DEF CreateTextureSet
    <3>3. [id |-> id, slots |-> o.slots, edid |-> SeasonalEditorID(b.req, o.slots)]
              \in TextureSet
      BY <2>2, <2>3, <3>1, SeasonalEditorIDTyped DEF TextureSet
    <3>4. textureSets' \in SUBSET TextureSet
      BY <2>5, <3>3 DEF TypeOK, CreateTextureSet
    <3>5. cache' \in [Slots -> FormID \cup {0}]
      BY <2>5, <3>1 DEF TypeOK, CreateTextureSet
    <3>6. building' \in SUBSET Building
      BY <2>2, <2>3, <2>5, <3>1, PointAtTyped DEF CreateTextureSet
    <3>. QED BY <1>4, <3>2, <3>4, <3>5, <3>6 DEF TypeOK, ApplyOverride
  <2>. QED BY <2>1, <2>4, <2>5 DEF o
<1>5. ASSUME RequestThrows PROVE TypeOK'
  BY <1>5 DEF RequestThrows, TypeOK, records, allocation
<1>6. ASSUME FinishRequest PROVE TypeOK'
  <2>1. PICK b \in building : duplicates' = duplicates \cup
                  {[id |-> b.id, req |-> b.req, textures |-> b.textures,
                    grasses |-> GrassesOf(b.req)]}
    BY <1>6 DEF FinishRequest
  <2>2. /\ b.id \in FormID /\ b.req \in Requests
        /\ b.textures \in [Shape -> FormID \cup {0}]
    BY DEF TypeOK, Building
  <2>3. duplicates' \in SUBSET Duplicate
    BY <2>1, <2>2, GrassesOfTyped DEF TypeOK, Duplicate
  <2>. QED BY <1>6, <2>3 DEF TypeOK, FinishRequest, allocation
<1>. QED BY <1>1, <1>2, <1>3, <1>4, <1>5, <1>6 DEF GenerateNext

\* Finalize flags and writes, or gives up: it touches no record.
LEMMA FinalizeTyped == TypeOK /\ FinalizeNext => TypeOK'
BY DEF FinalizeNext, Finalize, FinalizeNothing, FinalizeThrows, TypeOK, Phases, records,
       allocation

\* Every step of the backend keeps the types.
LEMMA StepTyped == TypeOK /\ [Next]_vars => TypeOK'
<1> SUFFICES ASSUME TypeOK, [Next]_vars PROVE TypeOK'
  OBVIOUS
<1>1. CASE CallThrows
  BY <1>1 DEF CallThrows, TypeOK, Phases, records, allocation
<1>2. CASE UNCHANGED vars
  BY <1>2 DEF vars, TypeOK, records, allocation
<1>. QED
  BY <1>1, <1>2, CollectTyped, DefaultsTyped, GenerateTyped, FinalizeTyped DEF Next

\* The state of the backend is well typed whatever the load order and the requests are: no
\* call leaves a FormID outside the plugin's range, in a record, the cache or the counters.
THEOREM TypeCorrect == Spec => []TypeOK
BY InitTyped, StepTyped, PTL DEF Spec

-----------------------------------------------------------------------------
(* The inductive invariant *)

\* what was reserved is behind the counter, what was used was reserved
ReservedBeforeUse ==
    /\ \A id \in allocated : id <= lastUsed
    /\ RecordIDs \cup IDs(building) \subseteq allocated

OneBuilding == \A b, c \in building : b = c

\* the cache knows exactly the texture sets created for overrides
CacheSound ==
    \A slots \in Slots :
        cache[slots] # 0 => \E t \in textureSets : t.id = cache[slots] /\ t.slots = slots

CacheComplete ==
    \A t \in textureSets : t.edid[1] # "DefaultPBRLand" => cache[t.slots] = t.id

BuildingRefers ==
    \A b \in building : \A s \in Shape :
        b.textures[s] # 0 => b.textures[s] \in IDs(textureSets)

GrassCacheSound == \A c \in grassCache : c.id # 0 => c.id \in IDs(grassRecords)

\* the shapes show what the last of the first n overrides for them asked for
Shown(textures, over, n) ==
    \A i \in 1 .. n :
        (\A j \in 1 .. n : j > i => over[j].shape # over[i].shape)
            => \E t \in textureSets : /\ t.id = textures[over[i].shape]
                                      /\ t.slots = over[i].slots

BuildingShown ==
    \A b \in building : /\ b.next - 1 <= Len(Overrides(b.req))
                        /\ Shown(b.textures, Overrides(b.req), b.next - 1)

DuplicatesShown ==
    \A d \in duplicates : Shown(d.textures, Overrides(d.req), Len(Overrides(d.req)))

IInv ==
    /\ TypeOK
    /\ ReservedBeforeUse
    /\ UniqueFormIDs /\ OneBuilding
    /\ CacheSound /\ CacheComplete
    /\ BuildingRefers /\ GrassCacheSound /\ NoDanglingReference
    /\ BuildingShown /\ DuplicatesShown
    /\ LightPluginFits

\* The empty plugin satisfies the invariant.
LEMMA InitInvariant == Init => IInv
<1> SUFFICES ASSUME Init PROVE IInv
  OBVIOUS
<1>1. TypeOK
  BY InitTyped
<1>2. ReservedBeforeUse
  BY DEF Init, ReservedBeforeUse, RecordIDs, IDs
<1>3. UniqueFormIDs /\ OneBuilding
  BY DEF Init, UniqueFormIDs, OneBuilding, RecordIDs, IDs
<1>4. CacheSound /\ CacheComplete
  BY DEF Init, CacheSound, CacheComplete
<1>5. BuildingRefers /\ GrassCacheSound /\ NoDanglingReference
  BY DEF Init, BuildingRefers, GrassCacheSound, NoDanglingReference
<1>6. BuildingShown /\ DuplicatesShown
  BY DEF Init, BuildingShown, DuplicatesShown
<1>7. LightPluginFits
  BY DEF Init, LightPluginFits
<1>. QED BY <1>1, <1>2, <1>3, <1>4, <1>5, <1>6, <1>7 DEF IInv

\* The scan's result is no FormID in use, and reserving it keeps the counter ahead.
LEMMA LowestIsFresh ==
    ASSUME TypeOK, ReservedBeforeUse, NEW id \in LowestAvailableFormID
    PROVE  /\ id \in FormID /\ id # 0
           /\ id \notin RecordIDs \cup IDs(building)
           /\ Reserve(id) => /\ \A a \in allocated' : a <= lastUsed'
                             /\ allocated' = allocated \cup {id}
<1>1. id \in FormID /\ id > lastUsed /\ id # 0 /\ lastUsed \in Nat
  BY LowestIsFormID DEF FormID, TypeOK
<1>2. id \notin allocated
  BY DEF LowestAvailableFormID, FreeIDs
<1>3. \A a \in allocated : a \in Nat /\ a <= lastUsed
  BY DEF TypeOK, FormID, ReservedBeforeUse
<1>4. Reserve(id) => \A a \in allocated' : a <= lastUsed'
  BY <1>1, <1>3 DEF Reserve, FormID
<1>. QED BY <1>1, <1>2, <1>4 DEF ReservedBeforeUse, Reserve

\* A step that neither adds a record nor starts or goes on with a duplicate: at most it
\* reserves an ID, remembers a grass without a duplicate, or gives a request up.
Quiet ==
    /\ UNCHANGED <<textureSets, duplicates, grassRecords, cache>>
    /\ building' \subseteq building
    /\ \A c \in grassCache' : c \in grassCache \/ c.id = 0
    /\ UNCHANGED allocation \/ \E id \in LowestAvailableFormID : Reserve(id)

\* Every step is quiet or one of the five that add a record or work on a duplicate.
LEMMA StepKinds ==
    ASSUME [Next]_vars
    PROVE  \/ Quiet
           \/ \E g \in Grass, s \in Season : DuplicateGrass(g, s)
           \/ \E slots \in Slots : EnsureDefaultPBRLand(slots)
           \/ \E r \in Requests : BeginRequest(r)
           \/ ApplyOverride
           \/ FinishRequest
<1>1. CASE CallThrows \/ UNCHANGED vars
  BY <1>1 DEF CallThrows, vars, Quiet, records
<1>2. CASE CollectNext
  <2>1. ASSUME NEW g \in Grass, NEW s \in Season, DuplicateGrassWithoutModel(g, s)
        PROVE  Quiet
    BY <2>1 DEF DuplicateGrassWithoutModel, RememberGrass, Quiet, records
  <2>2. ASSUME NEW g \in Grass, NEW s \in Season, NoGrassDuplicate(g, s) PROVE Quiet
    BY <2>2 DEF NoGrassDuplicate, RememberGrass, Quiet, records
  <2>3. ASSUME NEW g \in Grass, NEW s \in Season, DuplicateGrassThrows(g, s) PROVE Quiet
    BY <2>3 DEF DuplicateGrassThrows, Quiet, records
  <2>4. ASSUME EndCollect PROVE Quiet
    BY <2>4 DEF EndCollect, Quiet, records
  <2>. QED BY <1>2, <2>1, <2>2, <2>3, <2>4 DEF CollectNext
<1>3. CASE DefaultsNext
  BY <1>3 DEF DefaultsNext, PatchLandscapeDefaultParallax, NoDefaultPBRLand, Quiet, records
<1>4. CASE GenerateNext
  <2>1. ASSUME NEW r \in Requests, AbandonRequest(r) PROVE Quiet
    BY <2>1 DEF AbandonRequest, Quiet, records
  <2>2. ASSUME NEW r \in Requests, SkipRequest(r) PROVE Quiet
    BY <2>2 DEF SkipRequest, Quiet, records
  <2>3. ASSUME RequestThrows PROVE Quiet
    BY <2>3 DEF RequestThrows, Quiet, records
  <2>. QED BY <1>4, <2>1, <2>2, <2>3 DEF GenerateNext
<1>5. CASE FinalizeNext
  BY <1>5 DEF FinalizeNext, Finalize, FinalizeNothing, FinalizeThrows, Quiet, records
<1>. QED BY <1>1, <1>2, <1>3, <1>4, <1>5 DEF Next

\* Adding a record adds its FormID.
LEMMA IDsOfAdded ==
    ASSUME NEW recs, NEW rec
    PROVE  IDs(recs \cup {rec}) = IDs(recs) \cup {rec.id}
BY DEF IDs

\* What a step for an override does: it shares a texture set the cache knows or adds one.
LEMMA ApplyKinds ==
    ASSUME IInv, ApplyOverride
    PROVE  \E b \in building, o \in Override, t \in FormID :
               /\ o = Overrides(b.req)[b.next]
               /\ b.next \in DOMAIN Overrides(b.req)
               /\ building' = {PointAt(b, o, t)}
               /\ \/ /\ UNCHANGED <<allocation, cache, textureSets>>
                     /\ \E x \in textureSets : x.id = t /\ x.slots = o.slots
                  \/ /\ t \in LowestAvailableFormID /\ Reserve(t)
                     /\ cache[o.slots] = 0
                     /\ cache' = [cache EXCEPT ![o.slots] = t]
                     /\ textureSets' = textureSets \cup
                            {[id |-> t, slots |-> o.slots,
                              edid |-> SeasonalEditorID(b.req, o.slots)]}
<1>1. PICK b \in building :
          /\ b.next <= Len(Overrides(b.req))
          /\ LET o == Overrides(b.req)[b.next]
             IN  \/ /\ cache[CacheKey(o.slots)] # 0
                    /\ ReuseTextureSet(b, o)
                 \/ /\ cache[CacheKey(o.slots)] = 0
                    /\ \E id \in LowestAvailableFormID : CreateTextureSet(b, o, id)
  BY DEF ApplyOverride
<1> DEFINE o == Overrides(b.req)[b.next]
<1>2. TypeOK /\ b \in Building
  BY DEF IInv, TypeOK
<1>4. b.next \in DOMAIN Overrides(b.req)
  BY <1>1, <1>2, NextOverride
<1>5. o \in Override /\ o.slots \in Slots
  BY <1>1, <1>2, NextOverride
<1>6. o = Overrides(b.req)[b.next]
  OBVIOUS
<1> HIDE DEF o
<1>7. CASE cache[o.slots] # 0 /\ ReuseTextureSet(b, o)
  <2>1. PICK x \in textureSets : x.id = cache[o.slots] /\ x.slots = o.slots
    BY <1>5, <1>7 DEF IInv, CacheSound
  <2>2. x.id \in FormID
    BY <1>2 DEF TypeOK, TextureSet
  <2>3. building' = {PointAt(b, o, x.id)} /\ UNCHANGED <<allocation, cache, textureSets>>
    BY <1>7, <2>1 DEF ReuseTextureSet, CacheKey
  <2>. QED BY <1>4, <1>5, <1>6, <2>1, <2>2, <2>3
<1>8. ASSUME cache[o.slots] = 0, NEW id \in LowestAvailableFormID, CreateTextureSet(b, o, id)
      PROVE  /\ building' = {PointAt(b, o, id)} /\ Reserve(id)
             /\ cache' = [cache EXCEPT ![o.slots] = id]
             /\ textureSets' = textureSets \cup
                            {[id |-> id, slots |-> o.slots,
                              edid |-> SeasonalEditorID(b.req, o.slots)]}
  BY <1>8 DEF CreateTextureSet, CacheKey
<1>9. ASSUME NEW id \in LowestAvailableFormID PROVE id \in FormID
  BY <1>2, LowestIsFormID
<1>10. CASE cache[o.slots] = 0 /\ \E id \in LowestAvailableFormID : CreateTextureSet(b, o, id)
  <2>1. PICK id \in LowestAvailableFormID : CreateTextureSet(b, o, id)
    BY <1>10
  <2>2. /\ id \in FormID
        /\ building' = {PointAt(b, o, id)} /\ Reserve(id)
        /\ cache[o.slots] = 0
        /\ cache' = [cache EXCEPT ![o.slots] = id]
        /\ textureSets' = textureSets \cup
                       {[id |-> id, slots |-> o.slots,
                         edid |-> SeasonalEditorID(b.req, o.slots)]}
    BY <1>8, <1>9, <1>10, <2>1
  <2>. QED BY <1>4, <1>5, <1>6, <2>2
<1>. QED BY <1>1, <1>7, <1>10 DEF o, CacheKey

-----------------------------------------------------------------------------
(* The steps that change records, one by one *)

\* A quiet step leaves every record and every reference as it was.
LEMMA QuietKeeps ==
    ASSUME IInv, Quiet
    PROVE  /\ ReservedBeforeUse' /\ UniqueFormIDs' /\ OneBuilding'
           /\ CacheSound' /\ CacheComplete'
           /\ BuildingRefers' /\ GrassCacheSound' /\ NoDanglingReference'
           /\ BuildingShown' /\ DuplicatesShown'
<1>1. /\ UNCHANGED <<textureSets, duplicates, grassRecords, cache>>
      /\ building' \subseteq building
      /\ RecordIDs' = RecordIDs /\ IDs(building)' \subseteq IDs(building)
  BY DEF Quiet, RecordIDs, IDs
<1>2. ReservedBeforeUse'
  <2>1. CASE UNCHANGED allocation
    BY <1>1, <2>1 DEF IInv, ReservedBeforeUse, allocation
  <2>2. CASE \E id \in LowestAvailableFormID : Reserve(id)
    BY <1>1, <2>2, LowestIsFresh DEF IInv, ReservedBeforeUse
  <2>. QED BY <2>1, <2>2 DEF Quiet
<1>3. UniqueFormIDs' /\ OneBuilding'
  BY <1>1 DEF IInv, UniqueFormIDs, OneBuilding, IDs
<1>4. CacheSound' /\ CacheComplete'
  BY <1>1 DEF IInv, CacheSound, CacheComplete
<1>5. BuildingRefers' /\ NoDanglingReference'
  BY <1>1 DEF IInv, BuildingRefers, NoDanglingReference, IDs
<1>6. GrassCacheSound'
  BY <1>1 DEF IInv, GrassCacheSound, IDs, Quiet
<1>7. BuildingShown' /\ DuplicatesShown'
  BY <1>1 DEF IInv, BuildingShown, DuplicatesShown, Shown
<1>. QED BY <1>2, <1>3, <1>4, <1>5, <1>6, <1>7

\* A duplicated grass gets a fresh FormID, and the grass cache tells it.
LEMMA DuplicateGrassKeeps ==
    ASSUME IInv, NEW g \in Grass, NEW s \in Season, DuplicateGrass(g, s)
    PROVE  /\ ReservedBeforeUse' /\ UniqueFormIDs' /\ OneBuilding'
           /\ CacheSound' /\ CacheComplete'
           /\ BuildingRefers' /\ GrassCacheSound' /\ NoDanglingReference'
           /\ BuildingShown' /\ DuplicatesShown'
<1>1. PICK id \in LowestAvailableFormID :
          /\ Reserve(id)
          /\ grassRecords' = grassRecords \cup {[id |-> id, grass |-> g, season |-> s]}
          /\ RememberGrass(g, s, id)
  BY DEF DuplicateGrass
<1>2. UNCHANGED <<textureSets, duplicates, building, cache>>
  BY DEF DuplicateGrass
<1>3. /\ IDs(grassRecords') = IDs(grassRecords) \cup {id}
      /\ RecordIDs' = RecordIDs \cup {id}
  <2>1. IDs(grassRecords') = IDs(grassRecords) \cup {id}
    BY <1>1, IDsOfAdded
  <2>2. RecordIDs' = RecordIDs \cup {id}
    BY <1>2, <2>1 DEF RecordIDs
  <2>. QED BY <2>1, <2>2
<1>4. /\ id \notin RecordIDs \cup IDs(building)
      /\ allocated' = allocated \cup {id}
      /\ \A a \in allocated' : a <= lastUsed'
  BY <1>1, LowestIsFresh DEF IInv
<1>5. ReservedBeforeUse'
  BY <1>2, <1>3, <1>4 DEF IInv, ReservedBeforeUse
<1>6. UniqueFormIDs' /\ OneBuilding'
  <2>1. id \notin IDs(grassRecords) /\ id \notin IDs(textureSets)
        /\ id \notin IDs(duplicates) /\ id \notin IDs(building)
    BY <1>4 DEF RecordIDs
  <2>2. \A h, k \in grassRecords' : h.id = k.id => h = k
    BY <1>1, <2>1 DEF IInv, UniqueFormIDs, IDs
  <2>. QED BY <1>2, <1>3, <2>1, <2>2 DEF IInv, UniqueFormIDs, OneBuilding
<1>7. CacheSound' /\ CacheComplete' /\ BuildingRefers' /\ BuildingShown' /\ DuplicatesShown'
  BY <1>2 DEF IInv, CacheSound, CacheComplete, BuildingRefers, BuildingShown,
              DuplicatesShown, Shown
<1>8. GrassCacheSound' /\ NoDanglingReference'
  BY <1>1, <1>2, <1>3 DEF IInv, GrassCacheSound, NoDanglingReference, RememberGrass
<1>. QED BY <1>5, <1>6, <1>7, <1>8

\* The default landscape texture set gets a fresh FormID and stays out of the cache.
LEMMA EnsureDefaultPBRLandKeeps ==
    ASSUME IInv, NEW slots \in Slots, EnsureDefaultPBRLand(slots)
    PROVE  /\ ReservedBeforeUse' /\ UniqueFormIDs' /\ OneBuilding'
           /\ CacheSound' /\ CacheComplete'
           /\ BuildingRefers' /\ GrassCacheSound' /\ NoDanglingReference'
           /\ BuildingShown' /\ DuplicatesShown'
<1>1. PICK id \in LowestAvailableFormID :
          Reserve(id) /\ textureSets' = textureSets \cup {DefaultPBRLand(id, slots)}
  BY DEF EnsureDefaultPBRLand
<1>2. UNCHANGED <<duplicates, grassRecords, grassCache, building, cache>>
  BY DEF EnsureDefaultPBRLand
<1>3. /\ DefaultPBRLand(id, slots).id = id
      /\ DefaultPBRLand(id, slots).edid[1] = "DefaultPBRLand"
  BY DEF DefaultPBRLand
<1>4. /\ IDs(textureSets') = IDs(textureSets) \cup {id}
      /\ RecordIDs' = RecordIDs \cup {id}
  BY <1>1, <1>2, <1>3 DEF IDs, RecordIDs
<1>5. /\ id \notin RecordIDs \cup IDs(building)
      /\ allocated' = allocated \cup {id}
      /\ \A a \in allocated' : a <= lastUsed'
  BY <1>1, LowestIsFresh DEF IInv
<1>6. ReservedBeforeUse'
  BY <1>2, <1>4, <1>5 DEF IInv, ReservedBeforeUse
<1>7. UniqueFormIDs' /\ OneBuilding'
  <2>1. id \notin IDs(grassRecords) /\ id \notin IDs(textureSets)
        /\ id \notin IDs(duplicates) /\ id \notin IDs(building)
    BY <1>5 DEF RecordIDs
  <2>2. \A t, u \in textureSets' : t.id = u.id => t = u
    BY <1>1, <1>3, <2>1 DEF IInv, UniqueFormIDs, IDs
  <2>. QED BY <1>2, <1>4, <2>1, <2>2 DEF IInv, UniqueFormIDs, OneBuilding, RecordIDs
<1>8. CacheSound' /\ CacheComplete'
  BY <1>1, <1>2, <1>3 DEF IInv, CacheSound, CacheComplete
<1>9. BuildingRefers' /\ GrassCacheSound' /\ NoDanglingReference'
  BY <1>2, <1>4 DEF IInv, BuildingRefers, GrassCacheSound, NoDanglingReference
<1>10. BuildingShown' /\ DuplicatesShown'
  <2>1. textureSets \subseteq textureSets'
    BY <1>1
  <2>2. BuildingShown'
    BY <1>2, <2>1 DEF IInv, BuildingShown, Shown
  <2>3. DuplicatesShown'
    BY <1>2, <2>1 DEF IInv, DuplicatesShown, Shown
  <2>. QED BY <2>2, <2>3
<1>. QED BY <1>6, <1>7, <1>8, <1>9, <1>10

\* A duplicate gets a fresh FormID before any texture set; no shape is overridden yet.
LEMMA BeginRequestKeeps ==
    ASSUME IInv, NEW r \in Requests, BeginRequest(r)
    PROVE  /\ ReservedBeforeUse' /\ UniqueFormIDs' /\ OneBuilding'
           /\ CacheSound' /\ CacheComplete'
           /\ BuildingRefers' /\ GrassCacheSound' /\ NoDanglingReference'
           /\ BuildingShown' /\ DuplicatesShown'
<1> DEFINE new(id) == [id |-> id, req |-> r, next |-> 1, textures |-> [s \in Shape |-> 0]]
<1>1. PICK id \in LowestAvailableFormID : Reserve(id) /\ building' = {new(id)}
  BY DEF BeginRequest
<1>2. UNCHANGED <<textureSets, duplicates, grassRecords, grassCache, cache>>
  BY DEF BeginRequest, records
<1>3. IDs(building') = {id} /\ RecordIDs' = RecordIDs
  <2>1. IDs(building') = {id}
    BY <1>1 DEF IDs
  <2>. QED BY <1>2, <2>1 DEF RecordIDs
<1>4. /\ id \notin RecordIDs \cup IDs(building)
      /\ allocated' = allocated \cup {id}
      /\ \A a \in allocated' : a <= lastUsed'
  BY <1>1, LowestIsFresh DEF IInv
<1>5. ReservedBeforeUse'
  BY <1>3, <1>4 DEF IInv, ReservedBeforeUse
<1>6. UniqueFormIDs' /\ OneBuilding'
  BY <1>1, <1>2, <1>3, <1>4 DEF IInv, UniqueFormIDs, OneBuilding
<1>7. CacheSound' /\ CacheComplete' /\ GrassCacheSound' /\ NoDanglingReference'
      /\ DuplicatesShown'
  BY <1>2 DEF IInv, CacheSound, CacheComplete, GrassCacheSound, NoDanglingReference,
              DuplicatesShown, Shown
<1>8. BuildingRefers' /\ BuildingShown'
  <2>1. Overrides(r) \in Seq(Override)
    BY OverridesTyped
  <2>2. BuildingRefers'
    BY <1>1 DEF BuildingRefers
  <2>3. \A b \in building' : b.next - 1 = 0 /\ b.req = r
    BY <1>1
  <2>. QED BY <2>1, <2>3 , <2>2 DEF BuildingShown, Shown
<1>. QED BY <1>5, <1>6, <1>7, <1>8

\* A duplicate that is added shows all its overrides and refers to records that exist.
LEMMA FinishRequestKeeps ==
    ASSUME IInv, FinishRequest
    PROVE  /\ ReservedBeforeUse' /\ UniqueFormIDs' /\ OneBuilding'
           /\ CacheSound' /\ CacheComplete'
           /\ BuildingRefers' /\ GrassCacheSound' /\ NoDanglingReference'
           /\ BuildingShown' /\ DuplicatesShown'
<1> DEFINE done(b) == [id |-> b.id, req |-> b.req, textures |-> b.textures,
                       grasses |-> GrassesOf(b.req)]
<1>1. PICK b \in building :
          b.next > Len(Overrides(b.req)) /\ duplicates' = duplicates \cup {done(b)}
  BY DEF FinishRequest
<1>2. UNCHANGED <<allocation, textureSets, grassRecords, grassCache, cache>>
      /\ building' = {}
  BY DEF FinishRequest
<1>3. b \in Building /\ b.next \in Nat /\ Overrides(b.req) \in Seq(Override)
  BY OverridesTyped DEF IInv, TypeOK, Building
<1>4. /\ IDs(duplicates') = IDs(duplicates) \cup {b.id}
      /\ RecordIDs' = RecordIDs \cup {b.id}
      /\ IDs(building') = {}
  <2>1. IDs(duplicates') = IDs(duplicates) \cup {b.id}
    BY <1>1, IDsOfAdded
  <2>2. IDs(building') = {}
    BY <1>2 DEF IDs
  <2>. QED BY <1>2, <2>1, <2>2 DEF RecordIDs
<1>5. b.id \in IDs(building) /\ b.id \notin RecordIDs
  <2>1. b.id \in IDs(building)
    BY DEF IDs
  <2>. QED BY <2>1 DEF IInv, UniqueFormIDs
<1>6. ReservedBeforeUse'
  BY <1>2, <1>4, <1>5 DEF IInv, ReservedBeforeUse, allocation
<1>7. UniqueFormIDs' /\ OneBuilding'
  <2>1. b.id \notin IDs(grassRecords) /\ b.id \notin IDs(textureSets)
        /\ b.id \notin IDs(duplicates)
    BY <1>5 DEF RecordIDs
  <2>2. \A d, e \in duplicates' : d.id = e.id => d = e
    BY <1>1, <2>1 DEF IInv, UniqueFormIDs, IDs
  <2>. QED BY <1>2, <1>4, <2>1, <2>2 DEF IInv, UniqueFormIDs, OneBuilding
<1>8. CacheSound' /\ CacheComplete' /\ BuildingRefers' /\ GrassCacheSound' /\ BuildingShown'
  BY <1>2 DEF IInv, CacheSound, CacheComplete, BuildingRefers, GrassCacheSound, BuildingShown
<1>9. NoDanglingReference'
  <2>1. \A s \in Shape : b.textures[s] # 0 => b.textures[s] \in IDs(textureSets)
    BY DEF IInv, BuildingRefers
  <2>2. GrassesOf(b.req) \subseteq IDs(grassRecords)
    BY DEF IInv, GrassCacheSound, GrassesOf
  <2>. QED BY <1>1, <1>2, <2>1, <2>2 DEF IInv, NoDanglingReference
<1>10. DuplicatesShown'
  <2>1. Shown(b.textures, Overrides(b.req), Len(Overrides(b.req)))
    <3>1. b.next - 1 = Len(Overrides(b.req))
      BY <1>1, <1>3 DEF IInv, BuildingShown
    <3>. QED BY <3>1 DEF IInv, BuildingShown
  <2>. QED BY <1>1, <1>2, <2>1 DEF IInv, DuplicatesShown, Shown
<1>. QED BY <1>6, <1>7, <1>8, <1>9, <1>10

\* the record a request's loop goes on with
LEMMA PointAtFields ==
    ASSUME NEW b \in Building, NEW o \in Override, NEW t \in FormID
    PROVE  /\ PointAt(b, o, t).id = b.id /\ PointAt(b, o, t).req = b.req
           /\ PointAt(b, o, t).next = b.next + 1
           /\ PointAt(b, o, t).textures = [b.textures EXCEPT ![o.shape] = t]
BY DEF PointAt, Building

\* An override points a shape at a texture set with its textures, cached or created, and leaves
\* what the other shapes show.
LEMMA ApplyOverrideKeeps ==
    ASSUME IInv, ApplyOverride
    PROVE  /\ ReservedBeforeUse' /\ UniqueFormIDs' /\ OneBuilding'
           /\ CacheSound' /\ CacheComplete'
           /\ BuildingRefers' /\ GrassCacheSound' /\ NoDanglingReference'
           /\ BuildingShown' /\ DuplicatesShown'
<1>1. PICK b \in building, o \in Override, t \in FormID :
          /\ o = Overrides(b.req)[b.next]
          /\ b.next \in DOMAIN Overrides(b.req)
          /\ building' = {PointAt(b, o, t)}
          /\ \/ /\ UNCHANGED <<allocation, cache, textureSets>>
                /\ \E x \in textureSets : x.id = t /\ x.slots = o.slots
             \/ /\ t \in LowestAvailableFormID /\ Reserve(t)
                /\ cache[o.slots] = 0
                /\ cache' = [cache EXCEPT ![o.slots] = t]
                /\ textureSets' = textureSets \cup
                       {[id |-> t, slots |-> o.slots,
                         edid |-> SeasonalEditorID(b.req, o.slots)]}
  BY ApplyKinds
<1> DEFINE new == [id |-> t, slots |-> o.slots, edid |-> SeasonalEditorID(b.req, o.slots)]
           p == PointAt(b, o, t)
<1>2. UNCHANGED <<duplicates, grassRecords, grassCache>>
  BY DEF ApplyOverride
<1>3. /\ b \in Building /\ b.next \in Nat \ {0} /\ b.textures \in [Shape -> FormID \cup {0}]
      /\ Overrides(b.req) \in Seq(Override) /\ o.slots \in Slots /\ o.shape \in Shape
      /\ TypeOK /\ 0 \notin FormID
  <2>1. TypeOK /\ b \in Building
    BY DEF IInv, TypeOK
  <2>2. Overrides(b.req) \in Seq(Override)
    BY <2>1, OverridesTyped DEF Building
  <2>. QED BY <2>1, <2>2 DEF Building, Override, FormID
<1>4. /\ p.id = b.id /\ p.req = b.req /\ p.next = b.next + 1
      /\ p.textures = [b.textures EXCEPT ![o.shape] = t]
  BY <1>3, PointAtFields
<1>5. IDs(building') = {b.id} /\ b.id \in IDs(building)
  BY <1>1, <1>4 DEF IDs
<1> HIDE DEF p
<1>6. textureSets \subseteq textureSets' /\ \E x \in textureSets' : x.id = t /\ x.slots = o.slots
  <2>1. CASE /\ UNCHANGED textureSets
             /\ \E x \in textureSets : x.id = t /\ x.slots = o.slots
    BY <2>1
  <2>2. CASE textureSets' = textureSets \cup {new}
    <3>1. new \in textureSets' /\ new.id = t /\ new.slots = o.slots
      BY <2>2
    <3>2. textureSets \subseteq textureSets'
      BY <2>2
    <3>. QED BY <3>1, <3>2
  <2>. QED BY <1>1, <2>1, <2>2
<1>7. IDs(textureSets) \subseteq IDs(textureSets') /\ t \in IDs(textureSets')
  BY <1>6 DEF IDs
<1>8. ASSUME /\ t \in LowestAvailableFormID /\ Reserve(t)
             /\ cache[o.slots] = 0
             /\ cache' = [cache EXCEPT ![o.slots] = t]
             /\ textureSets' = textureSets \cup {new}
      PROVE  ReservedBeforeUse' /\ UniqueFormIDs' /\ CacheSound' /\ CacheComplete'
  <2>1. new.id = t /\ new.slots = o.slots
    OBVIOUS
  <2> HIDE DEF new
  <2>2. IDs(textureSets') = IDs(textureSets) \cup {t}
    BY <1>8, <2>1, IDsOfAdded
  <2>3. RecordIDs' = RecordIDs \cup {t}
    BY <1>2, <2>2 DEF RecordIDs
  <2>4. /\ t \notin RecordIDs \cup IDs(building)
        /\ allocated' = allocated \cup {t}
        /\ \A a \in allocated' : a <= lastUsed'
    BY <1>8, LowestIsFresh DEF IInv
  <2>5. ReservedBeforeUse'
    BY <1>5, <2>3, <2>4 DEF IInv, ReservedBeforeUse
  <2>6. t \notin IDs(grassRecords) /\ t \notin IDs(textureSets)
        /\ t \notin IDs(duplicates) /\ t # b.id
    BY <1>5, <2>4 DEF RecordIDs
  <2>7. \A u, v \in textureSets' : u.id = v.id => u = v
    BY <1>8, <2>1, <2>6 DEF IInv, UniqueFormIDs, IDs
  <2>8. b.id \notin RecordIDs'
    BY <1>5, <2>3, <2>6 DEF IInv, UniqueFormIDs
  <2>9. UniqueFormIDs'
    BY <1>2, <1>5, <2>2, <2>6, <2>7, <2>8 DEF IInv, UniqueFormIDs
  <2>10. CacheSound'
    BY <1>3, <1>8, <2>1 DEF IInv, CacheSound, TypeOK
  <2>11. \A u \in textureSets : u.slots \in Slots /\ u.id # 0
    BY <1>3 DEF TypeOK, TextureSet
  <2>12. CacheComplete'
    <3>1. ASSUME NEW u \in textureSets, u.edid[1] # "DefaultPBRLand"
          PROVE  cache'[u.slots] = u.id
      <4>1. cache[u.slots] = u.id /\ u.slots # o.slots
        BY <1>8, <2>11, <3>1 DEF IInv, CacheComplete
      <4>. QED BY <1>3, <1>8, <2>11, <4>1 DEF TypeOK
    <3>2. cache'[new.slots] = new.id
      BY <1>3, <1>8, <2>1 DEF TypeOK
    <3>. QED BY <1>8, <3>1, <3>2 DEF CacheComplete
  <2>. QED BY <2>5, <2>9, <2>10, <2>12
<1>9. ASSUME UNCHANGED <<allocation, cache, textureSets>>
      PROVE  ReservedBeforeUse' /\ UniqueFormIDs' /\ CacheSound' /\ CacheComplete'
  <2>1. RecordIDs' = RecordIDs
    BY <1>2, <1>9 DEF RecordIDs
  <2>2. ReservedBeforeUse'
    BY <1>5, <1>9, <2>1 DEF IInv, ReservedBeforeUse, allocation
  <2>3. UniqueFormIDs'
    BY <1>2, <1>5, <1>9, <2>1 DEF IInv, UniqueFormIDs
  <2>. QED BY <1>9, <2>2, <2>3 DEF IInv, CacheSound, CacheComplete
<1>10. OneBuilding'
  BY <1>1 DEF OneBuilding
<1>11. BuildingRefers'
  <2>1. \A s \in Shape : p.textures[s] = IF s = o.shape THEN t ELSE b.textures[s]
    BY <1>3, <1>4
  <2>. QED BY <1>1, <1>7, <2>1 DEF IInv, BuildingRefers, p
<1>12. GrassCacheSound' /\ NoDanglingReference'
  BY <1>2, <1>7 DEF IInv, GrassCacheSound, NoDanglingReference
<1>13. BuildingShown'
  <2> DEFINE over == Overrides(b.req)
  <2>1. p.next - 1 = b.next /\ b.next \in 1 .. Len(over)
    BY <1>1, <1>3, <1>4
  <2>2. ASSUME NEW i \in 1 .. b.next,
               \A j \in 1 .. b.next : j > i => over[j].shape # over[i].shape
        PROVE  \E x \in textureSets' : /\ x.id = p.textures[over[i].shape]
                                       /\ x.slots = over[i].slots
    <3>1. over[i] \in Override /\ over[i].shape \in Shape
      <4>1. over[i] \in Override
        BY <1>3, <2>1
      <4>. QED BY <4>1 DEF Override
    <3>2. CASE i = b.next
      BY <1>1, <1>3, <1>4, <1>6, <3>2
    <3>3. CASE i # b.next
      <4>1. i \in 1 .. (b.next - 1) /\ over[i].shape # o.shape
        BY <1>1, <1>3, <2>2, <3>3
      <4>2. p.textures[over[i].shape] = b.textures[over[i].shape]
        BY <1>3, <1>4, <3>1, <4>1
      <4>3. \A j \in 1 .. (b.next - 1) : j > i => over[j].shape # over[i].shape
        BY <1>3, <2>2
      <4>4. \E x \in textureSets : /\ x.id = b.textures[over[i].shape]
                                   /\ x.slots = over[i].slots
        BY <4>1, <4>3 DEF IInv, BuildingShown, Shown
      <4>. QED BY <1>6, <4>2, <4>4
    <3>. QED BY <3>2, <3>3
  <2>3. Shown(p.textures, over, p.next - 1)'
    BY <2>1, <2>2 DEF Shown
  <2>4. p.next - 1 <= Len(over) /\ over = Overrides(p.req)
    BY <1>4, <2>1, <1>3
  <2> HIDE DEF over
  <2>5. building' = {p}
    BY <1>1 DEF p
  <2>. QED BY <2>3, <2>4, <2>5 DEF BuildingShown
<1>14. DuplicatesShown'
  BY <1>2, <1>6 DEF IInv, DuplicatesShown, Shown
<1>. QED BY <1>1, <1>8, <1>9, <1>10, <1>11, <1>12, <1>13, <1>14

\* Only Finalize writes the plugin, and it flags what it has just looked at.
LEMMA LightStep == LightPluginFits /\ [Next]_vars => LightPluginFits'
<1> SUFFICES ASSUME LightPluginFits, [Next]_vars PROVE LightPluginFits'
  OBVIOUS
<1>1. CASE Finalize
  <2>1. RecordIDs' = RecordIDs /\ RecordIDs \subseteq WrittenIDs
    BY <1>1 DEF Finalize, records, RecordIDs, WrittenIDs
  <2>. QED BY <1>1, <2>1 DEF Finalize, LightPluginFits
<1>2. CASE UNCHANGED vars
  BY <1>2 DEF vars, records, LightPluginFits, RecordIDs
<1>3. CASE Next /\ ~Finalize
  <2>1. phase' # "written"
    <3>1. CASE CallThrows
      BY <3>1 DEF CallThrows
    <3>2. CASE CollectNext
      BY <3>2 DEF CollectNext, DuplicateGrass, DuplicateGrassWithoutModel, NoGrassDuplicate,
                  DuplicateGrassThrows, EndCollect
    <3>3. CASE DefaultsNext
      BY <3>3 DEF DefaultsNext, PatchLandscapeDefaultParallax, EnsureDefaultPBRLand,
                  NoDefaultPBRLand
    <3>4. CASE GenerateNext
      BY <3>4 DEF GenerateNext, BeginRequest, AbandonRequest, SkipRequest, ApplyOverride,
                  RequestThrows, FinishRequest
    <3>5. CASE FinalizeNext
      BY <1>3, <3>5 DEF FinalizeNext, FinalizeNothing, FinalizeThrows
    <3>. QED BY <1>3, <3>1, <3>2, <3>3, <3>4, <3>5 DEF Next
  <2>. QED BY <2>1 DEF LightPluginFits
<1>. QED BY <1>1, <1>2, <1>3

\* The invariant is inductive.
LEMMA StepInvariant == IInv /\ [Next]_vars => IInv'
<1> SUFFICES ASSUME IInv, [Next]_vars PROVE IInv'
  OBVIOUS
<1>1. TypeOK' /\ LightPluginFits'
  BY StepTyped, LightStep DEF IInv
<1>2. /\ ReservedBeforeUse' /\ UniqueFormIDs' /\ OneBuilding'
      /\ CacheSound' /\ CacheComplete'
      /\ BuildingRefers' /\ GrassCacheSound' /\ NoDanglingReference'
      /\ BuildingShown' /\ DuplicatesShown'
  BY StepKinds, QuietKeeps, DuplicateGrassKeeps, EnsureDefaultPBRLandKeeps,
     BeginRequestKeeps, ApplyOverrideKeeps, FinishRequestKeeps
<1>. QED BY <1>1, <1>2 DEF IInv

\* Every state of the backend satisfies the inductive invariant: FormIDs in use are reserved and
\* reservations are behind the counter, the texture set cache answers with records that exist,
\* and the duplicate under construction shows the overrides applied so far.
THEOREM Invariant == Spec => []IInv
BY InitInvariant, StepInvariant, PTL DEF Spec

-----------------------------------------------------------------------------
(* What the invariant gives *)

\* No two records of AutoSeasons.esp have the same FormID, whatever the load order and the
\* requests: every allocation is a reservation.
THEOREM FormIDsAreUnique == Spec => []UniqueFormIDs
<1>1. IInv => UniqueFormIDs
  BY DEF IInv
<1>. QED BY <1>1, Invariant, PTL

\* No duplicate refers to a texture set or a grass of the plugin that the plugin lacks.
THEOREM NoReferenceDangles == Spec => []NoDanglingReference
<1>1. IInv => NoDanglingReference
  BY DEF IInv
<1>. QED BY <1>1, Invariant, PTL

\* Two texture sets of the plugin made for overrides differ in a texture.
THEOREM TextureSetsAreShared == Spec => []OneTextureSetPerSlots
<1>1. IInv => OneTextureSetPerSlots
  BY DEF IInv, CacheComplete, UniqueFormIDs, OneTextureSetPerSlots
<1>. QED BY <1>1, Invariant, PTL

\* A finished duplicate shows the textures that were asked for, whatever the requests before
\* it put into the cache.
THEOREM TexturesShown == Spec => []TexturesAsRequested
<1>1. IInv => TexturesAsRequested
  <2> SUFFICES ASSUME IInv, NEW d \in duplicates,
                      NEW i \in DOMAIN Overrides(d.req),
                      \A j \in DOMAIN Overrides(d.req) :
                          j > i => Overrides(d.req)[j].shape # Overrides(d.req)[i].shape
               PROVE  \E t \in textureSets :
                          /\ t.id = d.textures[Overrides(d.req)[i].shape]
                          /\ t.slots = Overrides(d.req)[i].slots
    BY DEF TexturesAsRequested
  <2>1. Overrides(d.req) \in Seq(Override)
    BY OverridesTyped DEF IInv, TypeOK, Duplicate
  <2>2. DOMAIN Overrides(d.req) = 1 .. Len(Overrides(d.req))
    BY <2>1
  <2>3. Shown(d.textures, Overrides(d.req), Len(Overrides(d.req)))
    BY DEF IInv, DuplicatesShown
  <2>. QED BY <2>2, <2>3 DEF Shown
<1>. QED BY <1>1, Invariant, PTL

\* A plugin with the light flag has no FormID past the light range.
THEOREM LightFlagIsSound == Spec => []LightPluginFits
<1>1. IInv => LightPluginFits
  BY DEF IInv
<1>. QED BY <1>1, Invariant, PTL

\* Records are only added, each under a FormID that was never reserved before.
THEOREM RecordsStay == Spec => RecordsOnlyAdded
<1>1. IInv /\ [Next]_vars => [AddsRecords]_vars
  <2> SUFFICES ASSUME IInv, [Next]_vars PROVE AddsRecords
    OBVIOUS
  <2>1. ASSUME NEW id \in LowestAvailableFormID PROVE id \notin allocated
    BY DEF LowestAvailableFormID, FreeIDs
  <2>2. CASE Quiet
    BY <2>2 DEF Quiet, AddsRecords, RecordIDs, IDs
  <2>3. ASSUME NEW g \in Grass, NEW s \in Season, DuplicateGrass(g, s) PROVE AddsRecords
    <3>1. PICK id \in LowestAvailableFormID :
              grassRecords' = grassRecords \cup {[id |-> id, grass |-> g, season |-> s]}
      BY <2>3 DEF DuplicateGrass
    <3>2. UNCHANGED <<textureSets, duplicates, building>>
      BY <2>3 DEF DuplicateGrass
    <3>3. IDs(grassRecords') = IDs(grassRecords) \cup {id}
      BY <3>1, IDsOfAdded
    <3>. QED BY <2>1, <3>1, <3>2, <3>3 DEF AddsRecords, RecordIDs
  <2>4. ASSUME NEW slots \in Slots, EnsureDefaultPBRLand(slots) PROVE AddsRecords
    <3>1. PICK id \in LowestAvailableFormID :
              textureSets' = textureSets \cup {DefaultPBRLand(id, slots)}
      BY <2>4 DEF EnsureDefaultPBRLand
    <3>2. UNCHANGED <<grassRecords, duplicates, building>>
      BY <2>4 DEF EnsureDefaultPBRLand
    <3>3. IDs(textureSets') = IDs(textureSets) \cup {id}
      BY <3>1, IDsOfAdded DEF DefaultPBRLand
    <3>. QED BY <2>1, <3>1, <3>2, <3>3 DEF AddsRecords, RecordIDs
  <2>5. ASSUME NEW r \in Requests, BeginRequest(r) PROVE AddsRecords
    <3>1. PICK id \in LowestAvailableFormID : IDs(building') = {id}
      BY <2>5 DEF BeginRequest, IDs
    <3>2. UNCHANGED <<textureSets, grassRecords, duplicates>>
      BY <2>5 DEF BeginRequest, records
    <3>. QED BY <2>1, <3>1, <3>2 DEF AddsRecords, RecordIDs
  <2>6. CASE ApplyOverride
    <3>1. PICK b \in building, o \in Override, t \in FormID :
              /\ building' = {PointAt(b, o, t)}
              /\ \/ UNCHANGED textureSets
                 \/ /\ t \in LowestAvailableFormID
                    /\ textureSets' = textureSets \cup
                           {[id |-> t, slots |-> o.slots,
                             edid |-> SeasonalEditorID(b.req, o.slots)]}
      BY <2>6, ApplyKinds
    <3>2. UNCHANGED <<grassRecords, duplicates>>
      BY <2>6 DEF ApplyOverride
    <3>3. PointAt(b, o, t).id = b.id /\ b.id \in IDs(building)
      BY PointAtFields DEF IInv, TypeOK, IDs
    <3>4. IDs(building') \subseteq IDs(building)
      BY <3>1, <3>3 DEF IDs
    <3>5. CASE UNCHANGED textureSets
      BY <3>2, <3>4, <3>5 DEF AddsRecords, RecordIDs
    <3>6. CASE /\ t \in LowestAvailableFormID
               /\ textureSets' = textureSets \cup
                      {[id |-> t, slots |-> o.slots,
                        edid |-> SeasonalEditorID(b.req, o.slots)]}
      <4>1. IDs(textureSets') = IDs(textureSets) \cup {t}
        BY <3>6, IDsOfAdded
      <4>. QED BY <2>1, <3>2, <3>4, <3>6, <4>1 DEF AddsRecords, RecordIDs
    <3>. QED BY <3>1, <3>5, <3>6
  <2>7. CASE FinishRequest
    <3>1. PICK b \in building : duplicates' = duplicates \cup
              {[id |-> b.id, req |-> b.req, textures |-> b.textures,
                grasses |-> GrassesOf(b.req)]}
      BY <2>7 DEF FinishRequest
    <3>2. UNCHANGED <<textureSets, grassRecords>> /\ IDs(building') = {}
      BY <2>7 DEF FinishRequest, IDs
    <3>3. IDs(duplicates') = IDs(duplicates) \cup {b.id} /\ b.id \in IDs(building)
      <4>1. IDs(duplicates') = IDs(duplicates) \cup {b.id}
        BY <3>1, IDsOfAdded
      <4>. QED BY <4>1 DEF IDs
    <3>. QED BY <3>1, <3>2, <3>3 DEF AddsRecords, RecordIDs
  <2>. QED BY <2>2, <2>3, <2>4, <2>5, <2>6, <2>7, StepKinds
<1>. QED BY <1>1, Invariant, PTL DEF Spec, RecordsOnlyAdded

=============================================================================
