----------------------------- MODULE SeasonalSlots -----------------------------
(***************************************************************************)
(* SeasonPatcher::run, from the records of the load order to the requests  *)
(* for seasonal duplicates: which textures each shape shows in a season,   *)
(* which PBRNIFPatcher rules and PBRTextureSets configs have to be written *)
(* for them, which grass a landscape texture gets, and what is done about  *)
(* the two landscape defaults when the walk is over.                       *)
(*                                                                         *)
(* A texture path is a folder, whether it lies under textures\pbr, and a   *)
(* file name as the sequence of its words, which underscores separate.     *)
(* Whether another mod covers a record is the subject of ForeignCoverage,  *)
(* what the backend does with a request that of SeasonsPlugin.             *)
(***************************************************************************)
EXTENDS Naturals, Sequences, SequencesExt, FiniteSets

CONSTANTS
    Model,          \* records with a Model, of the six types
    Land,           \* landscape textures
    Shape,
    MeshOf,         \* the mesh of a model record
    Alternate,      \* its alternate textures: shapes, and their slots
    Embedded,       \* the shapes of a mesh, and their slots
    LandSlots,      \* the slots of a landscape texture's texture set
    TextureSetOf,   \* the EditorID of that texture set
    Grass, GrassesOf,
    Folder, Word,
    Games           \* the installations considered

SEASONS == <<"WIN", "SPR", "SUM", "AUT">>
Season == Range(SEASONS)

seasonAliases ==
    [WIN |-> <<"win", "winter", "sn">>, SPR |-> <<"spr", "spring", "sp">>,
     SUM |-> <<"sum", "summer", "su">>, AUT |-> <<"aut", "autumn", "fall", "au">>]

\* REST stands for the glow, cube map, multilayer and backlight slots, which are treated alike
Slot == {"DIFFUSE", "NORMAL", "PARALLAX", "ENVMASK", "REST"}

SuffixesOf ==
    [DIFFUSE |-> {"d"}, NORMAL |-> {"n", "msn"}, PARALLAX |-> {"p"},
     ENVMASK |-> {"rmaos", "envmask", "em", "m"},
     REST |-> {"b", "bl", "flow", "cnr", "s", "i", "f", "e", "sk", "g"}]

\* splitting a name gives a word at least
Path == [pbr : BOOLEAN, folder : Folder, name : Seq(Word) \ {<< >>}]

\* an empty slot is not in the domain
IsSlots(slots) == DOMAIN slots \subseteq Slot /\ \A i \in DOMAIN slots : slots[i] \in Path

\* An installation: the textures there are, the rules in the order the jsons were found, the
\* EditorIDs that have a texture set config, the diffuse texture of TerrainHelper's
\* LandscapeDefault (if there is one), the meshes that cannot be read, the records that are
\* passed over (by EditorID, blocked mesh or as a dummy use), the grasses with a seasonal
\* record of their own or a seasonal mesh, and the setting removeGrassInWinter.
IsGame(g) ==
    /\ g.textures \subseteq Path
    /\ DOMAIN g.rules \subseteq Nat
    /\ \A i \in DOMAIN g.rules : /\ g.rules[i].match \in Seq(Word) /\ IsSlots(g.rules[i].slots)
                                 /\ "DIFFUSE" \notin DOMAIN g.rules[i].slots
    /\ g.landscapeDefault \subseteq Path /\ Cardinality(g.landscapeDefault) <= 1
    /\ g.locked \subseteq Model \cup Land /\ g.brokenMeshes \subseteq Range(MeshOf)
    /\ g.grassRecords \subseteq Grass \X Season /\ g.grassMeshes \subseteq Grass \X Season
    /\ g.removeGrassInWinter \in BOOLEAN

ASSUME SlotsAssumption ==
    /\ Model \cap Land = {}
    /\ IsFiniteSet(Shape) /\ IsFiniteSet(Grass)
    /\ \A m \in Model : /\ \A i \in DOMAIN Alternate[m] : i \in Shape /\ IsSlots(Alternate[m][i])
                        /\ \A i \in DOMAIN Embedded[MeshOf[m]] :
                               i \in Shape /\ IsSlots(Embedded[MeshOf[m]][i])
    /\ \A l \in Land : IsSlots(LandSlots[l]) /\ GrassesOf[l] \subseteq Grass
    /\ \A g \in Games : IsGame(g)

Record == Model \cup Land

VARIABLES
    game,               \* (input)
    phase,              \* what is walked: "models", then "lands"; then "done" or "aborted"
    waiting,            \* records not walked yet
    current,            \* the record being walked, if any, ...
    season,             \* ... and the number of the season it has come to
    requests,           \* requestsByGroup
    outPBRRules, seenPBRRuleFor,
    outPBRTextureSets, seenPBRTextureSetFor,
    grassDuplicateCache,
    grassDuplicates,    \* the (grass, season) a duplicate was asked of the backend for
    anyParallaxFound,
    defaultPBRLandSlots, defaultPBRLandConfig,  \* {} until they are captured
    landscapeDefaultParallax                    \* what LandscapeDefault was patched with

walk == <<game, phase, waiting, current, season>>
rules == <<outPBRRules, seenPBRRuleFor>>
configs == <<outPBRTextureSets, seenPBRTextureSetFor>>
grass == <<grassDuplicateCache, grassDuplicates>>
defaults == <<defaultPBRLandSlots, defaultPBRLandConfig>>
slotVars == <<walk, requests, rules, configs, grass, anyParallaxFound, defaults,
              landscapeDefaultParallax>>

Override == [shape : Shape, slots : UNION {[D -> Path] : D \in SUBSET Slot}, isPBR : BOOLEAN]

-----------------------------------------------------------------------------
(* Texture paths *)

\* f where it is defined, g elsewhere
f ++ g == [x \in DOMAIN f \cup DOMAIN g |-> IF x \in DOMAIN f THEN f[x] ELSE g[x]]

getTexBase(name, slot) ==
    IF Len(name) > 1 /\ Last(name) \in SuffixesOf[slot] THEN Front(name) ELSE name

\* the name with an alias of the season before the suffix of its slot
Aliased(path, slot, alias) ==
    LET base == getTexBase(path.name, slot)
        suffix == SubSeq(path.name, Len(base) + 1, Len(path.name))
    IN  [path EXCEPT !.name = base \o <<alias>> \o suffix]

\* the sibling with the first of the season's aliases that there is
seasonSuffixedSibling(path, slot, s) ==
    LET candidate(n) == Aliased(path, slot, seasonAliases[s][n])
        found == {n \in DOMAIN seasonAliases[s] : candidate(n) \in game.textures}
    IN  {candidate(n) : n \in {n \in found : \A k \in found : n <= k}}

SiblingOr(path, slot, s) ==
    LET sibling == seasonSuffixedSibling(path, slot, s)
    IN  IF sibling = {} THEN path ELSE CHOOSE p \in sibling : TRUE

Parallax(diffuse) == [diffuse EXCEPT !.name = getTexBase(@, "DIFFUSE") \o <<"p">>]

findParallaxSlot(diffuse, s) == seasonSuffixedSibling(Parallax(diffuse), "PARALLAX", s)

toPBRFolderPath(path) == [path EXCEPT !.pbr = TRUE]
toVanillaFolderPath(path) == [path EXCEPT !.pbr = FALSE]

\* the first rule for a file name, whatever its folder
findMatchingPBRConfig(path) ==
    LET matching == {i \in DOMAIN game.rules : game.rules[i].match = path.name}
    IN  {i \in matching : \A j \in matching : i <= j}

-----------------------------------------------------------------------------
(* buildSeasonalSlots *)

slotsFromPBRRule(rule, diffuse) == [DIFFUSE |-> toPBRFolderPath(diffuse)] ++ rule.slots

\* slots a rule leaves out, though the files are there under the conventional name
Conventional(diffuse) ==
    LET named(suffix) == [diffuse EXCEPT !.name = Append(@, suffix)]
        all == [NORMAL |-> named("n"), ENVMASK |-> named("rmaos")]
    IN  [i \in {i \in DOMAIN all : all[i] \in game.textures} |-> all[i]]

\* A mutant: they are filled in only for what comes from a rule.
PBRBaseAsShown(slots, rule) ==
    LET own == slotsFromPBRRule(rule, slots["DIFFUSE"])
    IN  IF slots["DIFFUSE"].pbr THEN slots ELSE own ++ Conventional(own["DIFFUSE"])

PBRBase(slots, rule) ==
    LET own == IF slots["DIFFUSE"].pbr THEN slots ELSE slotsFromPBRRule(rule, slots["DIFFUSE"])
    IN  own ++ Conventional(own["DIFFUSE"])

HeightSlot(height) == [i \in {"PARALLAX" : p \in height} |-> CHOOSE p \in height : TRUE]

\* A mutant: a height map stays what it was if there is none of the season.
PBRSlotsKeepingHeight(base, s) == [i \in DOMAIN base |-> SiblingOr(base[i], i, s)]

\* a slot keeps what it has if the season has nothing for it, but for the height map
PBRSlots(base, s) ==
    [i \in DOMAIN base \ {"PARALLAX"} |-> SiblingOr(base[i], i, s)]
        ++ HeightSlot(IF "PARALLAX" \in DOMAIN base THEN findParallaxSlot(base["DIFFUSE"], s) ELSE {})

VanillaSlots(base, s, includeParallax) ==
    [i \in DOMAIN base \cap {"DIFFUSE", "NORMAL"} |-> SiblingOr(base[i], i, s)]
        ++ HeightSlot(IF includeParallax THEN findParallaxSlot(base["DIFFUSE"], s) ELSE {})

HasSeasonalDiffuse(base, s) == seasonSuffixedSibling(base["DIFFUSE"], "DIFFUSE", s) # {}

\* A material is PBR if there is a rule for its name, and not by the path the record shows.
buildSeasonalSlots(slots, s, includeParallax) ==
    LET rule == findMatchingPBRConfig(slots["DIFFUSE"])
        bases == IF rule = {} THEN {slots} ELSE {PBRBase(slots, game.rules[i]) : i \in rule}
        made(base) == [slots |-> IF rule = {} THEN VanillaSlots(base, s, includeParallax)
                                 ELSE PBRSlots(base, s),
                       isPBR |-> rule # {}]
    IN  IF "DIFFUSE" \notin DOMAIN slots THEN {}
        ELSE {made(base) : base \in {base \in bases : HasSeasonalDiffuse(base, s)}}

-----------------------------------------------------------------------------

Init ==
    /\ game \in Games
    /\ phase = "models" /\ waiting = Record /\ current = {} /\ season = 1
    /\ requests = {}
    /\ outPBRRules = << >> /\ seenPBRRuleFor = {}
    /\ outPBRTextureSets = << >> /\ seenPBRTextureSetFor = {}
    /\ grassDuplicateCache = << >> /\ grassDuplicates = << >>
    /\ anyParallaxFound = {}
    /\ defaultPBRLandSlots = {} /\ defaultPBRLandConfig = {}
    /\ landscapeDefaultParallax = {}

-----------------------------------------------------------------------------
(* The walk over the records, those of a mesh and the landscape textures in any order *)

\* An alternate texture takes the place of the mesh's own, which is read if it can be.
ShapesOf(m) ==
    Alternate[m] ++ (IF MeshOf[m] \in game.brokenMeshes THEN << >> ELSE Embedded[MeshOf[m]])

EnterModel(m) ==
    /\ phase = "models" /\ current = {} /\ m \in waiting \cap Model
    /\ waiting' = waiting \ {m}
    /\ current' = IF m \in game.locked \/ ShapesOf(m) = << >> THEN {} ELSE {m}
    /\ season' = 1
    /\ UNCHANGED <<game, phase, requests, rules, configs, grass, anyParallaxFound, defaults,
                   landscapeDefaultParallax>>

EndModels ==
    /\ phase = "models" /\ phase' = "lands"
    /\ current = {} /\ waiting \cap Model = {}
    /\ UNCHANGED <<game, waiting, current, season, requests, rules, configs, grass,
                   anyParallaxFound, defaults, landscapeDefaultParallax>>

\* the slots of the default landscape, if l shows its texture and there is a rule for it
DefaultSlots(l) ==
    LET diffuse == LandSlots[l]["DIFFUSE"]
    IN  {IF diffuse.pbr THEN LandSlots[l] ELSE slotsFromPBRRule(game.rules[i], diffuse) :
            i \in {i \in findMatchingPBRConfig(diffuse) :
                      toVanillaFolderPath(diffuse) \in game.landscapeDefault}}

ConfigOf(l) == {<<TextureSetOf[l], "">>} \cap game.configs

EnterLand(l) ==
    /\ phase = "lands" /\ current = {} /\ l \in waiting
    /\ waiting' = waiting \ {l} /\ season' = 1
    /\ IF l \in game.locked \/ "DIFFUSE" \notin DOMAIN LandSlots[l]
       THEN UNCHANGED <<current, defaults>>
       ELSE /\ current' = {l}
            /\ defaultPBRLandSlots' = IF defaultPBRLandSlots = {} THEN DefaultSlots(l)
                                      ELSE defaultPBRLandSlots
            /\ defaultPBRLandConfig' = IF defaultPBRLandSlots' # {} /\ defaultPBRLandConfig = {}
                                       THEN ConfigOf(l) ELSE defaultPBRLandConfig
    /\ UNCHANGED <<game, phase, requests, rules, configs, grass, anyParallaxFound,
                   landscapeDefaultParallax>>

NextSeason ==
    /\ current' = IF season = Len(SEASONS) THEN {} ELSE current
    /\ season' = IF season = Len(SEASONS) THEN 1 ELSE season + 1
    /\ UNCHANGED <<game, phase, waiting>>

\* another mod covers the record in this season, or there is no texture for it
PassSeason ==
    /\ phase \in {"models", "lands"} /\ current # {}
    /\ NextSeason
    /\ UNCHANGED <<requests, rules, configs, grass, anyParallaxFound, defaults,
                   landscapeDefaultParallax>>

Rules(textures) == SetToSeq({t \in textures : findMatchingPBRConfig(t) = {}})

\* A mutant: a texture's rule is written again for every record.
recordPBRRulesAgain(overrides) ==
    /\ outPBRRules' = outPBRRules \o Rules({o.slots["DIFFUSE"] : o \in {o \in overrides : o.isPBR}})
    /\ UNCHANGED seenPBRRuleFor

\* recordPBRRuleIfNeeded for each of the overrides; what a rule says but for the texture it is
\* for, it takes from the base rule
recordPBRRules(overrides) ==
    LET new == {o.slots["DIFFUSE"] : o \in {o \in overrides : o.isPBR}} \ seenPBRRuleFor
    IN  /\ seenPBRRuleFor' = seenPBRRuleFor \cup new
        /\ outPBRRules' = outPBRRules \o Rules(new)

ServeModel(m) ==
    LET s == SEASONS[season]
        overrides == UNION {{[shape |-> i, slots |-> made.slots, isPBR |-> made.isPBR] :
                                made \in buildSeasonalSlots(ShapesOf(m)[i], s, FALSE)} :
                            i \in DOMAIN ShapesOf(m)}
    IN  /\ phase = "models" /\ m \in current /\ overrides # {}
        /\ recordPBRRules(overrides)
        /\ requests' = requests \cup {[rec |-> m, season |-> s, overrides |-> overrides,
                                       grasses |-> << >>]}
        /\ NextSeason
        /\ UNCHANGED <<configs, grass, anyParallaxFound, defaults, landscapeDefaultParallax>>

\* A config that cannot be read or parsed is warned about, and not tried again.
CloneConfig(from, edid) ==
    \/ outPBRTextureSets' = Append(outPBRTextureSets, [edid |-> edid, from |-> from])
    \/ UNCHANGED outPBRTextureSets

\* A mutant: a mod's config for the season is not looked for.
cloneTextureSetOver(l, s, isPBR) ==
    LET edid == <<TextureSetOf[l], s>>
    IN  IF isPBR /\ ConfigOf(l) # {} /\ edid \notin seenPBRTextureSetFor
        THEN /\ seenPBRTextureSetFor' = seenPBRTextureSetFor \cup {edid}
             /\ CloneConfig(<<TextureSetOf[l], "">>, edid)
        ELSE UNCHANGED configs

cloneTextureSet(l, s, isPBR) ==
    LET edid == <<TextureSetOf[l], s>>
    IN  IF isPBR /\ ConfigOf(l) # {} /\ edid \notin seenPBRTextureSetFor \cup game.configs
        THEN /\ seenPBRTextureSetFor' = seenPBRTextureSetFor \cup {edid}
             /\ CloneConfig(<<TextureSetOf[l], "">>, edid)
        ELSE UNCHANGED configs

\* A mutant: that a grass has no duplicate is forgotten, and the backend is asked again.
rememberGrassMade(l, s, made) ==
    grassDuplicateCache' = grassDuplicateCache ++
        [k \in (GrassesOf[l] \X {s}) \cap (made \cup game.grassRecords) |->
            IF k \in game.grassRecords THEN "record" ELSE "duplicate"]

\* what is known of the grasses of l: a mod's seasonal record, our duplicate, or nothing
rememberGrass(l, s, made) ==
    grassDuplicateCache' = grassDuplicateCache ++
        [k \in GrassesOf[l] \X {s} |-> CASE k \in game.grassRecords -> "record"
                                         [] k \in made -> "duplicate"
                                         [] OTHER -> "none"]

\* getOrCreateSeasonalGrass for every grass of l: the backend is asked for those not seen
\* before that have only a mesh, and may come back with nothing
getOrCreateSeasonalGrass(l, s) ==
    LET asked == {k \in GrassesOf[l] \X {s} : /\ k \notin DOMAIN grassDuplicateCache
                                              /\ k \in game.grassMeshes \ game.grassRecords}
    IN  \E made \in SUBSET asked :
            /\ grassDuplicates' = grassDuplicates \o SetToSeq(made)
            /\ rememberGrass(l, s, made)

\* the grass of l in a season, once all of it has been looked up
SwappedGrass(l, s) ==
    [g \in GrassesOf[l] |->
        IF <<g, s>> \in DOMAIN grassDuplicateCache' /\ grassDuplicateCache'[<<g, s>>] # "none"
        THEN grassDuplicateCache'[<<g, s>>]
        ELSE IF game.removeGrassInWinter /\ s = "WIN" THEN "removed" ELSE "base"]

\* A mutant: PBR terrain counts, too.
findAnyParallaxOfAll(made) ==
    anyParallaxFound' = IF anyParallaxFound = {} /\ "PARALLAX" \in DOMAIN made.slots
                        THEN {made.slots["PARALLAX"]} ELSE anyParallaxFound

findAnyParallax(made) ==
    anyParallaxFound' = IF anyParallaxFound = {} /\ ~made.isPBR /\ "PARALLAX" \in DOMAIN made.slots
                        THEN {made.slots["PARALLAX"]} ELSE anyParallaxFound

\* borrowed: the grass list of the mod that covers l is taken over, whatever it is
ServeLand(l, borrowed) ==
    LET s == SEASONS[season]
    IN  /\ phase = "lands" /\ l \in current
        /\ \E made \in buildSeasonalSlots(LandSlots[l], s, game.landscapeDefault # {}) :
               LET override == [shape |-> 0, slots |-> made.slots, isPBR |-> made.isPBR]
               IN  /\ recordPBRRules({override})
                   /\ cloneTextureSet(l, s, made.isPBR)
                   /\ findAnyParallax(made)
                   /\ IF borrowed THEN UNCHANGED grass ELSE getOrCreateSeasonalGrass(l, s)
                   /\ requests' = requests \cup
                          {[rec |-> l, season |-> s, overrides |-> {override},
                            grasses |-> IF borrowed THEN << >> ELSE SwappedGrass(l, s)]}
        /\ NextSeason
        /\ UNCHANGED <<defaults, landscapeDefaultParallax>>

\* patchLandscapeDefaultParallax, and ensureDefaultPBRLand with its config; both once
EndLands ==
    /\ phase = "lands" /\ waiting = {} /\ current = {}
    /\ phase' = "done"
    /\ landscapeDefaultParallax' =
           IF anyParallaxFound = {} THEN {}
           ELSE {Parallax(d) : d \in game.landscapeDefault} \cap game.textures
    /\ LET edid == <<"DefaultPBRLand", "">>
       IN  IF defaultPBRLandSlots # {} /\ defaultPBRLandConfig # {} /\ edid \notin game.configs
           THEN \E from \in defaultPBRLandConfig : CloneConfig(from, edid)
           ELSE UNCHANGED outPBRTextureSets
    /\ UNCHANGED <<game, waiting, current, season, requests, rules, seenPBRTextureSetFor, grass,
                   anyParallaxFound, defaults>>

\* A call of the backend throws, or a rule or config is of a kind nobody caught.
RunThrows ==
    /\ phase \in {"models", "lands"} /\ phase' = "aborted"
    /\ UNCHANGED <<game, waiting, current, season, requests, rules, configs, grass,
                   anyParallaxFound, defaults, landscapeDefaultParallax>>

Next ==
    \/ \E m \in Model : EnterModel(m) \/ ServeModel(m)
    \/ EndModels
    \/ \E l \in Land : EnterLand(l) \/ \E borrowed \in BOOLEAN : ServeLand(l, borrowed)
    \/ PassSeason \/ EndLands \/ RunThrows

Spec == Init /\ [][Next]_slotVars

-----------------------------------------------------------------------------

PBRTextures == {o.slots["DIFFUSE"] : o \in {o \in UNION {r.overrides : r \in requests} : o.isPBR}}

\* Every seasonal PBR texture that some duplicate shows has one rule and not two: that of a
\* mod, or one of ours, written once however many records, shapes and seasons use it.
OneRulePerTexture ==
    /\ IsInjective(outPBRRules)
    /\ \A t \in PBRTextures : (t \in Range(outPBRRules)) # (findMatchingPBRConfig(t) # {})

\* the slots of a record before the season's textures are put into them
BaseSlots(rec, i) == IF rec \in Land THEN LandSlots[rec] ELSE ShapesOf(rec)[i]

\* what is wired next to the diffuse texture: by the plugin if the record shows a path under
\* textures\pbr, or else by the rule
WiredBy(slots) ==
    IF slots["DIFFUSE"].pbr THEN {slots}
    ELSE {game.rules[n].slots : n \in findMatchingPBRConfig(slots["DIFFUSE"])}

BesideDiffuse(slots) == [i \in DOMAIN slots \ {"DIFFUSE"} |-> slots[i]]
Wired(slots) == {BesideDiffuse(w) : w \in WiredBy(slots)}

\* Records that show one material with a rule in different ways, under textures\pbr or not, in a
\* mesh or as landscape, get PBR textures with one and the same diffuse texture: never one
\* PBR and one vanilla set, whichever plugin touched the record last.  The two sets are the
\* same in every slot if what a plugin wired under textures\pbr is what the rule, or the
\* other plugin, wires; what it wired differently is kept ("Trust the ESP's own
\* already-resolved slots", SeasonPatcher.cpp).
SameMaterialSameTextures ==
    \A q, r \in requests : q.season = r.season =>
        \A o \in q.overrides, p \in r.overrides :
            LET a == BaseSlots(q.rec, o.shape)
                b == BaseSlots(r.rec, p.shape)
            IN  /\ toVanillaFolderPath(a["DIFFUSE"]) = toVanillaFolderPath(b["DIFFUSE"])
                /\ findMatchingPBRConfig(a["DIFFUSE"]) # {}
                => /\ o.isPBR /\ p.isPBR /\ o.slots["DIFFUSE"] = p.slots["DIFFUSE"]
                   /\ Wired(a) = Wired(b) => o.slots = p.slots

\* what may be the height map of a seasonal texture: each may have an alias of its own
HeightsOf(diffuse, s) ==
    {[diffuse EXCEPT !.name = SubSeq(@, 1, n - 1) \o <<alias, "p">>] :
        n \in {n \in DOMAIN diffuse.name : diffuse.name[n] \in Range(seasonAliases[s])},
        alias \in Range(seasonAliases[s])}

\* A duplicate never shows the height map of another season, of none or of another texture.
HeightOfItsSeason ==
    \A r \in requests : \A o \in r.overrides :
        "PARALLAX" \in DOMAIN o.slots =>
            o.slots["PARALLAX"] \in HeightsOf(o.slots["DIFFUSE"], r.season) \cap game.textures

\* TerrainHelper's terrain shader is switched on if and only if some landscape that is not
\* PBR got a height map, and with LandscapeDefault's own texture, not that of a season.
UnlockedForVanilla ==
    phase = "done" =>
        (landscapeDefaultParallax # {} <=>
            /\ \E r \in requests : /\ r.rec \in Land
                                   /\ \E o \in r.overrides : ~o.isPBR /\ "PARALLAX" \in DOMAIN o.slots
            /\ \E d \in game.landscapeDefault : Parallax(d) \in game.textures)

\* A texture set config is cloned once for an EditorID, never for one that a mod has a config
\* for, and only for DefaultPBRLand and for texture sets of PBR duplicates of that season.
ConfigsClonedOnce ==
    /\ \A i, j \in DOMAIN outPBRTextureSets :
           outPBRTextureSets[i].edid = outPBRTextureSets[j].edid => i = j
    /\ \A c \in Range(outPBRTextureSets) :
           /\ c.edid \notin game.configs
           /\ \/ c.edid = <<"DefaultPBRLand", "">> /\ defaultPBRLandSlots # {}
              \/ \E r \in requests : /\ r.rec \in Land /\ c.edid = <<TextureSetOf[r.rec], r.season>>
                                     /\ \A o \in r.overrides : o.isPBR

\* A grass is swapped alike in all landscape textures of a season, it is duplicated at most once,
\* and not where a mod ships a seasonal record of it; although landscapes in between keep
\* their mod's grass, and a duplicate may fail.
GrassSwappedAlike ==
    /\ \A q, r \in requests : q.season = r.season =>
           \A g \in DOMAIN q.grasses \cap DOMAIN r.grasses : q.grasses[g] = r.grasses[g]
    /\ IsInjective(grassDuplicates)
    /\ Range(grassDuplicates) \cap game.grassRecords = {}

=============================================================================
