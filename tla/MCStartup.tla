------------------------------ MODULE MCStartup ------------------------------
(* Instances of Startup for TLC: installations that differ in their load order and *)
(* records, in the folders below Data, or in their textures.                       *)
EXTENDS Startup, TLC

MCPlugin == {"Skyrim.esm", "Update.esm", "Dawnguard.esm", "HearthFires.esm", "Dragonborn.esm",
             "SkyrimVR.esm", "Enderal - Forgotten Stories.esm", "A.esp", "B.esp", "C.esp"}

Types == {"SKYRIM_SE", "SKYRIM_GOG", "SKYRIM_VR", "ENDERAL_SE"}

MCParams ==
    {[front |-> "gui", gameType |-> type, gameDir |-> dir, multithreading |-> TRUE] :
         type \in {"SKYRIM_GOG", "SKYRIM_VR"}, dir \in {NoFile, "given", "missing"}}
    \cup {[front |-> "cli", gameType |-> getGameTypeFromStr("skyrimvr"), gameDir |-> "given",
           multithreading |-> threads] : threads \in BOOLEAN}

On(p) == [plugin |-> p, active |-> TRUE]
Off(p) == [plugin |-> p, active |-> FALSE]

\* names as they are spelled on disk and by the patcher
MCName == {"Meshes", "meshes", "Textures", "textures", "Seasons", "seasons", "PBRTextureSets",
           "pbrtexturesets", "Wood", "wood", "old.mohidden", "grass.nif", "mask.dds", "Mask.dds",
           "rock.dds", "odd.dds", "big.esp", "WIN.ini", "win.ini", "DefaultPBRLand.json",
           "defaultpbrland.json"}

MCLowerName == [n \in MCName |->
    CASE n = "Meshes" -> "meshes" [] n = "Textures" -> "textures" [] n = "Wood" -> "wood"
      [] n = "PBRTextureSets" -> "pbrtexturesets" [] n = "Mask.dds" -> "mask.dds"
      [] n = "DefaultPBRLand.json" -> "defaultpbrland.json" [] n = "Seasons" -> "seasons"
      [] n = "WIN.ini" -> "win.ini" [] OTHER -> n]

Texture1(name) == <<"textures", name>>
MCTexture == {Texture1("mask.dds"), Texture1("rock.dds"), Texture1("odd.dds")}

Image(width, counts) ==
    [header |-> TRUE, opaque |-> FALSE, format |-> TRUE, width |-> width, height |-> 2,
     counts |-> counts]

MCDds == [t \in MCTexture |->
    CASE t = Texture1("mask.dds") -> Image(2, <<4, 0, 0, 3>>)
      [] t = Texture1("rock.dds") -> Image(2, <<2, 0, 1, 2>>)
      [] OTHER -> [Image(3, <<1, 1, 1, 0>>) EXCEPT !.opaque = TRUE]]

MeshOf(name, weight) == [name |-> name, weight |-> weight]
Model(sub, mesh) == [sub |-> sub, mesh |-> mesh, slider |-> FALSE]
Slider(sub, mesh) == [sub |-> sub, mesh |-> mesh, slider |-> TRUE]
Version(models) == [models |-> models, editorID |-> ""]
Grass(mesh) == [models |-> {Model("", mesh)}, editorID |-> "fern"]

TwoOverrides(type, older, newer) ==
    [type |-> type, mod |-> "Skyrim.esm",
     versions |-> "Skyrim.esm" :> Version(older) @@ "B.esp" :> Version(newer)]

Plain ==
    [data |-> {"Skyrim.esm", "SkyrimVR.esm", "A.esp", "B.esp", "C.esp"},
     registered |-> {"SKYRIM_VR"},
     ccc |-> <<>>,
     pluginsTxt |-> [location \in {getAppDataLocation(t) : t \in Types} |->
         CASE location = "Skyrim VR" -> <<On("A.esp"), On("B.esp"), On("C.esp")>>
           [] location = "Skyrim Special Edition" -> <<On("C.esp")>>
           [] OTHER -> NoFile],
     masters |-> [p \in MCPlugin |-> {}], unreadable |-> {}, records |-> <<>>,
     directories |-> {<<"meshes">>}, files |-> {<<"meshes", "grass.nif">>},
     hidden |-> {}, generated |-> {}]

Needs(a, b, c) == [p \in MCPlugin |-> CASE p = "A.esp" -> a [] p = "B.esp" -> b
                                         [] p = "C.esp" -> c [] OTHER -> {}]

\* plugins listed twice, in Skyrim.ccc as well, unstarred or not there
Lists ==
    {[Plain EXCEPT !.ccc = ccc, !.pluginsTxt["Skyrim VR"] = lines,
                   !.data = @ \cup {"Update.esm", "Dragonborn.esm"}] :
        ccc \in {<<"B.esp", "Dawnguard.esm">>, <<"Update.esm", "C.esp", "C.esp">>},
        lines \in {<<Off("B.esp"), On("C.esp"), On("A.esp"), On("C.esp")>>,
                   <<On("A.esp"), Off("C.esp"), On("HearthFires.esm"), On("B.esp")>>}}

\* masters that are missing, unreadable, out of order, or in a circle
Orders ==
    {[Plain EXCEPT !.masters = needs, !.data = @ \ gone, !.unreadable = unreadable] :
        needs \in {Needs({"Skyrim.esm"}, {"Skyrim.esm", "A.esp"}, {"B.esp"}),
                   Needs({"B.esp"}, {"A.esp"}, {"A.esp", "Skyrim.esm"}),
                   Needs({}, {"A.esp", "Update.esm"}, {"A.esp"}),
                   Needs({"C.esp"}, {}, {"B.esp", "Skyrim.esm"})},
        gone \in {{}, {"A.esp"}, {"B.esp"}, {"Skyrim.esm"}}, unreadable \in {{}, {"A.esp"}, {"B.esp"}}}

\* overrides, of a weight slider and with a submodel dropped; two grasses of one EditorID
Records ==
    {[Plain EXCEPT !.records = records, !.data = @ \ gone] :
        records \in
            {<<[TwoOverrides("ARMA", {Model("MALE", MeshOf("boots", "_0"))},
                             {Slider("MALE", MeshOf("boots", "_1")), Slider("FEMALE", MeshOf("hat", ""))})
                    EXCEPT !.versions = @ @@ "C.esp" :> Version({Model("MALE", MeshOf("boots", "_1"))})],
               TwoOverrides("STAT", {Model("", MeshOf("rock", "")), Model("DMDL0", MeshOf("shard", ""))},
                            {Model("", MeshOf("stone", ""))}),
               TwoOverrides("STAT", {Model("", MeshOf("rock", ""))}, {Model("", NoMesh)})>>,
             <<TwoOverrides("ARMA", {Slider("MALE", MeshOf("boots", "_0"))},
                            {Slider("MALE", MeshOf("boots", "_1"))}),
               [TwoOverrides("GRAS", {}, {}) EXCEPT
                    !.versions = "A.esp" :> Grass(MeshOf("fern", "")) @@ "C.esp" :> Grass(MeshOf("moss", ""))],
               [TwoOverrides("GRAS", {}, {}) EXCEPT
                    !.versions = "B.esp" :> Grass(MeshOf("reed", ""))],
               [TwoOverrides("TREE", {Model("", MeshOf("oak", ""))}, {Model("", MeshOf("fir", ""))})
                    EXCEPT !.mod = NullMod]>>},
        gone \in {{}, {"B.esp"}, {"C.esp"}}}

\* Folders in folders, one of them hidden, or the folder to map itself; files in a folder no one
\* maps, hidden, or blocked.  A config that is generated may be there already.
Folders ==
    {[Plain EXCEPT
        !.directories = {<<"Meshes">>, <<"Meshes", "Wood">>, <<"Meshes", "Wood", "old.mohidden">>,
                         <<"Seasons">>, <<"PBRTextureSets">>},
        !.files = {<<"Meshes", "Wood", "grass.nif">>, <<"Meshes", "Wood", "old.mohidden", "grass.nif">>,
                   <<"Seasons", "WIN.ini">>, <<"Meshes", "big.esp">>, <<"big.esp">>,
                   <<"WIN.ini">>, <<"Meshes", "mask.dds">>} \cup configs,
        !.hidden = hidden \cup {<<"Meshes", "Wood", "old.mohidden">>},
        !.generated = {<<"Seasons", "WIN.ini">>, <<"PBRTextureSets", "DefaultPBRLand.json">>}] :
        hidden \in {{}, {<<"Meshes">>, <<"Meshes", "mask.dds">>}, {<<"Meshes", "Wood">>, <<"WIN.ini">>}},
        configs \in {{}, {<<"PBRTextureSets", "DefaultPBRLand.json">>}}}

TextureFiles(names) ==
    {[Plain EXCEPT !.directories = @ \cup {<<"Textures">>},
                   !.files = {<<"Textures", n>> : n \in names} \cup meshes] :
        meshes \in {{}, {<<"meshes", "grass.nif">>}}}

Textures ==
    TextureFiles({"Mask.dds", "rock.dds", "odd.dds"}) \cup TextureFiles({"rock.dds"})
    \cup {[Plain EXCEPT !.directories = {}, !.files = {}]}

MCInstallation == Lists \cup Orders \cup Records \cup Folders \cup Textures

=============================================================================
