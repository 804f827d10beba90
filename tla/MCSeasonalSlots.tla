--------------------------- MODULE MCSeasonalSlots ---------------------------
(* An instance of SeasonalSlots for TLC: a material that two landscape records with one *)
(* texture set and two statics show, one of each under textures\pbr, a texture of the   *)
(* same name in another folder, and a landscape without a rule; in installations that    *)
(* have any of the seasonal textures, and rules, configs and settings of several kinds.  *)
EXTENDS SeasonalSlots, TLC

MCWord == {"dirt", "snow", "win", "winter", "sum", "n", "p", "rmaos", "s"}

File(pbr, name) == [pbr |-> pbr, folder |-> "landscape", name |-> name]
Dirt(pbr, words) == File(pbr, <<"dirt">> \o words)
Snow(words) == File(FALSE, <<"snow">> \o words)
Road(pbr, words) == [Dirt(pbr, words) EXCEPT !.folder = "roads"]

DirtSlots == [DIFFUSE |-> Dirt(FALSE, << >>), NORMAL |-> Dirt(FALSE, <<"n">>)]
PBRDirtSlots == [DIFFUSE |-> Dirt(TRUE, << >>), PARALLAX |-> Dirt(TRUE, <<"p">>),
                 ENVMASK |-> Dirt(TRUE, <<"rmaos">>), REST |-> Dirt(TRUE, <<"s">>)]
SnowSlots == [DIFFUSE |-> Snow(<< >>), NORMAL |-> Snow(<<"n">>)]

MCMeshOf == [stones |-> "stones", ruin |-> "stones"]
MCAlternate == [stones |-> << >>, ruin |-> (0 :> PBRDirtSlots)]
MCEmbedded == [stones |-> (0 :> DirtSlots) @@ (1 :> [DIFFUSE |-> Road(FALSE, << >>)])]

MCLandSlots == [path |-> DirtSlots, field |-> PBRDirtSlots, drift |-> SnowSlots]
MCTextureSetOf == [path |-> "LandscapeDirt", field |-> "LandscapeDirt", drift |-> ""]
MCGrassesOf == [path |-> {"fern"}, field |-> {"fern", "moss"}, drift |-> {}]

Always == {Dirt(pbr, words) : pbr \in BOOLEAN, words \in {<< >>, <<"n">>, <<"rmaos">>, <<"s">>}}
              \cup {Road(FALSE, << >>), Road(TRUE, <<"winter">>)}
              \cup {Snow(<< >>), Snow(<<"n">>), Snow(<<"p">>)}

DirtRule == [match |-> <<"dirt">>, slots |-> [ENVMASK |-> Dirt(TRUE, <<"rmaos">>)]]
SecondRule == [match |-> <<"dirt">>, slots |-> [REST |-> Dirt(TRUE, <<"s">>)]]
FullRule == [match |-> <<"dirt">>,
             slots |-> [i \in DOMAIN PBRDirtSlots \ {"DIFFUSE"} |-> PBRDirtSlots[i]]]
WinterRule == [match |-> <<"dirt", "winter">>, slots |-> << >>]

\* which of these groups of textures there are
Seasonal ==
    {{Dirt(TRUE, <<"winter">>), Dirt(TRUE, <<"winter", "rmaos">>)}, {Dirt(TRUE, <<"win", "p">>)},
     {Dirt(FALSE, <<"winter">>)}, {Snow(<<"win">>)}, {Snow(<<"win", "p">>)}}

Game(textures, ruled, configured, default, broken, locked, remove) ==
    [textures |-> Always \cup textures, rules |-> ruled, configs |-> configured,
     landscapeDefault |-> default, brokenMeshes |-> broken, locked |-> locked,
     grassRecords |-> {<<"moss", "WIN">>}, grassMeshes |-> {"fern", "moss"} \X {"WIN"},
     removeGrassInWinter |-> remove]

Config(name, s) == <<name, s>>
DirtConfig == Config("LandscapeDirt", "")

\* the last has a summer texture, too
MCGames ==
    UNION {{Game(UNION textures, <<DirtRule, SecondRule>>, {DirtConfig}, {Dirt(FALSE, << >>)},
                 {}, {}, TRUE),
            Game(UNION textures, <<WinterRule, FullRule>>,
                 {DirtConfig, Config("LandscapeDirt", "WIN")}, {Snow(<< >>)}, {}, {}, FALSE),
            Game(UNION textures, << >>, {DirtConfig}, {Dirt(FALSE, << >>)}, {"stones"}, {}, TRUE),
            Game(UNION textures \cup {Dirt(TRUE, <<"sum">>)}, <<SecondRule>>,
                 {DirtConfig, Config("DefaultPBRLand", "")},
                 {Dirt(FALSE, << >>)}, {"stones"}, {"path"}, FALSE)} :
           textures \in SUBSET Seasonal}

=============================================================================
