-------------------------- MODULE MCForeignCoverage --------------------------
(* Instances of ForeignCoverage for TLC: up to three mods whose winter inis name the   *)
(* same landscape texture or tree in every form the reader knows, one of them  *)
(* also a summer ini, under settings that override, rank or free them.         *)
EXTENDS ForeignCoverage

MCRecord == {"dirt", "dirtGrassy", "snow", "tree", "mist"}
MCTypeOf == [r \in MCRecord |-> CASE r = "tree" -> "TREE"
                                  [] r = "mist" -> "VisualEffects"
                                  [] OTHER -> "LTEX"]
MCDiffuseOf == [r \in {"dirt", "dirtGrassy", "snow"} |->
                    IF r = "snow" THEN "snow" ELSE "dirt"]
MCBases == {<<"dirt", "WIN">>, <<"snow", "SUM">>, <<"tree", "WIN">>}

Swap(base, target) ==
    [section |-> MCTypeOf[base[2]], base |-> base, target |-> target]

ID(r) == <<"id", r>>
EDID(r) == <<"edid", r>>

GrassOnly == Swap(ID("dirt"), ID("dirtGrassy"))
ToSnow == Swap(ID("dirt"), EDID("snow"))
NamedToSnow == Swap(EDID("dirt"), EDID("snow"))
NamedGrassOnly == Swap(EDID("dirt"), EDID("dirtGrassy"))
NoPipe == Swap(ID("dirt"), <<"nopipe">>)
Tree == Swap(ID("tree"), ID("tree"))

One == {GrassOnly, ToSnow, NamedToSnow, NamedGrassOnly, NoPipe, Tree}

\* the inis of three mods, as far as they have one
Inis(first, second, third, summer) ==
    LET all == (<<1, "WIN">> :> first) @@ (<<2, "WIN">> :> second)
                   @@ (<<3, "WIN">> :> third) @@ (<<2, "SUM">> :> summer)
    IN  [ini \in {ini \in DOMAIN all : all[ini] # << >>} |-> all[ini]]

Settled(overrides, overridesOf, priority, priorityOf) ==
    [overrides |-> overrides, overridesOf |-> overridesOf,
     priority |-> priority, priorityOf |-> priorityOf]

None == [t \in {} |-> {}]

\* an ini with a section that is not one of ours
EffectContents ==
    {Inis(<<ToSnow, Swap(ID("mist"), ID("mist"))>>, <<Tree>>, << >>, << >>)}

\* records are named by one kind of key or by both
MCContents ==
    EffectContents
    \cup {Inis(first, second, << >>, << >>) :
        first \in {<<l>> : l \in One} \cup {<<GrassOnly, ToSnow>>, <<ToSnow, NamedGrassOnly>>},
        second \in {<<l>> : l \in One}}
    \cup {Inis(first, << >>, << >>, <<NamedToSnow>>) :
        first \in {<<l>> : l \in One}}
    \cup {Inis(<<first>>, <<second>>, <<third>>, << >>) :
        first \in {GrassOnly, ToSnow}, second \in {GrassOnly, ToSnow},
        third \in {GrassOnly, ToSnow, NoPipe}}

MCSettings ==
    {Settled({}, None, << >>, None), Settled({}, None, <<1, 3>>, None),
     Settled({1}, None, <<2, 1>>, None), Settled({1, 2}, None, <<1, 2>>, None),
     Settled({2}, [t \in {"LTEX"} |-> {1}], << >>, None),
     Settled({1}, [t \in {"LTEX"} |-> {}], <<2>>, [t \in {"LTEX"} |-> <<2, 1>>])}

=============================================================================
