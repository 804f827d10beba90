--------------------------- MODULE ForeignCoverage ---------------------------
(***************************************************************************)
(* How AutoSeasons lives with the Data/Seasons inis of other mods.  It     *)
(* reads them (loadForeignSeasonCoverage), leaves alone the records they   *)
(* cover unless the user overrides the covering mods, folds their lines    *)
(* into one merged ini per season in the order of the user's priorities,   *)
(* its own lines last, and empties the originals.                          *)
(*                                                                         *)
(* The properties compare what the user asked for with what the game then  *)
(* shows.  The game (Seasons of Skyrim) is external: it reads the inis of  *)
(* a season in alphabetical order, and the last line for a record wins.    *)
(***************************************************************************)
EXTENDS Naturals, Sequences, SequencesExt, FiniteSets

CONSTANTS
    NumMods,    \* mods with season inis, numbered in the alphabetical order of their names,
                \* all of which come before "z_AIO_AutoSeasons"
    Season,
    Type,       \* the record types, and ini sections, SeasonPatcher knows
    Section,    \* the sections of an ini
    Record,     \* records that inis name
    TypeOf,     \* the type of a record of the load order; a section name otherwise
    Nameless,   \* records without an EditorID
    DiffuseOf,  \* the diffuse texture of a landscape texture
    Bases,      \* records, and the seasons for which they may have seasonal textures
    Contents,   \* the inis that may lie in Data/Seasons
    Settings    \* what the user may have configured

Mod == 1 .. NumMods
SwapRecord == {r \in Record : TypeOf[r] \in Type}
Ini == Mod \X Season
AutoSeasons == 0     \* its own lines, in the place of a mod

\* "0x..~Plugin.esp" or an EditorID; the EditorID of a record stands for itself
Ref == {"id", "edid"} \X Record
Target == Ref \cup {<<"empty">>, <<"nopipe">>}
Line == [section : Section, base : Ref, target : Target]

ASSUME CoverageAssumption ==
    /\ NumMods \in Nat
    /\ Bases \subseteq SwapRecord \X Season /\ IsFiniteSet(Bases)
    /\ Type \subseteq Section
    /\ TypeOf \in [Record -> Section] /\ Nameless \subseteq Record
    /\ {r \in Record : TypeOf[r] = "LTEX"} \subseteq DOMAIN DiffuseOf
    /\ \A c \in Contents : DOMAIN c \subseteq Ini /\ c \in [DOMAIN c -> Seq(Line)]
    \* per-type settings replace the global ones: partial functions of the record types
    /\ \A s \in Settings :
           /\ s.overrides \subseteq Mod /\ s.priority \in Seq(Mod)
           /\ \A t \in DOMAIN s.overridesOf : t \in Type /\ s.overridesOf[t] \subseteq Mod
           /\ \A t \in DOMAIN s.priorityOf : t \in Type /\ s.priorityOf[t] \in Seq(Mod)

VARIABLES
    content,    \* the lines of each foreign ini there is (input)
    settings,   \* the user's settings (input)
    phase,
    folded,     \* foreignIniFilenames: the inis that were read
    covering,   \* coveringModsWithTargetsBy{FormID,EditorID}Key
    known,      \* knownForeignSeasonalTargetsByEditorID
    lines,      \* rawLinesBySection
    requests,   \* the duplicates asked for, with the record whose grass they borrow
    swaps,      \* those that were made
    opened,     \* seasons whose merged ini could be written
    neutral     \* foreign inis that were emptied

inputs == <<content, settings>>
coverage == <<folded, covering, known>>
output == <<opened, neutral>>
vars == <<inputs, phase, coverage, lines, requests, swaps, output>>

NoGrass == {}

Init ==
    /\ content \in Contents /\ settings \in Settings
    /\ phase = "scan"
    /\ folded = {} /\ covering = {} /\ known = {}
    /\ lines = [k \in Season \X Type |-> << >>]
    /\ requests = {} /\ swaps = {}
    /\ opened = {} /\ neutral = {}

-----------------------------------------------------------------------------
(* The settings, per record type *)

\* an entry for the type replaces the global list, even when it is empty
Overrides(t) ==
    IF t \in DOMAIN settings.overridesOf THEN settings.overridesOf[t] ELSE settings.overrides

\* ... but an empty priority list for the type does not
Priority(t) ==
    IF t \in DOMAIN settings.priorityOf /\ settings.priorityOf[t] # << >>
    THEN settings.priorityOf[t]
    ELSE settings.priority

\* later is stronger; 0 for a mod that is not ranked
Rank(m, priority) ==
    LET at == {i \in DOMAIN priority : priority[i] = m}
    IN  IF at = {} THEN 0 ELSE CHOOSE i \in at : \A j \in at : j <= i

-----------------------------------------------------------------------------
(* loadForeignSeasonCoverage *)

\* the lines of an ini under sections that are recognised
Recognised(ini) == {i \in DOMAIN content[ini] : content[ini][i].section \in Type}

\* later lines of an ini replace earlier ones for the same key
CoveringIn(ini) ==
    {[mod |-> ini[1], season |-> ini[2], section |-> content[ini][i].section,
      base |-> content[ini][i].base, target |-> content[ini][i].target] :
        i \in {i \in Recognised(ini) :
                  \A j \in Recognised(ini) :
                      j > i => \/ content[ini][j].section # content[ini][i].section
                               \/ content[ini][j].base # content[ini][i].base}}

\* EditorIDs to the right of an EditorID, whatever the season
SeasonalTargetsIn(ini) ==
    {content[ini][i].target[2] :
        i \in {i \in Recognised(ini) : /\ content[ini][i].base[1] = "edid"
                                       /\ content[ini][i].target[1] = "edid"}}

\* lines with a pipe are kept as they are
RelayedIn(ini, t) ==
    FlattenSeq([i \in DOMAIN content[ini] |->
        LET l == content[ini][i]
        IN  IF l.section = t /\ l.target # <<"nopipe">>
            THEN <<[mod |-> ini[1], base |-> l.base, target |-> l.target]>>
            ELSE << >>])

\* A mutant: targets are known for the season of the ini only.
ReadIniKnownWinterOnly(ini) ==
    /\ phase = "scan" /\ ini \notin folded
    /\ folded' = folded \cup {ini}
    /\ covering' = covering \cup CoveringIn(ini)
    /\ known' = IF ini[2] = "WIN" THEN known \cup SeasonalTargetsIn(ini) ELSE known
    /\ lines' = [k \in Season \X Type |->
                    IF k[1] = ini[2] THEN lines[k] \o RelayedIn(ini, k[2]) ELSE lines[k]]
    /\ UNCHANGED <<inputs, phase, requests, swaps, output>>

\* one file of the directory, in the order the file system lists them
ReadIni(ini) ==
    /\ phase = "scan" /\ ini \notin folded
    /\ folded' = folded \cup {ini}
    /\ covering' = covering \cup CoveringIn(ini)
    /\ known' = known \cup SeasonalTargetsIn(ini)
    /\ lines' = [k \in Season \X Type |->
                    IF k[1] = ini[2] THEN lines[k] \o RelayedIn(ini, k[2]) ELSE lines[k]]
    /\ UNCHANGED <<inputs, phase, requests, swaps, output>>

\* files may be missing or unreadable, and an error ends the iteration early
EndScan ==
    /\ phase = "scan" /\ phase' = "request"
    /\ UNCHANGED <<inputs, coverage, lines, requests, swaps, output>>

-----------------------------------------------------------------------------
(* Coverage of a record in a season *)

CoveringBy(kind, r, s) ==
    {c \in covering : c.season = s /\ c.section = TypeOf[r] /\ c.base = <<kind, r>>}

ByEditorID(r, s) == IF r \in Nameless THEN {} ELSE CoveringBy("edid", r, s)

IsCovered(r, s) ==
    \/ CoveringBy("id", r, s) # {}
    \/ ByEditorID(r, s) # {}
    \/ r \in known \ Nameless

\* the FormID index is asked first, the EditorID index only if it has no entry
CoveringMods(r, s) ==
    IF CoveringBy("id", r, s) # {} THEN CoveringBy("id", r, s) ELSE ByEditorID(r, s)

\* the mod latest in the priority list, or the alphabetically first if none is in it
PickWinner(candidates, priority) ==
    LET ranked == {c \in candidates : Rank(c.mod, priority) # 0}
    IN  IF ranked # {}
        THEN CHOOSE c \in ranked :
                 \A d \in ranked : Rank(d.mod, priority) <= Rank(c.mod, priority)
        ELSE CHOOSE c \in candidates : \A d \in candidates : c.mod <= d.mod

Respected(r, s) == {c \in CoveringMods(r, s) : c.mod \notin Overrides(TypeOf[r])}

\* resolveEffectiveCoverage
StillCovered(r, s) == CoveringMods(r, s) = {} \/ Respected(r, s) # {}

\* the mod whose swap the record defers to or whose grass it keeps
EffectiveTarget(r, s) ==
    LET candidates == IF Respected(r, s) # {} THEN Respected(r, s) ELSE CoveringMods(r, s)
    IN  IF candidates = {} THEN <<"empty">>
        ELSE PickWinner(candidates, Priority(TypeOf[r])).target

\* the record a reference names, the game's reading included
Names(ref, r) == ref = <<"id", r>> \/ (ref = <<"edid", r>> /\ r \notin Nameless)

ResolveForeignLTEXTarget(target) ==
    {x \in Record : TypeOf[x] = "LTEX" /\ Names(target, x)}

-----------------------------------------------------------------------------
(* run: the requests *)

\* a grass-only patch of a respected mod, or whatever an overridden mod has
BorrowedGrass(r, s) ==
    IF TypeOf[r] # "LTEX" \/ ~IsCovered(r, s) THEN NoGrass
    ELSE {x \in ResolveForeignLTEXTarget(EffectiveTarget(r, s)) :
             StillCovered(r, s) => DiffuseOf[x] = DiffuseOf[r]}

LeftAlone(r, s) ==
    IsCovered(r, s) /\ StillCovered(r, s) /\ BorrowedGrass(r, s) = NoGrass

\* art: the records with a seasonal texture on disk, and the season
MakeRequests(art) ==
    /\ phase = "request" /\ phase' = "generate"
    /\ requests' = {[rec |-> p[1], season |-> p[2], grass |-> BorrowedGrass(p[1], p[2])] :
                        p \in {p \in art : ~LeftAlone(p[1], p[2])}}
    /\ UNCHANGED <<inputs, coverage, lines, swaps, output>>

\* the plugin backend may fail to make some of them
GenerateDuplicates(made) ==
    /\ phase = "generate" /\ phase' = "order"
    /\ swaps' = made
    /\ UNCHANGED <<inputs, coverage, lines, requests, output>>

-----------------------------------------------------------------------------
(* The merged ini *)

\* the lines of some mods, in their order
LinesOf(raw, mods) ==
    FlattenSeq([i \in DOMAIN raw |-> IF raw[i].mod \in mods THEN <<raw[i]>> ELSE << >>])

\* A mutant: lines of overridden mods are kept.
OrderedUnfiltered(raw, t) ==
    FlattenSeq([n \in 1 .. Len(Priority(t)) + 1 |->
        LinesOf(raw, {m \in Mod : Rank(m, Priority(t)) = n - 1})])

\* Another: the mods the user has not ranked are lost.
OrderedRankedOnly(raw, t) ==
    FlattenSeq([n \in 1 .. Len(Priority(t)) |->
        LinesOf(raw, {m \in Mod \ Overrides(t) : Rank(m, Priority(t)) = n})])

\* lines of overridden mods are dropped, the others stably sorted by rank
Ordered(raw, t) ==
    FlattenSeq([n \in 1 .. Len(Priority(t)) + 1 |->
        LinesOf(raw, {m \in Mod \ Overrides(t) : Rank(m, Priority(t)) = n - 1})])

OrderLines ==
    /\ phase = "order" /\ phase' = "write"
    /\ lines' = [k \in Season \X Type |-> Ordered(lines[k], k[2])]
    /\ UNCHANGED <<inputs, coverage, requests, swaps, output>>

OurLines(s, t) ==
    LET made == SetToSeq({w \in swaps : w.season = s /\ TypeOf[w.rec] = t})
    IN  [i \in DOMAIN made |-> [mod |-> AutoSeasons, base |-> <<"id", made[i].rec>>,
                                target |-> <<"id", made[i].rec>>]]

\* A mutant: our lines first.
MergedOursFirst(s, t) == OurLines(s, t) \o lines[<<s, t>>]

\* a section of the merged ini of a season: foreign lines first, ours last
Merged(s, t) == lines[<<s, t>>] \o OurLines(s, t)

\* an ini that cannot be opened is left out
WriteIniFiles(ok) ==
    /\ phase = "write" /\ phase' = "neutralise"
    /\ opened' = ok
    /\ UNCHANGED <<inputs, coverage, lines, requests, swaps, neutral>>

WriteForeignIniOverrides(ok) ==
    /\ phase = "neutralise" /\ phase' = "done"
    /\ neutral' = ok
    /\ UNCHANGED <<inputs, coverage, lines, requests, swaps, opened>>

-----------------------------------------------------------------------------

Next ==
    \/ \E ini \in DOMAIN content : ReadIni(ini)
    \/ EndScan
    \/ \E art \in SUBSET Bases : MakeRequests(art)
    \/ \E made \in SUBSET requests : GenerateDuplicates(made)
    \/ OrderLines
    \/ \E ok \in SUBSET Season : WriteIniFiles(ok)
    \/ \E ok \in SUBSET folded : WriteForeignIniOverrides(ok)

Spec == Init /\ [][Next]_vars

-----------------------------------------------------------------------------
(* The game *)

\* what is left of a foreign ini
InEffect(ini, t) ==
    IF ini \in DOMAIN content \ neutral THEN RelayedIn(ini, t) ELSE << >>

\* every line of a season that concerns records of type t, in the order of evaluation
Evaluated(s, t) ==
    FlattenSeq([m \in Mod |-> InEffect(<<m, s>>, t)])
        \o (IF s \in opened THEN Merged(s, t) ELSE << >>)

\* the last of a sequence of lines that swaps r, if any
LastSwap(ls, r) ==
    {ls[i] : i \in {i \in DOMAIN ls :
        /\ Names(ls[i].base, r) /\ ls[i].target \in Ref
        /\ \A j \in DOMAIN ls : j > i => ~(Names(ls[j].base, r) /\ ls[j].target \in Ref)}}

Shown(r, s) == LastSwap(Evaluated(s, TypeOf[r]), r)

-----------------------------------------------------------------------------

\* A duplicate AutoSeasons made is what the game shows for the record: its line is there and
\* beats every foreign one, in the merged ini and in inis that could not be emptied.
OurSwapsWin ==
    phase = "done" =>
        \A w \in swaps : w.season \in opened =>
            /\ Shown(w.rec, w.season) # {}
            /\ \A l \in Shown(w.rec, w.season) : l.mod = AutoSeasons

\* The game shows no swap of a mod the user overrides for the record's type, also for a
\* record AutoSeasons has no texture for, once the mod's ini has been emptied.
OverriddenModsAreSilent ==
    phase = "done" =>
        \A r \in SwapRecord, s \in Season : \A l \in Shown(r, s) :
            l.mod \in Overrides(TypeOf[r]) => <<l.mod, s>> \notin neutral

\* the swaps of respected mods for r among the inis that were read
RespectedSwaps(r, s) ==
    UNION {LastSwap(RelayedIn(<<m, s>>, TypeOf[r]), r) :
              m \in {m \in Mod \ Overrides(TypeOf[r]) : <<m, s>> \in folded}}

\* the one the user's priorities choose; none if they leave a choice
Preferred(r, s) ==
    {c \in RespectedSwaps(r, s) :
        \A d \in RespectedSwaps(r, s) \ {c} :
            Rank(d.mod, Priority(TypeOf[r])) < Rank(c.mod, Priority(TypeOf[r]))}

\* inis name r by its FormID and by its EditorID
Mixed(r, s) == CoveringBy("id", r, s) # {} /\ ByEditorID(r, s) # {}

Keeps(r, s) ==
    \A c \in Preferred(r, s) : Shown(r, s) # {} /\ \A l \in Shown(r, s) :
        \/ l = c
        \/ /\ l.mod = AutoSeasons
           /\ \E w \in swaps : /\ w.rec = r /\ w.season = s
                               /\ w.grass = ResolveForeignLTEXTarget(c.target)
                               /\ \A x \in w.grass : DiffuseOf[x] = DiffuseOf[r]

\* The swap that the user's priorities prefer among the mods he does not override is not lost:
\* it is the one the game shows, or AutoSeasons has replaced it by a duplicate with the grass
\* of that very swap because it leaves the texture as it is.  The winner of resolveEffectiveCoverage and
\* the last line of the sorted merged ini are computed apart.
RespectedSwapsKept ==
    phase = "done" =>
        \A r \in SwapRecord, s \in opened : Mixed(r, s) \/ Keeps(r, s)

\* What a foreign mod swaps some other record to, by EditorID, is no base for a duplicate in
\* any season unless a mod covers it as a base: and then it is overridden, or leaves the
\* texture as it is.
SeasonalTargetsAreNoBase ==
    \A q \in requests :
        (/\ q.rec \notin Nameless
         /\ \E ini \in folded : \E i \in Recognised(ini) :
                /\ content[ini][i].base[1] = "edid"
                /\ content[ini][i].target = <<"edid", q.rec>>)
            => /\ CoveringMods(q.rec, q.season) # {}
               /\ Respected(q.rec, q.season) = {} \/ q.grass # NoGrass

\* "At least one covering mod remains after removing overwritten ones - still covered"
\* (SeasonPatcher.cpp): the swap of a respected mod is kept, however inis name the record.
EveryRespectedSwapKept ==
    phase = "done" => \A r \in SwapRecord, s \in opened : Keeps(r, s)

=============================================================================
