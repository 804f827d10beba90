------------------------- MODULE SeasonalSlotsProofs -------------------------
(* Proofs about SeasonalSlots, for every load order and every installation: what is true of *)
(* the textures of one override, whatever the paths are, and what the walk over the records *)
(* keeps.                                                                                    *)
EXTENDS SeasonalSlots, FiniteSetTheorems, TLAPS

-----------------------------------------------------------------------------
(* The textures of one override *)

LEMMA GameFixed ==
    ASSUME game' = game
    PROVE  /\ \A path, slot, s :
                  seasonSuffixedSibling(path, slot, s)' = seasonSuffixedSibling(path, slot, s)
           /\ \A path : findMatchingPBRConfig(path)' = findMatchingPBRConfig(path)
           /\ \A m : ShapesOf(m)' = ShapesOf(m)
           /\ \A base, s : PBRSlots(base, s)' = PBRSlots(base, s)
           /\ \A slots, rule : PBRBase(slots, rule)' = PBRBase(slots, rule)
<1>1. \A path, slot, s :
          seasonSuffixedSibling(path, slot, s)' = seasonSuffixedSibling(path, slot, s)
  BY DEF seasonSuffixedSibling
<1>2. \A path : findMatchingPBRConfig(path)' = findMatchingPBRConfig(path)
  BY DEF findMatchingPBRConfig
<1>3. \A m : ShapesOf(m)' = ShapesOf(m)
  BY DEF ShapesOf
<1>4. \A base, s : PBRSlots(base, s)' = PBRSlots(base, s)
  BY DEF PBRSlots, SiblingOr, findParallaxSlot, seasonSuffixedSibling
<1>5. \A slots, rule : PBRBase(slots, rule)' = PBRBase(slots, rule)
  BY DEF PBRBase, Conventional
<1>. QED BY <1>1, <1>2, <1>3, <1>4, <1>5

LEMMA SeasonAliases ==
    ASSUME NEW s \in Season
    PROVE  /\ s \in DOMAIN seasonAliases
           /\ DOMAIN seasonAliases[s] \subseteq Nat
           /\ \A n \in DOMAIN seasonAliases[s] : seasonAliases[s][n] \in Range(seasonAliases[s])
<1>1. s \in {"WIN", "SPR", "SUM", "AUT"}
  BY DEF Season, SEASONS, Range
<1>. QED BY <1>1 DEF seasonAliases, Range

\* A season has one sibling of a texture at most: it is there, and its name is that of the
\* texture but for one of the season's aliases.
LEMMA Sibling ==
    ASSUME NEW path, NEW slot, NEW s \in Season, NEW p \in seasonSuffixedSibling(path, slot, s)
    PROVE  /\ p \in game.textures
           /\ \E alias \in Range(seasonAliases[s]) : p = Aliased(path, slot, alias)
           /\ \A q \in seasonSuffixedSibling(path, slot, s) : q = p
<1>. DEFINE candidate(n) == Aliased(path, slot, seasonAliases[s][n])
            found == {n \in DOMAIN seasonAliases[s] : candidate(n) \in game.textures}
            first == {n \in found : \A k \in found : n <= k}
<1>1. seasonSuffixedSibling(path, slot, s) = {candidate(n) : n \in first}
  BY DEF seasonSuffixedSibling
<1>2. \A m, n \in first : m = n
  BY SeasonAliases
<1>. HIDE DEF candidate
<1>3. \A q \in seasonSuffixedSibling(path, slot, s) : q = p
  BY <1>1, <1>2
<1>4. PICK n \in found : p = candidate(n)
  BY <1>1
<1>. QED BY <1>3, <1>4, SeasonAliases DEF candidate

\* What is left of a name without its suffix is the beginning of the name, and not empty.
LEMMA TexBase ==
    ASSUME NEW T, NEW name \in Seq(T) \ {<< >>}, NEW slot
    PROVE  /\ getTexBase(name, slot) \in Seq(T) \ {<< >>}
           /\ Len(getTexBase(name, slot)) <= Len(name)
<1>1. CASE getTexBase(name, slot) = name
  BY <1>1
<1>2. CASE getTexBase(name, slot) = Front(name) /\ Len(name) > 1
  <2>1. Front(name) \in Seq(T) /\ Len(Front(name)) = Len(name) - 1
    BY <1>2 DEF Front
  <2>. QED BY <1>2, <2>1
<1>. QED BY <1>1, <1>2 DEF getTexBase

\* The height map of a texture is found by the name the texture has without its own suffix.
LEMMA ParallaxBase ==
    ASSUME NEW d \in Path
    PROVE  LET p == Parallax(d)
               base == getTexBase(d.name, "DIFFUSE")
           IN  /\ getTexBase(p.name, "PARALLAX") = base
               /\ SubSeq(p.name, Len(base) + 1, Len(p.name)) = <<"p">>
<1>. DEFINE T == Word \cup {"p"}
            base == getTexBase(d.name, "DIFFUSE")
            name == base \o <<"p">>
<1>1. d.name \in Seq(T) \ {<< >>}
  <2>1. d.name \in Seq(Word) \ {<< >>}
    BY DEF Path
  <2>. QED BY <2>1
<1>2. base \in Seq(T) \ {<< >>}
  BY <1>1, TexBase
<1>3. Parallax(d).name = name
  BY DEF Parallax, Path
<1>. HIDE DEF base
<1>4. /\ name \in Seq(T) /\ Len(name) = Len(base) + 1
      /\ Last(name) = "p" /\ Front(name) = base
  <2>1. name \in Seq(T) /\ Len(name) = Len(base) + 1 /\ name[Len(name)] = "p"
    BY <1>2
  <2>2. Front(name) \in Seq(T) /\ Len(Front(name)) = Len(base)
    BY <1>2, <2>1 DEF Front
  <2>3. \A i \in 1 .. Len(base) : Front(name)[i] = base[i]
    BY <1>2, <2>1 DEF Front
  <2>. QED BY <1>2, <2>1, <2>2, <2>3 DEF Last
<1>5. "p" \in SuffixesOf["PARALLAX"]
  BY DEF SuffixesOf
<1>6. getTexBase(name, "PARALLAX") = base
  BY <1>2, <1>4, <1>5 DEF getTexBase
<1>7. SubSeq(name, Len(base) + 1, Len(name)) = <<"p">>
  <2>. DEFINE rest == SubSeq(name, Len(base) + 1, Len(name))
  <2>1. rest \in Seq(T) /\ Len(rest) = 1
    BY <1>2, <1>4
  <2>2. rest[1] = "p"
    BY <1>2, <1>4 DEF Last
  <2>3. rest = <<"p">>
    <3>. HIDE DEF rest
    <3>. QED BY <2>1, <2>2
  <2>. QED BY <2>3
<1>. QED BY <1>3, <1>6, <1>7 DEF base

\* The height map and the diffuse texture of a season have one base, and each an alias.
LEMMA HeightOfSibling ==
    ASSUME NEW d \in Path, NEW s \in Season,
           NEW t \in seasonSuffixedSibling(d, "DIFFUSE", s), NEW h \in findParallaxSlot(d, s)
    PROVE  h \in HeightsOf(t, s) \cap game.textures
<1>. DEFINE base == getTexBase(d.name, "DIFFUSE")
            suffix == SubSeq(d.name, Len(base) + 1, Len(d.name))
<1>1. PICK alias \in Range(seasonAliases[s]) : t = Aliased(d, "DIFFUSE", alias)
  BY Sibling
<1>2. /\ h \in game.textures
      /\ \E a \in Range(seasonAliases[s]) : h = Aliased(Parallax(d), "PARALLAX", a)
  BY Sibling DEF findParallaxSlot
<1>3. PICK a \in Range(seasonAliases[s]) : h = Aliased(Parallax(d), "PARALLAX", a)
  BY <1>2
<1>. DEFINE T == Word \cup {alias, a}
<1>4. d.name \in Seq(T) \ {<< >>}
  <2>1. d.name \in Seq(Word) \ {<< >>}
    BY DEF Path
  <2>. QED BY <2>1
<1>5. base \in Seq(T) /\ suffix \in Seq(T)
  BY <1>4, TexBase
<1>6. t.name = base \o <<alias>> \o suffix
  BY <1>1 DEF Aliased, Path
<1>7. h = [Parallax(d) EXCEPT !.name = base \o <<a>> \o <<"p">>]
  BY <1>3, ParallaxBase DEF Aliased
<1>8. [t EXCEPT !.name = base \o <<a, "p">>] = [Parallax(d) EXCEPT !.name = base \o <<a>> \o <<"p">>]
  <2>1. base \o <<a, "p">> = base \o <<a>> \o <<"p">>
    BY <1>5
  <2>. DEFINE b == base \o <<a, "p">>
  <2>2. [t EXCEPT !.name = b] = [Parallax(d) EXCEPT !.name = b]
    <3>. HIDE DEF b
    <3>. QED BY <1>1 DEF Aliased, Parallax, Path
  <2>. QED BY <2>1, <2>2
<1>. HIDE DEF base, suffix
<1>. DEFINE n == Len(base) + 1
<1>9. n \in DOMAIN t.name /\ t.name[n] = alias /\ SubSeq(t.name, 1, n - 1) = base
  BY <1>5, <1>6
<1>. HIDE DEF n
<1>10. [t EXCEPT !.name = base \o <<a, "p">>] \in HeightsOf(t, s)
  <2>. DEFINE marks == {k \in DOMAIN t.name : t.name[k] \in Range(seasonAliases[s])}
              with(k, b) == [t EXCEPT !.name = SubSeq(@, 1, k - 1) \o <<b, "p">>]
  <2>1. HeightsOf(t, s) = {with(k, b) : k \in marks, b \in Range(seasonAliases[s])}
    BY DEF HeightsOf
  <2>2. n \in marks
    BY <1>9
  <2>3. with(n, a) \in HeightsOf(t, s)
    <3>. HIDE DEF with
    <3>. QED BY <2>1, <2>2
  <2>4. with(n, a) = [t EXCEPT !.name = base \o <<a, "p">>]
    BY <1>9
  <2>. QED BY <2>3, <2>4
<1>. QED BY <1>2, <1>7, <1>8, <1>10

LEMMA SiblingIfAny ==
    ASSUME NEW path, NEW slot, NEW s, seasonSuffixedSibling(path, slot, s) # {}
    PROVE  SiblingOr(path, slot, s) \in seasonSuffixedSibling(path, slot, s)
BY DEF SiblingOr

LEMMA Height ==
    ASSUME NEW height
    PROVE  /\ DOMAIN HeightSlot(height) \subseteq {"PARALLAX"}
           /\ "PARALLAX" \in DOMAIN HeightSlot(height) => HeightSlot(height)["PARALLAX"] \in height
BY DEF HeightSlot

\* What a rule is applied to is the texture under textures\pbr, wherever the record shows it.
LEMMA PBRDiffuse ==
    ASSUME NEW slots, "DIFFUSE" \in DOMAIN slots, slots["DIFFUSE"] \in Path, NEW rule
    PROVE  /\ "DIFFUSE" \in DOMAIN PBRBase(slots, rule)
           /\ PBRBase(slots, rule)["DIFFUSE"] = toPBRFolderPath(slots["DIFFUSE"])
<1>. DEFINE d == slots["DIFFUSE"]
            own == IF d.pbr THEN slots ELSE slotsFromPBRRule(rule, d)
<1>1. "DIFFUSE" \in DOMAIN own /\ own["DIFFUSE"] = toPBRFolderPath(d)
  <2>1. CASE d.pbr
    BY <2>1 DEF toPBRFolderPath, Path
  <2>2. CASE ~d.pbr
    <3>1. slotsFromPBRRule(rule, d) = [DIFFUSE |-> toPBRFolderPath(d)] ++ rule.slots
      BY DEF slotsFromPBRRule
    <3>. QED BY <2>2, <3>1 DEF ++
  <2>. QED BY <2>1, <2>2
<1>2. PBRBase(slots, rule) = own ++ Conventional(own["DIFFUSE"])
  BY DEF PBRBase
<1>. HIDE DEF own
<1>. QED BY <1>1, <1>2 DEF ++

\* what is true of the textures of one override
MadeFrom(slots, s, made, isPBR) ==
    /\ "DIFFUSE" \in DOMAIN slots /\ slots["DIFFUSE"] \in Path
    /\ "DIFFUSE" \in DOMAIN made
    /\ isPBR = (findMatchingPBRConfig(slots["DIFFUSE"]) # {})
    /\ made["DIFFUSE"] \in
           seasonSuffixedSibling(IF isPBR THEN toPBRFolderPath(slots["DIFFUSE"])
                                          ELSE slots["DIFFUSE"], "DIFFUSE", s)
    /\ "PARALLAX" \in DOMAIN made =>
           made["PARALLAX"] \in HeightsOf(made["DIFFUSE"], s) \cap game.textures
    /\ isPBR => \E i \in findMatchingPBRConfig(slots["DIFFUSE"]) :
                    made = PBRSlots(PBRBase(slots, game.rules[i]), s)

LEMMA BuildMakes ==
    ASSUME NEW slots, IsSlots(slots), NEW s \in Season, NEW includeParallax,
           NEW made \in buildSeasonalSlots(slots, s, includeParallax)
    PROVE  MadeFrom(slots, s, made.slots, made.isPBR)
<1>. DEFINE d == slots["DIFFUSE"]
            rule == findMatchingPBRConfig(d)
<1>1. "DIFFUSE" \in DOMAIN slots /\ d \in Path
  BY DEF buildSeasonalSlots, IsSlots
<1>2. CASE rule = {}
  <2>1. /\ made = [slots |-> VanillaSlots(slots, s, includeParallax), isPBR |-> rule # {}]
        /\ HasSeasonalDiffuse(slots, s)
    BY <1>1, <1>2 DEF buildSeasonalSlots
  <2>. DEFINE height == IF includeParallax THEN findParallaxSlot(d, s) ELSE {}
              kept == [i \in DOMAIN slots \cap {"DIFFUSE", "NORMAL"} |-> SiblingOr(slots[i], i, s)]
  <2>2. made.slots = kept ++ HeightSlot(height)
    BY <2>1 DEF VanillaSlots
  <2>3. "DIFFUSE" \in DOMAIN kept /\ kept["DIFFUSE"] = SiblingOr(d, "DIFFUSE", s)
        /\ "PARALLAX" \notin DOMAIN kept
    BY <1>1
  <2>. HIDE DEF kept
  <2>4. "DIFFUSE" \in DOMAIN made.slots /\ made.slots["DIFFUSE"] = SiblingOr(d, "DIFFUSE", s)
    BY <2>2, <2>3 DEF ++
  <2>5. made.slots["DIFFUSE"] \in seasonSuffixedSibling(d, "DIFFUSE", s)
    BY <2>1, <2>4, SiblingIfAny DEF HasSeasonalDiffuse
  <2>6. ASSUME "PARALLAX" \in DOMAIN made.slots
        PROVE  made.slots["PARALLAX"] \in findParallaxSlot(d, s)
    BY <2>2, <2>3, <2>6, Height DEF ++
  <2>. QED BY <1>1, <1>2, <2>1, <2>4, <2>5, <2>6, HeightOfSibling DEF MadeFrom
<1>3. CASE rule # {}
  <2>1. PICK i \in rule :
            /\ made = [slots |-> PBRSlots(PBRBase(slots, game.rules[i]), s), isPBR |-> rule # {}]
            /\ HasSeasonalDiffuse(PBRBase(slots, game.rules[i]), s)
    BY <1>1, <1>3 DEF buildSeasonalSlots
  <2>. DEFINE base == PBRBase(slots, game.rules[i])
              p == toPBRFolderPath(d)
              height == IF "PARALLAX" \in DOMAIN base THEN findParallaxSlot(base["DIFFUSE"], s)
                                                      ELSE {}
              kept == [j \in DOMAIN base \ {"PARALLAX"} |-> SiblingOr(base[j], j, s)]
  <2>2. "DIFFUSE" \in DOMAIN base /\ base["DIFFUSE"] = p
    BY <1>1, PBRDiffuse
  <2>3. made.slots = kept ++ HeightSlot(height)
    BY <2>1 DEF PBRSlots
  <2>. HIDE DEF base
  <2>4. "DIFFUSE" \in DOMAIN kept /\ kept["DIFFUSE"] = SiblingOr(p, "DIFFUSE", s)
        /\ "PARALLAX" \notin DOMAIN kept
    BY <2>2
  <2>. HIDE DEF kept
  <2>5. "DIFFUSE" \in DOMAIN made.slots /\ made.slots["DIFFUSE"] = SiblingOr(p, "DIFFUSE", s)
    BY <2>3, <2>4 DEF ++
  <2>6. made.slots["DIFFUSE"] \in seasonSuffixedSibling(p, "DIFFUSE", s)
    BY <2>1, <2>2, <2>5, SiblingIfAny DEF HasSeasonalDiffuse, base
  <2>7. ASSUME "PARALLAX" \in DOMAIN made.slots
        PROVE  made.slots["PARALLAX"] \in findParallaxSlot(p, s)
    BY <2>2, <2>3, <2>4, <2>7, Height DEF ++
  <2>8. p \in Path
    BY <1>1 DEF toPBRFolderPath, Path
  <2>. QED BY <1>1, <1>3, <2>1, <2>5, <2>6, <2>7, <2>8, HeightOfSibling DEF MadeFrom
<1>. QED BY <1>2, <1>3

-----------------------------------------------------------------------------
(* Finite sets and their sequences *)

LEMMA InSequence ==
    ASSUME NEW S, IsFiniteSet(S)
    PROVE  /\ SetToSeq(S) \in Seq(S)
           /\ IsInjective(SetToSeq(S))
           /\ Range(SetToSeq(S)) = S
<1>. DEFINE n == Cardinality(S)
            f == SetToSeq(S)
<1>1. n \in Nat /\ ExistsBijection(1 .. n, S)
  BY FS_CardinalityType
<1>2. \E g \in [1 .. n -> S] : IsInjective(g)
  BY <1>1 DEF ExistsBijection, Bijection, Injection
<1>3. f \in [1 .. n -> S] /\ IsInjective(f)
  BY <1>2 DEF SetToSeq
<1>4. IsFiniteSet(1 .. n) /\ Cardinality(1 .. n) = n
  BY <1>1, FS_Interval
<1>. HIDE DEF f
<1>5. f \in Injection(1 .. n, S)
  BY <1>3 DEF Injection
<1>6. f \in Surjection(1 .. n, S)
  BY <1>4, <1>5, FS_Injection
<1>7. Range(f) = S
  BY <1>3, <1>6 DEF Surjection, Range
<1>8. f \in Seq(S)
  BY <1>1, <1>3
<1>. QED BY <1>3, <1>7, <1>8 DEF f

LEMMA Joined ==
    ASSUME NEW S, NEW a \in Seq(S), NEW b \in Seq(S), IsInjective(a), IsInjective(b),
           Range(a) \cap Range(b) = {}
    PROVE  /\ a \o b \in Seq(S) /\ IsInjective(a \o b)
           /\ Range(a \o b) = Range(a) \cup Range(b)
<1>. DEFINE c == a \o b
            n == Len(a)
<1>1. /\ c \in Seq(S) /\ Len(c) = n + Len(b) /\ n \in Nat /\ Len(b) \in Nat
      /\ DOMAIN c = 1 .. n + Len(b) /\ DOMAIN a = 1 .. n /\ DOMAIN b = 1 .. Len(b)
  OBVIOUS
<1>2. /\ \A i \in 1 .. n : i \in 1 .. n + Len(b) /\ c[i] = a[i]
      /\ \A i \in 1 .. Len(b) : n + i \in 1 .. n + Len(b) /\ c[n + i] = b[i]
  OBVIOUS
<1>3. \A i \in 1 .. n + Len(b) : i > n => i - n \in 1 .. Len(b) /\ i = n + (i - n)
  BY <1>1
<1>. HIDE DEF c, n
<1>4. \A i \in 1 .. n + Len(b) : c[i] = IF i <= n THEN a[i] ELSE b[i - n]
  BY <1>1, <1>2, <1>3
<1>5. IsInjective(c)
  <2>. SUFFICES ASSUME NEW i \in 1 .. n + Len(b), NEW j \in 1 .. n + Len(b), c[i] = c[j]
                PROVE  i = j
    BY <1>1 DEF IsInjective
  <2>1. /\ \A k, m \in 1 .. n : a[k] = a[m] => k = m
        /\ \A k, m \in 1 .. Len(b) : b[k] = b[m] => k = m
    BY <1>1 DEF IsInjective
  <2>2. \A k \in 1 .. n, m \in 1 .. Len(b) : a[k] # b[m]
    BY <1>1 DEF Range
  <2>3. CASE i <= n /\ j <= n
    BY <1>1, <1>4, <2>1, <2>3
  <2>4. CASE i > n /\ j > n
    <3>1. b[i - n] = b[j - n] /\ i - n \in 1 .. Len(b) /\ j - n \in 1 .. Len(b)
      BY <1>1, <1>3, <1>4, <2>4
    <3>2. i - n = j - n
      BY <2>1, <3>1
    <3>. QED BY <1>1, <3>2
  <2>5. ASSUME NEW k \in 1 .. n + Len(b), NEW m \in 1 .. n + Len(b), k <= n, m > n, c[k] = c[m]
        PROVE  FALSE
    <3>1. c[k] = a[k] /\ c[m] = b[m - n] /\ k \in 1 .. n /\ m - n \in 1 .. Len(b)
      BY <1>1, <1>3, <1>4, <2>5
    <3>. QED BY <2>2, <2>5, <3>1
  <2>. QED BY <1>1, <2>3, <2>4, <2>5
<1>6. Range(c) = Range(a) \cup Range(b)
  <2>1. ASSUME NEW x \in Range(c) PROVE x \in Range(a) \cup Range(b)
    <3>1. PICK i \in 1 .. n + Len(b) : x = c[i]
      BY <1>1 DEF Range
    <3>2. CASE i <= n
      BY <1>1, <1>4, <3>1, <3>2 DEF Range
    <3>3. CASE i > n
      <4>1. x = b[i - n] /\ i - n \in DOMAIN b
        BY <1>1, <1>3, <1>4, <3>1, <3>3
      <4>. QED BY <4>1 DEF Range
    <3>. QED BY <1>1, <3>2, <3>3
  <2>2. Range(a) \subseteq Range(c) /\ Range(b) \subseteq Range(c)
    BY <1>1, <1>2 DEF Range
  <2>. QED BY <2>1, <2>2
<1>. QED BY <1>1, <1>5, <1>6 DEF c

LEMMA FiniteImage ==
    ASSUME NEW f, IsFiniteSet(DOMAIN f)
    PROVE  IsFiniteSet({f[x] : x \in DOMAIN f})
<1>. DEFINE T == {f[x] : x \in DOMAIN f}
<1>1. \A t \in T : \E x \in DOMAIN f : [y \in DOMAIN f |-> f[y]][x] = t
  OBVIOUS
<1>2. [x \in DOMAIN f |-> f[x]] \in Surjection(DOMAIN f, T)
  BY <1>1 DEF Surjection
<1>. QED BY <1>2, FS_Surjection

LEMMA AtMostOne ==
    ASSUME NEW S, \A x, y \in S : x = y
    PROVE  IsFiniteSet(S)
<1>1. CASE S = {}
  BY <1>1, FS_EmptySet
<1>2. ASSUME NEW x \in S PROVE IsFiniteSet(S)
  <2>1. S = {x}
    OBVIOUS
  <2>. QED BY <2>1, FS_Singleton
<1>. QED BY <1>1, <1>2

-----------------------------------------------------------------------------
(* The walk *)

LEMMA ShapesTyped ==
    ASSUME game \in Games, NEW m \in Model
    PROVE  /\ DOMAIN ShapesOf(m) \subseteq Shape
           /\ \A i \in DOMAIN ShapesOf(m) : IsSlots(ShapesOf(m)[i])
BY SlotsAssumption DEF ShapesOf, ++

\* A request has what the season has for the slots of its record.
RequestInv ==
    /\ game \in Games /\ season \in 1 .. Len(SEASONS)
    /\ \A r \in requests :
           /\ r.rec \in Record /\ r.season \in Season
           /\ \A o \in r.overrides :
                  MadeFrom(BaseSlots(r.rec, o.shape), r.season, o.slots, o.isPBR)

\* The rules written are for the textures that were asked for and have none.
RuleInv ==
    /\ seenPBRRuleFor = PBRTextures
    /\ outPBRRules \in Seq(seenPBRRuleFor) /\ IsInjective(outPBRRules)
    /\ Range(outPBRRules) = {t \in seenPBRRuleFor : findMatchingPBRConfig(t) = {}}

VanillaHeight(r) ==
    r.rec \in Land /\ \E o \in r.overrides : ~o.isPBR /\ "PARALLAX" \in DOMAIN o.slots

\* A height map was remembered if and only if some landscape asked for one.
HeightInv ==
    /\ anyParallaxFound # {} <=> \E r \in requests : VanillaHeight(r)
    /\ phase = "done" =>
           landscapeDefaultParallax =
               IF anyParallaxFound = {} THEN {}
               ELSE {Parallax(d) : d \in game.landscapeDefault} \cap game.textures

TextureSet == {TextureSetOf[l] : l \in Land}
Clone == [edid : (TextureSet \X Season) \cup {<<"DefaultPBRLand", "">>}, from : TextureSet \X {""}]
PBRLand(r) == r.rec \in Land /\ \A o \in r.overrides : o.isPBR

\* A config is cloned for a texture set and season seen, or for the default at the very end.
ConfigInv ==
    /\ outPBRTextureSets \in Seq(Clone)
    /\ defaultPBRLandConfig \subseteq TextureSet \X {""}
    /\ \A i, j \in DOMAIN outPBRTextureSets :
           outPBRTextureSets[i].edid = outPBRTextureSets[j].edid => i = j
    /\ \A i \in DOMAIN outPBRTextureSets :
           /\ outPBRTextureSets[i].edid \notin game.configs
           /\ \/ outPBRTextureSets[i].edid \in seenPBRTextureSetFor
              \/ /\ outPBRTextureSets[i].edid = <<"DefaultPBRLand", "">>
                 /\ phase = "done" /\ defaultPBRLandSlots # {}
    /\ \A e \in seenPBRTextureSetFor :
           \E r \in requests : PBRLand(r) /\ e = <<TextureSetOf[r.rec], r.season>>

\* what a grass is swapped for in a season, by the cache
GrassIn(g, s) ==
    IF grassDuplicateCache[<<g, s>>] # "none" THEN grassDuplicateCache[<<g, s>>]
    ELSE IF game.removeGrassInWinter /\ s = "WIN" THEN "removed" ELSE "base"

\* The cache remembers all the grass that was ever swapped or duplicated.
GrassInv ==
    /\ grassDuplicates \in Seq(Grass \X Season) /\ IsInjective(grassDuplicates)
    /\ \A k \in Range(grassDuplicates) :
           k \in DOMAIN grassDuplicateCache /\ k \notin game.grassRecords
    /\ \A r \in requests : \A g \in DOMAIN r.grasses :
           <<g, r.season>> \in DOMAIN grassDuplicateCache /\ r.grasses[g] = GrassIn(g, r.season)

SlotsInv == RequestInv /\ RuleInv /\ HeightInv /\ ConfigInv /\ GrassInv

LEMMA MadeFixed ==
    ASSUME game' = game
    PROVE  /\ \A slots, s, made, isPBR :
                  MadeFrom(slots, s, made, isPBR)' = MadeFrom(slots, s, made, isPBR)
           /\ \A rec, i : BaseSlots(rec, i)' = BaseSlots(rec, i)
<1>1. \A slots, s, made, isPBR :
          MadeFrom(slots, s, made, isPBR)' = MadeFrom(slots, s, made, isPBR)
  BY GameFixed DEF MadeFrom
<1>2. \A rec, i : BaseSlots(rec, i)' = BaseSlots(rec, i)
  BY GameFixed DEF BaseSlots
<1>. QED BY <1>1, <1>2

\* A step that asks for nothing and writes nothing.
LEMMA QuietKeeps ==
    ASSUME SlotsInv, game' = game, season' \in 1 .. Len(SEASONS),
           UNCHANGED <<requests, rules, configs, grass, anyParallaxFound,
                       landscapeDefaultParallax>>,
           phase' = "done" <=> phase = "done",
           defaultPBRLandSlots # {} => defaultPBRLandSlots' # {},
           defaultPBRLandConfig' \subseteq TextureSet \X {""}
    PROVE  SlotsInv'
<1>1. RequestInv'
  <2>1. RequestInv /\ requests' = requests
    BY DEF SlotsInv
  <2>2. ASSUME NEW r \in requests, NEW o \in r.overrides
        PROVE  MadeFrom(BaseSlots(r.rec, o.shape), r.season, o.slots, o.isPBR)'
    <3>1. PICK base : base = BaseSlots(r.rec, o.shape)
      OBVIOUS
    <3>2. MadeFrom(base, r.season, o.slots, o.isPBR)
      BY <2>1, <3>1 DEF RequestInv
    <3>3. MadeFrom(base, r.season, o.slots, o.isPBR)'
      BY <3>2, MadeFixed
    <3>4. BaseSlots(r.rec, o.shape)' = base
      BY <3>1, MadeFixed
    <3>. QED BY <3>3, <3>4 DEF MadeFrom
  <2>. QED BY <2>1, <2>2 DEF RequestInv
<1>2. RuleInv'
  <2>1. RuleInv /\ outPBRRules' = outPBRRules /\ seenPBRRuleFor' = seenPBRRuleFor
    BY DEF SlotsInv, rules
  <2>2. PBRTextures' = PBRTextures
    BY DEF PBRTextures
  <2>3. \A t : findMatchingPBRConfig(t)' = findMatchingPBRConfig(t)
    BY GameFixed
  <2>. QED BY <2>1, <2>2, <2>3 DEF RuleInv
<1>3. HeightInv'
  BY DEF SlotsInv, HeightInv, VanillaHeight
<1>4. ConfigInv'
  BY DEF SlotsInv, ConfigInv, configs, PBRLand
<1>5. GrassInv'
  <2>1. GrassInv /\ UNCHANGED <<requests, grassDuplicates, grassDuplicateCache, game>>
    BY DEF SlotsInv, grass
  <2>2. \A g, s : GrassIn(g, s)' = GrassIn(g, s)
    BY <2>1 DEF GrassIn
  <2>. QED BY <2>1, <2>2 DEF GrassInv
<1>. QED BY <1>1, <1>2, <1>3, <1>4, <1>5 DEF SlotsInv

LEMMA NewRequest ==
    ASSUME RequestInv, game' = game, season' \in 1 .. Len(SEASONS),
           NEW q, requests' = requests \cup {q}, q.rec \in Record, q.season \in Season,
           \A o \in q.overrides : MadeFrom(BaseSlots(q.rec, o.shape), q.season, o.slots, o.isPBR)
    PROVE  RequestInv'
BY MadeFixed DEF RequestInv

\* the textures a rule may have to be written for
Ruled(overrides) == {o.slots["DIFFUSE"] : o \in {o \in overrides : o.isPBR}}

\* A texture gets a rule when it is first asked for, unless a mod has one.
LEMMA NewRules ==
    ASSUME RuleInv, game' = game, NEW q, requests' = requests \cup {q},
           recordPBRRules(q.overrides), IsFiniteSet(Ruled(q.overrides))
    PROVE  RuleInv'
<1>. DEFINE new == Ruled(q.overrides) \ seenPBRRuleFor
            unruled == {t \in new : findMatchingPBRConfig(t) = {}}
            added == SetToSeq(unruled)
<1>1. seenPBRRuleFor' = seenPBRRuleFor \cup new /\ outPBRRules' = outPBRRules \o added
  BY DEF recordPBRRules, Rules, Ruled
<1>2. PBRTextures' = PBRTextures \cup Ruled(q.overrides)
  BY DEF PBRTextures, Ruled
<1>3. added \in Seq(unruled) /\ IsInjective(added) /\ Range(added) = unruled
  <2>1. IsFiniteSet(unruled)
    BY FS_Subset
  <2>. QED BY <2>1, InSequence
<1>. HIDE DEF added, new
<1>4. /\ outPBRRules \in Seq(seenPBRRuleFor) /\ IsInjective(outPBRRules)
      /\ Range(outPBRRules) = {t \in seenPBRRuleFor : findMatchingPBRConfig(t) = {}}
      /\ seenPBRRuleFor = PBRTextures
  BY DEF RuleInv
<1>5. new \cap seenPBRRuleFor = {}
  BY DEF new
<1>6. /\ outPBRRules' \in Seq(seenPBRRuleFor') /\ IsInjective(outPBRRules')
      /\ Range(outPBRRules') = Range(outPBRRules) \cup Range(added)
  <2>1. Range(outPBRRules) \cap Range(added) = {}
    BY <1>3, <1>4, <1>5
  <2>. DEFINE S == seenPBRRuleFor \cup new
  <2>2. outPBRRules \in Seq(S) /\ added \in Seq(S)
    BY <1>3, <1>4
  <2>. HIDE DEF S
  <2>3. /\ outPBRRules \o added \in Seq(S) /\ IsInjective(outPBRRules \o added)
        /\ Range(outPBRRules \o added) = Range(outPBRRules) \cup Range(added)
    BY <1>3, <1>4, <2>1, <2>2, Joined
  <2>. QED BY <1>1, <2>3 DEF S
<1>7. \A path : findMatchingPBRConfig(path)' = findMatchingPBRConfig(path)
  BY GameFixed
<1>8. Range(outPBRRules') = {t \in seenPBRRuleFor' : findMatchingPBRConfig(t)' = {}}
  BY <1>1, <1>3, <1>4, <1>6, <1>7
<1>9. seenPBRRuleFor' = PBRTextures'
  BY <1>1, <1>2, <1>4 DEF new
<1>. QED BY <1>6, <1>8, <1>9 DEF RuleInv

\* A height map is remembered from the first landscape that is not PBR and has one.
LEMMA NewHeight ==
    ASSUME HeightInv, phase # "done", phase' # "done", NEW l \in Land, NEW made, NEW q,
           q.rec = l, \A o \in q.overrides : o.slots = made.slots /\ o.isPBR = made.isPBR,
           q.overrides # {}, requests' = requests \cup {q}, findAnyParallax(made)
    PROVE  HeightInv'
<1>1. VanillaHeight(q) <=> ~made.isPBR /\ "PARALLAX" \in DOMAIN made.slots
  BY DEF VanillaHeight
<1>2. anyParallaxFound' # {} <=> anyParallaxFound # {} \/ VanillaHeight(q)
  BY <1>1 DEF findAnyParallax
<1>3. (\E r \in requests' : VanillaHeight(r)) <=> (\E r \in requests : VanillaHeight(r)) \/ VanillaHeight(q)
  OBVIOUS
<1>. QED BY <1>2, <1>3 DEF HeightInv, VanillaHeight

\* A config is cloned for a texture set and season not seen before, and no mod has one.
LEMMA NewConfig ==
    ASSUME ConfigInv, game' = game, phase # "done", NEW l \in Land, NEW s \in Season,
           NEW isPBR, NEW q, q.rec = l, q.season = s, \A o \in q.overrides : o.isPBR = isPBR,
           requests' = requests \cup {q}, UNCHANGED <<phase, defaults>>,
           cloneTextureSet(l, s, isPBR)
    PROVE  ConfigInv'
<1>. DEFINE edid == <<TextureSetOf[l], s>>
            clone == [edid |-> edid, from |-> <<TextureSetOf[l], "">>]
<1>1. CASE UNCHANGED configs
  BY <1>1 DEF ConfigInv, configs, defaults, PBRLand
<1>2. CASE /\ isPBR /\ edid \notin seenPBRTextureSetFor \cup game.configs
           /\ seenPBRTextureSetFor' = seenPBRTextureSetFor \cup {edid}
           /\ CloneConfig(<<TextureSetOf[l], "">>, edid)
  <2>1. clone \in Clone /\ clone.edid = edid
    BY DEF Clone, TextureSet
  <2>2. \A e \in seenPBRTextureSetFor' :
            \E r \in requests' : PBRLand(r) /\ e = <<TextureSetOf[r.rec], r.season>>
    <3>1. PBRLand(q) /\ edid = <<TextureSetOf[q.rec], q.season>>
      BY <1>2 DEF PBRLand
    <3>. QED BY <1>2, <3>1 DEF ConfigInv
  <2>3. \A i \in DOMAIN outPBRTextureSets :
            outPBRTextureSets[i].edid \in seenPBRTextureSetFor
    BY DEF ConfigInv
  <2>. HIDE DEF clone, edid
  <2>4. CASE outPBRTextureSets' = outPBRTextureSets
    BY <1>2, <2>2, <2>3, <2>4 DEF ConfigInv, defaults, PBRLand
  <2>5. CASE outPBRTextureSets' = Append(outPBRTextureSets, clone)
    <3>. DEFINE n == Len(outPBRTextureSets)
    <3>. outPBRTextureSets \in Seq(Clone)
      BY DEF ConfigInv
    <3>1. /\ outPBRTextureSets' \in Seq(Clone) /\ n \in Nat
          /\ DOMAIN outPBRTextureSets = 1 .. n /\ DOMAIN outPBRTextureSets' = 1 .. n + 1
          /\ \A i \in 1 .. n : outPBRTextureSets'[i] = outPBRTextureSets[i]
          /\ outPBRTextureSets'[n + 1] = clone
      BY <2>1, <2>5
    <3>. HIDE DEF n
    <3>2. \A i \in 1 .. n + 1 : i # n + 1 => i \in 1 .. n
      BY <3>1
    <3>3. \A i \in 1 .. n : outPBRTextureSets[i].edid # edid
      BY <1>2, <2>3, <3>1
    <3>4. \A i, j \in DOMAIN outPBRTextureSets' :
              outPBRTextureSets'[i].edid = outPBRTextureSets'[j].edid => i = j
      BY <2>1, <3>1, <3>2, <3>3 DEF ConfigInv
    <3>5. \A i \in DOMAIN outPBRTextureSets' :
              /\ outPBRTextureSets'[i].edid \notin game'.configs
              /\ outPBRTextureSets'[i].edid \in seenPBRTextureSetFor'
      BY <1>2, <2>1, <2>3, <3>1, <3>2 DEF ConfigInv
    <3>. QED BY <2>2, <3>1, <3>4, <3>5 DEF ConfigInv, defaults, PBRLand
  <2>. QED BY <1>2, <2>4, <2>5 DEF CloneConfig, clone, edid
<1>. QED BY <1>1, <1>2 DEF cloneTextureSet

\* What is known of a grass stays known, and a landscape is given what the cache says.
LEMMA NewGrass ==
    ASSUME GrassInv, game' = game, NEW l \in Land, NEW s \in Season, NEW q, q.season = s,
           q.grasses = SwappedGrass(l, s), requests' = requests \cup {q},
           getOrCreateSeasonalGrass(l, s)
    PROVE  GrassInv'
<1>. DEFINE all == GrassesOf[l] \X {s}
            asked == {k \in all : /\ k \notin DOMAIN grassDuplicateCache
                                  /\ k \in game.grassMeshes \ game.grassRecords}
<1>1. PICK made \in SUBSET asked :
          /\ grassDuplicates' = grassDuplicates \o SetToSeq(made)
          /\ rememberGrass(l, s, made)
  BY DEF getOrCreateSeasonalGrass
<1>. DEFINE new == [k \in all |-> CASE k \in game.grassRecords -> "record"
                                    [] k \in made -> "duplicate"
                                    [] OTHER -> "none"]
<1>2. grassDuplicateCache' = grassDuplicateCache ++ new
  BY <1>1 DEF rememberGrass
<1>3. DOMAIN new = all
  OBVIOUS
<1>. HIDE DEF new
<1>4. /\ DOMAIN grassDuplicateCache' = DOMAIN grassDuplicateCache \cup all
      /\ \A k \in DOMAIN grassDuplicateCache : grassDuplicateCache'[k] = grassDuplicateCache[k]
  BY <1>2, <1>3 DEF ++
<1>5. GrassesOf[l] \subseteq Grass
  BY SlotsAssumption
<1>6. IsFiniteSet(made)
  <2>1. IsFiniteSet(Grass \X Season)
    <3>1. DOMAIN SEASONS = 1 .. 4
      BY DEF SEASONS
    <3>2. IsFiniteSet(DOMAIN SEASONS)
      <4>1. 1 \in Int /\ 4 \in Int
        OBVIOUS
      <4>2. IsFiniteSet(1 .. 4)
        BY <4>1, FS_Interval
      <4>. QED BY <3>1, <4>2
    <3>3. IsFiniteSet({SEASONS[i] : i \in DOMAIN SEASONS})
      BY <3>2, FiniteImage
    <3>4. IsFiniteSet(Season)
      BY <3>3 DEF Season, Range
    <3>. QED BY <3>4, SlotsAssumption, FS_Product
  <2>2. made \subseteq Grass \X Season
    BY <1>5
  <2>. QED BY <2>1, <2>2, FS_Subset
<1>7. SetToSeq(made) \in Seq(made) /\ IsInjective(SetToSeq(made)) /\ Range(SetToSeq(made)) = made
  BY <1>6, InSequence
<1>8. /\ grassDuplicates' \in Seq(Grass \X Season) /\ IsInjective(grassDuplicates')
      /\ Range(grassDuplicates') = Range(grassDuplicates) \cup made
  <2>1. Range(grassDuplicates) \cap made = {}
    BY DEF GrassInv
  <2>2. SetToSeq(made) \in Seq(Grass \X Season)
    BY <1>5, <1>7
  <2>. QED BY <1>1, <1>7, <2>1, <2>2, Joined DEF GrassInv
<1>9. \A k \in Range(grassDuplicates') :
          k \in DOMAIN grassDuplicateCache' /\ k \notin game'.grassRecords
  BY <1>4, <1>8 DEF GrassInv
<1>10. ASSUME NEW r \in requests', NEW g \in DOMAIN r.grasses
       PROVE  /\ <<g, r.season>> \in DOMAIN grassDuplicateCache'
              /\ r.grasses[g] = GrassIn(g, r.season)'
  <2>1. CASE r \in requests
    BY <1>4, <2>1 DEF GrassInv, GrassIn
  <2>2. CASE r = q
    <3>1. g \in GrassesOf[l] /\ <<g, s>> \in DOMAIN grassDuplicateCache'
      BY <1>4, <2>2 DEF SwappedGrass
    <3>. QED BY <2>2, <3>1 DEF SwappedGrass, GrassIn
  <2>. QED BY <2>1, <2>2
<1>. QED BY <1>8, <1>9, <1>10 DEF GrassInv

-----------------------------------------------------------------------------
(* The steps *)

\* the overrides of a model in a season
OverridesOf(m, s) ==
    UNION {{[shape |-> i, slots |-> made.slots, isPBR |-> made.isPBR] :
               made \in buildSeasonalSlots(ShapesOf(m)[i], s, FALSE)} : i \in DOMAIN ShapesOf(m)}

LEMMA ServeModelKeeps ==
    ASSUME SlotsInv, NEW m \in Model, ServeModel(m)
    PROVE  SlotsInv'
<1>. DEFINE s == SEASONS[season]
            q == [rec |-> m, season |-> s, overrides |-> OverridesOf(m, s), grasses |-> << >>]
<1>1. /\ recordPBRRules(OverridesOf(m, s)) /\ requests' = requests \cup {q}
      /\ UNCHANGED <<configs, grass, anyParallaxFound, defaults, landscapeDefaultParallax>>
      /\ NextSeason /\ phase = "models"
  BY DEF ServeModel, OverridesOf
<1>2. game' = game /\ phase' = phase /\ season' \in 1 .. Len(SEASONS) /\ s \in Season
  <2>1. season \in 1 .. 4 /\ Len(SEASONS) = 4 /\ DOMAIN SEASONS = 1 .. 4
    BY DEF SlotsInv, RequestInv, SEASONS
  <2>. QED BY <1>1, <2>1 DEF NextSeason, Season, Range
<1>3. \A o \in OverridesOf(m, s) : MadeFrom(BaseSlots(m, o.shape), s, o.slots, o.isPBR)
  <2>. SUFFICES ASSUME NEW o \in OverridesOf(m, s)
                PROVE  MadeFrom(BaseSlots(m, o.shape), s, o.slots, o.isPBR)
    OBVIOUS
  <2>1. PICK i \in DOMAIN ShapesOf(m) : \E made \in buildSeasonalSlots(ShapesOf(m)[i], s, FALSE) :
            o = [shape |-> i, slots |-> made.slots, isPBR |-> made.isPBR]
    BY DEF OverridesOf
  <2>2. PICK made \in buildSeasonalSlots(ShapesOf(m)[i], s, FALSE) :
            o = [shape |-> i, slots |-> made.slots, isPBR |-> made.isPBR]
    BY <2>1
  <2>3. IsSlots(ShapesOf(m)[i])
    BY ShapesTyped DEF SlotsInv, RequestInv
  <2>4. MadeFrom(ShapesOf(m)[i], s, made.slots, made.isPBR)
    BY <1>2, <2>3, BuildMakes
  <2>5. BaseSlots(m, o.shape) = ShapesOf(m)[i]
    BY <2>2, SlotsAssumption DEF BaseSlots
  <2>. QED BY <2>2, <2>4, <2>5
<1>4. IsFiniteSet(Ruled(OverridesOf(m, s)))
  <2>. DEFINE d(i) == ShapesOf(m)[i]["DIFFUSE"]
              of == [i \in DOMAIN ShapesOf(m) |->
                        seasonSuffixedSibling(toPBRFolderPath(d(i)), "DIFFUSE", s)]
  <2>1. Ruled(OverridesOf(m, s)) \subseteq UNION {of[i] : i \in DOMAIN of}
    <3>. SUFFICES ASSUME NEW o \in OverridesOf(m, s), o.isPBR
                  PROVE  \E i \in DOMAIN of : o.slots["DIFFUSE"] \in of[i]
      BY DEF Ruled
    <3>1. o.shape \in DOMAIN of
      <4>1. PICK i \in DOMAIN ShapesOf(m) :
                \E made \in buildSeasonalSlots(ShapesOf(m)[i], s, FALSE) :
                    o = [shape |-> i, slots |-> made.slots, isPBR |-> made.isPBR]
        BY DEF OverridesOf
      <4>. QED BY <4>1
    <3>2. o.slots["DIFFUSE"] \in of[o.shape]
      BY <1>3, <3>1, SlotsAssumption DEF MadeFrom, BaseSlots
    <3>. QED BY <3>1, <3>2
  <2>2. IsFiniteSet(DOMAIN of)
    BY ShapesTyped, SlotsAssumption, FS_Subset DEF SlotsInv, RequestInv
  <2>3. \A i \in DOMAIN of : IsFiniteSet(of[i])
    <3>. SUFFICES ASSUME NEW i \in DOMAIN of PROVE IsFiniteSet(of[i])
      OBVIOUS
    <3>1. \A x, y \in seasonSuffixedSibling(toPBRFolderPath(d(i)), "DIFFUSE", s) : x = y
      BY <1>2, Sibling
    <3>2. IsFiniteSet(seasonSuffixedSibling(toPBRFolderPath(d(i)), "DIFFUSE", s))
      BY <3>1, AtMostOne
    <3>. QED BY <3>2
  <2>. HIDE DEF of
  <2>4. IsFiniteSet(UNION {of[i] : i \in DOMAIN of})
    <3>1. IsFiniteSet({of[i] : i \in DOMAIN of})
      BY <2>2, FiniteImage
    <3>2. \A T \in {of[i] : i \in DOMAIN of} : IsFiniteSet(T)
      BY <2>3
    <3>. QED BY <3>1, <3>2, FS_UNION
  <2>. QED BY <2>1, <2>4, FS_Subset
<1>. HIDE DEF s
<1>5. RequestInv'
  <2>1. q.rec \in Record /\ q.season \in Season
    BY <1>2 DEF Record
  <2>2. \A o \in q.overrides : MadeFrom(BaseSlots(q.rec, o.shape), q.season, o.slots, o.isPBR)
    BY <1>3
  <2>. HIDE DEF q
  <2>. QED BY <1>1, <1>2, <2>1, <2>2, NewRequest DEF SlotsInv
<1>6. RuleInv'
  <2>1. q.overrides = OverridesOf(m, s)
    OBVIOUS
  <2>. HIDE DEF q
  <2>2. recordPBRRules(q.overrides) /\ IsFiniteSet(Ruled(q.overrides))
    BY <1>1, <1>4, <2>1
  <2>. QED BY <1>1, <1>2, <2>2, NewRules DEF SlotsInv
<1>7. q.rec \notin Land /\ DOMAIN q.grasses = {}
  BY SlotsAssumption
<1>. HIDE DEF q
<1>8. HeightInv'
  BY <1>1, <1>2, <1>7 DEF SlotsInv, HeightInv, VanillaHeight
<1>9. ConfigInv'
  BY <1>1, <1>2 DEF SlotsInv, ConfigInv, configs, defaults, PBRLand
<1>10. GrassInv'
  BY <1>1, <1>2, <1>7 DEF SlotsInv, GrassInv, GrassIn, grass
<1>. QED BY <1>5, <1>6, <1>8, <1>9, <1>10 DEF SlotsInv

LEMMA ServeLandKeeps ==
    ASSUME SlotsInv, NEW l \in Land, NEW borrowed \in BOOLEAN, ServeLand(l, borrowed)
    PROVE  SlotsInv'
<1>. DEFINE s == SEASONS[season]
<1>1. /\ NextSeason /\ phase = "lands" /\ UNCHANGED <<defaults, landscapeDefaultParallax>>
      /\ \E made \in buildSeasonalSlots(LandSlots[l], s, game.landscapeDefault # {}) :
             LET override == [shape |-> 0, slots |-> made.slots, isPBR |-> made.isPBR]
             IN  /\ recordPBRRules({override})
                 /\ cloneTextureSet(l, s, made.isPBR)
                 /\ findAnyParallax(made)
                 /\ IF borrowed THEN UNCHANGED grass ELSE getOrCreateSeasonalGrass(l, s)
                 /\ requests' = requests \cup
                        {[rec |-> l, season |-> s, overrides |-> {override},
                          grasses |-> IF borrowed THEN << >> ELSE SwappedGrass(l, s)]}
  BY DEF ServeLand
<1>2. game' = game /\ phase' = phase /\ season' \in 1 .. Len(SEASONS) /\ s \in Season
  <2>1. season \in 1 .. 4 /\ Len(SEASONS) = 4 /\ DOMAIN SEASONS = 1 .. 4
    BY DEF SlotsInv, RequestInv, SEASONS
  <2>. QED BY <1>1, <2>1 DEF NextSeason, Season, Range
<1>3. PICK made \in buildSeasonalSlots(LandSlots[l], s, game.landscapeDefault # {}) :
          LET override == [shape |-> 0, slots |-> made.slots, isPBR |-> made.isPBR]
          IN  /\ recordPBRRules({override})
              /\ cloneTextureSet(l, s, made.isPBR)
              /\ findAnyParallax(made)
              /\ IF borrowed THEN UNCHANGED grass ELSE getOrCreateSeasonalGrass(l, s)
              /\ requests' = requests \cup
                     {[rec |-> l, season |-> s, overrides |-> {override},
                       grasses |-> IF borrowed THEN << >> ELSE SwappedGrass(l, s)]}
  BY <1>1
<1>. DEFINE override == [shape |-> 0, slots |-> made.slots, isPBR |-> made.isPBR]
            q == [rec |-> l, season |-> s, overrides |-> {override},
                  grasses |-> IF borrowed THEN << >> ELSE SwappedGrass(l, s)]
<1>4. MadeFrom(LandSlots[l], s, made.slots, made.isPBR)
  <2>1. IsSlots(LandSlots[l])
    BY SlotsAssumption
  <2>. QED BY <1>2, <2>1, BuildMakes
<1>5. /\ q.rec = l /\ q.season = s /\ q.overrides = {override}
      /\ q.grasses = IF borrowed THEN << >> ELSE SwappedGrass(l, s)
      /\ override.slots = made.slots /\ override.isPBR = made.isPBR
      /\ requests' = requests \cup {q} /\ recordPBRRules({override})
  BY <1>3
<1>. HIDE DEF q, override, s
<1>6. RequestInv'
  <2>1. q.rec \in Record /\ q.season \in Season
    BY <1>2, <1>5 DEF Record
  <2>2. \A o \in q.overrides : MadeFrom(BaseSlots(q.rec, o.shape), q.season, o.slots, o.isPBR)
    BY <1>4, <1>5 DEF BaseSlots
  <2>. QED BY <1>2, <1>5, <2>1, <2>2, NewRequest DEF SlotsInv
<1>7. RuleInv'
  <2>1. \A x, y \in Ruled({override}) : x = y
    BY DEF Ruled
  <2>2. IsFiniteSet(Ruled({override}))
    BY <2>1, AtMostOne
  <2>3. recordPBRRules(q.overrides) /\ IsFiniteSet(Ruled(q.overrides))
    BY <1>5, <2>2
  <2>. QED BY <1>2, <1>5, <2>3, NewRules DEF SlotsInv
<1>8. HeightInv'
  <2>1. /\ \A o \in q.overrides : o.slots = made.slots /\ o.isPBR = made.isPBR
        /\ q.overrides # {} /\ phase # "done" /\ phase' # "done" /\ findAnyParallax(made)
    BY <1>1, <1>2, <1>3, <1>5
  <2>. QED BY <1>5, <2>1, NewHeight DEF SlotsInv
<1>9. ConfigInv'
  <2>1. /\ \A o \in q.overrides : o.isPBR = made.isPBR
        /\ phase # "done" /\ UNCHANGED <<phase, defaults>> /\ cloneTextureSet(l, s, made.isPBR)
    BY <1>1, <1>2, <1>3, <1>5 DEF s
  <2>. QED BY <1>2, <1>5, <2>1, NewConfig DEF SlotsInv
<1>10. GrassInv'
  <2>1. CASE borrowed
    <3>1. UNCHANGED grass /\ DOMAIN q.grasses = {}
      BY <1>3, <1>5, <2>1
    <3>. QED BY <1>2, <1>5, <3>1 DEF SlotsInv, GrassInv, GrassIn, grass
  <2>2. CASE ~borrowed
    <3>1. getOrCreateSeasonalGrass(l, s) /\ q.grasses = SwappedGrass(l, s)
      BY <1>3, <1>5, <2>2 DEF s
    <3>. QED BY <1>2, <1>5, <3>1, NewGrass DEF SlotsInv
  <2>. QED BY <2>1, <2>2
<1>. QED BY <1>6, <1>7, <1>8, <1>9, <1>10 DEF SlotsInv

\* At the end TerrainHelper's shader is switched on, and the default's config cloned.
LEMMA EndLandsKeeps ==
    ASSUME SlotsInv, EndLands
    PROVE  SlotsInv'
<1>. DEFINE edid == <<"DefaultPBRLand", "">>
<1>1. /\ phase = "lands" /\ phase' = "done"
      /\ UNCHANGED <<game, season, requests, rules, seenPBRTextureSetFor, grass, anyParallaxFound,
                     defaults>>
  BY DEF EndLands
<1>2. RequestInv'
  <2>1. RequestInv
    BY DEF SlotsInv
  <2>2. ASSUME NEW r \in requests, NEW o \in r.overrides
        PROVE  MadeFrom(BaseSlots(r.rec, o.shape), r.season, o.slots, o.isPBR)'
    <3>1. MadeFrom(BaseSlots(r.rec, o.shape), r.season, o.slots, o.isPBR)
      BY <2>1 DEF RequestInv
    <3>. QED BY <1>1, <3>1, GameFixed DEF MadeFrom, BaseSlots
  <2>. QED BY <1>1, <2>1, <2>2 DEF RequestInv
<1>3. RuleInv'
  <2>1. RuleInv /\ outPBRRules' = outPBRRules /\ seenPBRRuleFor' = seenPBRRuleFor
    BY <1>1 DEF SlotsInv, rules
  <2>2. PBRTextures' = PBRTextures
    BY <1>1 DEF PBRTextures
  <2>3. \A t : findMatchingPBRConfig(t)' = findMatchingPBRConfig(t)
    BY <1>1, GameFixed
  <2>. QED BY <2>1, <2>2, <2>3 DEF RuleInv
<1>4. HeightInv'
  <2>1. landscapeDefaultParallax' =
            IF anyParallaxFound = {} THEN {}
            ELSE {Parallax(d) : d \in game.landscapeDefault} \cap game.textures
    BY DEF EndLands
  <2>. QED BY <1>1, <2>1 DEF SlotsInv, HeightInv, VanillaHeight
<1>5. ConfigInv'
  <2>1. ConfigInv
    BY DEF SlotsInv
  <2>2. CASE outPBRTextureSets' = outPBRTextureSets
    BY <1>1, <2>1, <2>2 DEF ConfigInv, defaults, PBRLand
  <2>3. ASSUME NEW from \in defaultPBRLandConfig, edid \notin game.configs,
               defaultPBRLandSlots # {},
               outPBRTextureSets' = Append(outPBRTextureSets, [edid |-> edid, from |-> from])
        PROVE  ConfigInv'
    <3>. DEFINE clone == [edid |-> edid, from |-> from]
                n == Len(outPBRTextureSets)
    <3>1. clone \in Clone /\ clone.edid = edid
      BY <2>1, <2>3 DEF Clone, ConfigInv
    <3>2. \A e \in seenPBRTextureSetFor : e # edid
      <4>1. \A s \in Season : s # ""
        <5>1. \A s \in Season : s \in {"WIN", "SPR", "SUM", "AUT"}
          BY DEF Season, SEASONS, Range
        <5>. QED BY <5>1
      <4>2. \A r \in requests : r.season \in Season
        BY DEF SlotsInv, RequestInv
      <4>. QED BY <2>1, <4>1, <4>2 DEF ConfigInv
    <3>. HIDE DEF clone, edid
    <3>3. outPBRTextureSets \in Seq(Clone) /\ outPBRTextureSets' = Append(outPBRTextureSets, clone)
      BY <2>1, <2>3 DEF ConfigInv, clone
    <3>4. /\ outPBRTextureSets' \in Seq(Clone) /\ n \in Nat
          /\ DOMAIN outPBRTextureSets = 1 .. n /\ DOMAIN outPBRTextureSets' = 1 .. n + 1
          /\ \A i \in 1 .. n : outPBRTextureSets'[i] = outPBRTextureSets[i]
          /\ outPBRTextureSets'[n + 1] = clone
      BY <3>1, <3>3
    <3>5. \A i \in 1 .. n : outPBRTextureSets[i].edid \in seenPBRTextureSetFor
      BY <1>1, <2>1, <3>4 DEF ConfigInv
    <3>. HIDE DEF n
    <3>6. \A i \in 1 .. n + 1 : i # n + 1 => i \in 1 .. n
      BY <3>4
    <3>7. \A i, j \in DOMAIN outPBRTextureSets' :
              outPBRTextureSets'[i].edid = outPBRTextureSets'[j].edid => i = j
      <4>1. \A i, j \in 1 .. n : outPBRTextureSets[i].edid = outPBRTextureSets[j].edid => i = j
        BY <2>1, <3>4 DEF ConfigInv
      <4>2. \A i \in 1 .. n : outPBRTextureSets[i].edid # clone.edid
        BY <3>1, <3>2, <3>5
      <4>. QED BY <3>4, <3>6, <4>1, <4>2
    <3>8. \A i \in DOMAIN outPBRTextureSets' :
              /\ outPBRTextureSets'[i].edid \notin game.configs
              /\ \/ outPBRTextureSets'[i].edid \in seenPBRTextureSetFor
                 \/ outPBRTextureSets'[i].edid = edid
      BY <2>1, <2>3, <3>1, <3>4, <3>6 DEF ConfigInv, edid
    <3>. QED BY <1>1, <2>1, <2>3, <3>4, <3>7, <3>8 DEF ConfigInv, defaults, PBRLand, edid
  <2>. QED BY <2>2, <2>3 DEF EndLands, CloneConfig
<1>6. GrassInv'
  BY <1>1 DEF SlotsInv, GrassInv, GrassIn, grass
<1>. QED BY <1>2, <1>3, <1>4, <1>5, <1>6 DEF SlotsInv

LEMMA EnterLandKeeps ==
    ASSUME SlotsInv, NEW l \in Land, EnterLand(l)
    PROVE  SlotsInv'
<1>1. /\ defaultPBRLandSlots # {} => defaultPBRLandSlots' # {}
      /\ defaultPBRLandConfig' = ConfigOf(l) \/ defaultPBRLandConfig' = defaultPBRLandConfig
  BY DEF EnterLand, defaults
<1>2. defaultPBRLandConfig' \subseteq TextureSet \X {""}
  <2>1. ConfigOf(l) \subseteq TextureSet \X {""}
    <3>1. <<TextureSetOf[l], "">> \in TextureSet \X {""}
      BY DEF TextureSet
    <3>. QED BY <3>1 DEF ConfigOf
  <2>. QED BY <1>1, <2>1 DEF SlotsInv, ConfigInv
<1>3. /\ game' = game /\ season' \in 1 .. Len(SEASONS) /\ phase' = phase
      /\ UNCHANGED <<requests, rules, configs, grass, anyParallaxFound,
                     landscapeDefaultParallax>>
  BY DEF EnterLand, SEASONS
<1>. QED BY <1>1, <1>2, <1>3, QuietKeeps

LEMMA SlotsInit ==
    ASSUME Init
    PROVE  SlotsInv
<1>1. RequestInv
  BY DEF Init, RequestInv, SEASONS
<1>2. RuleInv
  BY DEF Init, RuleInv, PBRTextures, IsInjective, Range
<1>3. HeightInv
  BY DEF Init, HeightInv
<1>4. ConfigInv
  BY DEF Init, ConfigInv
<1>5. GrassInv
  BY DEF Init, GrassInv, IsInjective, Range
<1>. QED BY <1>1, <1>2, <1>3, <1>4, <1>5 DEF SlotsInv

LEMMA SlotsStep ==
    ASSUME SlotsInv, [Next]_slotVars
    PROVE  SlotsInv'
<1>1. season \in 1 .. Len(SEASONS) /\ defaultPBRLandConfig \subseteq TextureSet \X {""}
  BY DEF SlotsInv, RequestInv, ConfigInv
<1>2. CASE UNCHANGED slotVars
  BY <1>1, <1>2, QuietKeeps DEF slotVars, walk, defaults
<1>3. ASSUME NEW m \in Model, EnterModel(m) PROVE SlotsInv'
  <2>1. 1 \in 1 .. Len(SEASONS)
    BY DEF SEASONS
  <2>. QED BY <1>1, <1>3, <2>1, QuietKeeps DEF EnterModel, defaults
<1>4. ASSUME NEW m \in Model, ServeModel(m) PROVE SlotsInv'
  BY <1>4, ServeModelKeeps
<1>5. CASE EndModels
  BY <1>1, <1>5, QuietKeeps DEF EndModels, defaults
<1>6. ASSUME NEW l \in Land, EnterLand(l) PROVE SlotsInv'
  BY <1>6, EnterLandKeeps
<1>7. ASSUME NEW l \in Land, NEW borrowed \in BOOLEAN, ServeLand(l, borrowed) PROVE SlotsInv'
  BY <1>7, ServeLandKeeps
<1>8. CASE PassSeason
  <2>1. season' \in 1 .. Len(SEASONS)
    <3>1. Len(SEASONS) = 4
      BY DEF SEASONS
    <3>2. season \in 1 .. 4
      BY <1>1, <3>1
    <3>3. season' = IF season = 4 THEN 1 ELSE season + 1
      BY <1>8, <3>1 DEF PassSeason, NextSeason
    <3>4. season' \in 1 .. 4
      BY <3>2, <3>3
    <3>. QED BY <3>1, <3>4
  <2>. QED BY <1>1, <1>8, <2>1, QuietKeeps DEF PassSeason, NextSeason, defaults
<1>9. CASE EndLands
  BY <1>9, EndLandsKeeps
<1>10. CASE RunThrows
  BY <1>1, <1>10, QuietKeeps DEF RunThrows, defaults
<1>. QED BY <1>2, <1>3, <1>4, <1>5, <1>6, <1>7, <1>8, <1>9, <1>10 DEF Next

-----------------------------------------------------------------------------
(* What the walk never breaks *)

\* In every run of SeasonPatcher::run the requests, the rules and configs to be written, the
\* height map found and the cache of grasses fit together.
THEOREM SlotsInvariant == Spec => []SlotsInv
<1>1. Init => SlotsInv
  BY SlotsInit
<1>2. SlotsInv /\ [Next]_slotVars => SlotsInv'
  BY SlotsStep
<1>. QED BY <1>1, <1>2, PTL DEF Spec

\* Every seasonal PBR texture a duplicate shows has one rule, a mod's or ours, and ours is
\* written once (recordPBRRuleIfNeeded).
THEOREM RulesAreWrittenOnce == Spec => []OneRulePerTexture
<1>1. SlotsInv => OneRulePerTexture
  BY DEF SlotsInv, RuleInv, OneRulePerTexture
<1>. QED BY <1>1, SlotsInvariant, PTL

\* A file name has one rule at most.
LEMMA OneRule ==
    ASSUME game \in Games, NEW path, NEW i \in findMatchingPBRConfig(path),
           NEW j \in findMatchingPBRConfig(path)
    PROVE  i = j
<1>1. i \in Nat /\ j \in Nat
  BY SlotsAssumption DEF IsGame, findMatchingPBRConfig
<1>2. i <= j /\ j <= i
  BY DEF findMatchingPBRConfig
<1>. QED BY <1>1, <1>2

\* What a PBR texture set is built from is the path under textures\pbr and what is wired next to it.
LEMMA WiredDecides ==
    ASSUME game \in Games,
           NEW a, "DIFFUSE" \in DOMAIN a, a["DIFFUSE"] \in Path,
           NEW b, "DIFFUSE" \in DOMAIN b, b["DIFFUSE"] \in Path,
           NEW i \in findMatchingPBRConfig(a["DIFFUSE"]),
           findMatchingPBRConfig(b["DIFFUSE"]) = findMatchingPBRConfig(a["DIFFUSE"]),
           toPBRFolderPath(a["DIFFUSE"]) = toPBRFolderPath(b["DIFFUSE"]),
           Wired(a) = Wired(b)
    PROVE  PBRBase(a, game.rules[i]) = PBRBase(b, game.rules[i])
<1>. DEFINE rule == game.rules[i]
            own(c) == IF c["DIFFUSE"].pbr THEN c ELSE slotsFromPBRRule(rule, c["DIFFUSE"])
            wired(c) == IF c["DIFFUSE"].pbr THEN c ELSE rule.slots
<1>1. ASSUME NEW c, "DIFFUSE" \in DOMAIN c, c["DIFFUSE"] \in Path,
             findMatchingPBRConfig(c["DIFFUSE"]) = findMatchingPBRConfig(a["DIFFUSE"])
      PROVE  /\ DOMAIN own(c) = {"DIFFUSE"} \cup DOMAIN wired(c)
             /\ own(c)["DIFFUSE"] = toPBRFolderPath(c["DIFFUSE"])
             /\ \A x \in DOMAIN wired(c) \ {"DIFFUSE"} : own(c)[x] = wired(c)[x]
             /\ WiredBy(c) = {wired(c)}
  <2>1. CASE c["DIFFUSE"].pbr
    <3>1. toPBRFolderPath(c["DIFFUSE"]) = c["DIFFUSE"]
      BY <1>1, <2>1 DEF toPBRFolderPath, Path
    <3>. QED BY <1>1, <2>1, <3>1 DEF WiredBy
  <2>2. CASE ~c["DIFFUSE"].pbr
    <3>1. own(c) = [DIFFUSE |-> toPBRFolderPath(c["DIFFUSE"])] ++ rule.slots
      BY <2>2 DEF slotsFromPBRRule
    <3>2. /\ DOMAIN own(c) = {"DIFFUSE"} \cup DOMAIN rule.slots
          /\ own(c)["DIFFUSE"] = toPBRFolderPath(c["DIFFUSE"])
          /\ \A x \in DOMAIN rule.slots \ {"DIFFUSE"} : own(c)[x] = rule.slots[x]
      BY <3>1 DEF ++
    <3>3. \A n \in findMatchingPBRConfig(c["DIFFUSE"]) : game.rules[n] = rule
      BY <1>1, OneRule
    <3>4. WiredBy(c) = {rule.slots}
      BY <1>1, <2>2, <3>3 DEF WiredBy
    <3>. QED BY <2>2, <3>2, <3>4
  <2>. QED BY <2>1, <2>2
<1>. HIDE DEF own, wired, rule
<1>2. /\ DOMAIN own(a) = {"DIFFUSE"} \cup DOMAIN wired(a)
      /\ DOMAIN own(b) = {"DIFFUSE"} \cup DOMAIN wired(b)
      /\ own(a)["DIFFUSE"] = own(b)["DIFFUSE"]
      /\ \A x \in DOMAIN wired(a) \ {"DIFFUSE"} : own(a)[x] = wired(a)[x]
      /\ \A x \in DOMAIN wired(b) \ {"DIFFUSE"} : own(b)[x] = wired(b)[x]
      /\ WiredBy(a) = {wired(a)} /\ WiredBy(b) = {wired(b)}
  BY <1>1
<1>3. BesideDiffuse(wired(a)) = BesideDiffuse(wired(b))
  BY <1>2 DEF Wired
<1>. DEFINE u == wired(a)
            v == wired(b)
<1>4. DOMAIN u \ {"DIFFUSE"} = DOMAIN v \ {"DIFFUSE"}
      /\ \A x \in DOMAIN u \ {"DIFFUSE"} : u[x] = v[x]
  <2>1. BesideDiffuse(u) = BesideDiffuse(v)
    BY <1>3
  <2>. HIDE DEF u, v
  <2>. QED BY <2>1 DEF BesideDiffuse
<1>5. /\ DOMAIN own(a) = DOMAIN own(b)
      /\ \A x \in DOMAIN own(a) : own(a)[x] = own(b)[x]
      /\ own(a)["DIFFUSE"] = own(b)["DIFFUSE"]
  BY <1>2, <1>4
<1>6. PBRBase(a, rule) = own(a) ++ Conventional(own(a)["DIFFUSE"])
  BY DEF PBRBase, own
<1>7. PBRBase(b, rule) = own(b) ++ Conventional(own(b)["DIFFUSE"])
  BY DEF PBRBase, own
<1>8. PBRBase(a, rule) = PBRBase(b, rule)
  BY <1>5, <1>6, <1>7 DEF ++
<1>. QED BY <1>8 DEF rule

\* Two records that show one material with a rule, whether or not by a path under textures\pbr,
\* both get PBR textures with the same seasonal diffuse texture, and the same ones throughout
\* if the same is wired for them (findMatchingPBRConfig, buildSeasonalSlots).
THEOREM MaterialsStayPBR == Spec => []SameMaterialSameTextures
<1>1. ASSUME SlotsInv PROVE SameMaterialSameTextures
  <2>. DEFINE base(rec, i) == BaseSlots(rec, i)["DIFFUSE"]
  <2>. SUFFICES ASSUME NEW q \in requests, NEW r \in requests, q.season = r.season,
                       NEW o \in q.overrides, NEW p \in r.overrides,
                       toVanillaFolderPath(base(q.rec, o.shape))
                           = toVanillaFolderPath(base(r.rec, p.shape)),
                       findMatchingPBRConfig(base(q.rec, o.shape)) # {}
                PROVE  /\ o.isPBR /\ p.isPBR /\ o.slots["DIFFUSE"] = p.slots["DIFFUSE"]
                       /\ Wired(BaseSlots(q.rec, o.shape)) = Wired(BaseSlots(r.rec, p.shape))
                              => o.slots = p.slots
    BY DEF SameMaterialSameTextures
  <2>. DEFINE A == BaseSlots(q.rec, o.shape)
              B == BaseSlots(r.rec, p.shape)
              a == A["DIFFUSE"]
              b == B["DIFFUSE"]
  <2>1. toVanillaFolderPath(a) = toVanillaFolderPath(b) /\ findMatchingPBRConfig(a) # {}
    OBVIOUS
  <2>2. /\ MadeFrom(A, q.season, o.slots, o.isPBR)
        /\ MadeFrom(B, q.season, p.slots, p.isPBR)
        /\ q.season \in Season /\ game \in Games
    BY <1>1 DEF SlotsInv, RequestInv
  <2>. HIDE DEF A, B
  <2>4. "DIFFUSE" \in DOMAIN A /\ "DIFFUSE" \in DOMAIN B /\ a \in Path /\ b \in Path
    BY <2>2 DEF MadeFrom
  <2>5. a.name = b.name /\ toPBRFolderPath(a) = toPBRFolderPath(b)
    BY <2>1, <2>4 DEF toVanillaFolderPath, toPBRFolderPath, Path
  <2>6. findMatchingPBRConfig(b) = findMatchingPBRConfig(a)
    BY <2>5 DEF findMatchingPBRConfig
  <2>7. o.isPBR /\ p.isPBR
    BY <2>1, <2>2, <2>6 DEF MadeFrom
  <2>8. /\ o.slots["DIFFUSE"] \in seasonSuffixedSibling(toPBRFolderPath(a), "DIFFUSE", q.season)
        /\ p.slots["DIFFUSE"] \in seasonSuffixedSibling(toPBRFolderPath(a), "DIFFUSE", q.season)
    BY <2>2, <2>5, <2>7 DEF MadeFrom
  <2>9. ASSUME Wired(A) = Wired(B) PROVE o.slots = p.slots
    <3>1. PICK i \in findMatchingPBRConfig(a) :
              o.slots = PBRSlots(PBRBase(A, game.rules[i]), q.season)
      BY <2>2, <2>7 DEF MadeFrom
    <3>2. PICK j \in findMatchingPBRConfig(a) :
              p.slots = PBRSlots(PBRBase(B, game.rules[j]), q.season)
      BY <2>2, <2>6, <2>7 DEF MadeFrom
    <3>3. i = j
      BY <2>2, <3>1, <3>2, OneRule
    <3>4. PBRBase(A, game.rules[i]) = PBRBase(B, game.rules[i])
      BY <2>2, <2>4, <2>5, <2>6, <2>9, WiredDecides
    <3>. QED BY <3>1, <3>2, <3>3, <3>4
  <2>. QED BY <2>2, <2>7, <2>8, <2>9, Sibling DEF A, B
<1>. QED BY <1>1, SlotsInvariant, PTL

\* The height map of a duplicate is one of its own diffuse texture and season (findParallaxSlot).
THEOREM HeightsAreOfTheirSeason == Spec => []HeightOfItsSeason
<1>1. SlotsInv => HeightOfItsSeason
  BY DEF SlotsInv, RequestInv, MadeFrom, HeightOfItsSeason
<1>. QED BY <1>1, SlotsInvariant, PTL

\* TerrainHelper's shader is switched on exactly if some landscape that is not PBR has a height
\* map and LandscapeDefault's own texture has one (patchLandscapeDefaultParallax).
THEOREM ShaderIsUnlockedForVanilla == Spec => []UnlockedForVanilla
<1>1. ASSUME SlotsInv PROVE UnlockedForVanilla
  <2>1. anyParallaxFound # {} <=>
            \E r \in requests : /\ r.rec \in Land
                                /\ \E o \in r.overrides : ~o.isPBR /\ "PARALLAX" \in DOMAIN o.slots
    BY <1>1 DEF SlotsInv, HeightInv, VanillaHeight
  <2>2. {Parallax(d) : d \in game.landscapeDefault} \cap game.textures # {} <=>
            \E d \in game.landscapeDefault : Parallax(d) \in game.textures
    OBVIOUS
  <2>. QED BY <1>1, <2>1, <2>2 DEF SlotsInv, HeightInv, UnlockedForVanilla
<1>. QED BY <1>1, SlotsInvariant, PTL

\* A texture set config is cloned once for an EditorID, not over a mod's, and only for the
\* default landscape and for PBR duplicates of the season (cloneTextureSet, ensureDefaultPBRLand).
THEOREM ConfigsAreClonedOnce == Spec => []ConfigsClonedOnce
<1>1. ASSUME SlotsInv PROVE ConfigsClonedOnce
  <2>1. ConfigInv
    BY <1>1 DEF SlotsInv
  <2>2. ASSUME NEW c \in Range(outPBRTextureSets)
        PROVE  /\ c.edid \notin game.configs
               /\ \/ c.edid = <<"DefaultPBRLand", "">> /\ defaultPBRLandSlots # {}
                  \/ \E r \in requests : PBRLand(r) /\ c.edid = <<TextureSetOf[r.rec], r.season>>
    <3>1. PICK i \in DOMAIN outPBRTextureSets : c = outPBRTextureSets[i]
      BY DEF Range
    <3>. QED BY <2>1, <3>1 DEF ConfigInv
  <2>3. \A i, j \in DOMAIN outPBRTextureSets :
            outPBRTextureSets[i].edid = outPBRTextureSets[j].edid => i = j
    BY <2>1 DEF ConfigInv
  <2>. QED BY <2>2, <2>3 DEF ConfigsClonedOnce, PBRLand
<1>. QED BY <1>1, SlotsInvariant, PTL

\* A grass is swapped alike wherever it grows in a season, and duplicated at most once and not
\* where a mod has a record for it (getOrCreateSeasonalGrass).
THEOREM GrassIsSwappedAlike == Spec => []GrassSwappedAlike
<1>1. ASSUME SlotsInv PROVE GrassSwappedAlike
  <2>1. ASSUME NEW q \in requests, NEW r \in requests, q.season = r.season,
               NEW g \in DOMAIN q.grasses \cap DOMAIN r.grasses
        PROVE  q.grasses[g] = r.grasses[g]
    <3>1. q.grasses[g] = GrassIn(g, q.season) /\ r.grasses[g] = GrassIn(g, r.season)
      BY <1>1 DEF SlotsInv, GrassInv
    <3>. QED BY <2>1, <3>1
  <2>2. Range(grassDuplicates) \cap game.grassRecords = {} /\ IsInjective(grassDuplicates)
    BY <1>1 DEF SlotsInv, GrassInv
  <2>. QED BY <2>1, <2>2 DEF GrassSwappedAlike
<1>. QED BY <1>1, SlotsInvariant, PTL

=============================================================================
