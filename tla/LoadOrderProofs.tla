--------------------------- MODULE LoadOrderProofs ---------------------------
(* Proofs about BethesdaGame and LoadOrder for every installation and settings. *)
EXTENDS LoadOrder, WellFoundedInduction, TLAPS

-----------------------------------------------------------------------------
(* The list of active plugins *)

Once(s) == \A i, j \in DOMAIN s : s[i] = s[j] => i = j
Has(s, p) == \E i \in DOMAIN s : s[i] = p

BaseNames == {"Skyrim.esm", "Update.esm", "Dawnguard.esm", "HearthFires.esm", "Dragonborn.esm",
              "SkyrimVR.esm"}

CccNames == {installation.ccc[k] : k \in DOMAIN installation.ccc}

LEMMA ElementOf ==
    ASSUME NEW S, NEW s \in Seq(S), NEW i \in DOMAIN s
    PROVE  s[i] \in S
OBVIOUS

\* A plugin that a list does not have may be appended, and is then its last.
LEMMA AppendOnce ==
    ASSUME NEW s \in Seq(Plugin), Once(s), NEW p \in Plugin, ~Has(s, p)
    PROVE  /\ Append(s, p) \in Seq(Plugin) /\ Once(Append(s, p))
           /\ DOMAIN Append(s, p) = 1 .. Len(s) + 1
           /\ \A i \in DOMAIN s : i \in 1 .. Len(s) /\ Append(s, p)[i] = s[i]
           /\ Append(s, p)[Len(s) + 1] = p
<1>1. /\ Append(s, p) \in Seq(Plugin)
      /\ Len(Append(s, p)) = Len(s) + 1
      /\ DOMAIN Append(s, p) = 1 .. Len(s) + 1 /\ DOMAIN s = 1 .. Len(s)
      /\ \A i \in 1 .. Len(s) : Append(s, p)[i] = s[i]
      /\ Append(s, p)[Len(s) + 1] = p
  OBVIOUS
<1>2. Once(Append(s, p))
  <2>. SUFFICES ASSUME NEW i \in DOMAIN Append(s, p), NEW j \in DOMAIN Append(s, p),
                       Append(s, p)[i] = Append(s, p)[j]
                PROVE  i = j
    BY DEF Once
  <2>1. i \in 1 .. Len(s) + 1 /\ j \in 1 .. Len(s) + 1 /\ Len(s) \in Nat
    BY <1>1
  <2>2. CASE i \in 1 .. Len(s) /\ j \in 1 .. Len(s)
    BY <1>1, <2>2 DEF Once
  <2>3. CASE i = Len(s) + 1 /\ j \in 1 .. Len(s)
    BY <1>1, <2>3 DEF Has
  <2>4. CASE i \in 1 .. Len(s) /\ j = Len(s) + 1
    BY <1>1, <2>4 DEF Has
  <2>. QED BY <2>1, <2>2, <2>3, <2>4
<1>. QED BY <1>1, <1>2

\* What a base plugin that is looked for adds to a list.
LEMMA BaseIfPresentAdds ==
    ASSUME NEW s \in Seq(Plugin), Once(s), NEW p \in Plugin, ~Has(s, p)
    PROVE  /\ s \o BaseIfPresent(p) \in Seq(Plugin)
           /\ Once(s \o BaseIfPresent(p))
           /\ \A i \in DOMAIN (s \o BaseIfPresent(p)) :
                  \/ i \in DOMAIN s /\ (s \o BaseIfPresent(p))[i] = s[i]
                  \/ (s \o BaseIfPresent(p))[i] = p /\ Present(p)
<1>. DEFINE t == s \o BaseIfPresent(p)
<1>. SUFFICES /\ t \in Seq(Plugin) /\ Once(t)
              /\ \A i \in DOMAIN t : (i \in DOMAIN s /\ t[i] = s[i]) \/ (t[i] = p /\ Present(p))
  OBVIOUS
<1>1. CASE Present(p)
  <2>1. t = s \o <<p>>
    BY <1>1 DEF BaseIfPresent
  <2>2. t = Append(s, p)
    BY <2>1
  <2>. HIDE DEF t
  <2>. QED BY <1>1, <2>2, AppendOnce
<1>2. CASE ~Present(p)
  <2>1. t = s \o <<>>
    BY <1>2 DEF BaseIfPresent
  <2>2. t = s
    BY <2>1
  <2>. QED BY <2>2
<1>. QED BY <1>1, <1>2

\* What the base plugins leave: Skyrim.esm first, then those that are there, each once.
LEMMA BaseList ==
    ASSUME AddBasePlugins
    PROVE  /\ outputLO' \in Seq(Plugin) /\ Once(outputLO')
           /\ \A i \in DOMAIN outputLO' : outputLO'[i] \in BaseNames
           /\ \A i \in DOMAIN outputLO' : i > 1 => Present(outputLO'[i])
<1>. DEFINE s0 == <<"Skyrim.esm">>
            s1 == s0 \o BaseIfPresent(BasePlugins[1])
            s2 == s1 \o BaseIfPresent(BasePlugins[2])
            s3 == s2 \o BaseIfPresent(BasePlugins[3])
            s4 == s3 \o BaseIfPresent(BasePlugins[4])
            Base(s) == /\ s \in Seq(Plugin) /\ Once(s)
                       /\ \A i \in DOMAIN s : s[i] \in BaseNames
                       /\ \A i \in DOMAIN s : i > 1 => Present(s[i])
            Known(s, names) == \A i \in DOMAIN s : s[i] \in names
<1>1. /\ "Skyrim.esm" \in Plugin /\ "SkyrimVR.esm" \in Plugin
      /\ BasePlugins[1] = "Update.esm" /\ BasePlugins[1] \in Plugin
      /\ BasePlugins[2] = "Dawnguard.esm" /\ BasePlugins[2] \in Plugin
      /\ BasePlugins[3] = "HearthFires.esm" /\ BasePlugins[3] \in Plugin
      /\ BasePlugins[4] = "Dragonborn.esm" /\ BasePlugins[4] \in Plugin
  <2>1. DOMAIN BasePlugins = 1 .. 4
    BY DEF BasePlugins
  <2>2. /\ BasePlugins[1] = "Update.esm" /\ BasePlugins[2] = "Dawnguard.esm"
        /\ BasePlugins[3] = "HearthFires.esm" /\ BasePlugins[4] = "Dragonborn.esm"
    BY DEF BasePlugins
  <2>3. /\ {"Skyrim.esm", "SkyrimVR.esm"} \subseteq Plugin
        /\ \A i \in DOMAIN BasePlugins : BasePlugins[i] \in Plugin
    BY GameAssumption, Zenon
  <2>4. /\ BasePlugins[1] \in Plugin /\ BasePlugins[2] \in Plugin
        /\ BasePlugins[3] \in Plugin /\ BasePlugins[4] \in Plugin
    BY <2>1, <2>3
  <2>. QED BY <2>2, <2>3, <2>4
<1>2. /\ s0 \in Seq(Plugin) /\ DOMAIN s0 = {1} /\ s0[1] = "Skyrim.esm"
  BY <1>1
<1>3. Base(s0) /\ Known(s0, {"Skyrim.esm"})
  BY <1>2 DEF Once, BaseNames
<1>4. ASSUME NEW s, NEW names, Base(s), Known(s, names), NEW p \in Plugin \cap BaseNames,
             p \notin names, NEW t, t = s \o BaseIfPresent(p)
      PROVE  Base(t) /\ Known(t, names \cup {p})
  <2>1. s \in Seq(Plugin) /\ Once(s) /\ ~Has(s, p) /\ p \in Plugin
    BY <1>4 DEF Has
  <2>2. /\ t \in Seq(Plugin) /\ Once(t)
        /\ \A i \in DOMAIN t : (i \in DOMAIN s /\ t[i] = s[i]) \/ (t[i] = p /\ Present(p))
    BY <1>4, <2>1, BaseIfPresentAdds
  <2>. QED BY <1>4, <2>2
<1>. HIDE DEF Base, Known
<1>5. Base(s1) /\ Known(s1, {"Skyrim.esm", "Update.esm"})
  <2>. HIDE DEF s0
  <2>1. Base(s1) /\ Known(s1, {"Skyrim.esm"} \cup {BasePlugins[1]})
    BY <1>1, <1>3, <1>4 DEF BaseNames
  <2>2. {"Skyrim.esm"} \cup {BasePlugins[1]} = {"Skyrim.esm", "Update.esm"}
    BY <1>1
  <2>. QED BY <2>1, <2>2
<1>6. Base(s2) /\ Known(s2, {"Skyrim.esm", "Update.esm", "Dawnguard.esm"})
  <2>. HIDE DEF s1
  <2>1. Base(s2) /\ Known(s2, {"Skyrim.esm", "Update.esm"} \cup {BasePlugins[2]})
    BY <1>1, <1>5, <1>4 DEF BaseNames
  <2>2. {"Skyrim.esm", "Update.esm"} \cup {BasePlugins[2]}
            = {"Skyrim.esm", "Update.esm", "Dawnguard.esm"}
    BY <1>1
  <2>. QED BY <2>1, <2>2
<1>7. Base(s3) /\ Known(s3, {"Skyrim.esm", "Update.esm", "Dawnguard.esm", "HearthFires.esm"})
  <2>. HIDE DEF s2
  <2>1. Base(s3)
        /\ Known(s3, {"Skyrim.esm", "Update.esm", "Dawnguard.esm"} \cup {BasePlugins[3]})
    BY <1>1, <1>6, <1>4 DEF BaseNames
  <2>2. {"Skyrim.esm", "Update.esm", "Dawnguard.esm"} \cup {BasePlugins[3]}
            = {"Skyrim.esm", "Update.esm", "Dawnguard.esm", "HearthFires.esm"}
    BY <1>1
  <2>. QED BY <2>1, <2>2
<1>8. Base(s4) /\ Known(s4, BaseNames \ {"SkyrimVR.esm"})
  <2>. HIDE DEF s3
  <2>1. Base(s4)
        /\ Known(s4, {"Skyrim.esm", "Update.esm", "Dawnguard.esm", "HearthFires.esm"}
                         \cup {BasePlugins[4]})
    BY <1>1, <1>7, <1>4 DEF BaseNames
  <2>2. {"Skyrim.esm", "Update.esm", "Dawnguard.esm", "HearthFires.esm"} \cup {BasePlugins[4]}
            = BaseNames \ {"SkyrimVR.esm"}
    BY <1>1 DEF BaseNames
  <2>. QED BY <2>1, <2>2
<1>9. CASE params.gameType = "SKYRIM_VR"
  <2>1. outputLO' = s4 \o BaseIfPresent("SkyrimVR.esm")
    BY <1>9 DEF AddBasePlugins
  <2>. HIDE DEF s4
  <2>2. "SkyrimVR.esm" \in Plugin \cap BaseNames
        /\ "SkyrimVR.esm" \notin BaseNames \ {"SkyrimVR.esm"}
    BY <1>1 DEF BaseNames
  <2>3. Base(s4 \o BaseIfPresent("SkyrimVR.esm"))
    BY <1>8, <1>4, <2>2
  <2>. QED BY <2>1, <2>3 DEF Base
<1>10. CASE params.gameType # "SKYRIM_VR"
  <2>1. outputLO' = s4 \o <<>>
    BY <1>10 DEF AddBasePlugins
  <2>. HIDE DEF s4
  <2>2. outputLO' = s4
    BY <1>8, <2>1 DEF Base
  <2>. QED BY <1>8, <2>2 DEF Base
<1>. QED BY <1>9, <1>10

-----------------------------------------------------------------------------
(* The inductive invariant of BethesdaGame *)

BeforeLoading == {"game", "constructed", "ccc", "plugins.txt"}
Steps == BeforeLoading \cup {"initialize", "masters", "populate", "records", "populated",
                             "enumerated", "failed"}

GameTypeOK ==
    /\ installation \in Installation /\ params \in Params
    /\ at \in Steps
    /\ line \in Nat \ {0}
    /\ outputLO \in Seq(Plugin)

\* the lines of Skyrim.ccc, and of plugins.txt, that have been read
CccRead(k) == k \in DOMAIN installation.ccc /\ (at = "ccc" => k < line)
LineRead(k) ==
    /\ k \in DOMAIN PluginsFile /\ PluginsFile[k].active
    /\ at # "ccc" /\ (at = "plugins.txt" => k < line)

GameInv ==
    /\ GameTypeOK
    /\ Once(outputLO)
    /\ at \in {"game", "constructed"} => outputLO = <<>> /\ line = 1
    /\ at \notin {"game", "failed"} => PluginsFile # NoFile
    /\ \A i \in DOMAIN outputLO : i > 1 => Present(outputLO[i])
    /\ at = "ccc" => \A i \in DOMAIN outputLO : outputLO[i] \in CccNames \cup BaseNames
    /\ at \notin {"game", "constructed", "failed"} =>
        /\ \A k : CccRead(k) /\ Present(installation.ccc[k]) => Has(outputLO, installation.ccc[k])
        /\ \A k : LineRead(k) /\ Present(PluginsFile[k].plugin) =>
               Has(outputLO, PluginsFile[k].plugin)
        /\ \A i, j \in DOMAIN outputLO :
               outputLO[i] \in CccNames \ BaseNames /\ outputLO[j] \notin CccNames \cup BaseNames
                   => i < j

\* The invariant implies the property.
LEMMA GameInvExact ==
    ASSUME GameInv
    PROVE  ActivePluginsExact
<1>. SUFFICES ASSUME at \notin {"game", "constructed", "ccc", "plugins.txt", "failed"}
              PROVE  /\ Once(outputLO)
                     /\ \A p \in ActiveLines \cap installation.data : Listed(p)
                     /\ \A i \in DOMAIN outputLO : i > 1 => Present(outputLO[i])
                     /\ \A i, j \in DOMAIN outputLO :
                            /\ outputLO[i] \in CccNames \ BaseNames
                            /\ outputLO[j] \notin CccNames \cup BaseNames
                            => i < j
  <2>1. {BasePlugins[k] : k \in DOMAIN BasePlugins} \cup {"Skyrim.esm", "SkyrimVR.esm"} = BaseNames
    <3>1. DOMAIN BasePlugins = {1, 2, 3, 4}
      BY DEF BasePlugins
    <3>2. {BasePlugins[k] : k \in DOMAIN BasePlugins}
              = {BasePlugins[1], BasePlugins[2], BasePlugins[3], BasePlugins[4]}
      BY <3>1
    <3>. QED BY <3>2 DEF BasePlugins, BaseNames
  <2>. QED BY <2>1 DEF ActivePluginsExact, Once, CccNames
<1>1. ASSUME NEW p \in ActiveLines \cap installation.data
      PROVE  Listed(p)
  <2>1. CASE \E k \in DOMAIN installation.ccc : installation.ccc[k] = p
    BY <1>1, <2>1 DEF GameInv, CccRead, Present, Has, Listed
  <2>2. CASE \E k \in DOMAIN PluginsFile : PluginsFile[k].active /\ PluginsFile[k].plugin = p
    BY <1>1, <2>2 DEF GameInv, LineRead, Present, Has, Listed
  <2>. QED BY <1>1, <2>1, <2>2 DEF ActiveLines
<1>. QED BY <1>1 DEF GameInv

\* A file of plugins.txt that the settings name is absent or a sequence of lines.
LEMMA PluginsFileTyped ==
    ASSUME installation \in Installation, params \in Params, PluginsFile # NoFile
    PROVE  PluginsFile \in Seq([plugin : Plugin, active : BOOLEAN])
<1>1. params.gameType \in GameType
  BY GameAssumption
<1>2. \A type \in GameType :
          LET file == installation.pluginsTxt[getAppDataLocation(type)]
          IN  file = NoFile \/ file \in Seq([plugin : Plugin, active : BOOLEAN])
  BY GameAssumption
<1>. QED BY <1>1, <1>2 DEF PluginsFile

\* Adding a plugin keeps the list duplicate-free and puts the plugin there if it is in Data.
LEMMA AddPluginAdds ==
    ASSUME GameInv, NEW p \in Plugin, AddPlugin(p), UNCHANGED installation
    PROVE  /\ outputLO' \in Seq(Plugin) /\ Once(outputLO')
           /\ \A i \in DOMAIN outputLO : i \in DOMAIN outputLO' /\ outputLO'[i] = outputLO[i]
           /\ \A i \in DOMAIN outputLO' :
                  \/ i \in DOMAIN outputLO /\ outputLO'[i] = outputLO[i]
                  \/ /\ i = Len(outputLO) + 1 /\ outputLO'[i] = p
                     /\ Present(p) /\ ~Has(outputLO, p)
           /\ Present(p) => Has(outputLO', p)
<1>1. outputLO \in Seq(Plugin) /\ Once(outputLO)
  BY DEF GameInv, GameTypeOK
<1>2. CASE Present(p) /\ ~Listed(p)
  <2>1. outputLO' = Append(outputLO, p) /\ ~Has(outputLO, p)
    BY <1>2 DEF AddPlugin, Listed, Has
  <2>2. /\ Append(outputLO, p) \in Seq(Plugin) /\ Once(Append(outputLO, p))
        /\ DOMAIN Append(outputLO, p) = 1 .. Len(outputLO) + 1
        /\ \A i \in DOMAIN outputLO :
               i \in 1 .. Len(outputLO) /\ Append(outputLO, p)[i] = outputLO[i]
        /\ Append(outputLO, p)[Len(outputLO) + 1] = p
    BY <1>1, <2>1, AppendOnce
  <2>3. DOMAIN outputLO = 1 .. Len(outputLO) /\ Len(outputLO) \in Nat
    BY <1>1
  <2>. QED BY <1>2, <2>1, <2>2, <2>3 DEF Has
<1>3. CASE ~(Present(p) /\ ~Listed(p))
  <2>1. outputLO' = outputLO
    BY <1>3 DEF AddPlugin
  <2>. QED BY <1>1, <1>3, <2>1 DEF Has, Listed
<1>. QED BY <1>2, <1>3

LEMMA GameInvInit == GameInit => GameInv
BY DEF GameInit, GameInv, GameTypeOK, Steps, BeforeLoading, Once

\* Steps after the list is read leave it as it is.
LEMMA GameInvKept ==
    ASSUME GameInv, UNCHANGED <<installation, params, outputLO>>,
           at \notin BeforeLoading \cup {"failed"}, at' \in Steps \ BeforeLoading,
           line' \in Nat \ {0}
    PROVE  GameInv'
<1>1. /\ CccNames' = CccNames /\ PluginsFile' = PluginsFile
      /\ \A p : Present(p)' <=> Present(p)
  BY DEF CccNames, PluginsFile, Present
<1>2. /\ \A k : CccRead(k)' => CccRead(k)
      /\ \A k : LineRead(k)' => LineRead(k)
  BY <1>1 DEF CccRead, LineRead, BeforeLoading
<1>3. GameTypeOK'
  BY DEF GameInv, GameTypeOK
<1>. QED BY <1>1, <1>2, <1>3 DEF GameInv, BeforeLoading

\* The step of a line of Skyrim.ccc.
LEMMA GameInvCcc ==
    ASSUME GameInv, ReadCccLine
    PROVE  GameInv'
<1>. DEFINE p == installation.ccc[line]
<1>1. /\ at = "ccc" /\ at' = "ccc" /\ line' = line + 1 /\ line \in Nat \ {0}
      /\ UNCHANGED <<installation, params>> /\ AddPlugin(p)
      /\ installation.ccc \in Seq(Plugin)
  BY GameAssumption DEF ReadCccLine, GameInv, GameTypeOK
<1>2. line \in DOMAIN installation.ccc /\ p \in Plugin /\ p \in CccNames
  BY <1>1 DEF ReadCccLine, CccNames
<1>. HIDE DEF p
<1>3. /\ outputLO' \in Seq(Plugin) /\ Once(outputLO')
      /\ \A i \in DOMAIN outputLO : i \in DOMAIN outputLO' /\ outputLO'[i] = outputLO[i]
      /\ \A i \in DOMAIN outputLO' :
             (i \in DOMAIN outputLO /\ outputLO'[i] = outputLO[i]) \/ (outputLO'[i] = p /\ Present(p))
      /\ Present(p) => Has(outputLO', p)
  BY <1>1, <1>2, AddPluginAdds
<1>4. /\ CccNames' = CccNames /\ PluginsFile' = PluginsFile
      /\ \A q : Present(q)' <=> Present(q)
      /\ \A k : CccRead(k)' => CccRead(k) \/ k = line
      /\ \A k : ~LineRead(k)'
  BY <1>1 DEF CccNames, PluginsFile, Present, CccRead, LineRead
<1>5. GameTypeOK'
  BY <1>1, <1>3 DEF GameInv, GameTypeOK
<1>6. \A q : Has(outputLO, q) => Has(outputLO', q)
  BY <1>3 DEF Has
<1>7. \A k : CccRead(k)' /\ Present(installation.ccc[k])' =>
          Has(outputLO, installation.ccc[k])' 
  BY <1>1, <1>3, <1>4, <1>6 DEF GameInv, p
<1>8. \A i \in DOMAIN outputLO' : outputLO'[i] \in CccNames \cup BaseNames
  BY <1>1, <1>2, <1>3 DEF GameInv
<1>9. \A i \in DOMAIN outputLO' : i > 1 => Present(outputLO'[i])
  BY <1>3 DEF GameInv
<1>. QED BY <1>1, <1>3, <1>4, <1>5, <1>7, <1>8, <1>9 DEF GameInv

\* The step of a line of plugins.txt: a starred plugin of Skyrim.ccc is in the list before.
LEMMA GameInvLine ==
    ASSUME GameInv, ReadPluginsLine
    PROVE  GameInv'
<1>1. /\ at = "plugins.txt" /\ at' = "plugins.txt" /\ line' = line + 1 /\ line \in Nat \ {0}
      /\ UNCHANGED <<installation, params>>
      /\ installation \in Installation /\ params \in Params /\ PluginsFile # NoFile
  BY DEF ReadPluginsLine, GameInv, GameTypeOK
<1>2. PluginsFile \in Seq([plugin : Plugin, active : BOOLEAN]) /\ line \in DOMAIN PluginsFile
  <2>1. PluginsFile \in Seq([plugin : Plugin, active : BOOLEAN])
    BY <1>1, PluginsFileTyped
  <2>. QED BY <1>1, <2>1 DEF ReadPluginsLine
<1>3. /\ CccNames' = CccNames /\ PluginsFile' = PluginsFile
      /\ \A q : Present(q)' <=> Present(q)
      /\ \A k : CccRead(k)' <=> CccRead(k)
      /\ \A k : LineRead(k)' => LineRead(k) \/ (k = line /\ PluginsFile[line].active)
  BY <1>1, <1>2 DEF CccNames, PluginsFile, Present, CccRead, LineRead
<1>4. CASE ~PluginsFile[line].active
  <2>1. outputLO' = outputLO
    BY <1>4 DEF ReadPluginsLine
  <2>2. GameTypeOK'
    BY <1>1, <2>1 DEF GameInv, GameTypeOK
  <2>. QED BY <1>1, <1>3, <1>4, <2>1, <2>2 DEF GameInv
<1>5. CASE PluginsFile[line].active
  <2>. DEFINE p == PluginsFile[line].plugin
  <2>1. AddPlugin(p) /\ p \in Plugin
    <3>1. PluginsFile[line] \in [plugin : Plugin, active : BOOLEAN]
      BY <1>2, ElementOf, Zenon
    <3>2. AddPlugin(p)
      BY <1>5 DEF ReadPluginsLine
    <3>. QED BY <3>1, <3>2
  <2>. HIDE DEF p
  <2>2. /\ outputLO' \in Seq(Plugin) /\ Once(outputLO')
        /\ \A i \in DOMAIN outputLO : i \in DOMAIN outputLO' /\ outputLO'[i] = outputLO[i]
        /\ \A i \in DOMAIN outputLO' :
               \/ i \in DOMAIN outputLO /\ outputLO'[i] = outputLO[i]
               \/ /\ i = Len(outputLO) + 1 /\ outputLO'[i] = p
                  /\ Present(p) /\ ~Has(outputLO, p)
        /\ Present(p) => Has(outputLO', p)
    BY <1>1, <2>1, AddPluginAdds
  <2>3. GameTypeOK'
    BY <1>1, <2>2 DEF GameInv, GameTypeOK
  <2>4. \A q : Has(outputLO, q) => Has(outputLO', q)
    BY <2>2 DEF Has
  <2>5. \A k : CccRead(k)' /\ Present(installation.ccc[k])' =>
            Has(outputLO', installation.ccc'[k])
    BY <1>1, <1>3, <2>4 DEF GameInv
  <2>6. \A k : LineRead(k)' /\ Present(PluginsFile[k].plugin)' =>
            Has(outputLO', PluginsFile'[k].plugin)
    BY <1>1, <1>3, <2>2, <2>4 DEF GameInv, p
  <2>7. \A i \in DOMAIN outputLO' : i > 1 => Present(outputLO'[i])
    BY <2>2 DEF GameInv
  <2>8. Present(p) /\ ~Has(outputLO, p) => p \notin CccNames
    BY <1>1 DEF GameInv, CccRead, CccNames
  <2>9. \A i, j \in DOMAIN outputLO' :
            /\ outputLO'[i] \in CccNames \ BaseNames
            /\ outputLO'[j] \notin CccNames \cup BaseNames
            => i < j
    <3>. SUFFICES ASSUME NEW i \in DOMAIN outputLO', NEW j \in DOMAIN outputLO',
                         outputLO'[i] \in CccNames \ BaseNames,
                         outputLO'[j] \notin CccNames \cup BaseNames
                  PROVE  i < j
      OBVIOUS
    <3>1. i \in DOMAIN outputLO /\ outputLO'[i] = outputLO[i]
      BY <2>2, <2>8
    <3>2. CASE j \in DOMAIN outputLO /\ outputLO'[j] = outputLO[j]
      BY <1>1, <3>1, <3>2 DEF GameInv
    <3>3. CASE j = Len(outputLO) + 1
      <4>1. outputLO \in Seq(Plugin)
        BY DEF GameInv, GameTypeOK
      <4>. QED BY <3>1, <3>3, <4>1
    <3>. QED BY <2>2, <3>2, <3>3
  <2>. QED BY <1>1, <1>3, <2>2, <2>3, <2>5, <2>6, <2>7, <2>9 DEF GameInv
<1>. QED BY <1>4, <1>5
\* Every other step of the constructor and of getActivePlugins.
LEMMA GameInvNext ==
    ASSUME GameInv, GameNext
    PROVE  GameInv'
<1>1. CASE Construct
  <2>1. /\ at = "game" /\ at' = "constructed" /\ UNCHANGED <<installation, params, line, outputLO>>
        /\ PluginsFile # NoFile
    BY <1>1 DEF Construct, isGamePathValid, PluginsFile
  <2>2. GameTypeOK' /\ PluginsFile' = PluginsFile
    BY <2>1 DEF GameInv, GameTypeOK, Steps, BeforeLoading, PluginsFile
  <2>. QED BY <2>1, <2>2 DEF GameInv, Present
<1>2. CASE ConstructThrows \/ CannotOpenPlugins
  <2>1. /\ at' = "failed" /\ UNCHANGED <<installation, params, line, outputLO>>
    BY <1>2 DEF ConstructThrows, CannotOpenPlugins
  <2>2. GameTypeOK'
    BY <2>1 DEF GameInv, GameTypeOK, Steps
  <2>. QED BY <2>1, <2>2 DEF GameInv, Present
<1>3. CASE AddBasePlugins
  <2>1. /\ at = "constructed" /\ at' = "ccc" /\ line = 1
        /\ UNCHANGED <<installation, params, line>>
    BY <1>3 DEF AddBasePlugins, GameInv
  <2>2. /\ outputLO' \in Seq(Plugin) /\ Once(outputLO')
        /\ \A i \in DOMAIN outputLO' : outputLO'[i] \in BaseNames
        /\ \A i \in DOMAIN outputLO' : i > 1 => Present(outputLO'[i])
    BY <1>3, BaseList
  <2>3. GameTypeOK' /\ PluginsFile' = PluginsFile /\ CccNames' = CccNames
    BY <2>1, <2>2 DEF GameInv, GameTypeOK, Steps, BeforeLoading, PluginsFile, CccNames
  <2>4. \A k : ~CccRead(k)' /\ ~LineRead(k)'
    <3>1. installation.ccc \in Seq(Plugin)
      BY GameAssumption DEF GameInv, GameTypeOK
    <3>. QED BY <2>1, <3>1 DEF CccRead, LineRead
  <2>. QED BY <2>1, <2>2, <2>3, <2>4 DEF GameInv, Present
<1>4. CASE EndCcc
  <2>1. /\ at = "ccc" /\ at' = "plugins.txt" /\ line' = 1 /\ line > Len(installation.ccc)
        /\ UNCHANGED <<installation, params, outputLO>>
    BY <1>4 DEF EndCcc
  <2>2. /\ GameTypeOK' /\ PluginsFile' = PluginsFile /\ CccNames' = CccNames
        /\ \A q : Present(q)' <=> Present(q)
    BY <2>1 DEF GameInv, GameTypeOK, Steps, BeforeLoading, PluginsFile, CccNames, Present
  <2>3. installation.ccc \in Seq(Plugin) /\ line \in Nat
    BY GameAssumption DEF GameInv, GameTypeOK
  <2>4. \A k : CccRead(k)' => CccRead(k)
    BY <2>1, <2>3 DEF CccRead
  <2>5. PluginsFile \in Seq([plugin : Plugin, active : BOOLEAN])
    BY <2>1, PluginsFileTyped DEF GameInv, GameTypeOK
  <2>6. \A k : ~LineRead(k)'
    BY <2>1, <2>2, <2>5 DEF LineRead
  <2>. QED BY <2>1, <2>2, <2>4, <2>6 DEF GameInv
<1>5. CASE EndPlugins
  <2>1. /\ at = "plugins.txt" /\ at' = "initialize" /\ line > Len(PluginsFile)
        /\ UNCHANGED <<installation, params, line, outputLO>>
    BY <1>5 DEF EndPlugins
  <2>2. /\ GameTypeOK' /\ PluginsFile' = PluginsFile /\ CccNames' = CccNames
        /\ \A q : Present(q)' <=> Present(q)
    BY <2>1 DEF GameInv, GameTypeOK, Steps, BeforeLoading, PluginsFile, CccNames, Present
  <2>3. PluginsFile \in Seq([plugin : Plugin, active : BOOLEAN]) /\ line \in Nat
    BY <2>1, PluginsFileTyped DEF GameInv, GameTypeOK
  <2>4. \A k : (CccRead(k)' => CccRead(k)) /\ (LineRead(k)' => LineRead(k))
    BY <2>1, <2>2, <2>3 DEF CccRead, LineRead
  <2>. QED BY <2>1, <2>2, <2>4 DEF GameInv
<1>. QED BY <1>1, <1>2, <1>3, <1>4, <1>5, GameInvCcc, GameInvLine DEF GameNext, GetActivePlugins

\* The whole run keeps the list.
LEMMA GameInvLoad ==
    ASSUME GameInv, [LoadNext]_loadVars
    PROVE  GameInv'
<1>. DEFINE Later == /\ UNCHANGED <<installation, params, outputLO>>
                     /\ at \notin BeforeLoading \cup {"failed"}
                     /\ at' \in Steps \ BeforeLoading
                     /\ line' \in Nat \ {0}
<1>0. /\ line \in Nat \ {0} /\ line + 1 \in Nat \ {0} /\ at \in Steps
  BY DEF GameInv, GameTypeOK
<1>1. CASE UNCHANGED loadVars
  <2>1. UNCHANGED <<installation, params, at, line, outputLO>>
    BY <1>1 DEF loadVars, gameVars
  <2>. QED BY <2>1 DEF GameInv, GameTypeOK, PluginsFile, Present, CccNames, CccRead, LineRead
<1>2. CASE GameNext
  BY <1>2, GameInvNext
<1>3. CASE Initialize
  BY <1>0, <1>3, GameInvKept DEF Initialize, FindValidMods, LoadNextPlugin, BuildEnvironment,
                                 Steps, BeforeLoading
<1>4. CASE BeginPopulate \/ IndexRecord \/ IndexGrass \/ EnumerateAllModelUses \/ CallThrows
  BY <1>0, <1>4, GameInvKept DEF BeginPopulate, IndexRecord, IndexGrass, EnumerateAllModelUses,
                                 CallThrows, Steps, BeforeLoading
<1>5. CASE RecordThrows
  <2>1. line' \in {line + 1} \cup EndOfType(line)
    BY <1>5 DEF RecordThrows
  <2>2. line' \in Nat \ {0}
    BY <1>0, <2>1 DEF EndOfType
  <2>. QED BY <1>0, <1>5, <2>2, GameInvKept DEF RecordThrows, Steps, BeforeLoading
<1>. QED BY <1>1, <1>2, <1>3, <1>4, <1>5 DEF LoadNext, PopulateObjs
-----------------------------------------------------------------------------
(* The inductive invariant of Initialize *)

\* the active plugins that the loop over them has passed
Passed == {i \in DOMAIN outputLO : at = "masters" => i < line}

LoadInv ==
    /\ finalLoadOrder \in Seq(Plugin)
    /\ at \in BeforeLoading \cup {"initialize"} =>
           finalLoadOrder = <<>> /\ modsWithMissingMasters = {}
    /\ Loading =>
        /\ LoadedAt \subseteq Passed
        /\ \A i \in Passed : outputLO[i] \in validMods \ modsWithMissingMasters => i \in LoadedAt
        /\ MastersLoaded
        /\ \A S \in SUBSET (validMods \ installation.unreadable) :
               SelfContained(S) => S \cap modsWithMissingMasters = {}

\* Once the loop is through, what it loaded is all it can load.
LEMMA LoadInvLoadsAll ==
    ASSUME GameInv, LoadInv
    PROVE  LoadsAllItCan
<1>. SUFFICES ASSUME at = "populate", NEW S \in SUBSET (validMods \ installation.unreadable),
                     SelfContained(S), NEW i \in DOMAIN outputLO, outputLO[i] \in S
              PROVE  i \in LoadedAt
  BY DEF LoadsAllItCan
<1>1. S \cap modsWithMissingMasters = {} /\ i \in Passed
  BY DEF LoadInv, Loading, Passed
<1>. QED BY <1>1 DEF LoadInv, Loading

LEMMA LoadInvMasters ==
    ASSUME LoadInv
    PROVE  MastersLoaded
BY DEF LoadInv, MastersLoaded

\* A plugin that is passed over: a set of plugins that need only each other has none of those
\* that are now left out.
LEMMA LeftOut ==
    ASSUME GameInv, LoadInv, at = "masters", NEW p \in Plugin, NEW S,
           S \in SUBSET (validMods \ installation.unreadable), SelfContained(S),
           p \in installation.unreadable \/ MissingMasters(p) # {}
    PROVE  S \cap (modsWithMissingMasters \cup MissingMasters(p) \cup {p}) = {}
<1>1. S \cap modsWithMissingMasters = {}
  BY DEF LoadInv, Loading
<1>2. S \cap MissingMasters(p) = {}
  BY <1>1 DEF MissingMasters
<1>3. p \notin S
  <2>1. ASSUME p \in S
        PROVE  FALSE
    <3>1. installation.masters[p] \subseteq S
      BY <2>1 DEF SelfContained
    <3>2. MissingMasters(p) = {}
      BY <1>2, <3>1 DEF MissingMasters
    <3>. QED BY <2>1, <3>2
  <2>. QED BY <2>1
<1>. QED BY <1>1, <1>2, <1>3

\* One plugin of the loop.
LEMMA LoadInvPlugin ==
    ASSUME GameInv, LoadInv, LoadNextPlugin
    PROVE  LoadInv'
<1>. DEFINE p == outputLO[line]
<1>1. /\ at = "masters" /\ at' = "masters" /\ line' = line + 1 /\ line \in Nat \ {0}
      /\ UNCHANGED <<installation, outputLO, validMods>>
      /\ LoadPlugin(p)
      /\ outputLO \in Seq(Plugin) /\ Once(outputLO) /\ finalLoadOrder \in Seq(Plugin)
  BY DEF LoadNextPlugin, GameInv, GameTypeOK, LoadInv
<1>2. line \in DOMAIN outputLO /\ p \in Plugin /\ DOMAIN outputLO = 1 .. Len(outputLO)
  BY <1>1 DEF LoadNextPlugin
<1>. HIDE DEF p
<1>3. Passed' = Passed \cup {line} /\ line \notin Passed
  BY <1>1, <1>2 DEF Passed
<1>4. line \notin LoadedAt
  BY <1>1, <1>3 DEF LoadInv, Loading
<1>5. /\ LoadedAt \subseteq Passed
      /\ \A i \in Passed : outputLO[i] \in validMods \ modsWithMissingMasters => i \in LoadedAt
      /\ \A i, j \in DOMAIN outputLO :
             /\ i \in LoadedAt /\ j < i
             /\ outputLO[j] \in installation.masters[outputLO[i]]
             => j \in LoadedAt
      /\ \A S \in SUBSET (validMods \ installation.unreadable) :
             SelfContained(S) => S \cap modsWithMissingMasters = {}
  BY <1>1 DEF LoadInv, Loading, MastersLoaded
<1>6. CASE finalLoadOrder' = finalLoadOrder /\ modsWithMissingMasters \subseteq modsWithMissingMasters'
           /\ p \notin validMods \ modsWithMissingMasters'
           /\ \A S \in SUBSET (validMods \ installation.unreadable) :
                  SelfContained(S) => S \cap modsWithMissingMasters' = {}
  <2>1. LoadedAt' = LoadedAt
    BY <1>1, <1>6 DEF LoadedAt
  <2>2. \A S : SelfContained(S)' <=> SelfContained(S)
    BY <1>1 DEF SelfContained
  <2>3. \A i \in Passed' : outputLO[i] \in validMods \ modsWithMissingMasters' => i \in LoadedAt
    BY <1>3, <1>5, <1>6 DEF p
  <2>4. MastersLoaded'
    BY <1>1, <1>5, <2>1 DEF MastersLoaded
  <2>. QED BY <1>1, <1>3, <1>5, <1>6, <2>1, <2>2, <2>3, <2>4
           DEF LoadInv, Loading, BeforeLoading
<1>7. CASE p \in validMods /\ MissingMasters(p) = {}
           /\ finalLoadOrder' = Append(finalLoadOrder, p)
           /\ modsWithMissingMasters' = modsWithMissingMasters
  <2>1. finalLoadOrder' \in Seq(Plugin)
    BY <1>1, <1>2, <1>7
  <2>2. \A i \in DOMAIN outputLO : i \in LoadedAt' <=> (i \in LoadedAt \/ outputLO[i] = p)
    BY <1>1, <1>7 DEF LoadedAt
  <2>3. LoadedAt' = LoadedAt \cup {line}
    <3>1. \A i \in DOMAIN outputLO : outputLO[i] = p <=> i = line
      BY <1>1, <1>2 DEF Once, p
    <3>2. LoadedAt \subseteq DOMAIN outputLO /\ LoadedAt' \subseteq DOMAIN outputLO
      BY <1>1 DEF LoadedAt
    <3>. QED BY <1>2, <2>2, <3>1, <3>2
  <2>4. MastersLoaded'
    <3>. SUFFICES ASSUME NEW i \in DOMAIN outputLO, NEW j \in DOMAIN outputLO,
                         i \in LoadedAt', j < i,
                         outputLO[j] \in installation.masters[outputLO[i]]
                  PROVE  j \in LoadedAt'
      BY <1>1 DEF MastersLoaded
    <3>1. CASE i \in LoadedAt
      BY <1>5, <2>3, <3>1
    <3>2. CASE i = line
      <4>1. outputLO[j] \in validMods \ modsWithMissingMasters
        BY <1>7, <3>2 DEF MissingMasters, p
      <4>2. j \in Passed
        BY <1>1, <3>2 DEF Passed
      <4>. QED BY <1>5, <2>3, <4>1, <4>2
    <3>. QED BY <2>3, <3>1, <3>2
  <2>5. \A S : SelfContained(S)' <=> SelfContained(S)
    BY <1>1 DEF SelfContained
  <2>. QED BY <1>1, <1>3, <1>5, <1>7, <2>1, <2>3, <2>4, <2>5 DEF LoadInv, Loading, BeforeLoading
<1>8. CASE p \notin validMods /\ UNCHANGED <<modsWithMissingMasters, finalLoadOrder>>
  BY <1>5, <1>6, <1>8
<1>9. CASE /\ p \in installation.unreadable /\ finalLoadOrder' = finalLoadOrder
           /\ modsWithMissingMasters' = modsWithMissingMasters \cup {p}
  <2>1. \A S \in SUBSET (validMods \ installation.unreadable) :
            SelfContained(S) => S \cap modsWithMissingMasters' = {}
    BY <1>1, <1>2, <1>9, LeftOut
  <2>. QED BY <1>6, <1>9, <2>1
<1>10. CASE /\ MissingMasters(p) # {} /\ finalLoadOrder' = finalLoadOrder
            /\ modsWithMissingMasters' = modsWithMissingMasters \cup MissingMasters(p) \cup {p}
  <2>1. \A S \in SUBSET (validMods \ installation.unreadable) :
            SelfContained(S) => S \cap modsWithMissingMasters' = {}
    BY <1>1, <1>2, <1>10, LeftOut
  <2>. QED BY <1>6, <1>10, <2>1
<1>. QED BY <1>1, <1>7, <1>8, <1>9, <1>10 DEF LoadPlugin

\* Every other step.
LEMMA LoadInvNext ==
    ASSUME GameInv, LoadInv, [LoadNext]_loadVars
    PROVE  LoadInv'
<1>1. CASE LoadNextPlugin
  BY <1>1, LoadInvPlugin
<1>2. CASE GameNext /\ UNCHANGED <<initVars, indexVars>>
  <2>1. at \in BeforeLoading /\ at' \in BeforeLoading \cup {"initialize", "failed"}
    BY <1>2 DEF GameNext, Construct, ConstructThrows, GetActivePlugins, AddBasePlugins, ReadCccLine,
                EndCcc, CannotOpenPlugins, ReadPluginsLine, EndPlugins, BeforeLoading
  <2>2. UNCHANGED <<finalLoadOrder, modsWithMissingMasters>>
    BY <1>2 DEF initVars
  <2>. QED BY <2>1, <2>2 DEF LoadInv, Loading, BeforeLoading
<1>3. CASE FindValidMods
  <2>1. /\ at' = "masters" /\ line' = 1 /\ at = "initialize"
        /\ finalLoadOrder' = <<>> /\ modsWithMissingMasters' = {}
        /\ outputLO' = outputLO /\ outputLO \in Seq(Plugin)
    BY <1>3 DEF FindValidMods, LoadInv, GameInv, GameTypeOK
  <2>2. LoadedAt' = {} /\ Passed' = {}
    BY <2>1 DEF LoadedAt, Passed
  <2>. QED BY <2>1, <2>2 DEF LoadInv, MastersLoaded, BeforeLoading
<1>4. ASSUME UNCHANGED <<installation, outputLO, validMods, modsWithMissingMasters, finalLoadOrder>>,
             Passed' = Passed, Loading' => Loading, at' \notin BeforeLoading \cup {"initialize"}
      PROVE  LoadInv'
  <2>1. LoadedAt' = LoadedAt /\ \A S : SelfContained(S)' <=> SelfContained(S)
    BY <1>4 DEF LoadedAt, SelfContained
  <2>2. MastersLoaded /\ Loading' => MastersLoaded'
    BY <1>4, <2>1 DEF MastersLoaded
  <2>. QED BY <1>4, <2>1, <2>2 DEF LoadInv
<1>5. CASE BuildEnvironment
  <2>1. /\ at = "masters" /\ at' = "populate" /\ line > Len(outputLO)
        /\ UNCHANGED <<installation, outputLO, validMods, modsWithMissingMasters, finalLoadOrder>>
        /\ outputLO \in Seq(Plugin) /\ line \in Nat
    BY <1>5 DEF BuildEnvironment, GameInv, GameTypeOK
  <2>2. Passed' = Passed
    BY <2>1 DEF Passed
  <2>. QED BY <1>4, <2>1, <2>2 DEF Loading, BeforeLoading
<1>6. CASE BeginPopulate \/ IndexRecord \/ RecordThrows \/ IndexGrass \/ EnumerateAllModelUses
  <2>1. /\ at \in Steps \ (BeforeLoading \cup {"initialize", "masters", "failed"})
        /\ at' \in Steps \ (BeforeLoading \cup {"initialize", "masters", "failed"})
        /\ UNCHANGED <<installation, outputLO, validMods, modsWithMissingMasters, finalLoadOrder>>
    BY <1>6 DEF BeginPopulate, IndexRecord, RecordThrows, IndexGrass, EnumerateAllModelUses,
                initVars, Steps, BeforeLoading
  <2>2. Passed' = Passed /\ Loading
    BY <2>1 DEF Passed, Loading, Steps, BeforeLoading
  <2>. QED BY <1>4, <2>1, <2>2
<1>7. CASE CallThrows
  <2>1. at' = "failed" /\ UNCHANGED finalLoadOrder
    BY <1>7 DEF CallThrows, initVars
  <2>. QED BY <2>1 DEF LoadInv, Loading, BeforeLoading
<1>8. CASE UNCHANGED loadVars
  BY <1>8 DEF loadVars, gameVars, initVars, LoadInv, Loading, LoadedAt, Passed, MastersLoaded,
              SelfContained
<1>. QED BY <1>1, <1>2, <1>3, <1>5, <1>6, <1>7, <1>8 DEF LoadNext, Initialize, PopulateObjs

LEMMA LoadInvInit == LoadInit => GameInv /\ LoadInv
BY GameInvInit DEF LoadInit, GameInit, LoadInv, Loading

-----------------------------------------------------------------------------
(* The inductive invariant of the record index *)

\* A set of places in a sequence has a last one.
LEMMA LastOf ==
    ASSUME NEW n \in Nat, NEW T \in SUBSET (1 .. n), T # {}
    PROVE  \E k \in T : \A l \in T : l <= k
<1>. DEFINE R == {ss \in Nat \X Nat : ss[1] < ss[2]}
            D == {n - k : k \in T}
<1>1. OpToRel(<, Nat) = R
  BY DEF OpToRel
<1>2. IsWellFoundedOn(R, Nat)
  BY <1>1, NatLessThanWellFounded
<1>3. \A k \in T : k \in 1 .. n /\ n - k \in Nat
  OBVIOUS
<1>4. D \subseteq Nat
  BY <1>3
<1>5. D # {}
  OBVIOUS
<1>6. \E x \in D : \A y \in D : ~(<<y, x>> \in R)
  <2>. HIDE DEF R, D
  <2>. QED BY <1>2, <1>4, <1>5, WFMin
<1>7. PICK k \in T : \A l \in T : ~(<<n - l, n - k>> \in R)
  BY <1>6
<1>8. ASSUME NEW l \in T
      PROVE  l <= k
  <2>1. ~(n - l < n - k)
    BY <1>3, <1>7
  <2>. QED BY <1>3, <2>1
<1>. QED BY <1>8

\* The winning version of a loaded record is one of its versions, and its models are typed.
LEMMA WinningTyped ==
    ASSUME installation \in Installation, finalLoadOrder \in Seq(Plugin),
           NEW i \in DOMAIN installation.records, Loaded(i), NEW m \in Winning(i).models
    PROVE  m.mesh = NoMesh \/ m.mesh \in Mesh
<1>. DEFINE having == {k \in DOMAIN finalLoadOrder : finalLoadOrder[k] \in DOMAIN Rec(i).versions}
<1>1. having \in SUBSET (1 .. Len(finalLoadOrder)) /\ Len(finalLoadOrder) \in Nat
  OBVIOUS
<1>2. Winner(i) = IF having = {} THEN 0 ELSE CHOOSE k \in having : \A l \in having : l <= k
  BY DEF Winner
<1>. HIDE DEF having
<1>3. having # {}
  BY <1>2 DEF Loaded
<1>4. \E k \in having : \A l \in having : l <= k
  BY <1>1, <1>3, LastOf
<1>5. Winner(i) \in having
  BY <1>2, <1>3, <1>4
<1>6. finalLoadOrder[Winner(i)] \in DOMAIN Rec(i).versions
  BY <1>5 DEF having
<1>7. \A p \in DOMAIN Rec(i).versions : \A n \in Rec(i).versions[p].models :
          n.mesh = NoMesh \/ n.mesh \in Mesh
  BY LoadAssumption DEF Rec
<1>. QED BY <1>6, <1>7 DEF Winning

\* the records that are in the index
Indexed ==
    {i \in DOMAIN installation.records : Loaded(i) /\ i \notin unread /\ (at = "records" => i < line)}

Populating == {"records", "populated", "enumerated"}

IndexInv ==
    /\ at \notin Populating \cup {"failed"} => modelUses = {} /\ unread = {}
    /\ at = "records" => unread \subseteq 1 .. line - 1
    /\ at \in Populating => modelUses = UNION {RecordUses(i) : i \in Indexed}
    /\ at = "enumerated" =>
           allUses = {use \in modelUses :
                         Resolves(use) /\ Rec(use.record).type \in SupportedSeasonRecordTypes}
LEMMA UseOf ==
    ASSUME installation \in Installation, finalLoadOrder \in Seq(Plugin),
           NEW i \in DOMAIN installation.records, Loaded(i), NEW m \in Winning(i).models,
           NEW use \in UsesOf(i, m)
    PROVE  /\ use.record = i /\ use.sub = m.sub /\ m.mesh # NoMesh
           /\ \/ m.mesh = use.mesh
              \/ Weighted(i, m) /\ m.mesh = Counterpart(use.mesh)
           /\ Weighted(i, m) => [use EXCEPT !.mesh = Counterpart(@)] \in UsesOf(i, m)
<1>1. PICK mesh \in MeshesOf(i, m) : use = [mesh |-> mesh, record |-> i, sub |-> m.sub]
  BY DEF UsesOf
<1>2. use.record = i /\ use.sub = m.sub /\ use.mesh = mesh
  BY <1>1
<1>3. [use EXCEPT !.mesh = Counterpart(@)]
          = [mesh |-> Counterpart(mesh), record |-> i, sub |-> m.sub]
  BY <1>1
<1>4. m.mesh # NoMesh
  BY <1>1 DEF MeshesOf
<1>5. CASE ~Weighted(i, m)
  BY <1>1, <1>2, <1>4, <1>5 DEF MeshesOf
<1>6. CASE Weighted(i, m)
  <2>1. m.mesh.weight # "" /\ m.mesh \in Mesh
    BY <1>1, <1>4, <1>6, WinningTyped DEF MeshesOf
  <2>2. MeshesOf(i, m) = {m.mesh, Counterpart(m.mesh)}
    BY <1>4, <1>6, <2>1 DEF MeshesOf
  <2>3. Counterpart(Counterpart(m.mesh)) = m.mesh
    <3>1. m.mesh = [name |-> m.mesh.name, weight |-> m.mesh.weight]
          /\ m.mesh.weight \in {"_0", "_1"}
      BY <2>1 DEF Mesh
    <3>2. \A w : [[name |-> m.mesh.name, weight |-> m.mesh.weight] EXCEPT !.weight = w]
                     = [name |-> m.mesh.name, weight |-> w]
      OBVIOUS
    <3>3. CASE m.mesh.weight = "_0"
      <4>1. Counterpart(m.mesh) = [name |-> m.mesh.name, weight |-> "_1"]
        BY <3>1, <3>3 DEF Counterpart
      <4>2. Counterpart([name |-> m.mesh.name, weight |-> "_1"])
                = [name |-> m.mesh.name, weight |-> "_0"]
        BY DEF Counterpart
      <4>. QED BY <3>1, <3>3, <4>1, <4>2
    <3>4. CASE m.mesh.weight = "_1"
      <4>1. Counterpart(m.mesh) = [name |-> m.mesh.name, weight |-> "_0"]
        BY <3>1, <3>4 DEF Counterpart
      <4>2. Counterpart([name |-> m.mesh.name, weight |-> "_0"])
                = [name |-> m.mesh.name, weight |-> "_1"]
        BY DEF Counterpart
      <4>. QED BY <3>1, <3>4, <4>1, <4>2
    <3>. QED BY <3>1, <3>3, <3>4
  <2>4. mesh = m.mesh \/ mesh = Counterpart(m.mesh)
    BY <1>1, <2>2
  <2>5. Counterpart(mesh) \in MeshesOf(i, m) /\ (m.mesh = mesh \/ m.mesh = Counterpart(mesh))
    BY <2>2, <2>3, <2>4
  <2>6. [use EXCEPT !.mesh = Counterpart(@)] \in UsesOf(i, m)
    BY <1>3, <2>5 DEF UsesOf
  <2>. QED BY <1>2, <1>4, <1>6, <2>5, <2>6
<1>. QED BY <1>5, <1>6

\* The invariant implies the property.
LEMMA IndexInvResolves ==
    ASSUME GameInv, LoadInv, IndexInv
    PROVE  UsesResolve
<1>. SUFFICES ASSUME at \in {"populated", "enumerated"}
              PROVE  UsesResolve
  BY DEF UsesResolve
<1>1. /\ installation \in Installation /\ finalLoadOrder \in Seq(Plugin)
      /\ Indexed = {i \in DOMAIN installation.records : Loaded(i) /\ i \notin unread}
      /\ modelUses = UNION {RecordUses(i) : i \in Indexed}
  BY DEF GameInv, GameTypeOK, LoadInv, IndexInv, Indexed, Populating
<1>2. \A use : use \in modelUses <=>
          \E i \in Indexed : Rec(i).mod # NullMod /\ \E m \in Winning(i).models : use \in UsesOf(i, m)
  BY <1>1 DEF RecordUses
<1>3. ASSUME NEW use \in modelUses
      PROVE  \E m \in Winning(use.record).models :
                 /\ Resolves(use) /\ m.sub = use.sub
                 /\ \/ m.mesh = use.mesh
                    \/ Weighted(use.record, m) /\ m.mesh = Counterpart(use.mesh)
                 /\ Weighted(use.record, m) => [use EXCEPT !.mesh = Counterpart(@)] \in modelUses
  <2>1. PICK i \in Indexed : Rec(i).mod # NullMod /\ \E m \in Winning(i).models : use \in UsesOf(i, m)
    BY <1>2, <1>3
  <2>2. PICK m \in Winning(i).models : use \in UsesOf(i, m)
    BY <2>1
  <2>3. i \in DOMAIN installation.records /\ Loaded(i)
    BY <1>1
  <2>4. /\ use.record = i /\ use.sub = m.sub
        /\ \/ m.mesh = use.mesh
           \/ Weighted(i, m) /\ m.mesh = Counterpart(use.mesh)
        /\ Weighted(i, m) => [use EXCEPT !.mesh = Counterpart(@)] \in UsesOf(i, m)
    BY <1>1, <2>2, <2>3, UseOf
  <2>5. Weighted(i, m) => [use EXCEPT !.mesh = Counterpart(@)] \in modelUses
    BY <1>2, <2>1, <2>4
  <2>6. Resolves(use)
    BY <2>3, <2>4 DEF Resolves
  <2>. QED BY <2>4, <2>5, <2>6
<1>4. ASSUME at = "enumerated"
      PROVE  allUses = {use \in IndexedUses : Rec(use.record).type \in SupportedSeasonRecordTypes}
  <2>. DEFINE Supported(use) == Rec(use.record).type \in SupportedSeasonRecordTypes
  <2>1. allUses = {use \in modelUses : Resolves(use) /\ Supported(use)}
    BY <1>4 DEF IndexInv
  <2>2. \A use : use \in IndexedUses <=>
            \E i \in Indexed : /\ Rec(i).mod # NullMod
                               /\ \E m \in Winning(i).models :
                                      /\ m.mesh # NoMesh
                                      /\ use = [mesh |-> m.mesh, record |-> i, sub |-> m.sub]
    BY <1>1 DEF IndexedUses
  <2>3. ASSUME NEW i \in Indexed, NEW m \in Winning(i).models, m.mesh # NoMesh,
               Rec(i).type \in SupportedSeasonRecordTypes
        PROVE  UsesOf(i, m) = {[mesh |-> m.mesh, record |-> i, sub |-> m.sub]}
    BY <2>3 DEF UsesOf, MeshesOf, Weighted, SupportedSeasonRecordTypes
  <2>4. ASSUME NEW use \in allUses
        PROVE  use \in IndexedUses /\ Supported(use)
    <3>1. use \in modelUses /\ Supported(use)
      BY <2>1
    <3>2. PICK i \in Indexed : Rec(i).mod # NullMod /\ \E m \in Winning(i).models : use \in UsesOf(i, m)
      BY <1>2, <3>1
    <3>3. PICK m \in Winning(i).models : use \in UsesOf(i, m)
      BY <3>2
    <3>4. use.record = i /\ m.mesh # NoMesh
      BY <1>1, <3>3, UseOf
    <3>5. use = [mesh |-> m.mesh, record |-> i, sub |-> m.sub]
      BY <2>3, <3>1, <3>3, <3>4
    <3>. QED BY <2>2, <3>1, <3>2, <3>4, <3>5
  <2>5. ASSUME NEW use \in IndexedUses, Supported(use)
        PROVE  use \in allUses
    <3>1. PICK i \in Indexed : /\ Rec(i).mod # NullMod
                               /\ \E m \in Winning(i).models :
                                      /\ m.mesh # NoMesh
                                      /\ use = [mesh |-> m.mesh, record |-> i, sub |-> m.sub]
      BY <2>2
    <3>2. PICK m \in Winning(i).models :
              m.mesh # NoMesh /\ use = [mesh |-> m.mesh, record |-> i, sub |-> m.sub]
      BY <3>1
    <3>3. use.record = i /\ use.sub = m.sub
      BY <3>2
    <3>4. use \in UsesOf(i, m)
      BY <2>3, <2>5, <3>2, <3>3
    <3>5. use \in modelUses
      BY <1>2, <3>1, <3>4
    <3>6. Resolves(use)
      BY <1>1, <3>3 DEF Resolves
    <3>. QED BY <2>1, <2>5, <3>5, <3>6
  <2>. QED BY <2>1, <2>4, <2>5
<1>. QED BY <1>3, <1>4 DEF UsesResolve

LEMMA IndexInvNext ==
    ASSUME GameInv, LoadInv, IndexInv, [LoadNext]_loadVars
    PROVE  IndexInv'
<1>0. /\ DOMAIN installation.records = 1 .. Len(installation.records)
      /\ Len(installation.records) \in Nat /\ line \in Nat \ {0}
  BY LoadAssumption DEF GameInv, GameTypeOK
<1>1. ASSUME UNCHANGED <<installation, finalLoadOrder>>
      PROVE  /\ \A i : Rec(i)' = Rec(i) /\ RecordUses(i)' = RecordUses(i)
             /\ \A i : Loaded(i)' <=> Loaded(i)
             /\ \A use : Resolves(use)' <=> Resolves(use)
  <2>1. \A i : Rec(i)' = Rec(i) /\ Winner(i)' = Winner(i)
    BY <1>1 DEF Rec, Winner
  <2>2. \A i : Winning(i)' = Winning(i) /\ (Loaded(i)' <=> Loaded(i))
    BY <1>1, <2>1 DEF Winning, Loaded
  <2>3. \A i, m : UsesOf(i, m)' = UsesOf(i, m)
    BY <2>1 DEF UsesOf, MeshesOf, Weighted
  <2>. QED BY <2>1, <2>2, <2>3 DEF RecordUses, Resolves
<1>2. CASE /\ at' \notin Populating /\ at \notin Populating \cup {"failed"}
           /\ UNCHANGED <<modelUses, unread>>
  BY <1>2 DEF IndexInv, Populating
<1>3. CASE CallThrows
  BY <1>3 DEF CallThrows, IndexInv, Populating
<1>4. CASE BeginPopulate
  <2>1. /\ at = "populate" /\ at' = "records" /\ line' = 1
        /\ UNCHANGED <<installation, finalLoadOrder, modelUses, unread>>
    BY <1>4 DEF BeginPopulate, initVars, indexVars
  <2>2. modelUses = {} /\ unread = {}
    BY <2>1 DEF IndexInv, Populating
  <2>3. Indexed' = {}
    BY <1>0, <2>1 DEF Indexed
  <2>. QED BY <2>1, <2>2, <2>3 DEF IndexInv, Populating
<1>5. CASE IndexRecord
  <2>1. /\ at = "records" /\ at' = "records" /\ line' = line + 1
        /\ line \in DOMAIN installation.records
        /\ UNCHANGED <<installation, finalLoadOrder, unread>>
        /\ modelUses' = IF Loaded(line) THEN modelUses \cup RecordUses(line) ELSE modelUses
    BY <1>0, <1>5 DEF IndexRecord, initVars
  <2>2. line \notin unread
    BY <1>0, <2>1 DEF IndexInv
  <2>3. Indexed' = IF Loaded(line) THEN Indexed \cup {line} ELSE Indexed
    <3>1. \A i \in DOMAIN installation.records : i < line + 1 <=> i < line \/ i = line
      BY <1>0
    <3>. QED BY <1>1, <2>1, <2>2, <3>1 DEF Indexed
  <2>4. modelUses = UNION {RecordUses(i) : i \in Indexed}
    BY <2>1 DEF IndexInv, Populating
  <2>5. modelUses' = UNION {RecordUses(i) : i \in Indexed'}
    BY <2>1, <2>3, <2>4
  <2>6. modelUses' = UNION {RecordUses(i)' : i \in Indexed'}
    BY <1>1, <2>1, <2>5
  <2>7. unread' \subseteq 1 .. line' - 1
    BY <1>0, <2>1 DEF IndexInv
  <2>. QED BY <2>1, <2>6, <2>7 DEF IndexInv, Populating
<1>6. CASE RecordThrows
  <2>1. /\ at = "records" /\ at' = "records"
        /\ UNCHANGED <<installation, finalLoadOrder, modelUses>>
        /\ unread \subseteq 1 .. line - 1
    BY <1>6 DEF RecordThrows, initVars, IndexInv
  <2>2. PICK next \in {line + 1} \cup EndOfType(line) :
            line' = next /\ unread' = unread \cup line .. next - 1
    BY <1>6 DEF RecordThrows
  <2>3. next \in Nat /\ next > line
    BY <1>0, <2>2 DEF EndOfType
  <2>4. unread' \subseteq 1 .. line' - 1
    BY <1>0, <2>1, <2>2, <2>3
  <2>5. Indexed' = Indexed
    <3>1. \A i \in DOMAIN installation.records :
              (i \notin unread' /\ i < next) <=> (i \notin unread /\ i < line)
      BY <1>0, <2>1, <2>2, <2>3
    <3>. QED BY <1>1, <2>1, <2>2, <3>1 DEF Indexed
  <2>6. modelUses' = UNION {RecordUses(i)' : i \in Indexed'}
    BY <1>1, <2>1, <2>5 DEF IndexInv, Populating
  <2>. QED BY <2>1, <2>4, <2>6 DEF IndexInv, Populating
<1>7. CASE IndexGrass
  <2>1. /\ at = "records" /\ at' = "populated" /\ line > Len(installation.records)
        /\ UNCHANGED <<installation, finalLoadOrder, modelUses, unread>>
    BY <1>7 DEF IndexGrass, initVars
  <2>2. Indexed' = Indexed
    BY <1>0, <1>1, <2>1 DEF Indexed
  <2>3. modelUses' = UNION {RecordUses(i)' : i \in Indexed'}
    BY <1>1, <2>1, <2>2 DEF IndexInv, Populating
  <2>. QED BY <2>1, <2>3 DEF IndexInv, Populating
<1>8. CASE EnumerateAllModelUses
  <2>1. /\ at = "populated" /\ at' = "enumerated"
        /\ UNCHANGED <<installation, finalLoadOrder, modelUses, unread>>
        /\ allUses' = {use \in modelUses :
                          Resolves(use) /\ Rec(use.record).type \in SupportedSeasonRecordTypes}
    BY <1>8 DEF EnumerateAllModelUses, initVars
  <2>2. Indexed' = Indexed
    BY <1>1, <2>1 DEF Indexed
  <2>3. modelUses' = UNION {RecordUses(i)' : i \in Indexed'}
    BY <1>1, <2>1, <2>2 DEF IndexInv, Populating
  <2>4. allUses' = {use \in modelUses' :
                       Resolves(use)' /\ Rec(use.record)'.type \in SupportedSeasonRecordTypes}
    BY <1>1, <2>1
  <2>. QED BY <2>1, <2>3, <2>4 DEF IndexInv, Populating
<1>9. CASE UNCHANGED loadVars
  <2>1. UNCHANGED <<installation, at, line, finalLoadOrder, modelUses, allUses, unread>>
    BY <1>9 DEF loadVars, gameVars, initVars, indexVars
  <2>2. Indexed' = Indexed
    BY <1>1, <2>1 DEF Indexed
  <2>3. at \in Populating => modelUses' = UNION {RecordUses(i)' : i \in Indexed'}
    BY <1>1, <2>1, <2>2 DEF IndexInv, Populating
  <2>4. at = "enumerated" => allUses' = {use \in modelUses' :
                       Resolves(use)' /\ Rec(use.record)'.type \in SupportedSeasonRecordTypes}
    BY <1>1, <2>1 DEF IndexInv
  <2>. QED BY <2>1, <2>3, <2>4 DEF IndexInv
<1>10. CASE GameNext /\ UNCHANGED <<initVars, indexVars>>
  <2>1. at \in BeforeLoading /\ at' \in BeforeLoading \cup {"initialize", "failed"}
    BY <1>10 DEF GameNext, Construct, ConstructThrows, GetActivePlugins, AddBasePlugins, ReadCccLine,
                EndCcc, CannotOpenPlugins, ReadPluginsLine, EndPlugins, BeforeLoading
  <2>. QED BY <1>2, <1>10, <2>1 DEF indexVars, Populating, BeforeLoading
<1>11. CASE Initialize
  BY <1>2, <1>11 DEF Initialize, FindValidMods, LoadNextPlugin, BuildEnvironment, indexVars,
                     Populating
<1>. QED BY <1>3, <1>4, <1>5, <1>6, <1>7, <1>8, <1>9, <1>10, <1>11 DEF LoadNext, PopulateObjs

LEMMA IndexInvInit == LoadInit => IndexInv
BY DEF LoadInit, GameInit, IndexInv, Populating

-----------------------------------------------------------------------------
(* The theorems *)

\* The three invariants together are inductive.
LEMMA LoadInvariance == LoadSpec => [](GameInv /\ LoadInv /\ IndexInv)
<1>1. GameInv /\ LoadInv /\ IndexInv /\ [LoadNext]_loadVars => (GameInv /\ LoadInv /\ IndexInv)'
  BY GameInvLoad, LoadInvNext, IndexInvNext
<1>. QED BY <1>1, LoadInvInit, IndexInvInit, PTL DEF LoadSpec

\* The list of active plugins is complete, free of duplicates and keeps the plugins of Skyrim.ccc
\* before those only plugins.txt names, whatever the files say (getActivePlugins).
THEOREM ActivePluginsAreExact == LoadSpec => []ActivePluginsExact
BY LoadInvariance, GameInvExact, PTL

\* A loaded plugin has the masters before it loaded, whatever is missing, unreadable, circular or
\* out of order (Initialize).
THEOREM MastersAreLoaded == LoadSpec => []MastersLoaded
BY LoadInvariance, LoadInvMasters, PTL

\* Plugins that need only each other are loaded, whatever happens to the others (Initialize).
THEOREM AllThatCanIsLoaded == LoadSpec => []LoadsAllItCan
BY LoadInvariance, LoadInvLoadsAll, PTL

\* The index of model uses resolves to the winning versions of the records and what is enumerated
\* from it is complete, whatever records cannot be read (PopulateObjs, EnumerateAllModelUses).
THEOREM IndexResolves == LoadSpec => []UsesResolve
BY LoadInvariance, IndexInvResolves, PTL

=============================================================================
