------------------------- MODULE OutputPipelineProofs -------------------------
(* Proofs about OutputPipeline for every set of seasons and inis and any number *)
(* of runs.                                                                     *)
EXTENDS OutputPipeline, TLAPS

Clean == {"clean Seasons", "clean PBRNIFPatcher", "clean PBRTextureSets", "clean plugin"}
Writing == {"writeIniFiles", "writeForeignIniOverrides", "writePBRJsonRules",
            "writePBRTextureSetFiles", "savePlugin"}

\* the run writes, or is about to
Writes == at \in Writing \/ (at = "scan" /\ ~dryRun)

\* What has been cleared is gone or left over, what is being cleared is gone or still to do.
CleanInv ==
    /\ at = "clean Seasons" => OnDisk \cap (Season \cup ForeignIni) \subseteq todo
    /\ at \in Clean \ {"clean Seasons"} => OnDisk \cap (Season \cup ForeignIni) \subseteq leftover
    /\ at = "clean PBRNIFPatcher" => OnDisk \cap {Rules} \subseteq todo
    /\ at \in {"clean PBRTextureSets", "clean plugin"} => OnDisk \cap {Rules} \subseteq leftover
    /\ at = "clean PBRTextureSets" => OnDisk \cap {TextureSets} \subseteq todo
    /\ at = "clean plugin" => OnDisk \cap {TextureSets} \subseteq leftover
    /\ at = "clean plugin" => OnDisk \cap {Plugin} \subseteq todo

\* The files of the run that is being written, but for what was left over.
WriteInv ==
    /\ Writes => \A f \in OnDisk \ ({Log} \cup leftover) : disk[f] = run
    /\ Writes /\ at \in {"scan", "writeIniFiles"} => OnDisk \cap ForeignIni \subseteq leftover
    /\ at \in {"writeIniFiles", "writeForeignIniOverrides"} =>
           \A i \in foreignInis : \A s \in Seasons(i) \ (todo \cup excused) :
               disk[s] # 0 /\ i \in folded[s]
    /\ at \in {"writeIniFiles", "writeForeignIniOverrides"} => relayed = foreignInis
    /\ at \in Writing => todo \subseteq Written(at)

RunOnly ==
    /\ at = "start" => shown \subseteq OnDisk
    /\ at # "start" => shown = {}
    /\ at \in Clean \cup Writing => ~dryRun
    /\ Running => run > 0

Inv == TypeOK /\ RunOnly /\ CleanInv /\ WriteInv /\ FilesOfOneRun /\ SilencedOnlyIfFolded

LEMMA StepNames ==
    /\ DOMAIN CleanSteps = {1, 2, 3, 4} /\ Len(CleanSteps) = 4
    /\ CleanSteps[1] = "clean Seasons" /\ CleanSteps[2] = "clean PBRNIFPatcher"
    /\ CleanSteps[3] = "clean PBRTextureSets" /\ CleanSteps[4] = "clean plugin"
    /\ DOMAIN WriteSteps = {1, 2, 3, 4, 5} /\ Len(WriteSteps) = 5
    /\ WriteSteps[1] = "writeIniFiles" /\ WriteSteps[2] = "writeForeignIniOverrides"
    /\ WriteSteps[3] = "writePBRJsonRules" /\ WriteSteps[4] = "writePBRTextureSetFiles"
    /\ WriteSteps[5] = "savePlugin"
<1>1. DOMAIN CleanSteps = 1 .. 4 /\ DOMAIN WriteSteps = 1 .. 5
  BY DEF CleanSteps, WriteSteps
<1>2. 1 .. 4 = {1, 2, 3, 4} /\ 1 .. 5 = {1, 2, 3, 4, 5}
  OBVIOUS
<1>. QED BY <1>1, <1>2 DEF CleanSteps, WriteSteps

LEMMA StepSets ==
    /\ Steps = {"idle", "start", "scan"} \cup Clean \cup Writing
    /\ Clean = {CleanSteps[i] : i \in DOMAIN CleanSteps}
    /\ Writing = {WriteSteps[i] : i \in DOMAIN WriteSteps}
<1>1. {CleanSteps[i] : i \in DOMAIN CleanSteps}
          = {CleanSteps[1], CleanSteps[2], CleanSteps[3], CleanSteps[4]}
  BY StepNames
<1>2. {WriteSteps[i] : i \in DOMAIN WriteSteps}
          = {WriteSteps[1], WriteSteps[2], WriteSteps[3], WriteSteps[4], WriteSteps[5]}
  BY StepNames
<1>3. Clean = {CleanSteps[i] : i \in DOMAIN CleanSteps}
  BY <1>1, StepNames DEF Clean
<1>4. Writing = {WriteSteps[i] : i \in DOMAIN WriteSteps}
  BY <1>2, StepNames DEF Writing
<1>. QED BY <1>3, <1>4 DEF Steps

LEMMA InvInit ==
    ASSUME Init
    PROVE  Inv
<1>1. at = "idle" /\ OnDisk = {} /\ 0 \in 0 .. MaxRuns
  BY PipelineAssumption DEF Init, OnDisk
<1>2. TypeOK
  BY <1>1 DEF Init, TypeOK, Steps
<1>3. RunOnly /\ CleanInv /\ WriteInv
  BY <1>1 DEF Init, RunOnly, CleanInv, WriteInv, Writes, Clean, Writing, Running
<1>4. FilesOfOneRun
  BY <1>1 DEF FilesOfOneRun
<1>5. SilencedOnlyIfFolded
  BY PipelineAssumption DEF Init, SilencedOnlyIfFolded, File
<1>. QED BY <1>2, <1>3, <1>4, <1>5 DEF Inv

\* A run that ends leaves the files as they are.
LEMMA EndRunKeeps ==
    ASSUME Inv, EndRun, UNCHANGED <<disk, folded, env, run, dryRun, history>>
    PROVE  Inv'
<1>1. /\ at' = "idle" /\ todo' = {} /\ shown' = {}
      /\ seasonSwaps' = {} /\ foreignInis' = {} /\ relayed' = {} /\ outputs' = {}
      /\ UNCHANGED <<disk, folded, enabled, installed, run, dryRun, leftover, excused>>
  BY DEF EndRun, Enter, env, history
<1>2. TypeOK'
  BY <1>1 DEF Inv, TypeOK, Steps
<1>3. RunOnly' /\ CleanInv' /\ WriteInv'
  BY <1>1 DEF RunOnly, CleanInv, WriteInv, Writes, Clean, Writing, Running
<1>4. FilesOfOneRun' /\ SilencedOnlyIfFolded'
  BY <1>1 DEF Inv, FilesOfOneRun, SilencedOnlyIfFolded, OnDisk
<1>. QED BY <1>2, <1>3, <1>4 DEF Inv

\* Between runs.
LEMMA UserKeeps ==
    ASSUME Inv, User
    PROVE  Inv'
<1>1. at = "idle" /\ UNCHANGED <<at, todo, shown, run, dryRun, folded, findings>>
  BY DEF User, SwitchOutputMod, ChangeMods, DeleteByHand, Running
<1>2. RunOnly' /\ CleanInv' /\ WriteInv'
  BY <1>1 DEF Inv, RunOnly, CleanInv, WriteInv, Writes, Clean, Writing, Running
<1>3. CASE SwitchOutputMod \/ ChangeMods
  <2>1. UNCHANGED <<disk, leftover, excused>>
    BY <1>3 DEF SwitchOutputMod, ChangeMods, history
  <2>2. TypeOK'
    BY <1>1, <1>3, <2>1 DEF Inv, TypeOK, SwitchOutputMod, ChangeMods, findings
  <2>3. FilesOfOneRun' /\ SilencedOnlyIfFolded'
    BY <1>1, <2>1 DEF Inv, FilesOfOneRun, SilencedOnlyIfFolded, OnDisk
  <2>. QED BY <1>2, <2>2, <2>3 DEF Inv
<1>4. ASSUME NEW f \in File, DeleteByHand(f)
      PROVE  Inv'
  <2>1. /\ disk' = [disk EXCEPT ![f] = 0] /\ disk \in [File -> 0 .. MaxRuns] /\ 0 \in 0 .. MaxRuns
        /\ excused' = excused \cup ({f} \cap Season) /\ leftover' = leftover \ {f}
        /\ UNCHANGED <<enabled, installed>>
    BY <1>4, PipelineAssumption DEF DeleteByHand, Inv, TypeOK, env
  <2>2. TypeOK'
    BY <1>1, <2>1 DEF Inv, TypeOK, findings
  <2>3. FilesOfOneRun'
    BY <2>1 DEF Inv, FilesOfOneRun, OnDisk
  <2>4. SilencedOnlyIfFolded'
    BY <1>1, <2>1, PipelineAssumption DEF Inv, SilencedOnlyIfFolded, File
  <2>. QED BY <1>2, <2>2, <2>3, <2>4 DEF Inv
<1>. QED BY <1>3, <1>4 DEF User

LEMMA StartKeeps ==
    ASSUME Inv, Start
    PROVE  Inv'
<1>1. /\ at = "idle" /\ at' = "start" /\ run < MaxRuns /\ run' = run + 1 /\ run' \in 1 .. MaxRuns
      /\ dryRun' \in BOOLEAN
      /\ disk' = [disk EXCEPT ![Log] = run'] /\ disk \in [File -> 0 .. MaxRuns] /\ Log \in File
      /\ shown' \in IF enabled THEN {OnDisk, OnDisk \cup {Log}} ELSE {{}}
      /\ leftover' = leftover \ {Log}
      /\ UNCHANGED <<folded, enabled, installed, todo, findings, excused>>
  BY PipelineAssumption DEF Start, Running, Inv, TypeOK, env, File
<1>2. \A f \in File : f # Log => disk'[f] = disk[f]
  BY <1>1
<1>3. disk' \in [File -> 0 .. MaxRuns] /\ disk'[Log] # 0
  BY <1>1
<1>4. OnDisk' = OnDisk \cup {Log} /\ OnDisk \subseteq File
  BY <1>1, <1>2, <1>3 DEF OnDisk
<1>5. TypeOK'
  BY <1>1, <1>3, <1>4 DEF Inv, TypeOK, Steps, findings
<1>6. RunOnly' /\ CleanInv' /\ WriteInv'
  BY <1>1, <1>4 DEF Inv, RunOnly, CleanInv, WriteInv, Writes, Clean, Writing, Running
<1>7. FilesOfOneRun'
  BY <1>1, <1>2, <1>4 DEF Inv, FilesOfOneRun
<1>8. SilencedOnlyIfFolded'
  BY <1>1, <1>2, PipelineAssumption DEF Inv, SilencedOnlyIfFolded, File
<1>. QED BY <1>5, <1>6, <1>7, <1>8 DEF Inv

\* The check is passed with none of our files in the Data view.
LEMMA PassKeeps ==
    ASSUME Inv, PassCheck
    PROVE  Inv'
<1>1. /\ at = "start" /\ shown \subseteq OnDisk /\ shown \cap OnDisk = {}
      /\ UNCHANGED <<disk, folded, enabled, installed, run, dryRun, shown, seasonSwaps, foreignInis,
                     relayed, outputs, leftover, excused>>
  BY DEF PassCheck, Detected, InDataView, Inv, RunOnly, env, findings, history
<1>2. shown = {} /\ run > 0
  BY <1>1 DEF Inv, RunOnly, Running
<1>3. \/ dryRun /\ at' = "scan" /\ todo' = {}
      \/ ~dryRun /\ at' = "clean Seasons" /\ todo' = (Season \cup ForeignIni) \cap OnDisk
  BY StepNames DEF PassCheck, Enter, Cleared
<1>4. TypeOK'
  <2>1. at' \in Steps
    BY <1>3, StepSets DEF Clean
  <2>2. todo' \subseteq File
    BY <1>3 DEF OnDisk
  <2>. QED BY <1>1, <2>1, <2>2 DEF Inv, TypeOK
<1>5. RunOnly'
  BY <1>1, <1>2, <1>3 DEF RunOnly, Clean, Writing
<1>6. CleanInv' /\ WriteInv'
  BY <1>1, <1>3 DEF CleanInv, WriteInv, Writes, Clean, Writing, OnDisk
<1>7. FilesOfOneRun' /\ SilencedOnlyIfFolded'
  BY <1>1 DEF Inv, FilesOfOneRun, SilencedOnlyIfFolded, OnDisk
<1>. QED BY <1>4, <1>5, <1>6, <1>7 DEF Inv

\* A file is removed: a merged ini lost in this way is excused, as the folder is not cleared yet.
LEMMA RemoveKeeps ==
    ASSUME Inv, NEW f \in File, Remove(f)
    PROVE  Inv'
<1>1. /\ at \in Clean /\ f \in todo /\ todo' = todo \ {f}
      /\ disk' = [disk EXCEPT ![f] = 0] /\ disk \in [File -> 0 .. MaxRuns] /\ 0 \in 0 .. MaxRuns
      /\ leftover' = leftover \ {f} /\ excused' = excused \cup ({f} \cap Season)
      /\ UNCHANGED <<folded, enabled, installed, run, dryRun, shown, at, seasonSwaps, foreignInis,
                     relayed, outputs>>
  BY StepSets, PipelineAssumption DEF Remove, Inv, TypeOK, env, findings
<1>2. OnDisk' = OnDisk \ {f}
  BY <1>1 DEF OnDisk
<1>3. TypeOK'
  BY <1>1 DEF Inv, TypeOK
<1>4. RunOnly' /\ CleanInv'
  BY <1>1, <1>2 DEF Inv, RunOnly, CleanInv, Running, Clean
<1>5. WriteInv'
  BY <1>1 DEF WriteInv, Writes, Clean, Writing
<1>6. FilesOfOneRun'
  BY <1>1, <1>2 DEF Inv, FilesOfOneRun, OnDisk
<1>7. SilencedOnlyIfFolded'
  BY <1>1, PipelineAssumption DEF Inv, SilencedOnlyIfFolded, File
<1>. QED BY <1>3, <1>4, <1>5, <1>6, <1>7 DEF Inv

\* What could not be removed is left over; after the last folder nothing else is there.
LEMMA EndCleanKeeps ==
    ASSUME Inv, NEW i \in DOMAIN CleanSteps, EndClean(i)
    PROVE  Inv'
<1>1. /\ leftover' = leftover \cup todo
      /\ UNCHANGED <<disk, folded, enabled, installed, run, dryRun, shown, seasonSwaps, foreignInis,
                     relayed, outputs>>
  BY DEF EndClean, env, findings
<1>2. at \in Clean /\ ~dryRun /\ run > 0 /\ shown = {}
  BY StepSets DEF EndClean, Inv, RunOnly, Running, Clean
<1>3. \/ at = "clean Seasons" /\ at' = "clean PBRNIFPatcher" /\ todo' = {Rules} \cap OnDisk
         /\ excused' = {}
      \/ at = "clean PBRNIFPatcher" /\ at' = "clean PBRTextureSets"
         /\ todo' = {TextureSets} \cap OnDisk /\ excused' = excused
      \/ at = "clean PBRTextureSets" /\ at' = "clean plugin" /\ todo' = {Plugin} \cap OnDisk
         /\ excused' = excused
      \/ at = "clean plugin" /\ at' = "scan" /\ todo' = {} /\ excused' = excused
  <2>1. i = 1 \/ i = 2 \/ i = 3 \/ i = 4
    BY StepNames
  <2>2. /\ at = CleanSteps[i] /\ excused' = IF i = 1 THEN {} ELSE excused
        /\ IF i = 4 THEN at' = "scan" /\ todo' = {}
           ELSE at' = CleanSteps[i + 1] /\ todo' = Cleared(CleanSteps[i + 1]) \cap OnDisk
    BY StepNames DEF EndClean, Enter
  <2>3. /\ Cleared("clean PBRNIFPatcher") = {Rules} /\ Cleared("clean plugin") = {Plugin}
        /\ Cleared("clean PBRTextureSets") = {TextureSets}
    BY DEF Cleared
  <2>4. CASE i = 1
    <3>1. i + 1 = 2 /\ i # 4
      BY <2>4
    <3>2. at' = CleanSteps[2] /\ todo' = Cleared(CleanSteps[2]) \cap OnDisk
      BY <2>2, <3>1
    <3>. QED BY <2>2, <2>3, <2>4, <3>1, <3>2, StepNames
  <2>5. CASE i = 2
    <3>1. i + 1 = 3 /\ i # 4 /\ i # 1
      BY <2>5
    <3>2. at' = CleanSteps[3] /\ todo' = Cleared(CleanSteps[3]) \cap OnDisk
      BY <2>2, <3>1
    <3>. QED BY <2>2, <2>3, <2>5, <3>1, <3>2, StepNames
  <2>6. CASE i = 3
    <3>1. i + 1 = 4 /\ i # 4 /\ i # 1
      BY <2>6
    <3>2. at' = CleanSteps[4] /\ todo' = Cleared(CleanSteps[4]) \cap OnDisk
      BY <2>2, <3>1
    <3>. QED BY <2>2, <2>3, <2>6, <3>1, <3>2, StepNames
  <2>7. CASE i = 4
    BY <2>2, <2>7, StepNames
  <2>. QED BY <2>1, <2>4, <2>5, <2>6, <2>7
<1>4. TypeOK'
  <2>1. at' \in Steps
    BY <1>3, StepSets DEF Clean
  <2>2. todo' \subseteq File /\ leftover' \subseteq File /\ excused' \subseteq Season
    BY <1>1, <1>3 DEF OnDisk, Inv, TypeOK
  <2>. QED BY <1>1, <2>1, <2>2 DEF Inv, TypeOK
<1>5. RunOnly'
  BY <1>1, <1>2, <1>3 DEF RunOnly, Running
<1>6. CleanInv'
  BY <1>1, <1>3 DEF Inv, CleanInv, Clean, OnDisk
<1>7. WriteInv'
  <2>1. CASE at' = "scan"
    <3>1. OnDisk \cap (Season \cup ForeignIni \cup {Plugin, Rules, TextureSets}) \subseteq leftover'
      BY <1>1, <1>3, <2>1 DEF Inv, CleanInv, Clean
    <3>2. OnDisk' = OnDisk /\ OnDisk \ ({Log} \cup leftover') = {}
          /\ OnDisk \cap ForeignIni \subseteq leftover'
      BY <1>1, <3>1 DEF OnDisk, File
    <3>. QED BY <3>2, <2>1 DEF WriteInv, Writing
  <2>2. CASE at' # "scan"
    BY <1>3, <2>2 DEF WriteInv, Writes, Writing
  <2>. QED BY <2>1, <2>2
<1>8. FilesOfOneRun'
  BY <1>1 DEF Inv, FilesOfOneRun, OnDisk
<1>9. SilencedOnlyIfFolded'
  <2>1. OnDisk \cap ForeignIni \subseteq leftover'
    BY <1>1, <1>2, <1>3 DEF Inv, CleanInv, Clean
  <2>. QED BY <1>1, <2>1 DEF SilencedOnlyIfFolded, OnDisk, File
<1>. QED BY <1>4, <1>5, <1>6, <1>7, <1>8, <1>9 DEF Inv

\* None of our files is in the Data view, so that every ini found is another mod's.
LEMMA ScanKeeps ==
    ASSUME Inv, Scan
    PROVE  Inv'
<1>1. /\ at = "scan" /\ ~dryRun /\ at' = "writeIniFiles"
      /\ seasonSwaps' \subseteq Season /\ outputs' \subseteq {Plugin, Rules, TextureSets}
      /\ UNCHANGED <<disk, folded, enabled, installed, run, dryRun, shown, leftover, excused>>
  BY StepNames DEF Scan, env, history
<1>2. shown = {} /\ InDataView = {} /\ run > 0
  BY <1>1 DEF Inv, RunOnly, InDataView, Running
<1>3. foreignInis' \subseteq ForeignIni /\ relayed' = foreignInis'
  BY <1>2 DEF Scan, RelayedOf, Inv, TypeOK
<1>4. todo' = seasonSwaps' \cup UNION {Seasons(i) : i \in relayed'}
  BY StepNames DEF Scan, Written
<1>5. todo' \subseteq Season
  BY <1>1, <1>3, <1>4, PipelineAssumption
<1>6. TypeOK'
  <2>1. at' \in Steps /\ todo' \subseteq File
    BY <1>1, <1>5, StepSets DEF Writing, File
  <2>. QED BY <1>1, <1>3, <2>1 DEF Inv, TypeOK
<1>7. RunOnly' /\ CleanInv'
  BY <1>1, <1>2 DEF RunOnly, CleanInv, Clean, Running
<1>8. WriteInv'
  <2>1. \A i \in foreignInis' : Seasons(i) \subseteq todo'
    BY <1>3, <1>4
  <2>2. todo' \subseteq Written(at)'
    BY <1>1, <1>4 DEF Written
  <2>3. (\A f \in OnDisk \ ({Log} \cup leftover) : disk[f] = run)
        /\ OnDisk \cap ForeignIni \subseteq leftover
    BY <1>1 DEF Inv, WriteInv, Writes
  <2>. QED BY <1>1, <1>3, <2>1, <2>2, <2>3 DEF WriteInv, OnDisk
<1>9. FilesOfOneRun' /\ SilencedOnlyIfFolded'
  BY <1>1 DEF Inv, FilesOfOneRun, SilencedOnlyIfFolded, OnDisk
<1>. QED BY <1>6, <1>7, <1>8, <1>9 DEF Inv

\* A file is written, or skipped: a merged ini that was skipped is excused.
LEMMA WriteKeeps ==
    ASSUME Inv, NEW f \in File, Write(f)
    PROVE  Inv'
<1>1. /\ at \in Writing /\ f \in todo /\ todo' = todo \ {f} /\ todo \subseteq Written(at)
      /\ run \in 1 .. MaxRuns /\ ~dryRun /\ shown = {} /\ disk \in [File -> 0 .. MaxRuns]
      /\ UNCHANGED <<enabled, installed, run, dryRun, shown, at, seasonSwaps, foreignInis, relayed,
                     outputs>>
  <2>1. at \in Writing
    BY StepSets DEF Write
  <2>2. run > 0 /\ ~dryRun /\ shown = {} /\ todo \subseteq Written(at)
    BY <2>1 DEF Inv, RunOnly, WriteInv, Running, Writing
  <2>. QED BY <2>1, <2>2 DEF Write, Inv, TypeOK, env, findings
<1>2. \A g \in OnDisk \ ({Log} \cup leftover) : disk[g] = run
  BY <1>1 DEF Inv, WriteInv, Writes
<1>3. f \in Season => f \notin ForeignIni
  BY PipelineAssumption
<1>4. at = "writeIniFiles" => f \in Season /\ OnDisk \cap ForeignIni \subseteq leftover
  <2>1. at = "writeIniFiles" => todo \subseteq Season
    BY <1>1, PipelineAssumption DEF Written, Inv, TypeOK
  <2>2. at = "writeIniFiles" => OnDisk \cap ForeignIni \subseteq leftover
    BY <1>1 DEF Inv, WriteInv, Writes
  <2>. QED BY <1>1, <2>1, <2>2
<1>5. at # "writeIniFiles" => f \notin Season
  BY <1>1, PipelineAssumption DEF Written, Writing, Inv, TypeOK
<1>6. at = "writeForeignIniOverrides" => f \in foreignInis
  BY <1>1 DEF Written
<1>7. at \notin {"writeIniFiles", "writeForeignIniOverrides"} => f \notin ForeignIni
  BY <1>1, PipelineAssumption DEF Written, Writing, Inv, TypeOK
<1>8. RunOnly' /\ CleanInv'
  BY <1>1 DEF Inv, RunOnly, CleanInv, Running, Clean, Writing
<1>9. todo' \subseteq Written(at)'
  BY <1>1 DEF Written
<1>10. CASE /\ disk' = [disk EXCEPT ![f] = run] /\ leftover' = leftover \ {f}
            /\ folded' = IF f \in Season
                         THEN [folded EXCEPT ![f] = {i \in relayed : f \in Seasons(i)}] ELSE folded
            /\ excused' = excused \ {f}
  <2>1. disk'[f] = run /\ run # 0 /\ (\A g \in File \ {f} : disk'[g] = disk[g])
        /\ disk' \in [File -> 0 .. MaxRuns]
    BY <1>1, <1>10
  <2>2. OnDisk' = OnDisk \cup {f}
    BY <2>1 DEF OnDisk
  <2>3. \A s \in Season : s # f => folded'[s] = folded[s]
    BY <1>10 DEF Inv, TypeOK
  <2>4. f \in Season => folded'[f] = {i \in relayed : f \in Seasons(i)}
    BY <1>10 DEF Inv, TypeOK
  <2>5. TypeOK'
    <3>1. folded' \in [Season -> SUBSET ForeignIni]
      BY <1>10 DEF Inv, TypeOK
    <3>. QED BY <1>1, <1>10, <2>1, <3>1 DEF Inv, TypeOK
  <2>6. \A g \in OnDisk' \ ({Log} \cup leftover') : disk'[g] = run
    BY <1>2, <1>10, <2>1, <2>2 DEF OnDisk
  <2>7. WriteInv'
    <3>1. at \in {"scan", "writeIniFiles"} => OnDisk' \cap ForeignIni \subseteq leftover'
      BY <1>1, <1>3, <1>4, <1>10, <2>2 DEF Writing
    <3>2. ASSUME at \in {"writeIniFiles", "writeForeignIniOverrides"},
                 NEW i \in foreignInis, NEW s \in Seasons(i), s \notin todo' \cup excused'
          PROVE  disk'[s] # 0 /\ i \in folded'[s]
      <4>1. s \in Season /\ s \in File /\ relayed = foreignInis
        BY <3>2, PipelineAssumption DEF Inv, TypeOK, WriteInv, File
      <4>2. CASE s = f
        BY <2>1, <2>4, <3>2, <4>1, <4>2
      <4>3. CASE s # f
        BY <1>1, <1>10, <2>1, <2>3, <3>2, <4>1, <4>3 DEF Inv, WriteInv
      <4>. QED BY <4>2, <4>3
    <3>3. at \in {"writeIniFiles", "writeForeignIniOverrides"} => relayed' = foreignInis'
      BY <1>1 DEF Inv, WriteInv
    <3>. QED BY <1>1, <1>9, <2>6, <3>1, <3>2, <3>3 DEF WriteInv
  <2>8. FilesOfOneRun'
    BY <2>6 DEF FilesOfOneRun
  <2>9. ASSUME NEW i \in ForeignIni, disk'[i] # 0, i \notin leftover',
               NEW s \in Seasons(i), s \notin excused'
        PROVE  disk'[s] # 0 /\ i \in folded'[s]
    <3>1. s \in Season /\ s \in File /\ i \in File
      BY PipelineAssumption DEF File
    <3>2. CASE at = "writeIniFiles"
      <4>1. i # f /\ i \in OnDisk
        BY <1>3, <1>4, <2>1, <2>9, <3>1, <3>2 DEF OnDisk
      <4>. QED BY <1>4, <1>10, <2>9, <3>2, <4>1
    <3>3. CASE at # "writeIniFiles"
      <4>1. s # f
        BY <1>5, <3>1, <3>3
      <4>2. s \notin excused
        BY <1>10, <2>9, <4>1
      <4>3. CASE i = f
        <5>1. at = "writeForeignIniOverrides" /\ i \in foreignInis /\ s \notin todo
          BY <1>1, <1>6, <1>7, <3>1, <3>3, <4>3, PipelineAssumption DEF Written, Inv, TypeOK
        <5>2. disk[s] # 0 /\ i \in folded[s]
          BY <4>2, <5>1 DEF Inv, WriteInv
        <5>. QED BY <2>1, <2>3, <3>1, <4>1, <5>2
      <4>4. CASE i # f
        BY <1>10, <2>1, <2>3, <2>9, <3>1, <4>1, <4>2, <4>4 DEF Inv, SilencedOnlyIfFolded
      <4>. QED BY <4>3, <4>4
    <3>. QED BY <3>2, <3>3
  <2>. QED BY <1>8, <2>5, <2>7, <2>8, <2>9 DEF Inv, SilencedOnlyIfFolded
<1>11. CASE /\ f # Plugin /\ excused' = excused \cup ({f} \cap Season)
            /\ UNCHANGED <<disk, folded, leftover>>
  <2>1. TypeOK'
    BY <1>1, <1>11 DEF Inv, TypeOK
  <2>2. WriteInv'
    <3>1. \A s : s \notin todo' \cup excused' /\ s \in Season => s \notin todo \cup excused
      BY <1>1, <1>11
    <3>2. \A i \in foreignInis : Seasons(i) \subseteq Season
      BY PipelineAssumption DEF Inv, TypeOK
    <3>. QED BY <1>1, <1>9, <1>11, <3>1, <3>2 DEF Inv, WriteInv, Writes, OnDisk
  <2>3. FilesOfOneRun' /\ SilencedOnlyIfFolded'
    BY <1>11 DEF Inv, FilesOfOneRun, SilencedOnlyIfFolded, OnDisk
  <2>. QED BY <1>8, <2>1, <2>2, <2>3 DEF Inv
<1>. QED BY <1>10, <1>11 DEF Write

\* The next writer begins when the one before has tried all of its files.
LEMMA EndWriteKeeps ==
    ASSUME Inv, NEW i \in DOMAIN WriteSteps, EndWrite(i)
    PROVE  Inv'
<1>1. CASE i = 5
  BY <1>1, StepNames, EndRunKeeps DEF EndWrite
<1>2. CASE i # 5
  <2>1. /\ i \in {1, 2, 3, 4} /\ at = WriteSteps[i] /\ todo = {}
        /\ at' = WriteSteps[i + 1] /\ todo' = Written(WriteSteps[i + 1])
        /\ UNCHANGED <<disk, folded, enabled, installed, run, dryRun, shown, seasonSwaps,
                       foreignInis, relayed, outputs, leftover, excused>>
    BY <1>2, StepNames DEF EndWrite, Enter, env, findings, history
  <2>2. /\ at \in Writing /\ at' \in Writing \ {"writeIniFiles"} /\ todo' = Written(at)'
        /\ at' = "writeForeignIniOverrides" => at = "writeIniFiles"
    <3>1. i = 1 \/ i = 2 \/ i = 3 \/ i = 4
      BY <2>1
    <3>2. (i = 1 => i + 1 = 2) /\ (i = 2 => i + 1 = 3) /\ (i = 3 => i + 1 = 4)
          /\ (i = 4 => i + 1 = 5)
      OBVIOUS
    <3>3. \/ at = "writeIniFiles" /\ at' = "writeForeignIniOverrides"
          \/ at = "writeForeignIniOverrides" /\ at' = "writePBRJsonRules"
          \/ at = "writePBRJsonRules" /\ at' = "writePBRTextureSetFiles"
          \/ at = "writePBRTextureSetFiles" /\ at' = "savePlugin"
      BY <2>1, <3>1, <3>2, StepNames
    <3>4. todo' = Written(at')
      BY <2>1
    <3>5. Written(at)' = Written(at')
      BY <2>1 DEF Written
    <3>. QED BY <3>3, <3>4, <3>5 DEF Writing
  <2>3. TypeOK'
    <3>1. at' \in Steps
      BY <2>2, StepSets
    <3>2. todo' \subseteq File
      BY <2>1, <2>2, PipelineAssumption DEF Written, Inv, TypeOK, File
    <3>. QED BY <2>1, <3>1, <3>2 DEF Inv, TypeOK
  <2>4. RunOnly' /\ CleanInv'
    BY <2>1, <2>2 DEF Inv, RunOnly, CleanInv, Clean, Writing, Running
  <2>5. WriteInv'
    <3>1. \A f \in OnDisk \ ({Log} \cup leftover) : disk[f] = run
      BY <2>2 DEF Inv, WriteInv, Writes
    <3>2. at' = "writeForeignIniOverrides" =>
              relayed = foreignInis /\ \A j \in foreignInis : \A s \in Seasons(j) \ excused :
                  disk[s] # 0 /\ j \in folded[s]
      BY <2>1, <2>2 DEF Inv, WriteInv
    <3>. QED BY <2>1, <2>2, <3>1, <3>2 DEF WriteInv, OnDisk, Writing
  <2>6. FilesOfOneRun' /\ SilencedOnlyIfFolded'
    BY <2>1 DEF Inv, FilesOfOneRun, SilencedOnlyIfFolded, OnDisk
  <2>. QED BY <2>3, <2>4, <2>5, <2>6 DEF Inv
<1>. QED BY <1>1, <1>2

LEMMA InvNext ==
    ASSUME Inv, [Next]_pipelineVars
    PROVE  Inv'
<1>1. CASE User
  BY <1>1, UserKeeps
<1>2. CASE Start
  BY <1>2, StartKeeps
<1>3. CASE Refuse \/ EndPreview \/ Fail
  BY <1>3, EndRunKeeps DEF Refuse, EndPreview, Fail
<1>4. CASE PassCheck
  BY <1>4, PassKeeps
<1>5. CASE Scan
  BY <1>5, ScanKeeps
<1>6. CASE \E f \in File : Remove(f) \/ Write(f)
  BY <1>6, RemoveKeeps, WriteKeeps
<1>7. CASE \E i \in DOMAIN CleanSteps : EndClean(i)
  BY <1>7, EndCleanKeeps
<1>8. CASE \E i \in DOMAIN WriteSteps : EndWrite(i)
  BY <1>8, EndWriteKeeps
<1>9. CASE UNCHANGED pipelineVars
  <2>1. UNCHANGED <<disk, folded, enabled, installed, run, dryRun, shown, at, todo, seasonSwaps,
                    foreignInis, relayed, outputs, leftover, excused>>
    BY <1>9 DEF pipelineVars, env, findings, history
  <2>2. TypeOK' /\ RunOnly' /\ CleanInv'
    BY <2>1 DEF Inv, TypeOK, RunOnly, CleanInv, OnDisk, Running
  <2>3. WriteInv' /\ FilesOfOneRun' /\ SilencedOnlyIfFolded'
    BY <2>1 DEF Inv, WriteInv, FilesOfOneRun, SilencedOnlyIfFolded, OnDisk, Writes, Written
  <2>. QED BY <2>2, <2>3 DEF Inv
<1>. QED BY <1>1, <1>2, <1>3, <1>4, <1>5, <1>6, <1>7, <1>8, <1>9 DEF Next, RunStep

\* Over any number of runs: how far the clearing and the writers of AutoSeasonsRunner::run have come
\* tells which files are on disk and of which run they are.
THEOREM PipelineInvariant == Spec => []Inv
<1>. QED BY InvInit, InvNext, PTL DEF Spec

\* AutoSeasonsRunner's check of the Data view is enough: past it, none of the program's own
\* files is in view, however the runs before ended.
THEOREM NoOwnOutputIsScanned == Spec => []ScansNoOwnOutput
<1>1. Inv => ScansNoOwnOutput
  BY DEF Inv, RunOnly, ScansNoOwnOutput, InDataView
<1>. QED BY <1>1, PipelineInvariant, PTL

\* The order of the writers and of the clearing: an empty ini is only over another mod's ini
\* while the merged inis hold that mod's swaps.
THEOREM SilencedInisAreFolded == Spec => []SilencedOnlyIfFolded
<1>1. Inv => SilencedOnlyIfFolded
  BY DEF Inv
<1>. QED BY <1>1, PipelineInvariant, PTL

\* No two files of the output are of different runs.
THEOREM OutputIsOfOneRun == Spec => []FilesOfOneRun
<1>1. Inv => FilesOfOneRun
  BY DEF Inv
<1>. QED BY <1>1, PipelineInvariant, PTL

\* A preview and an active output: no file but the log changes.
THEOREM ActiveOutputIsUntouched == Spec => OnlyDormantFilesChange
<1>1. ASSUME Inv, [Next]_pipelineVars
      PROVE  [Running => \A f \in File \ {Log} :
                  disk'[f] # disk[f] => ~dryRun /\ f \notin shown]_pipelineVars
  <2>1. CASE (\E f \in File : Remove(f) \/ Write(f))
    BY <2>1, <1>1, StepSets DEF Remove, Write, Inv, RunOnly, Clean, Writing
  <2>2. CASE Running /\ ~(\E f \in File : Remove(f) \/ Write(f))
    BY <2>2, <1>1 DEF Next, RunStep, User, SwitchOutputMod, ChangeMods, DeleteByHand, Start,
       Refuse, EndPreview, Fail, PassCheck, Scan, EndClean, EndWrite, pipelineVars
  <2>. QED BY <2>1, <2>2
<1>. QED BY <1>1, PipelineInvariant, PTL DEF Spec, OnlyDormantFilesChange

-----------------------------------------------------------------------------
(* The pipeline implements OutputFolder *)

\* What could not be removed is there, and so is what is still to be removed.
FolderInv ==
    /\ leftover \subseteq OnDisk \ {Log}
    /\ at \in Clean => todo \subseteq OnDisk \ {Log}

LEMMA FolderInvNext ==
    ASSUME Inv, FolderInv, [Next]_pipelineVars
    PROVE  FolderInv'
<1>1. disk \in [File -> 0 .. MaxRuns] /\ OnDisk \subseteq File
  BY DEF Inv, TypeOK, OnDisk
<1>2. CASE SwitchOutputMod \/ ChangeMods \/ Scan
  BY <1>2, StepNames DEF SwitchOutputMod, ChangeMods, Scan, Running, FolderInv, OnDisk, history, Clean
<1>3. ASSUME NEW f \in File, DeleteByHand(f)
      PROVE  FolderInv'
  <2>1. at' = "idle" /\ leftover' = leftover \ {f} /\ disk' = [disk EXCEPT ![f] = 0]
    BY <1>3 DEF DeleteByHand, Running
  <2>2. OnDisk' = OnDisk \ {f}
    BY <1>1, <2>1 DEF OnDisk
  <2>. QED BY <2>1, <2>2 DEF FolderInv, Clean
<1>4. CASE Start
  <2>1. at' = "start" /\ leftover' = leftover \ {Log} /\ disk' = [disk EXCEPT ![Log] = run']
    BY <1>4 DEF Start
  <2>2. OnDisk \ {Log} \subseteq OnDisk'
    BY <1>1, <2>1 DEF OnDisk
  <2>. QED BY <2>1, <2>2 DEF FolderInv, Clean
<1>5. CASE Refuse \/ EndPreview \/ Fail
  <2>1. at' = "idle" /\ UNCHANGED <<disk, leftover>>
    BY <1>5 DEF Refuse, EndPreview, Fail, EndRun, Enter, history
  <2>. QED BY <2>1 DEF FolderInv, OnDisk, Clean
<1>6. CASE PassCheck
  <2>1. UNCHANGED <<disk, leftover>> /\ (at' = "scan" \/ todo' = (Season \cup ForeignIni) \cap OnDisk)
    BY <1>6, StepNames DEF PassCheck, Enter, Cleared, history
  <2>2. Log \notin Season \cup ForeignIni
    BY PipelineAssumption
  <2>. QED BY <2>1, <2>2 DEF FolderInv, OnDisk, Clean
<1>7. ASSUME NEW f \in File, Remove(f)
      PROVE  FolderInv'
  <2>1. /\ at \in Clean /\ at' = at /\ todo' = todo \ {f} /\ leftover' = leftover \ {f}
        /\ disk' = [disk EXCEPT ![f] = 0]
    BY <1>7, StepSets DEF Remove
  <2>2. OnDisk' = OnDisk \ {f}
    BY <1>1, <2>1 DEF OnDisk
  <2>. QED BY <2>1, <2>2 DEF FolderInv
<1>8. ASSUME NEW i \in DOMAIN CleanSteps, EndClean(i)
      PROVE  FolderInv'
  <2>1. at \in Clean /\ UNCHANGED disk /\ leftover' = leftover \cup todo
    BY <1>8, StepSets DEF EndClean
  <2>2. i = Len(CleanSteps) => at' = "scan"
    BY <1>8 DEF EndClean, Enter
  <2>3. i # Len(CleanSteps) => todo' = Cleared(CleanSteps[i + 1]) \cap OnDisk
    BY <1>8 DEF EndClean, Enter
  <2>4. Log \notin Cleared(CleanSteps[i + 1])
    <3>1. Log \notin Season \cup ForeignIni /\ Log \notin {Rules} /\ Log \notin {TextureSets}
          /\ Log \notin {Plugin}
      BY PipelineAssumption DEF Log, Rules, TextureSets, Plugin
    <3>2. \A step : Cleared(step) \in {Season \cup ForeignIni, {Rules}, {TextureSets}, {Plugin}}
      BY DEF Cleared
    <3>. QED BY <3>1, <3>2
  <2>. QED BY <2>1, <2>2, <2>3, <2>4 DEF FolderInv, OnDisk, Clean
<1>9. ASSUME NEW f \in File, Write(f)
      PROVE  FolderInv'
  <2>1. at \in Writing /\ at' = at
    BY <1>9, StepSets DEF Write
  <2>2. \/ disk' = [disk EXCEPT ![f] = run] /\ leftover' = leftover \ {f}
        \/ UNCHANGED <<disk, leftover>>
    BY <1>9 DEF Write
  <2>3. OnDisk \ {f} \subseteq OnDisk'
    BY <1>1, <2>2 DEF OnDisk
  <2>. QED BY <2>1, <2>2, <2>3 DEF FolderInv, OnDisk, Clean, Writing
<1>10. ASSUME NEW i \in DOMAIN WriteSteps, EndWrite(i)
      PROVE  FolderInv'
  <2>1. UNCHANGED <<disk, leftover>>
    BY <1>10 DEF EndWrite, history
  <2>2. at' \notin Clean
    <3>1. i = Len(WriteSteps) => at' = "idle"
      BY <1>10 DEF EndWrite, EndRun, Enter
    <3>2. i # Len(WriteSteps) => at' = WriteSteps[i + 1]
      BY <1>10 DEF EndWrite, Enter
    <3>3. i # Len(WriteSteps) => i + 1 \in DOMAIN WriteSteps
      <4>1. i = 1 \/ i = 2 \/ i = 3 \/ i = 4 \/ i = 5
        BY StepNames
      <4>2. i # 5 => i + 1 \in {1, 2, 3, 4, 5}
        BY <4>1
      <4>. QED BY <4>2, StepNames
    <3>. QED BY <3>1, <3>2, <3>3, StepSets DEF Clean, Writing
  <2>. QED BY <2>1, <2>2 DEF FolderInv, OnDisk
<1>11. CASE UNCHANGED pipelineVars
  BY <1>11 DEF pipelineVars, FolderInv, OnDisk, history
<1>. QED BY <1>2, <1>3, <1>4, <1>5, <1>6, <1>7, <1>8, <1>9, <1>10, <1>11 DEF Next, User, RunStep

PhaseFollowsStep ==
    /\ FolderPhase = "closed" <=> at = "idle"
    /\ FolderPhase = "looking" <=> at = "start" \/ (at = "scan" /\ dryRun)
    /\ FolderPhase = "emptying" <=> at \in Clean
    /\ FolderPhase = "filling" <=> at \in Writing \/ (at = "scan" /\ ~dryRun)
    /\ at \in {"idle", "start", "scan"} \cup Clean \cup Writing

LEMMA PhaseOfStep == Inv => PhaseFollowsStep
<1>. SUFFICES ASSUME Inv
              PROVE  PhaseFollowsStep
  OBVIOUS
<1>1. at \in {"idle", "start", "scan"} \cup Clean \cup Writing
  BY StepSets DEF Inv, TypeOK
<1>2. at \in Clean \cup Writing => ~dryRun
  BY DEF Inv, RunOnly
<1>3. dryRun \in BOOLEAN
  BY DEF Inv, TypeOK
<1>4. FolderPhase = CASE at = "idle" -> "closed"
                      [] at = "start" \/ (Running /\ dryRun) -> "looking"
                      [] ~dryRun /\ at \in Clean -> "emptying"
                      [] OTHER -> "filling"
  BY StepSets DEF FolderPhase
<1>. QED BY <1>1, <1>2, <1>3, <1>4 DEF PhaseFollowsStep, Clean, Writing, Running

\* AutoSeasonsRunner.cpp, the comments before the refusal and the clearing: however the program is
\* run, stopped and started again, the output is rebuilt in an emptied folder and left alone
\* while it is in use.  Every step of the pipeline is a step of OutputFolder or none.
THEOREM PipelineRebuildsFolder == Spec => RebuiltFromEmpty
<1>1. Init => Folder!Init /\ FolderInv
  <2>. SUFFICES ASSUME Init
                PROVE  Folder!Init /\ FolderInv
    OBVIOUS
  <2>1. \A f \in OutputFile : disk[f] = 0
    BY DEF Init, OutputFile
  <2>2. WrittenBy = [f \in OutputFile |-> 0]
    BY <2>1 DEF WrittenBy
  <2>3. FolderPhase = "closed"
    BY InvInit, PhaseOfStep DEF Init, PhaseFollowsStep
  <2>. QED BY <2>2, <2>3 DEF Init, Folder!Init, FolderInv, OnDisk, Clean
<1>2. (Inv => PhaseFollowsStep)'
  BY PhaseOfStep, PTL
<1>3. ASSUME Inv, FolderInv, [Next]_pipelineVars
      PROVE  [Folder!Next]_Folder!vars
  <2>1. Inv' /\ FolderInv'
    BY <1>3, InvNext, FolderInvNext
  <2>2. PhaseFollowsStep /\ PhaseFollowsStep'
    BY <1>2, <1>3, <2>1, PhaseOfStep
  <2>3. Folder!Present = OnDisk \ {Log}
    BY DEF Folder!Present, OnDisk, OutputFile, WrittenBy
  <2>4. ASSUME UNCHANGED disk
        PROVE  UNCHANGED WrittenBy /\ UNCHANGED OnDisk
    BY <2>4 DEF WrittenBy, OnDisk
  <2>5. ASSUME EndRun, Running, UNCHANGED <<disk, leftover, run>>
        PROVE  Folder!Next
    <3>1. at' = "idle" /\ at # "idle" /\ shown' = {}
      BY <2>5 DEF EndRun, Enter, Running
    <3>2. Folder!Close
      BY <2>2, <2>4, <2>5, <3>1 DEF Folder!Close, PhaseFollowsStep
    <3>. QED BY <3>2 DEF Folder!Next
  <2>6. CASE SwitchOutputMod \/ ChangeMods \/ Scan
    <3>1. /\ UNCHANGED <<disk, leftover, run, dryRun, shown>>
          /\ at' = at \/ (at = "scan" /\ ~dryRun /\ at' \in Writing)
      BY <2>6, StepNames DEF SwitchOutputMod, ChangeMods, Scan, history, findings, Writing
    <3>2. UNCHANGED FolderPhase
      BY <2>2, <3>1 DEF PhaseFollowsStep
    <3>. QED BY <2>4, <3>1, <3>2 DEF Folder!vars
  <2>7. ASSUME NEW f \in File, DeleteByHand(f)
        PROVE  [Folder!Next]_Folder!vars
    <3>1. /\ at = "idle" /\ disk[f] # 0 /\ disk' = [disk EXCEPT ![f] = 0]
          /\ leftover' = leftover \ {f} /\ UNCHANGED <<at, run, dryRun, shown>>
      BY <2>7 DEF DeleteByHand, Running
    <3>2. FolderPhase = "closed" /\ FolderPhase' = "closed"
      BY <2>2, <3>1 DEF PhaseFollowsStep
    <3>3. disk \in [File -> 0 .. MaxRuns]
      BY <1>3 DEF Inv, TypeOK
    <3>4. CASE f = Log
      <4>1. UNCHANGED WrittenBy
        BY <3>1, <3>3, <3>4 DEF WrittenBy, OutputFile
      <4>. QED BY <3>1, <3>2, <3>4, <4>1 DEF Folder!vars
    <3>5. CASE f # Log
      <4>1. f \in OutputFile /\ f \in Folder!Present /\ WrittenBy' = [WrittenBy EXCEPT ![f] = 0]
        BY <2>3, <3>1, <3>3, <3>5 DEF WrittenBy, OutputFile, OnDisk
      <4>2. Folder!TakeOut(f)
        BY <3>1, <3>2, <4>1 DEF Folder!TakeOut
      <4>. QED BY <4>1, <4>2 DEF Folder!Next
    <3>. QED BY <3>4, <3>5
  <2>8. CASE Start
    <3>1. /\ at = "idle" /\ at' = "start" /\ run < MaxRuns /\ run' = run + 1
          /\ disk' = [disk EXCEPT ![Log] = run'] /\ leftover' = leftover \ {Log}
          /\ shown' \subseteq OnDisk \cup {Log}
      BY <2>8 DEF Start, Running
    <3>2. UNCHANGED WrittenBy
      BY <1>3, <3>1 DEF WrittenBy, OutputFile, Inv, TypeOK
    <3>3. FolderPhase = "closed" /\ FolderPhase' = "looking"
      BY <2>2, <3>1 DEF PhaseFollowsStep
    <3>4. shown' \ {Log} \in SUBSET Folder!Present
      BY <2>3, <3>1
    <3>5. Folder!Look
      BY <3>1, <3>2, <3>3, <3>4 DEF Folder!Look
    <3>. QED BY <3>5 DEF Folder!Next
  <2>9. CASE Refuse \/ EndPreview \/ Fail
    <3>1. EndRun /\ Running /\ UNCHANGED <<disk, leftover, run>>
      BY <2>9 DEF Refuse, EndPreview, Fail, Running, history
    <3>. QED BY <2>5, <3>1
  <2>10. CASE PassCheck
    <3>1. /\ at = "start" /\ shown = {} /\ UNCHANGED <<disk, leftover, run, dryRun, shown>>
          /\ at' = IF dryRun THEN "scan" ELSE "clean Seasons"
      BY <1>3, <2>10, StepNames DEF PassCheck, Detected, InDataView, Enter, Inv, RunOnly, history
    <3>2. FolderPhase = "looking" /\ FolderPhase' = IF dryRun THEN "looking" ELSE "emptying"
      BY <2>2, <3>1 DEF PhaseFollowsStep, Clean
    <3>3. CASE dryRun
      BY <2>4, <3>1, <3>2, <3>3 DEF Folder!vars
    <3>4. CASE ~dryRun
      <4>1. Folder!Empty
        BY <2>4, <3>1, <3>2, <3>4 DEF Folder!Empty
      <4>. QED BY <4>1 DEF Folder!Next
    <3>. QED BY <3>3, <3>4
  <2>11. ASSUME NEW f \in File, Remove(f)
        PROVE  Folder!Next
    <3>1. /\ at \in Clean /\ f \in todo /\ disk' = [disk EXCEPT ![f] = 0]
          /\ leftover' = leftover \ {f} /\ UNCHANGED <<at, run, dryRun, shown>>
      BY <2>11, StepSets DEF Remove
    <3>2. FolderPhase = "emptying" /\ FolderPhase' = "emptying"
      BY <2>2, <3>1 DEF PhaseFollowsStep
    <3>3. f \in OutputFile /\ f \in Folder!Present
      BY <1>3, <2>3, <3>1 DEF FolderInv, OutputFile
    <3>4. WrittenBy' = [WrittenBy EXCEPT ![f] = 0]
      BY <1>3, <3>1, <3>3 DEF WrittenBy, OutputFile, Inv, TypeOK
    <3>5. Folder!TakeOut(f)
      BY <3>1, <3>2, <3>3, <3>4 DEF Folder!TakeOut
    <3>. QED BY <3>3, <3>5 DEF Folder!Next
  <2>12. ASSUME NEW i \in DOMAIN CleanSteps, EndClean(i)
        PROVE  Folder!Next
    <3>1. /\ at \in Clean /\ leftover' = leftover \cup todo
          /\ UNCHANGED <<disk, run, dryRun, shown>>
      BY <2>12, StepSets DEF EndClean
    <3>2. ~dryRun /\ todo \subseteq OnDisk \ {Log} /\ leftover \subseteq OnDisk \ {Log}
      BY <1>3, <3>1 DEF Inv, RunOnly, FolderInv
    <3>3. FolderPhase = "emptying"
      BY <2>2, <3>1 DEF PhaseFollowsStep
    <3>4. CASE i = 4
      <4>1. at = "clean plugin" /\ at' = "scan"
        BY <2>12, <3>4, StepNames DEF EndClean, Enter
      <4>2. FolderPhase' = "filling"
        BY <2>2, <3>1, <3>2, <4>1 DEF PhaseFollowsStep
      <4>3. OnDisk \ {Log} \subseteq leftover'
        BY <1>3, <3>1, <4>1 DEF Inv, CleanInv, Clean, File, OnDisk
      <4>4. leftover' \ {Log} = Folder!Present
        BY <2>3, <3>1, <3>2, <4>3
      <4>5. Folder!Fill
        BY <2>4, <3>1, <3>3, <4>2, <4>4 DEF Folder!Fill
      <4>. QED BY <4>5 DEF Folder!Next
    <3>5. CASE i # 4
      <4>1. at' = CleanSteps[i + 1]
        BY <2>12, <3>5, StepNames DEF EndClean, Enter
      <4>2. at' \in Clean
        <5>1. i = 1 \/ i = 2 \/ i = 3
          BY <3>5, StepNames
        <5>2. i + 1 = 2 \/ i + 1 = 3 \/ i + 1 = 4
          BY <5>1
        <5>. QED BY <4>1, <5>2, StepNames DEF Clean
      <4>3. FolderPhase' = "emptying"
        BY <2>2, <4>2 DEF PhaseFollowsStep
      <4>4. todo \subseteq Folder!Present /\ todo \in SUBSET OutputFile
        BY <2>3, <3>2 DEF OnDisk, OutputFile
      <4>5. Folder!GiveUp(todo)
        BY <2>4, <3>1, <3>2, <3>3, <4>3, <4>4 DEF Folder!GiveUp
      <4>. QED BY <4>4, <4>5 DEF Folder!Next
    <3>. QED BY <3>4, <3>5
  <2>13. ASSUME NEW f \in File, Write(f)
        PROVE  [Folder!Next]_Folder!vars
    <3>1. at \in Writing /\ f \in todo /\ UNCHANGED <<at, run, dryRun, shown>>
      BY <2>13, StepSets DEF Write
    <3>2. FolderPhase = "filling" /\ FolderPhase' = "filling"
      BY <2>2, <3>1 DEF PhaseFollowsStep
    <3>3. CASE UNCHANGED <<disk, leftover>>
      BY <2>4, <3>1, <3>2, <3>3 DEF Folder!vars
    <3>4. CASE disk' = [disk EXCEPT ![f] = run] /\ leftover' = leftover \ {f}
      <4>1. f \in OutputFile
        <5>1. todo \subseteq Written(at)
          BY <1>3, <3>1 DEF Inv, WriteInv
        <5>2. Log \notin Season \cup ForeignIni \cup {Plugin, Rules, TextureSets}
          BY PipelineAssumption DEF Log, Plugin, Rules, TextureSets
        <5>3. Written(at) \subseteq Season \cup ForeignIni \cup {Plugin, Rules, TextureSets}
          BY <1>3, <3>1, PipelineAssumption DEF Written, Writing, Inv, TypeOK
        <5>. QED BY <3>1, <5>1, <5>2, <5>3 DEF OutputFile
      <4>2. WrittenBy' = [WrittenBy EXCEPT ![f] = run]
        BY <1>3, <3>4, <4>1 DEF WrittenBy, OutputFile, Inv, TypeOK
      <4>3. Folder!Put(f)
        BY <3>1, <3>2, <3>4, <4>2 DEF Folder!Put
      <4>. QED BY <4>1, <4>3 DEF Folder!Next
    <3>. QED BY <2>13, <3>3, <3>4 DEF Write
  <2>14. ASSUME NEW i \in DOMAIN WriteSteps, EndWrite(i)
        PROVE  [Folder!Next]_Folder!vars
    <3>1. at \in Writing /\ UNCHANGED <<disk, leftover, run, dryRun>>
      BY <2>14, StepSets DEF EndWrite, history
    <3>2. CASE i = 5
      BY <2>5, <2>14, <3>1, <3>2, StepNames DEF EndWrite, Running, Writing
    <3>3. CASE i # 5
      <4>1. at' = WriteSteps[i + 1] /\ UNCHANGED shown
        BY <2>14, <3>3, StepNames DEF EndWrite, Enter
      <4>2. at' \in Writing
        <5>1. i = 1 \/ i = 2 \/ i = 3 \/ i = 4
          BY <3>3, StepNames
        <5>2. i + 1 = 2 \/ i + 1 = 3 \/ i + 1 = 4 \/ i + 1 = 5
          BY <5>1
        <5>. QED BY <4>1, <5>2, StepNames DEF Writing
      <4>3. FolderPhase = "filling" /\ FolderPhase' = "filling"
        BY <2>2, <3>1, <4>2 DEF PhaseFollowsStep
      <4>. QED BY <2>4, <3>1, <4>1, <4>3 DEF Folder!vars
    <3>. QED BY <3>2, <3>3
  <2>15. CASE UNCHANGED pipelineVars
    <3>1. UNCHANGED <<disk, leftover, run, shown, at, dryRun>>
      BY <2>15 DEF pipelineVars, history
    <3>2. UNCHANGED FolderPhase
      BY <2>2, <3>1 DEF PhaseFollowsStep
    <3>. QED BY <2>4, <3>1, <3>2 DEF Folder!vars
  <2>. QED BY <1>3, <2>6, <2>7, <2>8, <2>9, <2>10, <2>11, <2>12, <2>13, <2>14, <2>15
           DEF Next, User, RunStep
<1>. QED BY <1>1, <1>3, FolderInvNext, PipelineInvariant, PTL DEF Spec, RebuiltFromEmpty, Folder!Spec

=============================================================================
