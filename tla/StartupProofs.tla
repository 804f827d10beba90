---------------------------- MODULE StartupProofs ----------------------------
(* Proofs about FileMap and GpuClassification, for every tree of folders and every       *)
(* behaviour of the GPU, then about their composition Startup with the load order and    *)
(* the window.                                                                           *)
EXTENDS Startup, LoadOrderProofs, SequenceTheorems

-----------------------------------------------------------------------------
(* FileMap *)

\* Nothing on the way to a directory or a file is hidden, the folder to map apart.
Reached(d) ==
    /\ LowerName[d[1]] \in Mapped
    /\ \A n \in 2 .. Len(d) : Above(d, n) \notin installation.hidden

Shown(p) == p \in Entries(installation) /\ Visible(p) /\ isFileAllowed(p)

\* What is still to be entered can be seen; what was entered and can be seen is in the map, and
\* what is not in the map can still be reached.
FileInv ==
    /\ installation \in Installation
    /\ \A d \in toWalk : d \in installation.directories /\ Reached(d)
    /\ filling = "never" => Native = {} /\ toWalk = {}
    /\ filling = "filled" => toWalk = {}
    /\ \A f \in Native : \E p \in Entries(installation) : Shown(p) /\ f = Lower(p)
    /\ filling # "never" => \A p \in Entries(installation) :
           Shown(p) => Lower(p) \in Native \/ \E n \in 1 .. Len(p) - 1 : Above(p, n) \in toWalk

LEMMA FileInvExact == FileInv => MapsTheVisible
<1>. SUFFICES ASSUME FileInv, filling = "filled"
              PROVE  Native = {Lower(p) : p \in {q \in Entries(installation) :
                                                    Visible(q) /\ isFileAllowed(q)}}
  BY DEF MapsTheVisible
<1>1. \A p \in Entries(installation) : Shown(p) => Lower(p) \in Native
  BY DEF FileInv
<1>2. \A f \in Native : \E p \in Entries(installation) : Shown(p) /\ f = Lower(p)
  BY DEF FileInv
<1>. QED BY <1>1, <1>2 DEF Shown

\* The directories above an entry.
LEMMA AboveFacts ==
    ASSUME NEW p \in Path, NEW n \in 1 .. Len(p)
    PROVE  /\ Above(p, n) \in Path /\ Len(Above(p, n)) = n
           /\ Above(p, n)[1] = p[1]
           /\ \A m \in 1 .. n : Above(Above(p, n), m) = Above(p, m)
           /\ Above(p, Len(p)) = p
<1>1. p \in Seq(Name) /\ p # <<>> /\ n \in Int
  BY DEF Path
<1>2. \A i \in 1 .. n : p[i] \in Name
  BY <1>1
<1>3. /\ Above(p, n) \in Seq(Name) /\ Len(Above(p, n)) = n
      /\ \A i \in 1 .. n : Above(p, n)[i] = p[i]
  BY <1>1, <1>2, SubSeqProperties DEF Above
<1>4. \A m \in 1 .. n : Above(Above(p, n), m) = Above(p, m)
  BY <1>1, SubSeqOfSubSeq DEF Above
<1>5. Above(p, Len(p)) = p
  BY <1>1, SubSeqFull DEF Above
<1>. QED BY <1>3, <1>4, <1>5 DEF Path

LEMMA PathLength ==
    ASSUME NEW p \in Path
    PROVE  Len(p) \in Nat /\ (Len(p) = 1 \/ (Len(p) > 1 /\ Len(p) # 1))
<1>1. Len(p) \in Nat /\ Len(p) >= 1
  BY DEF Path
<1>2. \A k \in Nat : k >= 1 => k = 1 \/ (k > 1 /\ k # 1)
  OBVIOUS
<1>. QED BY <1>1, <1>2

LEMMA EntryPath ==
    ASSUME installation \in Installation, NEW p \in Entries(installation)
    PROVE  p \in Path /\ \A n \in 1 .. Len(p) - 1 : Above(p, n) \in installation.directories
BY FileAssumption

LEMMA UpdateNative ==
    ASSUME NEW entries, UpdateFileMap(entries), UNCHANGED restoreMap
    PROVE  Native' = Native \cup {Lower(p) : p \in {q \in entries : isFileAllowed(q)}}
BY DEF UpdateFileMap, Native, Generated

\* What a directory holds can be seen if the directory can.
LEMMA FoundBelow ==
    ASSUME FileInv, NEW d \in toWalk, NEW p \in Found(d)
    PROVE  /\ p \in Entries(installation) /\ Visible(p)
           /\ p \in installation.directories => Reached(p)
<1>1. /\ p \in Entries(installation) /\ p \notin installation.hidden
      /\ Len(p) = Len(d) + 1 /\ Above(p, Len(d)) = d
  BY DEF Found
<1>2. p \in Path /\ d \in Path /\ Reached(d)
  BY <1>1, EntryPath DEF FileInv, Entries
<1>3. Len(d) \in Nat /\ Len(d) >= 1
  BY <1>2 DEF Path
<1>4. p[1] = d[1] /\ Above(p, Len(p)) = p
  BY <1>1, <1>2, <1>3, AboveFacts
<1>5. ASSUME NEW n \in 2 .. Len(p)
      PROVE  Above(p, n) \notin installation.hidden
  <2>1. CASE n = Len(p)
    BY <1>1, <1>4, <2>1
  <2>2. CASE n # Len(p)
    <3>1. n \in 1 .. Len(d) /\ Len(d) \in 1 .. Len(p)
      BY <1>1, <1>3, <2>2
    <3>2. Above(p, n) = Above(d, n)
      BY <1>1, <1>2, <3>1, AboveFacts
    <3>. QED BY <1>2, <3>1, <3>2 DEF Reached
  <2>. QED BY <2>1, <2>2
<1>. QED BY <1>1, <1>2, <1>3, <1>4, <1>5 DEF Visible, Reached

LEMMA MapTopKeeps ==
    ASSUME FileInv, MapTop, UNCHANGED installation
    PROVE  FileInv'
<1>. DEFINE top == Found(<<>>) \ installation.directories
<1>1. Native' = {Lower(p) : p \in {q \in top : isFileAllowed(q)}}
  BY UpdateNative DEF FileInv, MapTop
<1>2. toWalk' = {d \in installation.directories : Len(d) = 1 /\ LowerName[d[1]] \in Mapped}
      /\ filling' = "filling"
  BY DEF MapTop
<1>3. ASSUME NEW d \in toWalk'
      PROVE  d \in installation.directories /\ Reached(d)
  <2>1. 2 .. Len(d) = {}
    BY <1>2
  <2>. QED BY <1>2, <2>1 DEF Reached
<1>4. ASSUME NEW p \in Entries(installation)
      PROVE  p \in top <=> Len(p) = 1 /\ p \notin installation.directories \cup installation.hidden
  <2>1. Len(<<>>) = 0 /\ Above(p, 0) = <<>>
    BY SubSeqEmpty DEF Above
  <2>. QED BY <2>1 DEF Found
<1>5. ASSUME NEW p \in top
      PROVE  p \in Entries(installation) /\ Visible(p)
  <2>1. p \in Entries(installation)
    BY DEF Found
  <2>2. Len(p) = 1 /\ p \notin installation.directories \cup installation.hidden
    BY <1>4, <2>1
  <2>3. 2 .. Len(p) = {}
    BY <2>2
  <2>. QED BY <2>1, <2>2, <2>3 DEF Visible
<1>6. ASSUME NEW p \in Entries(installation), Shown(p)
      PROVE  p \in top \/ \E n \in 1 .. Len(p) - 1 : Above(p, n) \in toWalk'
  <2>1. p \in Path /\ \A n \in 1 .. Len(p) - 1 : Above(p, n) \in installation.directories
    BY EntryPath DEF FileInv
  <2>2. Len(p) \in Nat /\ (Len(p) = 1 \/ (Len(p) > 1 /\ Len(p) # 1))
    BY <2>1, PathLength
  <2>3. CASE Len(p) = 1
    BY <1>4, <1>6, <2>3 DEF Shown, Visible
  <2>4. CASE Len(p) > 1 /\ Len(p) # 1
    <3>1. 1 \in 1 .. Len(p) /\ 1 \in 1 .. Len(p) - 1
      BY <2>2, <2>4
    <3>2. Len(Above(p, 1)) = 1 /\ Above(p, 1)[1] = p[1]
      BY <2>1, <3>1, AboveFacts
    <3>3. LowerName[p[1]] \in Mapped
      BY <1>6, <2>4 DEF Shown, Visible
    <3>4. Above(p, 1) \in toWalk'
      BY <1>2, <2>1, <3>1, <3>2, <3>3
    <3>. QED BY <3>1, <3>4
  <2>. QED BY <2>2, <2>3, <2>4
<1>7. \A p : Shown(p)' = Shown(p) /\ Lower(p)' = Lower(p) /\ Reached(p)' = Reached(p)
  BY DEF Shown, Visible, Reached, Entries, Above, isFileAllowed, Lower
<1>8. \A f \in Native' : \E p \in Entries(installation) : Shown(p) /\ f = Lower(p)
  BY <1>1, <1>5 DEF Shown
<1>9. \A p \in Entries(installation) :
          Shown(p) => Lower(p) \in Native' \/ \E n \in 1 .. Len(p) - 1 : Above(p, n) \in toWalk'
  BY <1>1, <1>6 DEF Shown
<1>. QED BY <1>2, <1>3, <1>7, <1>8, <1>9 DEF FileInv, Entries, Above

LEMMA WalkFolderKeeps ==
    ASSUME FileInv, NEW d \in toWalk, WalkFolder(d), UNCHANGED installation
    PROVE  FileInv'
<1>1. Native' = Native \cup {Lower(p) : p \in {q \in Found(d) : isFileAllowed(q)}}
  BY UpdateNative DEF WalkFolder
<1>2. /\ toWalk' = (toWalk \ {d}) \cup (Found(d) \cap installation.directories)
      /\ filling' = filling
  BY DEF WalkFolder
<1>3. filling = "filling" \/ filling \notin {"never", "filled"}
  BY DEF FileInv
<1>4. \A e \in toWalk' : e \in installation.directories /\ Reached(e)
  BY <1>2, FoundBelow DEF FileInv
<1>5. \A f \in Native' : \E p \in Entries(installation) : Shown(p) /\ f = Lower(p)
  <2>1. \A p \in Found(d) : isFileAllowed(p) => p \in Entries(installation) /\ Shown(p)
    BY FoundBelow DEF Shown
  <2>2. \A f \in Native : \E p \in Entries(installation) : Shown(p) /\ f = Lower(p)
    BY DEF FileInv
  <2>3. \A f \in Native' \ Native : \E p \in Found(d) : isFileAllowed(p) /\ f = Lower(p)
    BY <1>1
  <2>. QED BY <2>1, <2>2, <2>3
<1>6. ASSUME NEW p \in Entries(installation), Shown(p)
      PROVE  Lower(p) \in Native' \/ \E n \in 1 .. Len(p) - 1 : Above(p, n) \in toWalk'
  <2>1. CASE Lower(p) \in Native
    BY <1>1, <2>1
  <2>2. ASSUME NEW n \in 1 .. Len(p) - 1, Above(p, n) \in toWalk, Above(p, n) # d
        PROVE  Above(p, n) \in toWalk'
    BY <1>2, <2>2
  <2>3. ASSUME NEW n \in 1 .. Len(p) - 1, Above(p, n) = d
        PROVE  Lower(p) \in Native' \/ \E m \in 1 .. Len(p) - 1 : Above(p, m) \in toWalk'
    <3>1. p \in Path /\ \A m \in 1 .. Len(p) - 1 : Above(p, m) \in installation.directories
      BY EntryPath DEF FileInv
    <3>2. Len(p) \in Nat /\ n \in 1 .. Len(p) /\ n + 1 \in 1 .. Len(p) /\ n + 1 \in 2 .. Len(p)
      BY <3>1, <2>3 DEF Path
    <3>. DEFINE below == Above(p, n + 1)
    <3>3. Len(d) = n /\ Len(below) = n + 1 /\ Above(below, n) = d
      BY <2>3, <3>1, <3>2, AboveFacts
    <3>4. below \notin installation.hidden
      BY <1>6, <3>2 DEF Shown, Visible
    <3>5. CASE n + 1 = Len(p)
      <4>1. below = p
        BY <3>1, <3>5, <3>2, AboveFacts
      <4>2. p \in Found(d)
        BY <3>3, <3>4, <4>1 DEF Found
      <4>. QED BY <1>1, <1>6, <4>2 DEF Shown
    <3>6. CASE n + 1 # Len(p)
      <4>1. n + 1 \in 1 .. Len(p) - 1
        BY <3>2, <3>6
      <4>2. below \in Found(d) \cap installation.directories
        BY <3>1, <3>3, <3>4, <4>1 DEF Found, Entries
      <4>. QED BY <1>2, <4>1, <4>2
    <3>. QED BY <3>5, <3>6
  <2>4. Lower(p) \in Native \/ \E n \in 1 .. Len(p) - 1 : Above(p, n) \in toWalk
    BY <1>3, <1>6 DEF FileInv
  <2>. QED BY <2>1, <2>2, <2>3, <2>4
<1>7. \A p : Shown(p)' = Shown(p) /\ Lower(p)' = Lower(p) /\ Reached(p)' = Reached(p)
  BY DEF Shown, Visible, Reached, Entries, Above, isFileAllowed, Lower
<1>8. filling' # "never" /\ filling' # "filled"
  BY <1>2, <1>3
<1>. QED BY <1>4, <1>5, <1>6, <1>7, <1>8 DEF FileInv, Entries, Above

\* The map may change where its native entries do not.
LEMMA NativeKept ==
    ASSUME FileInv, Native' = Native, UNCHANGED <<installation, toWalk>>,
           filling' = filling \/ (filling' = "filled" /\ filling # "never" /\ toWalk = {})
    PROVE  FileInv'
<1>1. \A p : Shown(p)' = Shown(p) /\ Lower(p)' = Lower(p) /\ Reached(p)' = Reached(p)
  BY DEF Shown, Visible, Reached, Entries, Above, isFileAllowed, Lower
<1>. QED BY <1>1 DEF FileInv, Entries, Above

LEMMA PopulateKeeps ==
    ASSUME FileInv, Populate, UNCHANGED installation
    PROVE  FileInv'
<1>1. CASE EndWalk
  BY <1>1, NativeKept DEF EndWalk, Native, Generated
<1>. QED BY <1>1, MapTopKeeps, WalkFolderKeeps DEF Populate

\* A generated file takes the place of a native one, which is kept, or of none.
LEMMA AddGeneratedKeeps ==
    ASSUME FileInv, NEW f, AddGeneratedFile(f), UNCHANGED installation
    PROVE  FileInv'
<1>1. Native' = Native
  <2>1. CASE f \in DOMAIN fileMap /\ ~Generated(f)
    BY <2>1 DEF AddGeneratedFile, Native, Generated
  <2>2. CASE ~(f \in DOMAIN fileMap /\ ~Generated(f))
    BY <2>2 DEF AddGeneratedFile, Native, Generated
  <2>. QED BY <2>1, <2>2
<1>. QED BY <1>1, NativeKept DEF AddGeneratedFile

LEMMA FilePartKept ==
    ASSUME FileInv, UNCHANGED <<fileVars, installation>>
    PROVE  FileInv'
BY NativeKept DEF fileVars, Native, Generated

LEMMA FileInvInit == GameInit /\ FileInit => FileInv
BY DEF GameInit, FileInit, FileInv, Native

\* A filled map has what can be seen, at any depth, and nothing else, and generated files take
\* nothing from it (populateFileMap, addGeneratedFile).
THEOREM VisibleFilesAreMapped == FileMapSpec => []MapsTheVisible
<1>1. FileInv /\ [FileMapNext]_<<gameVars, fileVars>> => FileInv'
  <2>. SUFFICES ASSUME FileInv, [FileMapNext]_<<gameVars, fileVars>>
                PROVE  FileInv'
    OBVIOUS
  <2>1. UNCHANGED installation
    BY DEF FileMapNext, gameVars
  <2>2. CASE Populate
    BY <2>1, <2>2, PopulateKeeps
  <2>3. CASE \E f \in installation.generated : AddGeneratedFile(f)
    BY <2>1, <2>3, AddGeneratedKeeps
  <2>4. CASE UNCHANGED <<gameVars, fileVars>>
    BY <2>1, <2>4, FilePartKept
  <2>. QED BY <2>2, <2>3, <2>4 DEF FileMapNext
<1>. QED BY <1>1, FileInvInit, FileInvExact, PTL DEF FileMapSpec

-----------------------------------------------------------------------------
(* GpuClassification *)

CountOf(t) == [op |-> "count", texture |-> t]
CopyOf(t) == [op |-> "copy", texture |-> t]
Queued(command) == {i \in DOMAIN commands : commands[i] = command}

Dispatching == {"metadata", "image", "create", "dispatch", "query"}
Reading == {"unbind", "copy", "map"}

GpuTypeOK ==
    /\ classifying \in {"idle"} \cup Dispatching \cup Reading
    /\ texture \in Texture \cup {NoTexture}
    /\ classifying = "idle" <=> texture = NoTexture
    /\ commands \in Seq([op : {"count", "copy"}, texture : Texture])
    /\ output \in [Texture -> [1 .. 4 -> Nat]]
    /\ staging \in [Texture -> [1 .. 4 -> Nat]]
    /\ DOMAIN verdict = Texture

\* nothing of a texture has been dispatched
Untouched(t) == output[t] = Zeros /\ \A i \in DOMAIN commands : commands[i].texture # t

\* its pixels will be counted once, or have been
Counted(t) ==
    \/ output[t] = Zeros /\ \E i \in DOMAIN commands : Queued(CountOf(t)) = {i}
    \/ output[t] = Dds[t].counts /\ Queued(CountOf(t)) = {}

\* the count will be copied once it is made, or has been
Copied(t) ==
    \/ \E i \in DOMAIN commands : /\ Queued(CopyOf(t)) = {i}
                                  /\ \A j \in Queued(CountOf(t)) : j < i
    \/ /\ staging[t] = Dds[t].counts
       /\ Queued(CopyOf(t)) = {} /\ Queued(CountOf(t)) = {}

GpuInv ==
    /\ GpuTypeOK
    /\ JudgedByItsPixels
    /\ texture \in Texture => verdict[texture] = <<"none">>
    /\ \A t \in Texture :
           verdict[t] = <<"none">> /\ (t = texture => classifying \in Dispatching) => Untouched(t)
    /\ classifying \in Reading \cup (Dispatching \ {"metadata"}) =>
           ~Dds[texture].opaque /\ Dds[texture].format
    /\ classifying = "query" => bound = texture
    /\ classifying \in Reading => Counted(texture)
    /\ classifying \in {"unbind", "copy"} => Queued(CopyOf(texture)) = {}
    /\ classifying = "map" => Copied(texture)

LEMMA CommandTyped ==
    ASSUME NEW S, NEW s \in Seq(S), NEW i \in DOMAIN s
    PROVE  s[i] \in S
OBVIOUS

LEMMA GpuInvInit == GpuInit => GpuInv
BY TextureAssumption DEF GpuInit, GpuInv, GpuTypeOK, JudgedByItsPixels, Untouched, Zeros,
                         Dispatching, Reading

\* An answer for the texture that is being classified.
LEMMA AnswerKeeps ==
    ASSUME GpuInv, classifying # "idle", NEW v, Answer(v), UNCHANGED deviceVars,
           v \notin {<<"none">>, <<"unprocessed">>} =>
               v = IF Dds[texture].opaque \/ ~Dds[texture].format THEN <<"ENVIRONMENTMASK">>
                   ELSE Decide(texture, Dds[texture].counts),
           v # <<"none">>
    PROVE  GpuInv'
<1>1. /\ texture \in Texture /\ NoTexture \notin Texture
      /\ texture' = NoTexture /\ classifying' = "idle"
      /\ DOMAIN verdict = Texture
  BY TextureAssumption DEF GpuInv, GpuTypeOK, Answer
<1>2. /\ DOMAIN verdict' = Texture
      /\ verdict'[texture] = v
      /\ \A t \in Texture : t # texture => verdict'[t] = verdict[t]
  BY <1>1 DEF Answer
<1>3. UNCHANGED <<commands, output, staging>>
  BY DEF deviceVars
<1>4. GpuTypeOK'
  BY <1>1, <1>2, <1>3 DEF GpuInv, GpuTypeOK
<1>5. JudgedByItsPixels'
  BY <1>2 DEF GpuInv, JudgedByItsPixels, Decide
<1>6. \A t \in Texture : verdict'[t] = <<"none">> => Untouched(t)'
  BY <1>2, <1>3 DEF GpuInv, Untouched
<1>. QED BY <1>1, <1>4, <1>5, <1>6 DEF GpuInv, Dispatching, Reading

\* A step of checkIfCM up to the dispatch, which leaves the device alone.
LEMMA StepKeeps ==
    ASSUME GpuInv, classifying \in Dispatching, classifying' \in Dispatching \ {"metadata"},
           UNCHANGED <<texture, verdict, commands, output, staging>>,
           ~Dds[texture].opaque /\ Dds[texture].format,
           classifying' = "query" => bound' = texture
    PROVE  GpuInv'
<1>1. GpuTypeOK'
  BY DEF GpuInv, GpuTypeOK, Dispatching
<1>2. \A t : Untouched(t)' <=> Untouched(t)
  BY DEF Untouched
<1>3. JudgedByItsPixels'
  BY DEF GpuInv, JudgedByItsPixels, Decide
<1>. QED BY <1>1, <1>2, <1>3 DEF GpuInv, Dispatching, Reading

LEMMA Current ==
    ASSUME GpuInv, classifying # "idle"
    PROVE  /\ texture \in Texture /\ verdict[texture] = <<"none">>
           /\ classifying \in Dispatching => Untouched(texture)
BY DEF GpuInv, GpuTypeOK

\* What is queued at the end of the commands.
LEMMA QueuedAppend ==
    ASSUME commands \in Seq([op : {"count", "copy"}, texture : Texture]),
           NEW op \in {"count", "copy"}, NEW t \in Texture,
           commands' = Append(commands, [op |-> op, texture |-> t])
    PROVE  /\ commands' \in Seq([op : {"count", "copy"}, texture : Texture])
           /\ DOMAIN commands' = DOMAIN commands \cup {Len(commands) + 1}
           /\ \A i \in DOMAIN commands : i < Len(commands) + 1 /\ commands'[i] = commands[i]
           /\ commands'[Len(commands) + 1] = [op |-> op, texture |-> t]
<1>. DEFINE S == [op : {"count", "copy"}, texture : Texture]
            new == [op |-> op, texture |-> t]
<1>1. new \in S
  OBVIOUS
<1>. HIDE DEF S, new
<1>2. ASSUME NEW s \in Seq(S)
      PROVE  /\ Append(s, new) \in Seq(S)
             /\ DOMAIN Append(s, new) = DOMAIN s \cup {Len(s) + 1}
             /\ \A i \in DOMAIN s : i < Len(s) + 1 /\ Append(s, new)[i] = s[i]
             /\ Append(s, new)[Len(s) + 1] = new
  BY <1>1
<1>3. commands \in Seq(S) /\ commands' = Append(commands, new)
  BY DEF S, new
<1>4. /\ commands' \in Seq(S)
      /\ DOMAIN commands' = DOMAIN commands \cup {Len(commands) + 1}
      /\ \A i \in DOMAIN commands : i < Len(commands) + 1 /\ commands'[i] = commands[i]
      /\ commands'[Len(commands) + 1] = new
  BY <1>2, <1>3
<1>. QED BY <1>4 DEF S, new

LEMMA DispatchKeeps ==
    ASSUME GpuInv, Dispatch
    PROVE  GpuInv'
<1>1. /\ classifying = "query" /\ classifying' = "unbind" /\ bound = texture
      /\ UNCHANGED <<texture, verdict, output, staging>>
      /\ commands' = Append(commands, [op |-> "count", texture |-> texture])
      /\ texture \in Texture
      /\ commands \in Seq([op : {"count", "copy"}, texture : Texture])
      /\ Untouched(texture)
      /\ ~Dds[texture].opaque /\ Dds[texture].format
  BY Current DEF Dispatch, Continue, GpuInv, GpuTypeOK, Dispatching
<1>. DEFINE n == Len(commands) + 1
<1>2. /\ commands' \in Seq([op : {"count", "copy"}, texture : Texture])
      /\ DOMAIN commands' = DOMAIN commands \cup {n}
      /\ \A i \in DOMAIN commands : commands'[i] = commands[i]
      /\ commands'[n] = CountOf(texture)
  BY <1>1, QueuedAppend DEF CountOf
<1>. HIDE DEF n
<1>3. GpuTypeOK'
  BY <1>1, <1>2 DEF GpuInv, GpuTypeOK, Dispatching, Reading
<1>4. JudgedByItsPixels'
  BY <1>1 DEF GpuInv, JudgedByItsPixels, Decide
<1>5. Counted(texture)' /\ Queued(CopyOf(texture))' = {}
  <2>1. \A i \in DOMAIN commands : commands'[i] # CountOf(texture) /\ commands'[i] # CopyOf(texture)
    BY <1>1, <1>2 DEF Untouched, CountOf, CopyOf
  <2>2. CountOf(texture) # CopyOf(texture)
    <3>1. CountOf(texture).op # CopyOf(texture).op
      BY DEF CountOf, CopyOf
    <3>. QED BY <3>1
  <2>3. Queued(CountOf(texture))' = {n} /\ Queued(CopyOf(texture))' = {}
    BY <1>1, <1>2, <2>1, <2>2 DEF Queued, CountOf, CopyOf
  <2>. QED BY <1>1, <1>2, <2>3 DEF Counted, Untouched, CountOf
<1>6. ASSUME NEW t \in Texture, verdict'[t] = <<"none">>, t # texture
      PROVE  Untouched(t)'
  <2>1. Untouched(t)
    BY <1>1, <1>6 DEF GpuInv
  <2>2. CountOf(texture).texture # t
    BY <1>6 DEF CountOf
  <2>. QED BY <1>1, <1>2, <2>1, <2>2 DEF Untouched
<1>. QED BY <1>1, <1>3, <1>4, <1>5, <1>6, Current DEF GpuInv, Dispatching, Reading

LEMMA CopyKeeps ==
    ASSUME GpuInv, CopyResource
    PROVE  GpuInv'
<1>1. /\ classifying = "copy" /\ classifying' = "map"
      /\ UNCHANGED <<texture, verdict, output, staging>>
      /\ commands' = Append(commands, [op |-> "copy", texture |-> texture])
      /\ texture \in Texture
      /\ commands \in Seq([op : {"count", "copy"}, texture : Texture])
      /\ Counted(texture) /\ Queued(CopyOf(texture)) = {}
      /\ ~Dds[texture].opaque /\ Dds[texture].format
  BY Current DEF CopyResource, Continue, GpuInv, GpuTypeOK, Reading
<1>. DEFINE n == Len(commands) + 1
<1>2. /\ commands' \in Seq([op : {"count", "copy"}, texture : Texture])
      /\ DOMAIN commands' = DOMAIN commands \cup {n}
      /\ \A i \in DOMAIN commands : i < n /\ commands'[i] = commands[i]
      /\ commands'[n] = CopyOf(texture)
  BY <1>1, QueuedAppend DEF CopyOf
<1>. HIDE DEF n
<1>3. GpuTypeOK'
  BY <1>1, <1>2 DEF GpuInv, GpuTypeOK, Dispatching, Reading
<1>4. JudgedByItsPixels'
  BY <1>1 DEF GpuInv, JudgedByItsPixels, Decide
<1>5. Queued(CountOf(texture))' = Queued(CountOf(texture)) /\ Queued(CopyOf(texture))' = {n}
  <2>1. CountOf(texture) # CopyOf(texture)
    <3>1. CountOf(texture).op # CopyOf(texture).op
      BY DEF CountOf, CopyOf
    <3>. QED BY <3>1
  <2>. QED BY <1>1, <1>2, <2>1 DEF Queued, CountOf, CopyOf
<1>6. Counted(texture)' /\ Copied(texture)'
  <2>1. Counted(texture)'
    BY <1>1, <1>2, <1>5 DEF Counted
  <2>2. \A j \in Queued(CountOf(texture)) : j < n
    BY <1>2 DEF Queued
  <2>. QED BY <1>1, <1>2, <1>5, <2>1, <2>2 DEF Copied
<1>7. ASSUME NEW t \in Texture, verdict'[t] = <<"none">>, t # texture
      PROVE  Untouched(t)'
  <2>1. Untouched(t)
    BY <1>1, <1>7 DEF GpuInv
  <2>2. CopyOf(texture).texture # t
    BY <1>7 DEF CopyOf
  <2>. QED BY <1>1, <1>2, <2>1, <2>2 DEF Untouched
<1>. QED BY <1>1, <1>3, <1>4, <1>6, <1>7, Current DEF GpuInv, Dispatching, Reading

\* What is queued after the head of the commands.
LEMMA QueuedTail ==
    ASSUME commands \in Seq([op : {"count", "copy"}, texture : Texture]), commands # <<>>,
           commands' = Tail(commands)
    PROVE  /\ commands' \in Seq([op : {"count", "copy"}, texture : Texture])
           /\ 1 \in DOMAIN commands /\ Head(commands) = commands[1]
           /\ \A i : i \in DOMAIN commands' <=> i \in Nat /\ i > 0 /\ i + 1 \in DOMAIN commands
           /\ \A i \in DOMAIN commands' : commands'[i] = commands[i + 1]
           /\ \A i \in DOMAIN commands : i \in Nat \ {0} /\ (i # 1 => i - 1 \in DOMAIN commands')
<1>. DEFINE S == [op : {"count", "copy"}, texture : Texture]
<1>. HIDE DEF S
<1>1. ASSUME NEW s \in Seq(S), s # <<>>, NEW u, u = Tail(s)
      PROVE  /\ u \in Seq(S)
             /\ 1 \in DOMAIN s /\ Head(s) = s[1]
             /\ \A i : i \in DOMAIN u <=> i \in Nat /\ i > 0 /\ i + 1 \in DOMAIN s
             /\ \A i \in DOMAIN u : u[i] = s[i + 1]
             /\ \A i \in DOMAIN s : i \in Nat \ {0} /\ (i # 1 => i - 1 \in DOMAIN u)
  <2>1. DOMAIN u = 1 .. Len(s) - 1 /\ DOMAIN s = 1 .. Len(s) /\ Len(s) \in Nat \ {0}
    BY <1>1
  <2>2. u \in Seq(S) /\ Head(s) = s[1] /\ \A i \in 1 .. Len(s) - 1 : u[i] = s[i + 1]
    BY <1>1
  <2>. QED BY <2>1, <2>2
<1>. QED BY <1>1 DEF S

\* The GPU executes a command of a texture: its own count and copy come out right, and no other
\* texture's buffers change.
LEMMA ExecuteKeeps ==
    ASSUME GpuInv, Execute
    PROVE  GpuInv'
<1>. DEFINE c == commands[1]
            u == commands[1].texture
<1>1. /\ UNCHANGED <<classifying, texture, bound, verdict>>
      /\ commands # <<>> /\ commands' = Tail(commands)
      /\ commands \in Seq([op : {"count", "copy"}, texture : Texture])
      /\ output \in [Texture -> [1 .. 4 -> Nat]] /\ staging \in [Texture -> [1 .. 4 -> Nat]]
  BY DEF Execute, GpuInv, GpuTypeOK
<1>2. /\ commands' \in Seq([op : {"count", "copy"}, texture : Texture])
      /\ 1 \in DOMAIN commands /\ Head(commands) = c
      /\ \A i : i \in DOMAIN commands' <=> i \in Nat /\ i > 0 /\ i + 1 \in DOMAIN commands
      /\ \A i \in DOMAIN commands' : commands'[i] = commands[i + 1]
      /\ \A i \in DOMAIN commands : i \in Nat \ {0} /\ (i # 1 => i - 1 \in DOMAIN commands')
  BY <1>1, QueuedTail
<1>3. c \in [op : {"count", "copy"}, texture : Texture]
  BY <1>1, <1>2, CommandTyped, Zenon DEF c
<1>4. u \in Texture /\ (c = CountOf(u) \/ c = CopyOf(u))
  BY <1>3 DEF CountOf, CopyOf
<1>5. Dds[u].counts \in [1 .. 4 -> Nat]
  BY <1>4, TextureAssumption
<1>6. \/ /\ c = CountOf(u) /\ staging' = staging
         /\ output' = [output EXCEPT ![u] = [k \in 1 .. 4 |-> @[k] + Dds[u].counts[k]]]
      \/ /\ c = CopyOf(u) /\ output' = output
         /\ staging' = [staging EXCEPT ![u] = output[u]]
  BY <1>2, <1>4 DEF Execute, CountOf, CopyOf
<1>. HIDE DEF c, u
<1>7. /\ output' \in [Texture -> [1 .. 4 -> Nat]] /\ staging' \in [Texture -> [1 .. 4 -> Nat]]
      /\ \A t \in Texture : t # u => output'[t] = output[t] /\ staging'[t] = staging[t]
  <2>1. CASE c = CountOf(u) /\ staging' = staging
             /\ output' = [output EXCEPT ![u] = [k \in 1 .. 4 |-> @[k] + Dds[u].counts[k]]]
    <3>1. [k \in 1 .. 4 |-> output[u][k] + Dds[u].counts[k]] \in [1 .. 4 -> Nat]
      <4>1. \A k \in 1 .. 4 : output[u][k] \in Nat /\ Dds[u].counts[k] \in Nat
        BY <1>1, <1>4, <1>5
      <4>2. \A k \in 1 .. 4 : output[u][k] + Dds[u].counts[k] \in Nat
        BY <4>1
      <4>. QED BY <4>2
    <3>. QED BY <1>1, <1>4, <2>1, <3>1
  <2>2. CASE c = CopyOf(u) /\ output' = output /\ staging' = [staging EXCEPT ![u] = output[u]]
    BY <1>1, <1>4, <2>2
  <2>. QED BY <1>6, <2>1, <2>2
<1>8. GpuTypeOK'
  BY <1>1, <1>2, <1>7 DEF GpuInv, GpuTypeOK
<1>9. JudgedByItsPixels'
  BY <1>1 DEF GpuInv, JudgedByItsPixels, Decide
<1>10. ASSUME NEW t \in Texture, Untouched(t)
       PROVE  Untouched(t)'
  <2>1. t # u
    BY <1>2, <1>10 DEF Untouched, u
  <2>. QED BY <1>2, <1>7, <1>10, <2>1 DEF Untouched
<1>11. \A command, i : i \in Queued(command)' <=> i \in Nat /\ i > 0 /\ i + 1 \in Queued(command)
  BY <1>2 DEF Queued
<1>12. \A command : Queued(command) \subseteq Nat \ {0} /\ (1 \in Queued(command) <=> c = command)
  BY <1>2 DEF Queued, c
<1>13. \A command : Queued(command) = {} => Queued(command)' = {}
  BY <1>11
<1>14. \A command, i : Queued(command) = {i} =>
           \/ i = 1 /\ c = command /\ Queued(command)' = {}
           \/ i # 1 /\ c # command /\ Queued(command)' = {i - 1} /\ i - 1 \in DOMAIN commands'
  <2>. SUFFICES ASSUME NEW command, NEW i, Queued(command) = {i}
                PROVE  \/ i = 1 /\ c = command /\ Queued(command)' = {}
                       \/ /\ i # 1 /\ c # command /\ Queued(command)' = {i - 1}
                          /\ i - 1 \in DOMAIN commands'
    OBVIOUS
  <2>1. i \in Nat \ {0} /\ i \in DOMAIN commands
    BY <1>12 DEF Queued
  <2>2. CASE i = 1
    <3>1. \A j : j \notin Queued(command)'
      BY <1>11, <2>2
    <3>. QED BY <1>12, <2>2, <3>1
  <2>3. CASE i # 1
    <3>1. \A j : j \in Queued(command)' <=> j = i - 1
      BY <1>11, <2>1, <2>3
    <3>2. Queued(command)' = {i - 1} /\ c # command
      BY <1>12, <2>3, <3>1
    <3>. QED BY <1>2, <2>1, <2>3, <3>2
  <2>. QED BY <2>2, <2>3
<1>15. \A t : CountOf(t) # CopyOf(t)
  <2>1. \A t : CountOf(t).op # CopyOf(t).op
    BY DEF CountOf, CopyOf
  <2>. QED BY <2>1
<1>16. \A t \in Texture : (c = CountOf(t) \/ c = CopyOf(t)) => t = u
  <2>1. \A t : CountOf(t).texture = t /\ CopyOf(t).texture = t
    BY DEF CountOf, CopyOf
  <2>. QED BY <2>1 DEF c, u
<1>17. ASSUME NEW t \in Texture, Counted(t)
       PROVE  Counted(t)'
  <2>1. CASE output[t] = Zeros /\ c = CountOf(t)
    <3>1. t = u /\ c # CopyOf(u)
      BY <1>15, <1>16, <2>1
    <3>2. output'[t] = [k \in 1 .. 4 |-> Zeros[k] + Dds[t].counts[k]]
      BY <1>1, <1>4, <1>6, <2>1, <3>1
    <3>3. [k \in 1 .. 4 |-> Zeros[k] + Dds[t].counts[k]] = Dds[t].counts
      BY <1>5, <3>1 DEF Zeros
    <3>4. Queued(CountOf(t))' = {}
      <4>1. PICK i \in DOMAIN commands : Queued(CountOf(t)) = {i}
        BY <1>12, <1>17, <2>1 DEF Counted
      <4>. QED BY <1>14, <2>1, <4>1
    <3>. QED BY <3>2, <3>3, <3>4 DEF Counted
  <2>2. CASE c # CountOf(t)
    <3>1. output'[t] = output[t]
      BY <1>4, <1>6, <1>7, <1>16, <2>2
    <3>2. CASE Queued(CountOf(t)) = {}
      <4>1. output[t] = Dds[t].counts
        BY <1>17, <3>2 DEF Counted
      <4>. QED BY <1>13, <3>1, <3>2, <4>1 DEF Counted
    <3>3. CASE Queued(CountOf(t)) # {}
      <4>1. PICK i \in DOMAIN commands : output[t] = Zeros /\ Queued(CountOf(t)) = {i}
        BY <1>17, <3>3 DEF Counted
      <4>. QED BY <1>14, <2>2, <3>1, <4>1 DEF Counted
    <3>. QED BY <3>2, <3>3
  <2>3. CASE c = CountOf(t) /\ output[t] # Zeros
    BY <1>12, <1>17, <2>3 DEF Counted
  <2>. QED BY <2>1, <2>2, <2>3
<1>18. ASSUME NEW t \in Texture, Counted(t), Copied(t)
       PROVE  Copied(t)'
  <2>1. CASE Queued(CopyOf(t)) = {}
    <3>1. staging[t] = Dds[t].counts /\ Queued(CountOf(t)) = {}
      BY <1>18, <2>1 DEF Copied
    <3>2. c # CopyOf(t)
      BY <1>12, <2>1
    <3>3. staging'[t] = staging[t]
      BY <1>4, <1>6, <1>7, <3>2
    <3>. QED BY <1>13, <2>1, <3>1, <3>3 DEF Copied
  <2>2. ASSUME NEW i \in DOMAIN commands, Queued(CopyOf(t)) = {i},
               \A j \in Queued(CountOf(t)) : j < i
        PROVE  Copied(t)'
    <3>1. CASE i = 1
      <4>1. c = CopyOf(t) /\ Queued(CopyOf(t))' = {}
        BY <1>14, <2>2, <3>1
      <4>2. Queued(CountOf(t)) = {}
        BY <1>12, <2>2, <3>1
      <4>3. output[t] = Dds[t].counts /\ t = u /\ c # CountOf(u)
        BY <1>15, <1>16, <1>18, <4>1, <4>2 DEF Counted
      <4>4. staging'[t] = Dds[t].counts
        BY <1>1, <1>4, <1>6, <4>3
      <4>. QED BY <1>13, <4>1, <4>2, <4>4 DEF Copied
    <3>2. CASE i # 1
      <4>1. Queued(CopyOf(t))' = {i - 1} /\ i - 1 \in DOMAIN commands' /\ i \in Nat
        BY <1>2, <1>14, <2>2, <3>2
      <4>2. \A j \in Queued(CountOf(t))' : j < i - 1
        <5>1. \A j \in Queued(CountOf(t))' : j \in Nat /\ j + 1 < i
          BY <1>11, <2>2
        <5>. QED BY <4>1, <5>1
      <4>. QED BY <4>1, <4>2 DEF Copied
    <3>. QED BY <3>1, <3>2
  <2>. QED BY <1>18, <2>1, <2>2 DEF Copied
<1>. QED BY <1>1, <1>8, <1>9, <1>10, <1>13, <1>17, <1>18, Current DEF GpuInv, Reading, Dispatching

\* A texture is begun: nothing of it has been dispatched before.
LEMMA CheckKeeps ==
    ASSUME GpuInv, NEW t \in Texture, CheckIfCM(t)
    PROVE  GpuInv'
<1>1. /\ classifying = "idle" /\ classifying' = "metadata" /\ texture' = t /\ verdict[t] = <<"none">>
      /\ UNCHANGED <<verdict, commands, output, staging>>
      /\ texture = NoTexture /\ NoTexture \notin Texture
  BY TextureAssumption DEF CheckIfCM, deviceVars, GpuInv, GpuTypeOK
<1>2. GpuTypeOK'
  BY <1>1 DEF GpuInv, GpuTypeOK, Dispatching
<1>3. \A u \in Texture : verdict[u] = <<"none">> => Untouched(u)'
  BY <1>1 DEF GpuInv, Untouched
<1>4. JudgedByItsPixels'
  BY <1>1 DEF GpuInv, JudgedByItsPixels, Decide
<1>. QED BY <1>1, <1>2, <1>3, <1>4 DEF GpuInv, Dispatching, Reading

LEMMA MapKeeps ==
    ASSUME GpuInv, Map
    PROVE  GpuInv'
<1>1. /\ classifying = "map" /\ commands = <<>> /\ UNCHANGED deviceVars
      /\ Answer(Decide(texture, staging[texture]))
      /\ ~Dds[texture].opaque /\ Dds[texture].format
      /\ Copied(texture)
  BY DEF Map, GpuInv, Reading
<1>2. staging[texture] = Dds[texture].counts
  BY <1>1 DEF Copied
<1>3. Decide(texture, Dds[texture].counts) # <<"none">>
  <2>1. \A x : <<"COMPLEXMATERIAL", x>> # <<"none">>
    <3>1. \A x : Len(<<"COMPLEXMATERIAL", x>>) = 2 /\ Len(<<"none">>) = 1
      OBVIOUS
    <3>. QED BY <3>1
  <2>. QED BY <2>1 DEF Decide
<1>4. classifying # "idle"
  BY <1>1
<1>. QED BY <1>1, <1>2, <1>3, <1>4, AnswerKeeps

LEMMA MetadataKeeps ==
    ASSUME GpuInv, GetMetadata
    PROVE  GpuInv'
<1>1. classifying = "metadata" /\ UNCHANGED deviceVars
  BY DEF GetMetadata
<1>2. CASE Dds[texture].opaque \/ ~Dds[texture].format
  BY <1>1, <1>2, AnswerKeeps DEF GetMetadata
<1>3. CASE ~(Dds[texture].opaque \/ ~Dds[texture].format)
  BY <1>1, <1>3, StepKeeps DEF GetMetadata, Continue, deviceVars, Dispatching
<1>. QED BY <1>2, <1>3

\* Every other step of the thread that classifies.
LEMMA GpuInvNext ==
    ASSUME GpuInv, [GpuNext]_gpuVars
    PROVE  GpuInv'
<1>1. CASE UNCHANGED gpuVars
  <2>1. UNCHANGED <<classifying, texture, commands, bound, output, staging, verdict>>
    BY <1>1 DEF gpuVars
  <2>2. GpuTypeOK' /\ JudgedByItsPixels'
    BY <2>1 DEF GpuInv, GpuTypeOK, JudgedByItsPixels, Decide
  <2>. QED BY <2>1, <2>2 DEF GpuInv, Untouched, Counted, Copied, Queued, CountOf, CopyOf
<1>2. CASE InitGPU \/ InitShaders
  <2>1. UNCHANGED <<classifying, texture, commands, bound, output, staging, verdict>>
    BY <1>2 DEF InitGPU, InitShaders, deviceVars
  <2>2. GpuTypeOK' /\ JudgedByItsPixels'
    BY <2>1 DEF GpuInv, GpuTypeOK, JudgedByItsPixels, Decide
  <2>. QED BY <2>1, <2>2 DEF GpuInv, Untouched, Counted, Copied, Queued, CountOf, CopyOf
<1>3. CASE GetDDS
  BY <1>3, StepKeeps DEF GetDDS, Continue, deviceVars, Dispatching, GpuInv
<1>4. CASE CreateResources
  <2>1. /\ classifying = "create" /\ classifying' = "dispatch"
        /\ UNCHANGED <<texture, verdict, commands, staging>>
        /\ output' = [output EXCEPT ![texture] = Zeros]
        /\ output \in [Texture -> [1 .. 4 -> Nat]]
    BY <1>4 DEF CreateResources, Continue, GpuInv, GpuTypeOK
  <2>2. texture \in Texture /\ output[texture] = Zeros
    BY <2>1, Current DEF Untouched, Dispatching
  <2>3. output' = output
    BY <2>1, <2>2
  <2>. QED BY <2>1, <2>3, StepKeeps DEF Dispatching, GpuInv
<1>5. CASE Bind
  BY <1>5, StepKeeps DEF Bind, Continue, Dispatching, GpuInv
<1>6. CASE Unbind
  <2>1. /\ classifying = "unbind" /\ classifying' = "copy"
        /\ UNCHANGED <<texture, verdict, commands, output, staging>>
    BY <1>6 DEF Unbind, Continue
  <2>2. GpuTypeOK' /\ JudgedByItsPixels'
    BY <2>1 DEF GpuInv, GpuTypeOK, JudgedByItsPixels, Decide, Reading
  <2>. QED BY <2>1, <2>2 DEF GpuInv, Untouched, Counted, Queued, CountOf, CopyOf, Reading, Dispatching
<1>7. CASE Fails
  <2>1. Answer(<<"unprocessed">>) /\ UNCHANGED deviceVars /\ classifying # "idle"
    BY <1>7 DEF Fails, Unprocessed
  <2>. QED BY <2>1, AnswerKeeps
<1>. QED BY <1>1, <1>2, <1>3, <1>4, <1>5, <1>6, <1>7, CheckKeeps, MetadataKeeps, DispatchKeeps,
            CopyKeeps, MapKeeps, ExecuteKeeps DEF GpuNext, CheckStep

\* A texture that is answered for is judged by its own pixels, counted once, whatever failed
\* before it and whenever the GPU executes what is queued (checkIfCM, countPixelValues).
THEOREM TexturesAreJudgedByTheirPixels == GpuSpec => []JudgedByItsPixels
<1>1. GpuInv /\ [\/ GpuNext /\ UNCHANGED <<gameVars, fileVars>>
                 \/ FileMapNext /\ UNCHANGED gpuVars]_<<gameVars, fileVars, gpuVars>> => GpuInv'
  BY GpuInvNext
<1>2. GpuInv => JudgedByItsPixels
  BY DEF GpuInv
<1>. QED BY <1>1, <1>2, GpuInvInit, PTL DEF GpuSpec

-----------------------------------------------------------------------------
(* The progress window *)

\* what is queued is log lines, but for its last n calls
LogsBut(n) == n <= Len(calls) /\ \A i \in 1 .. Len(calls) - n : calls[i] = "log"
NthLast(i) == calls[Len(calls) - i]

Quiet == ~closeEnabled /\ window = "open"

WindowInv ==
    /\ calls \in Seq({"log", "error", "done", "failed"})
    /\ \/ worker \in {"running", "returned"} /\ Quiet /\ shown = {} /\ LogsBut(0)
       \/ worker = "threw" /\ Quiet /\ \/ shown = {} /\ LogsBut(1) /\ NthLast(0) = "error"
                                       \/ shown = {"error"} /\ calls = <<>>
       \/ worker = "ended" /\ Quiet /\ \/ shown = {} /\ LogsBut(1) /\ NthLast(0) = "done"
                                       \/ /\ shown = {} /\ LogsBut(2)
                                          /\ NthLast(1) = "error" /\ NthLast(0) = "failed"
                                       \/ shown = {"error"} /\ calls = <<"failed">>
       \/ worker = "ended" /\ calls = <<>> /\ shown \in {{"done"}, {"error", "failed"}}

LEMMA WindowInvInit == WindowInit => WindowInv
BY DEF WindowInit, WindowInv, Quiet, LogsBut

LEMMA WindowInvCloses ==
    ASSUME WindowInv
    PROVE  ClosedAfterTheRun
BY DEF WindowInv, ClosedAfterTheRun, Quiet

\* One call is shown.
LEMMA ShowCallKeeps ==
    ASSUME WindowInv, ShowCall
    PROVE  WindowInv'
<1>. DEFINE S == {"log", "error", "done", "failed"}
<1>1. /\ calls \in Seq(S) /\ calls # <<>> /\ calls' = Tail(calls) /\ worker' = worker
      /\ shown' = IF calls[1] = "log" THEN shown ELSE shown \cup {calls[1]}
      /\ closeEnabled' = (closeEnabled \/ calls[1] \in {"done", "failed"})
      /\ window' = IF calls[1] = "done" THEN "message" ELSE window
  BY DEF ShowCall, WindowInv
<1>2. /\ calls' \in Seq(S) /\ Len(calls) \in Nat \ {0} /\ Len(calls') = Len(calls) - 1
      /\ \A i \in 1 .. Len(calls) - 1 : calls'[i] = calls[i + 1]
  BY <1>1
<1>. HIDE DEF S
<1>3. ASSUME NEW n \in {0, 1, 2}, LogsBut(n), n < Len(calls)
      PROVE  /\ calls[1] = "log" /\ LogsBut(n)'
             /\ \A i \in 0 .. n - 1 : NthLast(i)' = NthLast(i)
  <2>1. 1 \in 1 .. Len(calls) - n
    BY <1>2, <1>3
  <2>2. \A i \in 1 .. Len(calls') - n : calls'[i] = "log"
    BY <1>2, <1>3 DEF LogsBut
  <2>3. \A i \in 0 .. n - 1 : calls'[Len(calls') - i] = calls[Len(calls) - i]
    <3>. SUFFICES ASSUME NEW i \in 0 .. n - 1
                  PROVE  calls'[Len(calls') - i] = calls[Len(calls) - i]
      OBVIOUS
    <3>1. Len(calls') - i \in 1 .. Len(calls) - 1 /\ Len(calls') - i + 1 = Len(calls) - i
      BY <1>2, <1>3
    <3>. QED BY <1>2, <3>1
  <2>. QED BY <1>2, <1>3, <2>1, <2>2, <2>3 DEF LogsBut, NthLast
<1>4. ASSUME Quiet, NEW n \in {0, 1, 2}, LogsBut(n), n < Len(calls)
      PROVE  /\ Quiet' /\ shown' = shown /\ LogsBut(n)'
             /\ n > 0 => NthLast(0)' = NthLast(0)
             /\ n > 1 => NthLast(1)' = NthLast(1)
  <2>1. /\ calls[1] = "log" /\ LogsBut(n)'
        /\ \A i \in 0 .. n - 1 : NthLast(i)' = NthLast(i)
    BY <1>3, <1>4
  <2>2. Quiet' /\ shown' = shown
    BY <1>1, <1>4, <2>1 DEF Quiet
  <2>3. (n > 0 => 0 \in 0 .. n - 1) /\ (n > 1 => 1 \in 0 .. n - 1)
    OBVIOUS
  <2>. QED BY <2>1, <2>2, <2>3
<1>5. calls' \in Seq({"log", "error", "done", "failed"})
  BY <1>2 DEF S
<1>6. CASE worker \in {"running", "returned"} /\ Quiet /\ shown = {} /\ LogsBut(0)
  <2>1. Quiet' /\ shown' = {} /\ LogsBut(0)'
    BY <1>2, <1>6, <1>4
  <2>. QED BY <1>1, <1>6, <1>5, <2>1 DEF WindowInv
<1>7. CASE worker = "threw" /\ Quiet /\ shown = {} /\ LogsBut(1) /\ NthLast(0) = "error"
  <2>1. CASE Len(calls) > 1
    <3>1. Quiet' /\ shown' = {} /\ LogsBut(1)' /\ NthLast(0)' = NthLast(0)
      BY <1>7, <1>4, <2>1
    <3>. QED BY <1>1, <1>7, <1>5, <3>1 DEF WindowInv
  <2>2. CASE Len(calls) = 1
    <3>1. calls[1] = "error" /\ calls' = <<>>
      BY <1>1, <1>2, <1>7, <2>2 DEF NthLast, S
    <3>. QED BY <1>1, <1>2, <1>7, <3>1 DEF WindowInv, Quiet, S
  <2>. QED BY <1>2, <2>1, <2>2
<1>8. CASE worker = "ended" /\ Quiet /\ shown = {} /\ LogsBut(1) /\ NthLast(0) = "done"
  <2>1. CASE Len(calls) > 1
    <3>1. Quiet' /\ shown' = {} /\ LogsBut(1)' /\ NthLast(0)' = NthLast(0)
      BY <1>8, <1>4, <2>1
    <3>. QED BY <1>1, <1>8, <1>5, <3>1 DEF WindowInv
  <2>2. CASE Len(calls) = 1
    <3>1. calls[1] = "done" /\ calls' = <<>>
      BY <1>1, <1>2, <1>8, <2>2 DEF NthLast, S
    <3>. QED BY <1>1, <1>2, <1>8, <3>1 DEF WindowInv, S
  <2>. QED BY <1>2, <2>1, <2>2
<1>9. CASE /\ worker = "ended" /\ Quiet /\ shown = {} /\ LogsBut(2)
           /\ NthLast(1) = "error" /\ NthLast(0) = "failed"
  <2>1. CASE Len(calls) > 2
    <3>1. Quiet' /\ shown' = {} /\ LogsBut(2)' /\ NthLast(0)' = NthLast(0) /\ NthLast(1)' = NthLast(1)
      BY <1>9, <1>4, <2>1
    <3>. QED BY <1>1, <1>9, <1>5, <3>1 DEF WindowInv
  <2>2. CASE Len(calls) = 2
    <3>1. calls[1] = "error" /\ Len(calls') = 1 /\ calls'[1] = "failed"
      BY <1>2, <1>9, <2>2 DEF NthLast
    <3>2. calls' = <<"failed">>
      BY <1>2, <3>1 DEF S
    <3>. QED BY <1>1, <1>2, <1>9, <3>1, <3>2 DEF WindowInv, Quiet, S
  <2>. QED BY <1>2, <1>9, <2>1, <2>2 DEF LogsBut
<1>10. CASE worker = "ended" /\ Quiet /\ shown = {"error"} /\ calls = <<"failed">>
  BY <1>1, <1>2, <1>10 DEF WindowInv, S
<1>. QED BY <1>1, <1>6, <1>7, <1>8, <1>9, <1>10 DEF WindowInv

\* A call is queued.
LEMMA QueueKeeps ==
    ASSUME WindowInv, NEW c \in {"log", "error", "done", "failed"}, calls' = Append(calls, c)
    PROVE  /\ calls' \in Seq({"log", "error", "done", "failed"})
           /\ Len(calls) \in Nat /\ Len(calls') = Len(calls) + 1 /\ NthLast(0)' = c
           /\ LogsBut(0) => LogsBut(1)'
           /\ LogsBut(0) /\ c = "log" => LogsBut(0)'
           /\ LogsBut(1) => LogsBut(2)' /\ NthLast(1)' = NthLast(0)
<1>1. /\ calls \in Seq({"log", "error", "done", "failed"})
      /\ calls' \in Seq({"log", "error", "done", "failed"})
      /\ Len(calls) \in Nat /\ Len(calls') = Len(calls) + 1
      /\ \A i \in 1 .. Len(calls) : calls'[i] = calls[i]
      /\ calls'[Len(calls) + 1] = c
  BY DEF WindowInv
<1>. QED BY <1>1 DEF LogsBut, NthLast

LEMMA WindowInvNext ==
    ASSUME WindowInv, [WindowNext]_windowVars
    PROVE  WindowInv'
<1>0. calls \in Seq({"log", "error", "done", "failed"})
  BY DEF WindowInv
<1>1. CASE UNCHANGED windowVars
  BY <1>1 DEF windowVars, WindowInv, Quiet, LogsBut, NthLast
<1>2. CASE Log
  <2>1. /\ worker = "running" /\ calls' = Append(calls, "log")
        /\ UNCHANGED <<worker, window, closeEnabled, shown>>
    BY <1>2 DEF Log
  <2>2. Quiet /\ shown = {} /\ LogsBut(0)
    BY <2>1 DEF WindowInv
  <2>. QED BY <2>1, <2>2, QueueKeeps DEF WindowInv, Quiet
<1>3. CASE RunReturns
  BY <1>3 DEF RunReturns, WindowInv, Quiet, LogsBut, NthLast
<1>4. CASE RunThrows
  <2>1. /\ worker = "running" /\ worker' = "threw" /\ calls' = Append(calls, "error")
        /\ UNCHANGED <<window, closeEnabled, shown>>
    BY <1>4 DEF RunThrows
  <2>2. Quiet /\ shown = {} /\ LogsBut(0)
    BY <2>1 DEF WindowInv
  <2>. QED BY <2>1, <2>2, QueueKeeps DEF WindowInv, Quiet
<1>5. CASE QueueEnd /\ worker = "returned"
  <2>1. /\ worker' = "ended" /\ calls' = Append(calls, "done")
        /\ UNCHANGED <<window, closeEnabled, shown>>
    BY <1>5 DEF QueueEnd
  <2>2. Quiet /\ shown = {} /\ LogsBut(0)
    BY <1>5 DEF WindowInv
  <2>. QED BY <2>1, <2>2, QueueKeeps DEF WindowInv, Quiet
<1>6. CASE QueueEnd /\ worker = "threw"
  <2>1. /\ worker' = "ended" /\ calls' = Append(calls, "failed")
        /\ UNCHANGED <<window, closeEnabled, shown>>
    BY <1>6 DEF QueueEnd
  <2>2. Quiet /\ \/ shown = {} /\ LogsBut(1) /\ NthLast(0) = "error"
                 \/ shown = {"error"} /\ calls = <<>>
    BY <1>6 DEF WindowInv
  <2>3. CASE shown = {} /\ LogsBut(1) /\ NthLast(0) = "error"
    BY <2>1, <2>2, <2>3, QueueKeeps DEF WindowInv, Quiet
  <2>4. CASE shown = {"error"} /\ calls = <<>>
    <3>1. calls' = <<"failed">>
      BY <2>1, <2>4
    <3>. QED BY <2>1, <2>2, <2>4, <3>1, QueueKeeps DEF WindowInv, Quiet
  <2>. QED BY <2>2, <2>3, <2>4
<1>7. CASE DismissMessage \/ Close \/ Destroy
  <2>1. UNCHANGED <<worker, calls, closeEnabled, shown>> /\ ~Quiet
    BY <1>7 DEF DismissMessage, Close, Destroy, Quiet
  <2>. QED BY <2>1 DEF WindowInv
<1>. QED BY <1>1, <1>2, <1>3, <1>4, <1>5, <1>6, <1>7, ShowCallKeeps
         DEF WindowNext, WindowStep, QueueEnd

\* The window is closed only after everything the run had to say was shown, whenever the user
\* asks for it (ProgressWindow).
THEOREM WindowClosesAfterTheRun == WindowSpec => []ClosedAfterTheRun
BY WindowInvInit, WindowInvNext, WindowInvCloses, PTL DEF WindowSpec

-----------------------------------------------------------------------------
(* The run *)

WindowOfRun == (Gui => WindowInv) /\ (~Gui => window = "open")

LoadPart == GameInv /\ LoadInv /\ IndexInv

\* The load order and the index rely on nothing but their own steps and a run that fails.
LEMMA LoadPartKept ==
    ASSUME LoadPart,
           \/ [LoadNext]_loadVars
           \/ at' = "failed" /\ UNCHANGED <<installation, params, line, outputLO, initVars, indexVars>>
    PROVE  LoadPart'
<1>1. CASE [LoadNext]_loadVars
  BY <1>1, GameInvLoad, LoadInvNext, IndexInvNext DEF LoadPart
<1>2. CASE at' = "failed"
           /\ UNCHANGED <<installation, params, line, outputLO, initVars, indexVars>>
  <2>1. GameTypeOK'
    BY <1>2 DEF LoadPart, GameInv, GameTypeOK, Steps
  <2>2. GameInv'
    BY <1>2, <2>1 DEF LoadPart, GameInv, Present
  <2>3. LoadInv'
    BY <1>2 DEF LoadPart, LoadInv, Loading, BeforeLoading, initVars
  <2>4. IndexInv'
    BY <1>2 DEF IndexInv, Populating
  <2>. QED BY <2>2, <2>3, <2>4 DEF LoadPart
<1>. QED BY <1>1, <1>2

LEMMA WindowKept ==
    ASSUME WindowOfRun, UNCHANGED <<windowVars, params>>
    PROVE  WindowOfRun'
BY WindowInvNext DEF WindowOfRun, Gui, windowVars

RunInv == LoadPart /\ FileInv /\ GpuInv /\ WindowOfRun

\* Up to the records: the file map is left alone.
LEMMA EarlyStepKeeps ==
    ASSUME RunInv, FindGame \/ FindGPU \/ Refuse \/ Load \/ Enumerate,
           UNCHANGED <<windowVars, installation, params>>
    PROVE  RunInv'
<1>1. CASE FindGame \/ Load \/ Enumerate
  <2>1. LoadNext /\ UNCHANGED <<fileVars, gpuVars>>
    BY <1>1 DEF FindGame, Load, Enumerate, LoadNext, GameNext
  <2>. QED BY <2>1, LoadPartKept, FilePartKept, GpuInvNext, WindowKept DEF RunInv
<1>2. CASE Refuse
  BY <1>2, LoadPartKept, FilePartKept, GpuInvNext, WindowKept DEF RunInv, Refuse, Throw
<1>3. CASE FindGPU
  <2>1. UNCHANGED <<loadVars, fileVars>> /\ GpuNext
    BY <1>3 DEF FindGPU, GpuNext
  <2>. QED BY <2>1, LoadPartKept, FilePartKept, GpuInvNext, WindowKept DEF RunInv
<1>. QED BY <1>1, <1>2, <1>3

\* Files and textures, with the tasks and the queue that only decide how the run ends.
LEMMA MapStepKeeps ==
    ASSUME RunInv, MapStep, UNCHANGED <<windowVars, installation, params>>
    PROVE  RunInv'
<1>1. CASE MapFiles
  <2>1. UNCHANGED <<loadVars, gpuVars>> /\ Populate
    BY <1>1 DEF MapFiles
  <2>. QED BY <2>1, LoadPartKept, PopulateKeeps, GpuInvNext, WindowKept DEF RunInv
<1>2. CASE StartTasks \/ TasksReturn \/ TaskThrows \/ Shutdown
  <2>1. UNCHANGED <<loadVars, fileVars, gpuVars>>
    BY <1>2 DEF StartTasks, TasksReturn, TaskThrows, Shutdown
  <2>. QED BY <2>1, LoadPartKept, FilePartKept, GpuInvNext, WindowKept DEF RunInv
<1>3. CASE MappingThrows \/ ClassifyThrows
  <2>1. UNCHANGED <<fileVars, gpuVars>> /\ (UNCHANGED loadVars \/ Throw)
    BY <1>3 DEF MappingThrows, ClassifyThrows
  <2>. QED BY <2>1, LoadPartKept, FilePartKept, GpuInvNext, WindowKept DEF RunInv, Throw
<1>4. CASE ClassifyTextures
  <2>1. UNCHANGED <<loadVars, fileVars>> /\ GpuNext
    BY <1>4 DEF ClassifyTextures, GpuNext
  <2>. QED BY <2>1, LoadPartKept, FilePartKept, GpuInvNext, WindowKept DEF RunInv
<1>. QED BY <1>1, <1>2, <1>3, <1>4 DEF MapStep

\* A step of the thread of the run.
LEMMA RunStepKeeps ==
    ASSUME RunInv, RunStep
    PROVE  RunInv'
<1>1. UNCHANGED <<installation, params>>
  <2>1. CASE FindGame \/ Load \/ Enumerate
    BY <2>1 DEF FindGame, Load, Enumerate, Construct, ConstructThrows, GetActivePlugins,
                AddBasePlugins, ReadCccLine, EndCcc, CannotOpenPlugins, ReadPluginsLine, EndPlugins,
                Initialize, PopulateObjs, CallThrows, FindValidMods, LoadNextPlugin,
                BuildEnvironment, BeginPopulate, IndexRecord, RecordThrows, IndexGrass,
                EnumerateAllModelUses
  <2>2. CASE Refuse \/ FindGPU \/ MapStep
    BY <2>2 DEF Refuse, Throw, FindGPU, MapStep, MapFiles, MappingThrows, StartTasks, TasksReturn,
                TaskThrows, ClassifyTextures, ClassifyThrows, Shutdown, loadVars, gameVars
  <2>. QED BY <2>1, <2>2 DEF RunStep
<1>2. UNCHANGED windowVars
  BY DEF RunStep
<1>. QED BY <1>1, <1>2, EarlyStepKeeps, MapStepKeeps DEF RunStep

LEMMA RunInvNext ==
    ASSUME RunInv, [StartupNext]_startupVars
    PROVE  RunInv'
<1>1. CASE RunStep
  BY <1>1, RunStepKeeps
<1>2. CASE Generate
  <2>1. UNCHANGED <<installation, params, gpuVars, windowVars>>
    BY <1>2 DEF Generate, Throw, loadVars, gameVars
  <2>2. CASE UNCHANGED loadVars /\ \E f \in installation.generated : AddGeneratedFile(f)
    BY <2>1, <2>2, LoadPartKept, AddGeneratedKeeps, GpuInvNext, WindowKept DEF RunInv
  <2>3. CASE Throw /\ UNCHANGED fileVars
    BY <2>1, <2>3, LoadPartKept, FilePartKept, GpuInvNext, WindowKept DEF RunInv, Throw
  <2>. QED BY <1>2, <2>2, <2>3 DEF Generate
<1>3. CASE EndRun
  <2>1. UNCHANGED <<loadVars, fileVars, gpuVars, installation, params>>
    BY <1>3 DEF EndRun, loadVars, gameVars
  <2>2. WindowOfRun'
    <3>1. CASE Gui
      <4>1. WindowNext /\ Gui'
        BY <1>3, <2>1, <3>1 DEF EndRun, WindowNext, Gui
      <4>. QED BY <3>1, <4>1, WindowInvNext DEF RunInv, WindowOfRun
    <3>2. CASE ~Gui
      <4>1. window' = window /\ ~Gui'
        BY <1>3, <2>1, <3>2 DEF EndRun, Gui
      <4>. QED BY <3>2, <4>1 DEF RunInv, WindowOfRun
    <3>. QED BY <3>1, <3>2
  <2>. QED BY <2>1, <2>2, LoadPartKept, FilePartKept, GpuInvNext DEF RunInv
<1>4. CASE GpuStep
  <2>1. UNCHANGED <<loadVars, fileVars, windowVars, installation, params>> /\ GpuNext
    BY <1>4 DEF GpuStep, GpuNext, loadVars, gameVars
  <2>. QED BY <2>1, LoadPartKept, FilePartKept, GpuInvNext, WindowKept DEF RunInv
<1>5. CASE WorkerSays \/ WindowActs
  <2>1. UNCHANGED <<loadVars, fileVars, gpuVars, installation, params>> /\ WindowNext /\ Gui /\ Gui'
    BY <1>5 DEF WorkerSays, WindowActs, WindowNext, loadVars, gameVars, Gui
  <2>2. WindowOfRun'
    BY <2>1, WindowInvNext DEF RunInv, WindowOfRun
  <2>. QED BY <2>1, <2>2, LoadPartKept, FilePartKept, GpuInvNext DEF RunInv
<1>6. CASE UNCHANGED startupVars
  <2>1. UNCHANGED <<loadVars, fileVars, gpuVars, windowVars, installation, params>>
    BY <1>6 DEF startupVars, loadVars, gameVars
  <2>. QED BY <2>1, LoadPartKept, FilePartKept, GpuInvNext, WindowKept DEF RunInv
<1>. QED BY <1>1, <1>2, <1>3, <1>4, <1>5, <1>6 DEF StartupNext

LEMMA RunInvariance == StartupSpec => []RunInv
<1>1. StartupInit => RunInv
  BY LoadInvInit, IndexInvInit, FileInvInit, GpuInvInit, WindowInvInit
     DEF StartupInit, RunInv, LoadPart, WindowOfRun, LoadInit, WindowInit
<1>. QED BY <1>1, RunInvNext, PTL DEF StartupSpec

\* In a whole run, whatever fails in it and whatever the other threads do, the load order and the
\* index are right (BethesdaGame, ASMutagen Initialize and PopulateObjs).
THEOREM RunLoadsExactly ==
    StartupSpec => [](ActivePluginsExact /\ MastersLoaded /\ LoadsAllItCan /\ UsesResolve)
<1>1. RunInv => ActivePluginsExact /\ MastersLoaded /\ LoadsAllItCan /\ UsesResolve
  BY GameInvExact, LoadInvMasters, LoadInvLoadsAll, IndexInvResolves DEF RunInv, LoadPart
<1>. QED BY <1>1, RunInvariance, PTL

\* In a whole run, up to the files it generates, the map keeps what can be seen of Data and
\* nothing else (BethesdaDirectory, SeasonPatcher).
THEOREM RunMapsTheVisible == StartupSpec => []MapsTheVisible
<1>1. RunInv => MapsTheVisible
  BY FileInvExact DEF RunInv
<1>. QED BY <1>1, RunInvariance, PTL

\* In a whole run every texture that is answered for is judged by its own pixels (PGD3D).
THEOREM RunJudgesByPixels == StartupSpec => []JudgedByItsPixels
<1>1. RunInv => JudgedByItsPixels
  BY DEF RunInv, GpuInv
<1>. QED BY <1>1, RunInvariance, PTL

\* In a whole run, of the command line or the launcher, the window is not closed before the run
\* is over and reported (AutoSeasonsRunner, ProgressWindow).
THEOREM RunOutlivedByWindow == StartupSpec => []ClosedAfterTheRun
<1>1. RunInv => ClosedAfterTheRun
  <2>. SUFFICES ASSUME RunInv
                PROVE  ClosedAfterTheRun
    OBVIOUS
  <2>1. CASE Gui
    BY <2>1, WindowInvCloses DEF RunInv, WindowOfRun
  <2>2. CASE ~Gui
    BY <2>2 DEF RunInv, WindowOfRun, ClosedAfterTheRun
  <2>. QED BY <2>1, <2>2
<1>. QED BY <1>1, RunInvariance, PTL

=============================================================================
