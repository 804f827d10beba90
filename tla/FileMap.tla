------------------------------- MODULE FileMap -------------------------------
(***************************************************************************)
(* BethesdaDirectory: the map of the files of the Data view.  The program  *)
(* populates it once, from the loose files, and then adds the files it     *)
(* generates; nothing calls populateFileMap with archives, or clears.      *)
(* One directory is walked in a step: only the thread of the run uses the  *)
(* map in the meantime.                                                    *)
(***************************************************************************)
EXTENDS BethesdaGame, SequencesExt

CONSTANTS
    Name,           \* names of files and directories
    LowerName,      \* ... in lower case
    Mapped,         \* s_foldersToMap
    Blocked         \* names with an extension of getExtensionBlocklist

\* a path relative to Data, as it is spelled: its names from the top down
Path == Seq(Name) \ {<<>>}

Lower(p) == [i \in DOMAIN p |-> LowerName[p[i]]]

Above(p, n) == SubSeq(p, 1, n)      \* the directory n levels down

isFileAllowed(p) == LowerName[p[Len(p)]] \notin Blocked

Entries(inst) == inst.files \cup inst.directories

ASSUME FileAssumption ==
    /\ LowerName \in [Name -> Name]
    /\ \A inst \in Installation :
           /\ Entries(inst) \subseteq Path /\ inst.generated \subseteq Path
           /\ \A p \in Entries(inst) : \A n \in 1 .. Len(p) - 1 : Above(p, n) \in inst.directories

VARIABLES
    fileMap,        \* m_fileMap: the source of a path, "loose" or "generated"
    restoreMap,     \* m_generatedFileRestoreMap
    filling,        \* populateFileMap is under way, the map is filled, or it never was
    toWalk          \* the directories the iterators have still to enter

fileVars == <<fileMap, restoreMap, filling, toWalk>>

FileInit ==
    /\ fileMap = <<>> /\ restoreMap = <<>>
    /\ filling = "never" /\ toWalk = {}

-----------------------------------------------------------------------------
(* populateFileMap *)

\* what an iterator finds in a directory, at the top in <<>>: isHidden tests entries, not what
\* is above them
Found(d) ==
    {p \in Entries(installation) :
        Len(p) = Len(d) + 1 /\ Above(p, Len(d)) = d /\ p \notin installation.hidden}

\* updateFileMap, for several entries: the key is in lower case
UpdateFileMap(entries) ==
    LET keys == {Lower(p) : p \in {q \in entries : isFileAllowed(q)}}
    IN  fileMap' = [f \in DOMAIN fileMap \cup keys |-> IF f \in keys THEN "loose" ELSE fileMap[f]]

\* The map is cleared and the files at the top are added; a folder to map is opened by its name,
\* hidden or not.
MapTop ==
    /\ filling = "never"
    /\ UpdateFileMap(Found(<<>>) \ installation.directories)
    /\ toWalk' = {d \in installation.directories : Len(d) = 1 /\ LowerName[d[1]] \in Mapped}
    /\ filling' = "filling"
    /\ UNCHANGED restoreMap

\* A mutant: a hidden directory is not mapped, but entered.
WalkFolderHidden(d) ==
    /\ UpdateFileMap(Found(d))
    /\ toWalk' = (toWalk \ {d}) \cup {q \in installation.directories :
                                         Len(q) = Len(d) + 1 /\ Above(q, Len(d)) = d}
    /\ UNCHANGED <<restoreMap, filling>>

\* Directories are mapped like files; hidden ones are not entered.
WalkFolder(d) ==
    /\ UpdateFileMap(Found(d))
    /\ toWalk' = (toWalk \ {d}) \cup (Found(d) \cap installation.directories)
    /\ UNCHANGED <<restoreMap, filling>>

EndWalk ==
    /\ filling = "filling" /\ toWalk = {}
    /\ filling' = "filled"
    /\ UNCHANGED <<fileMap, restoreMap, toWalk>>

Populate == MapTop \/ (\E d \in toWalk : WalkFolder(d)) \/ EndWalk

-----------------------------------------------------------------------------
(* Generated files and lookups *)

Generated(f) == f \in DOMAIN fileMap /\ fileMap[f] = "generated"

\* The path is taken as it is spelled: it meets the key of a native file only in lower case.
AddGeneratedFile(f) ==
    /\ restoreMap' = IF f \in DOMAIN fileMap /\ ~Generated(f)
                     THEN [g \in DOMAIN restoreMap \cup {f} |->
                              IF g = f THEN fileMap[f] ELSE restoreMap[g]]
                     ELSE restoreMap
    /\ fileMap' = [g \in DOMAIN fileMap \cup {f} |-> IF g = f THEN "generated" ELSE fileMap[g]]
    /\ UNCHANGED <<filling, toWalk>>

FileMapNext ==
    /\ Populate \/ (filling = "filled" /\ \E f \in installation.generated : AddGeneratedFile(f))
    /\ UNCHANGED gameVars

FileMapSpec == GameInit /\ FileInit /\ [][FileMapNext]_<<gameVars, fileVars>>

\* lookups take the path as it is spelled, too
IsFile(f) == f \in DOMAIN fileMap

-----------------------------------------------------------------------------

\* what the game shows: nothing under a hidden directory, the folders to map themselves and what
\* is at the top apart
Visible(p) ==
    /\ IF Len(p) = 1 THEN p \notin installation.directories \cup installation.hidden
       ELSE LowerName[p[1]] \in Mapped
    /\ \A n \in 2 .. Len(p) : Above(p, n) \notin installation.hidden

Native == {f \in DOMAIN fileMap : ~Generated(f)} \cup DOMAIN restoreMap

\* A filled map has every visible file at the top and every visible entry of the folders to map,
\* at any depth, and nothing that lies under a hidden directory, at any distance, though the walk
\* tests one level at a time; each is there under its path in lower case or, where a generated
\* file of that very spelling hides it, kept for restoring (addLooseFilesToMap, addGeneratedFile).
MapsTheVisible ==
    filling = "filled" =>
        Native = {Lower(p) : p \in {q \in Entries(installation) : Visible(q) /\ isFileAllowed(q)}}

=============================================================================
