---------------------------- MODULE ServerFiles ----------------------------
(***************************************************************************)
(* The files of the server (server.cpp: parseArgs, initCLIPS, handlePath,  *)
(* loadFile, loadDat, loadClp): which directory the process works in,      *)
(* which one its status reports name, and which files are in the engine.   *)
(*                                                                         *)
(* The server has one thread and a command is handled from beginning to    *)
(* end, so each is one step; what matters is the order of commands, and    *)
(* of the calls within one.  A path is the directory it is written with    *)
(* and a name.  The file tree does not change and has no links; no list is *)
(* in the root directory, which split_path writes as no directory.         *)
(***************************************************************************)
EXTENDS Naturals, Sequences

CONSTANTS
    Dirs,       \* the directories, by their canonical paths
    Home, Start,\* $HOME, and where the process is started
    SubDir,     \* of every directory: what the relative path Below leads to
    NoDir,      \* no directory at all
    Clps,       \* the rule files: (directory, name), a name in .clp
    Lists,      \* of every list file (directory, name in .dat): its lines
    Broken,     \* the rule files with a construct that CLIPS rejects
    Calling,    \* the rule files whose rules call sendto or broadcast
    Names,      \* the names that commands and lists use
    InitialFiles,\* bound: what -e may ask for
    MaxLoaded   \* bound: the files loaded since the last clear

\* How a directory is written: not at all, "~", by a relative path, by the
\* path of one that does not exist, or by its canonical path.
Here == "here" Tilde == "~" Below == "below" Gone == "gone"
Prefixes == {Here, Tilde, Below, Gone} \cup Dirs
Paths == [dir : Prefixes, name : Names]
Files == Dirs \X Names

ASSUME FilesAssumption ==
    /\ Home \in Dirs /\ Start \in Dirs
    /\ NoDir \notin Dirs
    /\ Dirs \cap {Here, Tilde, Below, Gone} = {}
    /\ SubDir \in [Dirs -> Dirs \cup {NoDir}]
    /\ Clps \subseteq Files /\ Broken \subseteq Clps /\ Calling \subseteq Clps
    /\ DOMAIN Lists \subseteq Files \ Clps
    /\ \A f \in DOMAIN Lists : Lists[f] \in Seq(Paths)
    /\ Names # {} /\ InitialFiles \subseteq Paths
    /\ MaxLoaded \in Nat

VARIABLES
    phase,      \* how far main is: "args", "clips", "functions", "serving"
    clipsFile,  \* the file to load at the start, with Gone when there is none
    cwd,        \* the working directory of the process
    clppath,    \* what status reports say it is
    udf,        \* sendto and broadcast are known to CLIPS
    loaded,     \* the rule files loaded since the last clear, each with
                \* whether all of it was accepted
    settled,    \* history: clppath was last set from a directory entered
    last        \* history: the last load: path, directory, files before it, answer

vars == <<phase, clipsFile, cwd, clppath, udf, loaded, settled, last>>

Items == [file : Files, whole : BOOLEAN]
NoFile == [dir |-> Gone, name |-> CHOOSE n \in Names : TRUE]
NoLoad == [path |-> NoFile, here |-> Start, before |-> 0, ok |-> FALSE]

TypeOK ==
    /\ phase \in {"args", "clips", "functions", "serving"}
    /\ clipsFile \in Paths
    /\ cwd \in Dirs
    /\ clppath \in Prefixes
    /\ udf \in BOOLEAN
    /\ loaded \in Seq(Items)
    /\ settled \in BOOLEAN
    /\ last \in [path : Paths, here : Dirs, before : Nat, ok : BOOLEAN]

Init ==
    /\ phase = "args"
    /\ clipsFile = NoFile
    /\ cwd = Start /\ clppath = Start
    /\ udf = FALSE
    /\ loaded = <<>>
    /\ settled = TRUE
    /\ last = NoLoad

-----------------------------------------------------------------------------
(* Paths.                                                                  *)

\* chdir(2) and what a relative path means: "~" is a name like any other.
Enter(p, here) ==
    CASE p \in Dirs -> p
      [] p = Below  -> SubDir[here]
      [] OTHER      -> NoDir

\* canonicalize_path knows "~"; what does not exist becomes the empty path.
Canonical(p, here) == IF p = Tilde THEN Home ELSE Enter(p, here)

\* The file that a path names once it went through canonicalize_path.
FileOf(path, here) ==
    <<IF path.dir = Here THEN here ELSE Canonical(path.dir, here), path.name>>

-----------------------------------------------------------------------------
(* Loading.  A result is whether it succeeded and the items it adds.       *)

Result(ok, items) == [ok |-> ok, items |-> items]

\* CLIPS takes what it can of a file and reports whether that was all of it.
Whole(file) == file \notin Broken /\ (file \in Calling => udf)

LoadClp(path, here) ==
    LET file == FileOf(path, here) IN
    IF file \in Clps
    THEN Result(Whole(file), <<[file |-> file, whole |-> Whole(file)]>>)
    ELSE Result(FALSE, <<>>)

\* The lines of a list, loaded from a directory up to the first that fails.
LoadLines(lines, here) ==
    LET each == [i \in DOMAIN lines |-> LoadClp(lines[i], here)]
        k    == CHOOSE n \in 0 .. Len(lines) :
                   /\ \A i \in 1 .. n : each[i].ok
                   /\ n = Len(lines) \/ ~each[n + 1].ok
        rest == IF k = Len(lines) THEN <<>> ELSE each[k + 1].items
    IN Result(k = Len(lines), [i \in 1 .. k |-> each[i].items[1]] \o rest)

\* Where the lines are looked up: the result of chdir(fdir) is not checked,
\* and unlike the path that was opened, fdir was not made canonical.
ListDir_NotEntered(path, here) == here

ListDir(path, here) ==
    IF Enter(path.dir, here) = NoDir THEN here ELSE Enter(path.dir, here)

\* chdir(here) comes after the lines, however they ended.
Restored_OnlyIfRead(r, dir, here) == IF r.ok THEN here ELSE dir

Restored(r, dir, here) == here

\* loadFile: by its suffix a list, a rule file or nothing at all.
Load(path) ==
    LET file == FileOf(path, cwd)
        dir  == ListDir(path, cwd)
        r    == IF file \in DOMAIN Lists
                THEN LoadLines(Lists[file], dir)
                ELSE LoadClp(path, cwd)
    IN /\ Len(loaded) + Len(r.items) <= MaxLoaded
       /\ loaded' = loaded \o r.items
       /\ cwd' = IF file \in DOMAIN Lists THEN Restored(r, dir, cwd) ELSE cwd
       /\ last' = [path |-> path, here |-> cwd, before |-> Len(loaded), ok |-> r.ok]
       /\ UNCHANGED <<clipsFile, clppath, udf, settled>>

-----------------------------------------------------------------------------
(* Starting: Server::init, then addUserFunctions, then Server::run.        *)

\* -d sets clppath to its text before it knows whether chdir refuses it; the
\* file of -e is looked up afterwards, wherever it stands in the arguments.
\* (Each option at most once; -w and -r belong to the watches.)
ParseArgs ==
    /\ phase = "args"
    /\ phase' = "clips"
    /\ clipsFile' \in InitialFiles \cup {NoFile}
    /\ \/ UNCHANGED <<cwd, clppath, settled>>
       \/ \E d \in Prefixes \ {Here} :
             /\ clppath' = d
             /\ cwd' = IF Enter(d, cwd) = NoDir THEN cwd ELSE Enter(d, cwd)
             /\ settled' = (d \in Dirs)
    /\ UNCHANGED <<udf, loaded, last>>

\* initCLIPS loads the file of -e.
InitCLIPS ==
    /\ phase = "clips"
    /\ phase' = "functions"
    /\ Load(clipsFile)

\* Only now do rules that call sendto or broadcast parse.
AddUserFunctions ==
    /\ phase = "functions"
    /\ phase' = "serving"
    /\ udf' = TRUE
    /\ UNCHANGED <<clipsFile, cwd, clppath, loaded, settled, last>>

-----------------------------------------------------------------------------
(* Commands.                                                               *)

HandlePath_Unchecked(p) ==
    /\ phase = "serving"
    /\ cwd' = Canonical(p, cwd)
    /\ clppath' = Canonical(p, cwd)
    /\ settled' = TRUE
    /\ UNCHANGED <<phase, clipsFile, udf, loaded, last>>

\* A refused path leaves everything as it was.
HandlePath(p) ==
    /\ phase = "serving"
    /\ Canonical(p, cwd) # NoDir
    /\ cwd' = Canonical(p, cwd)
    /\ clppath' = Canonical(p, cwd)
    /\ settled' = TRUE
    /\ UNCHANGED <<phase, clipsFile, udf, loaded, last>>

HandleLoad(path) ==
    /\ phase = "serving"
    /\ Load(path)
    /\ UNCHANGED phase

\* clips::clear removes the constructs and keeps the user functions.
HandleClear ==
    /\ phase = "serving"
    /\ loaded' = <<>>
    /\ last' = NoLoad
    /\ UNCHANGED <<phase, clipsFile, cwd, clppath, udf, settled>>

\* CLIPS has a chdir of its own, which a raw command or a rule may call: the
\* server is not told.
EngineChdir(p) ==
    /\ phase = "serving"
    /\ Enter(p, cwd) # NoDir
    /\ cwd' = Enter(p, cwd)
    /\ settled' = FALSE
    /\ UNCHANGED <<phase, clipsFile, clppath, udf, loaded, last>>

Next ==
    \/ ParseArgs \/ InitCLIPS \/ AddUserFunctions
    \/ \E p \in Prefixes : HandlePath(p) \/ EngineChdir(p)
    \/ \E path \in Paths : HandleLoad(path)
    \/ HandleClear

Spec == Init /\ [][Next]_vars

-----------------------------------------------------------------------------
(* Properties.                                                             *)

\* Clients are told the directory the server works in: unless CLIPS itself
\* changed it, or -d was not the path of a directory, and whatever lists were
\* loaded since, also those that were given up half way.
ReportedPath == settled => clppath = cwd

\* The files a list means: those its lines name, seen from its own directory.
Meant(file) == [i \in DOMAIN Lists[file] |-> FileOf(Lists[file][i], file[1])]

\* A list is loaded from its own directory, from wherever it is asked for, in
\* its order and up to the first file that fails; true is answered for the
\* whole list only.  (Not under "~": the list is opened there, but chdir does
\* not know that name and the lines are looked up in the working directory.)
ListsLoadInOrder ==
    LET file == FileOf(last.path, last.here)
        new  == SubSeq(loaded, last.before + 1, Len(loaded))
    IN (file \in DOMAIN Lists /\ last.path.dir # Tilde) =>
          /\ [i \in DOMAIN new |-> new[i].file] = SubSeq(Meant(file), 1, Len(new))
          /\ \A i \in DOMAIN new : new[i].whole \/ i = Len(new)
          /\ last.ok <=> (Len(new) = Len(Meant(file)) /\ \A i \in DOMAIN new : new[i].whole)
=============================================================================
