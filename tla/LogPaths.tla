------------------------------ MODULE LogPaths ------------------------------
(***************************************************************************)
(* sm_files_tools.c: the paths of the log library.  sm_log_init_*() makes  *)
(* the directory it was given absolute, creates it and opens the log file  *)
(* in it.  A path is a sequence of characters, os is "linux" or "windows": *)
(* both kinds of slash are understood on both, one of them is written.     *)
(***************************************************************************)
EXTENDS SafeStrings

CONSTANTS
    MaxPath,     \* MAX_PATH, the size of every buffer
    MaxSubdirs,  \* SM_MAX_SUBDIRS
    CurDir,      \* getcwd(), per os
    Executable,  \* the path of the program, per os
    Marker       \* SM_BIN_PATH_MARKER

ASSUME PathAssumption ==
    /\ MaxPath \in Nat \ {0} /\ MaxPath <= MaxStr /\ MaxSubdirs \in Nat \ {0, 1}
    /\ \A os \in {"linux", "windows"} :
          Len(CurDir[os]) \in 1 .. MaxPath - 2 /\ Len(Executable[os]) \in 1 .. MaxPath - 2

Slash == 47
BackSlash == 92
Slashes == {Slash, BackSlash}
Here == <<46>>
Parent == <<46, 46>>

Fails == [err |-> "SM_RES_ERROR", path |-> <<>>]

\* safe_strncpy of a whole string into room cells, which also refuses an empty one.
Put(room, path) ==
    IF Len(path) \in 1 .. room - 1 THEN [err |-> "SM_RES_OK", path |-> path] ELSE Fails

SM_FILES_DIR_SLASH(os) == IF os = "windows" THEN <<BackSlash>> ELSE <<Slash>>

IsDrive(path) == Len(path) >= 2 /\ path[1] \in Lower \cup Upper /\ path[2] = 58

\* "SM_RES_ERROR" for a path that is too short to tell.
sm_path_is_abs(os, path) ==
    CASE os = "linux" /\ Len(path) >= 1 -> IF path[1] = Slash THEN "TRUE" ELSE "FALSE"
      [] os = "windows" /\ Len(path) >= 2 -> IF IsDrive(path) THEN "TRUE" ELSE "FALSE"
      [] OTHER -> "SM_RES_ERROR"
-----------------------------------------------------------------------------
LastSlash(path) == SelectLastInSeq(path, LAMBDA c : c \in Slashes)

\* Up to and with the last slash. dpath is what the buffer held: a path of two
\* characters that is no drive leaves it there on Windows.
sm_get_dpath_from_fpath(os, dpath, room, fpath) ==
    LET i == LastSlash(fpath)
        whole == os = "windows" /\ Len(fpath) = 2
    IN CASE Len(fpath) \notin 1 .. MaxPath - 1 -> Fails
         [] i > 0 -> Put(room, SubSeq(fpath, 1, i))
         [] i = 0 /\ room = 0 -> Fails
         [] i = 0 /\ room > 0 /\ whole /\ IsDrive(fpath) ->
               Put(room, fpath \o SM_FILES_DIR_SLASH(os))
         [] i = 0 /\ room > 0 /\ whole /\ ~IsDrive(fpath) -> [err |-> "SM_RES_OK", path |-> dpath]
         [] OTHER -> [err |-> "SM_RES_OK", path |-> <<>>]

\* What follows the last slash.
sm_get_fname_from_fpath(os, room, fpath) ==
    IF \/ Len(fpath) \notin 1 .. MaxPath - 1
       \/ os = "windows" /\ Len(fpath) = 2 /\ IsDrive(fpath)
    THEN Fails
    ELSE Put(room, SubSeq(fpath, LastSlash(fpath) + 1, Len(fpath)))
-----------------------------------------------------------------------------
\* sm_make_path_abs: first the path behind a directory, then its parts.

Joint(os, dir, path) ==
    IF path = <<>> THEN IF Last(dir) = Slash THEN SM_FILES_DIR_SLASH(os) ELSE <<>>
    ELSE IF Last(dir) \notin Slashes /\ path[1] \notin Slashes THEN SM_FILES_DIR_SLASH(os) ELSE <<>>

\* A path behind the marker belongs to the directory of the program.
BehindExecutable(os, path) ==
    LET dir == sm_get_dpath_from_fpath(os, <<>>, MaxPath, Executable[os]).path
        name == IF path # <<>> /\ path[1] \in Slashes /\ Last(dir) \in Slashes
                THEN Tail(path) ELSE path
    IN dir \o Joint(os, dir, name) \o name

BehindCurDir(os, path) ==
    CurDir[os] \o (IF Last(CurDir[os]) \in Slashes THEN <<>> ELSE SM_FILES_DIR_SLASH(os)) \o path

Rooted(os, path, marker) ==
    IF sm_path_is_abs(os, path) = "TRUE" THEN path
    ELSE IF marker # <<>> /\ IsPrefix(marker, path)
         THEN BehindExecutable(os, SubSeq(path, Len(marker) + 1, Len(path)))
         ELSE BehindCurDir(os, path)

\* Mutant: ".." also takes what the path begins with.
WalkedOut(dirs, name) ==
    CASE name = Here -> dirs
      [] name = Parent -> IF Len(dirs) > 0 THEN Front(dirs) ELSE dirs
      [] OTHER -> Append(dirs, name)

Walked(dirs, name) ==
    CASE name = Here -> dirs
      [] name = Parent -> IF Len(dirs) > 1 THEN Front(dirs) ELSE dirs
      [] OTHER -> Append(dirs, name)

\* The loop over safe_strtok, which is not asked again once its length is used up.
RECURSIVE Tokens(_, _, _)
Tokens(left, dirs, next) ==
    IF left = 0 \/ Len(dirs) >= MaxSubdirs \/ next.token = Null THEN dirs
    ELSE Tokens(next.dmax, Walked(dirs, StringAt(next.mem, next.token)),
                safe_strtok(next.mem, Null, next.dmax, <<BackSlash, Slash>>, next.ptr))

\* The parts of a path; the first of "/a" is empty. Those behind MaxSubdirs are left out.
SubDirs(path) ==
    LET m == [a \in 0 .. Len(path) |-> IF a = Len(path) THEN 0 ELSE path[a + 1]]
    IN Tokens(Len(path), IF path[1] = Slash THEN << <<>> >> ELSE <<>>,
              safe_strtok(m, 0, Len(path), <<BackSlash, Slash>>, Null))

\* A slash behind each part, but not behind the name of a file.
Joined(os, dirs, is_file) ==
    FlattenSeq([i \in 1 .. Len(dirs) |->
        dirs[i] \o (IF is_file /\ i = Len(dirs) THEN <<>> ELSE SM_FILES_DIR_SLASH(os))])

sm_make_path_abs(os, room, path, marker) ==
    LET rooted == Rooted(os, path, marker)
        is_file == Last(path) \notin Slashes
    IN IF \/ Len(path) \notin 1 .. MaxPath - 1
          \/ sm_path_is_abs(os, path) = "SM_RES_ERROR"
          \/ Len(rooted) >= MaxPath
       THEN Fails
       ELSE Put(IF room < MaxPath THEN room ELSE MaxPath, Joined(os, SubDirs(rooted), is_file))
-----------------------------------------------------------------------------
\* sm_create_dpath. A file system knows the parts of its directories and files.

\* A file with a slash behind its name is not found, and cannot be made a directory.
sm_is_dpath_found(fs, dirs) == dirs \in fs.dirs

mkdir(fs, dirs) ==
    IF dirs \in fs.files \/ (Len(dirs) > 1 /\ Front(dirs) \notin fs.dirs) THEN fs
    ELSE [fs EXCEPT !.dirs = @ \cup {dirs}]

\* Each directory on the way; the path is full, and the loop ends, when the slash behind
\* the last part has no room.
CreateAll(os, fs, dirs) ==
    LET fits == {i \in 1 .. Len(dirs) : Len(Joined(os, SubSeq(dirs, 1, i), FALSE)) < MaxPath}
    IN [fs |-> FoldLeft(LAMBDA known, i :
                           IF sm_is_dpath_found(known, SubSeq(dirs, 1, i)) THEN known
                           ELSE mkdir(known, SubSeq(dirs, 1, i)),
                        fs, [i \in 1 .. Cardinality(fits) |-> i]),
        err |-> IF fits = 1 .. Len(dirs) THEN "SM_RES_OK" ELSE "SM_RES_ERROR"]

sm_create_dpath(os, fs, dpath) ==
    LET abs == sm_make_path_abs(os, MaxPath, dpath, Marker)
    IN IF Len(dpath) \notin 1 .. MaxPath - 1 \/ abs.err # "SM_RES_OK"
       THEN [fs |-> fs, err |-> "SM_RES_ERROR"]
       ELSE CreateAll(os, fs, SubDirs(abs.path))

\* The file that sm_log_init_dpath_fname opens, or nothing.
Cut(path) == IF Len(path) < MaxPath THEN path ELSE SubSeq(path, 1, MaxPath - 1)

FileIn(os, abs, fname) ==
    IF abs.err # "SM_RES_OK" THEN <<>>
    ELSE Cut(abs.path \o (IF Last(abs.path) \in Slashes THEN <<>> ELSE SM_FILES_DIR_SLASH(os))
                     \o fname)

LogFile(os, dpath, fname) ==
    IF fname = <<>> THEN <<>>
    ELSE IF dpath = <<>> THEN Put(MaxPath, fname).path
    ELSE FileIn(os, sm_make_path_abs(os, MaxPath, dpath, Marker), fname)
=============================================================================
