---------------------------- MODULE PathReference ----------------------------
(***************************************************************************)
(* Where a path leads, told without the steps of sm_make_path_abs: the     *)
(* names between the slashes, walked from the directory they start in.     *)
(***************************************************************************)
EXTENDS LogPaths

SystemNames == {"linux", "windows"}

\* The runs of characters that are no slash.
Pieces(path) ==
    SelectSeq(FoldLeft(LAMBDA pieces, c : IF c \in Slashes THEN Append(pieces, <<>>)
                                          ELSE Append(Front(pieces), Append(Last(pieces), c)),
                       << <<>> >>, path),
              LAMBDA piece : piece # <<>>)

Marked(os, path) == sm_path_is_abs(os, path) = "FALSE" /\ IsPrefix(Marker, path)

\* What the walk starts from and what is walked: a drive is not left.
Base(os, path) ==
    IF Marked(os, path) THEN Front(Pieces(Executable[os]))
    ELSE IF sm_path_is_abs(os, path) = "TRUE"
         THEN IF os = "windows" THEN << Pieces(path)[1] >> ELSE <<>>
         ELSE Pieces(CurDir[os])

Steps(os, path) ==
    IF Marked(os, path) THEN Pieces(SubSeq(path, Len(Marker) + 1, Len(path)))
    ELSE IF sm_path_is_abs(os, path) = "TRUE" /\ os = "windows" THEN Tail(Pieces(path))
    ELSE Pieces(path)

Place(os, path) ==
    LET kept == IF os = "windows" THEN 1 ELSE 0
    IN FoldLeft(LAMBDA at, name :
                   IF name = Here THEN at
                   ELSE IF name = Parent THEN IF Len(at) > kept THEN Front(at) ELSE at
                   ELSE Append(at, name),
                Base(os, path), Steps(os, path))

\* The names of a place on the os, each with its slash behind it; a root of linux is a slash.
Names(os, place) == IF os = "linux" THEN << <<>> >> \o place ELSE place
Spelled(os, place) == FlattenSeq([i \in DOMAIN place |-> place[i] \o SM_FILES_DIR_SLASH(os)])

IsDirectory(path) == Last(path) \in Slashes
Written(os, path) ==
    LET whole == Spelled(os, Names(os, Place(os, path)))
    IN IF IsDirectory(path) THEN whole ELSE Front(whole)

\* No more names than an array of the code has places for.
FewNames(os, path) == Len(Names(os, Base(os, path) \o Steps(os, path))) <= MaxSubdirs

\* All of it, before anything is taken back, fits into a buffer.
Fits(os, path) == Len(path) + Len(CurDir[os]) + Len(Executable[os]) < MaxPath

\* A root is no file.
IsFile(os, path) == ~IsDirectory(path) /\ Place(os, path) # <<>>

RootOf(os, path) ==
    [dirs |-> IF os = "linux" THEN {<< <<>> >>} ELSE {<< Place(os, path)[1] >>}, files |-> {}]
=============================================================================
