----------------------------- MODULE ModuleNames -----------------------------
(***************************************************************************)
(* Names of script modules and Module.convertModuleName, which resolves    *)
(* the name that a script asks for against the name of the script.         *)
(*                                                                         *)
(* A name is the sequence of what stands between its slashes, "" where     *)
(* nothing does: "/d//b" is <<"", "d", "", "b">>.  So every name has a     *)
(* segment, and <<>> is free to stand for an exception.                    *)
(***************************************************************************)
EXTENDS Naturals, Sequences, SequencesExt

\* A segment is a string; three of them have a meaning of their own.
Segment == STRING \union {"", ".", ".."}

ModuleName == Seq(Segment) \ {<<>>}

\* Null and the empty string
Empty == <<"">>

\* The exceptions that convertModuleName can end with.
Failed == <<>>

\* The segments that replace("//", "/") takes away, looking for doubled slashes from
\* left to right: those between two slashes, but of several next to each other every
\* second one only, because it does not look again at what it has written.
Dropped(n) ==
    LET dropped[i \in 0 .. Len(n)] ==
            i \notin {0, 1, Len(n)} /\ n[i] = "" /\ ~dropped[i - 1]
    IN  dropped

\* replace("//", "/")
Collapsed(n) ==
    LET upto[i \in 0 .. Len(n)] ==
            IF i = 0 THEN <<>>
            ELSE IF Dropped(n)[i] THEN upto[i - 1] ELSE Append(upto[i - 1], n[i])
    IN  upto[Len(n)]

\* The name without a leading "./".
Undotted(n) == IF Len(n) > 1 /\ Head(n) = "." THEN Tail(n) ELSE n

IsAbsolute(n) == Len(n) > 1 /\ Head(n) = ""

EndsWithSlash(n) == Len(n) > 1 /\ Last(n) = ""

\* split("/"), which keeps no empty segments at the end.
Segments(n) ==
    LET used == CHOOSE k \in 0 .. Len(n) :
                    /\ k > 0 => n[k] # ""
                    /\ \A i \in k + 1 .. Len(n) : n[i] = ""
    IN  IF n = Empty THEN n ELSE SubSeq(n, 1, used)

\* How many ".." a list of segments starts with.
Ups(path) ==
    CHOOSE k \in 0 .. Len(path) :
        /\ \A i \in 1 .. k : path[i] = ".."
        /\ k < Len(path) => path[k + 1] # ".."

\* Mutant: the file name of the base is kept.
Parent_WithFile(parent, ups) == SubSeq(parent, 1, Len(parent) - ups)

\* One segment off the parent for each "..", and one more for the file itself if
\* there is any left.
Parent(parent, ups) ==
    LET p == SubSeq(parent, 1, Len(parent) - ups) IN IF p = <<>> THEN p ELSE Front(p)

\* Mutant: "../" stays.
Joined_Upwards(base, name) == Front(Segments(base)) \o Segments(name)

\* The last part of convertModuleName: segments are taken off base and name, and what
\* is left is written down, each with a slash behind it but for the last.
Joined(base, name) ==
    LET parent == Segments(base)
        path   == Segments(name)
        ups    == Ups(path)
    IN IF ups > Len(parent) THEN Failed
       ELSE (IF IsAbsolute(base) THEN <<"">> ELSE <<>>)
                \o Parent(parent, ups) \o SubSeq(path, ups + 1, Len(path))

ConvertModuleName(moduleBaseName, moduleName) ==
    LET name == Undotted(Collapsed(moduleName))
        base == Undotted(Collapsed(moduleBaseName))
    IN IF moduleName = Empty THEN moduleName
       ELSE IF name = Empty THEN Failed
       ELSE IF IsAbsolute(name) \/ moduleBaseName = Empty THEN name
       ELSE IF EndsWithSlash(base) THEN Front(base) \o name
       ELSE Joined(base, name)

-----------------------------------------------------------------------------
(* What resolving a name means *)

\* One directory further from dir, the list of directories below the root; ".." at the
\* root stays.
Step(dir, segment) ==
    IF segment \in {"", "."} THEN dir
    ELSE IF segment = ".." /\ dir # <<>> /\ Last(dir) # ".." THEN Front(dir)
    ELSE Append(dir, segment)

\* Where a list of segments leads to.
Walked(segments) ==
    LET dir[i \in 0 .. Len(segments)] == IF i = 0 THEN <<>> ELSE Step(dir[i - 1], segments[i])
    IN  dir[Len(segments)]

\* The file that a name stands for.
FileOf(name) == Walked(name)

\* The file that name means in the script base: one beside it.
Meant(base, name) ==
    IF IsAbsolute(name) \/ base = Empty THEN FileOf(name) ELSE Walked(Front(base) \o name)

-----------------------------------------------------------------------------
(* The names that convertModuleName is made for *)

\* A directory or a file by its name.
Plain == STRING \ {"", ".", ".."}

Paths == Seq(Plain) \ {<<>>}

\* No three slashes in a row, of which "//" would be left.
SlashesApart(n) == \A i \in 2 .. Len(n) - 2 : n[i] # "" \/ n[i + 1] # ""

\* A name as scripts ask for it: a path, behind a "/", a "./" or any number of "../".
\* Slashes may be doubled.
WellFormed(n) ==
    LET p == Undotted(Collapsed(n))
    IN  /\ SlashesApart(n)
        /\ \/ IsAbsolute(p) /\ Tail(p) \in Paths
           \/ SubSeq(p, Ups(p) + 1, Len(p)) \in Paths

\* A name as the application starts a module with: a path, behind a "/" or not.
Canonical(n) == n \in Paths \/ (IsAbsolute(n) /\ Tail(n) \in Paths)
=============================================================================
