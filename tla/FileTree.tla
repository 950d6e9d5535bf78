------------------------------ MODULE FileTree ------------------------------
(***************************************************************************)
(* What a read-only file system promises of EFI_FILE.Open(): a new handle, *)
(* if there is one, is a handle of the file or directory that the path     *)
(* names; every call ends. What a path names is read from the directory    *)
(* tree of the disk alone.                                                 *)
(***************************************************************************)
EXTENDS Integers, Sequences

CONSTANTS
  Objects,   \* files, directories and links
  Root,
  Type,      \* DIR, FILE or SYMLINK
  Entries,   \* <<directory, name, object>>
  Target,    \* paths of the symbolic links
  Paths,     \* paths that callers open
  Handles,
  NULL,
  Goal       \* <<object, path, is it a whole path>> -> what the path leads to from
             \* the object, or NULL

-----------------------------------------------------------------------------
(* Names.                                                                  *)

Links == {o \in Objects : Type[o] = "SYMLINK"}

\* The empty component of a path.
NoName == ""

\* The ends of all paths.
Rests ==
  UNION { { SubSeq(path, i, Len(path)) : i \in 1 .. Len(path) + 1 } :
          path \in Paths \cup { Target[l] : l \in Links } \cup {<< >>} }

\* Where the object is, if it is in one directory, and what a name means there.
Parent(o) ==
  IF \E e \in Entries : e[3] = o THEN (CHOOSE e \in Entries : e[3] = o)[1] ELSE NULL
Child(dir, name) ==
  IF \E e \in Entries : e[1] = dir /\ e[2] = name
  THEN (CHOOSE e \in Entries : e[1] = dir /\ e[2] = name)[3] ELSE NULL
Step(dir, name) ==
  IF name = "." THEN dir ELSE IF name = ".." THEN Parent(dir) ELSE Child(dir, name)

From(o, path, whole) == IF o = NULL THEN NULL ELSE Goal[<<o, path, whole>>]

\* A symbolic link stands for what it names in the directory that holds it. An
\* empty component at the start of a path is the root, elsewhere nothing.
GoalRight ==
  /\ \A o \in Objects, path \in Rests, whole \in BOOLEAN :
       Goal[<<o, path, whole>>] \in Objects \cup {NULL}
  /\ \A o \in Objects, whole \in BOOLEAN :
       Goal[<<o, << >>, whole>>] =
         IF Type[o] = "SYMLINK" THEN From(Parent(o), Target[o], TRUE) ELSE o
  /\ \A o \in Objects, path \in Rests \ {<< >>}, whole \in BOOLEAN :
       Goal[<<o, path, whole>>] =
         IF Head(path) = NoName THEN From(IF whole THEN Root ELSE o, Tail(path), FALSE)
         ELSE IF Type[o] = "SYMLINK" THEN From(Goal[<<o, << >>, FALSE>>], path, whole)
         ELSE IF Type[o] = "DIR" THEN From(Step(o, Head(path)), Tail(path), FALSE)
         ELSE NULL

-----------------------------------------------------------------------------
(* Handles.                                                                *)

VARIABLES handles,   \* the object of each open handle, or NULL
          request    \* [from, path] of the call in progress, or NULL

vars == <<handles, request>>

Init == handles = [h \in Handles |-> NULL] /\ request = NULL

Ask ==
  /\ request = NULL
  /\ \E h \in Handles, path \in Paths :
       /\ handles[h] # NULL
       /\ request' = [from |-> handles[h], path |-> path]
  /\ UNCHANGED handles

Succeed ==
  /\ request # NULL /\ request' = NULL
  /\ LET o == Goal[<<request.from, request.path, TRUE>>]
     IN  /\ o # NULL
         /\ \E h \in Handles : handles[h] = NULL /\ handles' = [handles EXCEPT ![h] = o]

Fail == request # NULL /\ request' = NULL /\ UNCHANGED handles

OpenVolume ==
  /\ request = NULL
  /\ \E h \in Handles : handles[h] = NULL /\ handles' = [handles EXCEPT ![h] = Root]
  /\ UNCHANGED request

Close ==
  /\ request = NULL
  /\ \E h \in Handles : handles[h] # NULL /\ handles' = [handles EXCEPT ![h] = NULL]
  /\ UNCHANGED request

Next == Ask \/ Succeed \/ Fail \/ OpenVolume \/ Close

Opens == Init /\ [][Next]_vars
Ends  == WF_vars(Fail \/ Succeed)
Spec  == Opens /\ Ends
=============================================================================
