------------------------------ MODULE FswDnode ------------------------------
(***************************************************************************)
(* Directory nodes of a mounted volume (filesystems/fsw_core.c) and the    *)
(* file handles on them (filesystems/fsw_efi.c). A dnode exists while its  *)
(* reference count is not 0, once for each object of the disk, and holds a *)
(* reference on its parent. A lookup resolves the symbolic links on its    *)
(* way, each by a lookup of its target: the calls in progress are a stack. *)
(* Any step that reads the disk or allocates memory may fail.              *)
(***************************************************************************)
EXTENDS Integers, Sequences, FiniteSets

CONSTANTS
  Objects,   \* files, directories and links of the file system (dnode_id)
  Root,
  Type,      \* DIR, FILE or SYMLINK
  Entries,   \* <<directory, name, object>>
  Target,    \* paths of the symbolic links
  Paths,     \* paths that callers open
  Handles,   \* file handles
  NULL,
  MaxRefs,   \* bound: references on one dnode when a call begins
  Goal       \* what the paths name: see FileTree

Directories == {o \in Objects : Type[o] = "DIR"}
Links       == {o \in Objects : Type[o] = "SYMLINK"}

ASSUME TreeAssumption ==
  /\ IsFiniteSet(Objects) /\ IsFiniteSet(Handles)
  /\ NULL \notin Objects
  /\ Type \in [Objects -> {"DIR", "FILE", "SYMLINK"}]
  /\ Root \in Directories
  /\ \A e \in Entries : e[1] \in Directories /\ e[3] \in Objects \ {Root}
  /\ Target \in [Links -> Seq(STRING)]
  /\ Paths \subseteq Seq(STRING)

\* A name stands for one object of its directory, a directory or link has one
\* name: only files have more than one.
ASSUME NamesAssumption ==
  \A e, f \in Entries :
    \/ e[1] = f[1] /\ e[2] = f[2]
    \/ e[3] = f[3] /\ Type[e[3]] # "FILE"
    => e = f

\* No request is the NULL of the model.
ASSUME RequestAssumption == NULL \notin [from : Objects, path : Paths]

VARIABLES
  refcount,    \* of the dnode of each object; 0 if there is none
  parent,      \* dno->parent
  handles,     \* File->shand.dnode of each open file handle, or NULL
  frames,      \* the calls in progress, the running one last
  status,      \* "running", or what the call that has just returned returned
  out,         \* *child_dno_out or *target_dno_out of that call
  releasing,   \* the dnode fsw_dnode_release() is called with, or NULL
  request,     \* arguments of the call of fsw_efi_dir_open(), or NULL
  mounted

vars == <<refcount, parent, handles, frames, status, out, releasing, request, mounted>>

Frame == [ fn    : {"dir_open", "lookup_path", "resolve"},
           dno   : Objects \cup {NULL},
           rest  : Seq(STRING),      \* remaining_path
           first : BOOLEAN ]         \* root_if_empty

TypeOK ==
  /\ refcount \in [Objects -> Nat]
  /\ parent \in [Objects -> Objects \cup {NULL}]
  /\ handles \in [Handles -> Objects \cup {NULL}]
  /\ frames \in Seq(Frame)
  /\ status \in {"running", "success", "error"}
  /\ out \in Objects \cup {NULL}
  /\ releasing \in Objects \cup {NULL}
  /\ mounted \in BOOLEAN

Top     == frames[Len(frames)]
Callers == SubSeq(frames, 1, Len(frames) - 1)

Lookup(dno, path) == [fn |-> "lookup_path", dno |-> dno, rest |-> path, first |-> TRUE]
Resolve(dno)      == [fn |-> "resolve", dno |-> dno, rest |-> <<>>, first |-> FALSE]
DirOpen(dno)      == [fn |-> "dir_open", dno |-> dno, rest |-> <<>>, first |-> FALSE]

Init ==
  /\ refcount = [o \in Objects |-> IF o = Root THEN 1 ELSE 0]
  /\ parent = [o \in Objects |-> NULL]
  /\ handles = [h \in Handles |-> NULL]
  /\ frames = <<>>
  /\ status = "running"
  /\ out = NULL
  /\ releasing = NULL
  /\ request = NULL
  /\ mounted = TRUE

-----------------------------------------------------------------------------
(* References.                                                             *)

Retained(d) == [refcount EXCEPT ![d] = @ + 1]

\* (faulty variant: the new dnode does not retain its parent)
DnodeCreateUnretained(dir, o) ==
  IF refcount[o] > 0
  THEN refcount' = Retained(o) /\ parent' = parent
  ELSE refcount' = [refcount EXCEPT ![o] = 1] /\ parent' = [parent EXCEPT ![o] = dir]

\* fsw_dnode_create(): the dnode of o, found in the list or new.
DnodeCreate(dir, o) ==
  IF refcount[o] > 0
  THEN refcount' = Retained(o) /\ parent' = parent
  ELSE refcount' = [Retained(dir) EXCEPT ![o] = 1] /\ parent' = [parent EXCEPT ![o] = dir]

\* fsw_dnode_create() when the name cannot be copied: the parent stays retained.
DnodeCreateFails(dir, o) ==
  /\ refcount[o] = 0
  /\ refcount' = Retained(dir)
  /\ parent' = parent

(* fsw_dnode_release(), and its call for the parent of a dnode it frees.   *)
Release ==
  /\ releasing # NULL
  /\ refcount' = [refcount EXCEPT ![releasing] = @ - 1]
  /\ IF refcount'[releasing] = 0
     THEN /\ releasing' = parent[releasing]
          /\ parent' = [parent EXCEPT ![releasing] = NULL]
     ELSE /\ releasing' = NULL
          /\ parent' = parent
  /\ UNCHANGED <<handles, frames, status, out, request, mounted>>

-----------------------------------------------------------------------------
(* Calls and returns. A step that ends with a release waits for it.        *)

Running(fn) ==
  releasing = NULL /\ frames # <<>> /\ Top.fn = fn /\ status = "running"
Answered(fn, answer) ==
  releasing = NULL /\ frames # <<>> /\ Top.fn = fn /\ status = answer

Call(caller, callee) ==
  frames' = Append(Append(Callers, caller), callee) /\ status' = "running" /\ out' = NULL
Continue(frame) == frames' = Append(Callers, frame) /\ status' = "running" /\ out' = NULL
Succeed(dno)    == frames' = Callers /\ status' = "success" /\ out' = dno
Fail            == frames' = Callers /\ status' = "error" /\ out' = NULL
Leave           == frames' = <<>> /\ status' = "running" /\ out' = NULL /\ request' = NULL

-----------------------------------------------------------------------------
(* fsw_dnode_lookup_path(): Top.dno is dno, Top.rest remaining_path with   *)
(* the component at hand.                                                  *)

NoName == ""   \* the empty component

InLookup == Running("lookup_path") /\ Top.rest # <<>>
OnName   == InLookup /\ Head(Top.rest) # NoName

\* (faulty variant: root_if_empty is not cleared after the first component)
DescendAtRoot(child) ==
  /\ Continue([Top EXCEPT !.dno = child, !.rest = Tail(@)])
  /\ releasing' = Top.dno

\* child_dno becomes the new dno.
Descend(child) ==
  /\ Continue([Top EXCEPT !.dno = child, !.rest = Tail(@), !.first = FALSE])
  /\ releasing' = Top.dno

LookupDone ==
  /\ Running("lookup_path") /\ Top.rest = <<>>
  /\ Succeed(Top.dno)
  /\ UNCHANGED <<refcount, parent, handles, releasing, request, mounted>>

\* (faulty variant: an empty component is not passed over)
LookupEmptyStays ==
  /\ InLookup /\ Head(Top.rest) = NoName
  /\ LET child == IF Top.first THEN Root ELSE Top.dno
     IN  /\ refcount' = Retained(child)
         /\ Continue([Top EXCEPT !.dno = child, !.first = FALSE])
         /\ releasing' = Top.dno
  /\ UNCHANGED <<parent, handles, request, mounted>>

LookupEmpty ==
  /\ InLookup /\ Head(Top.rest) = NoName
  /\ LET child == IF Top.first THEN Root ELSE Top.dno
     IN  refcount' = Retained(child) /\ Descend(child)
  /\ UNCHANGED <<parent, handles, request, mounted>>

\* A symbolic link on the way, resolved before the component is looked up.
LookupLink ==
  /\ OnName /\ Type[Top.dno] = "SYMLINK"
  /\ refcount' = Retained(Top.dno)
  /\ Call(Top, Resolve(Top.dno))
  /\ UNCHANGED <<parent, handles, releasing, request, mounted>>

\* (faulty variant: the link itself is not released)
LookupResolvedKept ==
  /\ Answered("lookup_path", "success")
  /\ Continue([Top EXCEPT !.dno = out])
  /\ releasing' = NULL
  /\ UNCHANGED <<refcount, parent, handles, request, mounted>>

LookupResolved ==
  /\ Answered("lookup_path", "success")
  /\ Continue([Top EXCEPT !.dno = out])
  /\ releasing' = Top.dno
  /\ UNCHANGED <<refcount, parent, handles, request, mounted>>

\* The early return: dno stays retained.
LookupNotADirectory ==
  /\ OnName /\ Type[Top.dno] = "FILE"
  /\ Fail
  /\ UNCHANGED <<refcount, parent, handles, releasing, request, mounted>>

LookupDot ==
  /\ OnName /\ Type[Top.dno] = "DIR" /\ Head(Top.rest) = "."
  /\ refcount' = Retained(Top.dno)
  /\ Descend(Top.dno)
  /\ UNCHANGED <<parent, handles, request, mounted>>

LookupDotDot ==
  /\ OnName /\ Type[Top.dno] = "DIR" /\ Head(Top.rest) = ".."
  /\ parent[Top.dno] # NULL
  /\ refcount' = Retained(parent[Top.dno])
  /\ Descend(parent[Top.dno])
  /\ UNCHANGED <<parent, handles, request, mounted>>

Named(dir, name) == {e \in Entries : e[1] = dir /\ e[2] = name}

LookupName ==
  /\ OnName /\ Type[Top.dno] = "DIR" /\ Head(Top.rest) \notin {".", ".."}
  /\ \E e \in Named(Top.dno, Head(Top.rest)) :
       DnodeCreate(Top.dno, e[3]) /\ Descend(e[3])
  /\ UNCHANGED <<handles, request, mounted>>

LookupNoMemory ==
  /\ OnName /\ Type[Top.dno] = "DIR" /\ Head(Top.rest) \notin {".", ".."}
  /\ \E e \in Named(Top.dno, Head(Top.rest)) : DnodeCreateFails(Top.dno, e[3])
  /\ Fail
  /\ releasing' = Top.dno
  /\ UNCHANGED <<handles, request, mounted>>

\* errorexit: no such entry, no parent, the disk cannot be read, or the link
\* cannot be resolved.
LookupFails ==
  /\ OnName \/ Answered("lookup_path", "error")
  /\ Fail
  /\ releasing' = Top.dno
  /\ UNCHANGED <<refcount, parent, handles, request, mounted>>

-----------------------------------------------------------------------------
(* fsw_dnode_resolve().                                                    *)

ResolveDone ==
  /\ Running("resolve") /\ Type[Top.dno] # "SYMLINK"
  /\ Succeed(Top.dno)
  /\ UNCHANGED <<refcount, parent, handles, releasing, request, mounted>>

ResolveLink ==
  /\ Running("resolve") /\ Type[Top.dno] = "SYMLINK" /\ parent[Top.dno] # NULL
  /\ refcount' = Retained(parent[Top.dno])
  /\ Call(Top, Lookup(parent[Top.dno], Target[Top.dno]))
  /\ UNCHANGED <<parent, handles, releasing, request, mounted>>

\* target_dno becomes the new dno.
ResolveFollow ==
  /\ Answered("resolve", "success")
  /\ Continue([Top EXCEPT !.dno = out])
  /\ releasing' = Top.dno
  /\ UNCHANGED <<refcount, parent, handles, request, mounted>>

ResolveFails ==
  /\ Running("resolve") \/ Answered("resolve", "error")
  /\ Fail
  /\ releasing' = Top.dno
  /\ UNCHANGED <<refcount, parent, handles, request, mounted>>

-----------------------------------------------------------------------------
(* fsw_efi_dir_open(), fsw_efi_dnode_to_FileHandle() and the other entry   *)
(* points.                                                                 *)

Idle == frames = <<>> /\ releasing = NULL /\ mounted

\* Bound on the references that failures leave behind.
Bounded == \A d \in Objects : refcount[d] < MaxRefs

Open(h, path) ==
  /\ Idle /\ Bounded
  /\ handles[h] \in Directories
  /\ request' = [from |-> handles[h], path |-> path]
  /\ refcount' = Retained(handles[h])
  /\ frames' = <<DirOpen(NULL), Lookup(handles[h], path)>>
  /\ UNCHANGED <<parent, handles, status, out, releasing, mounted>>

\* The path is found: resolve it, too, if it is a symbolic link.
OpenFound ==
  /\ Answered("dir_open", "success") /\ Top.dno = NULL
  /\ refcount' = Retained(out)
  /\ Call(DirOpen(out), Resolve(out))
  /\ UNCHANGED <<parent, handles, releasing, request, mounted>>

OpenResolved ==
  /\ Answered("dir_open", "success") /\ Top.dno # NULL
  /\ Continue(DirOpen(out))
  /\ releasing' = Top.dno
  /\ UNCHANGED <<refcount, parent, handles, request, mounted>>

OpenHandle ==
  /\ Running("dir_open") /\ Top.dno # NULL
  /\ \E h \in Handles : handles[h] = NULL /\ handles' = [handles EXCEPT ![h] = Top.dno]
  /\ refcount' = Retained(Top.dno)
  /\ Leave
  /\ releasing' = Top.dno
  /\ UNCHANGED <<parent, mounted>>

OpenFails ==
  /\ Answered("dir_open", "error") \/ Running("dir_open")
  /\ Leave
  /\ releasing' = Top.dno
  /\ UNCHANGED <<refcount, parent, handles, mounted>>

OpenVolume(h) ==
  /\ Idle /\ Bounded
  /\ handles[h] = NULL
  /\ handles' = [handles EXCEPT ![h] = Root]
  /\ refcount' = Retained(Root)
  /\ UNCHANGED <<parent, frames, status, out, releasing, request, mounted>>

\* fsw_efi_dir_read(): the dnode of the next entry serves to fill a buffer.
DirRead(h) ==
  /\ Idle /\ Bounded
  /\ \E e \in Entries :
       /\ e[1] = handles[h]
       /\ \/ DnodeCreate(handles[h], e[3]) /\ releasing' = e[3]
          \/ DnodeCreateFails(handles[h], e[3]) /\ releasing' = NULL
  /\ UNCHANGED <<handles, frames, status, out, request, mounted>>

Close(h) ==
  /\ Idle
  /\ handles[h] # NULL
  /\ handles' = [handles EXCEPT ![h] = NULL]
  /\ releasing' = handles[h]
  /\ UNCHANGED <<refcount, parent, frames, status, out, request, mounted>>

\* fsw_efi_DriverBinding_Stop() assumes that all handles have been closed.
Unmount ==
  /\ Idle
  /\ \A h \in Handles : handles[h] = NULL
  /\ mounted' = FALSE
  /\ releasing' = Root
  /\ UNCHANGED <<refcount, parent, handles, frames, status, out, request>>

-----------------------------------------------------------------------------
Program ==
  \/ Release
  \/ LookupDone \/ LookupEmpty \/ LookupLink \/ LookupResolved \/ LookupNotADirectory
  \/ LookupDot \/ LookupDotDot \/ LookupName \/ LookupNoMemory \/ LookupFails
  \/ ResolveDone \/ ResolveLink \/ ResolveFollow \/ ResolveFails
  \/ OpenFound \/ OpenResolved \/ OpenHandle \/ OpenFails

Next ==
  \/ Program
  \/ \E h \in Handles : \/ \E path \in Paths : Open(h, path)
                        \/ OpenVolume(h) \/ DirRead(h) \/ Close(h)
  \/ Unmount

\* One thread: what it has begun it goes on with.
Spec == Init /\ [][Next]_vars /\ WF_vars(Program)

-----------------------------------------------------------------------------
(* Properties.                                                             *)

One(b) == IF b THEN 1 ELSE 0

\* The number of counted pointers to a dnode.
References(d) ==
  (One(mounted /\ d = Root)
     + Cardinality({h \in Handles : handles[h] = d})
     + Cardinality({c \in Objects : parent[c] = d}))
  + (One(out = d) + One(releasing = d)
       + Cardinality({i \in DOMAIN frames : frames[i].dno = d}))

(* No dnode is freed while the volume, a file handle, a child, a lookup or *)
(* resolution in progress or a result on its way still points to it.       *)
NotFreedInUse == \A d \in Objects : refcount[d] >= References(d)

(* Each reference counted is given back: the count and the pointers to a   *)
(* dnode change together, but for two error paths of the code, where a     *)
(* component of a path is no directory and where a name cannot be copied.  *)
Surplus(d) == refcount[d] - References(d)
OnlyFailuresLeak ==
  [][ (\E d \in Objects : Surplus(d)' # Surplus(d)) =>
        \/ LookupNotADirectory \/ LookupNoMemory
        \/ \E h \in Handles : DirRead(h) /\ releasing' = NULL ]_vars

Tree == INSTANCE FileTree

ASSUME GoalAssumption == Tree!GoalRight

(* fsw_efi_dir_open() opens what its path names, whatever dnodes exist,    *)
(* whichever links it follows and whichever steps failed before.           *)
OpensWhatIsNamed == Tree!Opens

(* fsw_efi_dir_open() always ends, over whichever links its path leads.    *)
OpenEnds == Tree!Ends
=============================================================================
