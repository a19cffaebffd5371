--------------------------- MODULE PlugInContexts ---------------------------
(***************************************************************************)
(* The construction and destruction of plug-in objects, and the davix      *)
(* context and client each works with: a pair of its own or, in a proxy,   *)
(* one pair shared by all the objects of a kind (HttpFilePlugIn.cc:45-80,  *)
(* HttpFileSystemPlugIn.cc:21-55).                                         *)
(*                                                                         *)
(* Each object is constructed, used and destroyed once, by a thread of its *)
(* own.  A constructor makes at most one context and one client, which are *)
(* known by that object.                                                   *)
(***************************************************************************)

CONSTANTS
  FileObjects,        \* HttpFilePlugIn objects
  FileSystemObjects,  \* HttpFileSystemPlugIn objects
  Null                \* NULL

Objects == FileObjects \cup FileSystemObjects
Kinds == {"file", "filesystem"}

ASSUME ObjectsAssumption ==
  /\ FileObjects \cap FileSystemObjects = {}
  /\ Null \notin Objects

VARIABLES
  proxy,              \* XRDXROOTD_PROXY is in the environment and names an origin
  root_ctx,           \* root_davix_context_, root_ctx_
  root_client,        \* root_davix_client_file_, root_davix_client_
  pc,                 \* each object's place in its life
  ctx, client,        \* its fields
  given,              \* the context the client an object made was made with
  freed_ctx, freed_client,
  errno,              \* who wrote the errno of an object's thread last
  rc,                 \* the destructor's copy of it
  raced               \* history: a constructor of the kind has begun while another
                      \* was making the shared pair

roots == <<root_ctx, root_client>>
fields == <<ctx, client>>
heap == <<given, freed_ctx, freed_client>>
vars == <<proxy, roots, pc, fields, heap, errno, rc, raced>>

Pointers == Objects \cup {Null}
Points == {"unborn", "make_ctx", "make_client", "take_ctx", "take_client", "live",
           "free_client", "free_ctx", "dead"}
Errnos == {"nobody", "operation", "library"}

TypeOK ==
  /\ proxy \in BOOLEAN
  /\ root_ctx \in [Kinds -> Pointers] /\ root_client \in [Kinds -> Pointers]
  /\ pc \in [Objects -> Points]
  /\ ctx \in [Objects -> Pointers] /\ client \in [Objects -> Pointers]
  /\ given \in [Objects -> Pointers]
  /\ freed_ctx \subseteq Pointers /\ freed_client \subseteq Pointers
  /\ errno \in [Objects -> Errnos] /\ rc \in [Objects -> Errnos]
  /\ raced \in [Kinds -> BOOLEAN]

Init ==
  /\ proxy \in BOOLEAN
  /\ root_ctx = [k \in Kinds |-> Null] /\ root_client = [k \in Kinds |-> Null]
  /\ pc = [o \in Objects |-> "unborn"]
  /\ ctx = [o \in Objects |-> Null] /\ client = [o \in Objects |-> Null]
  /\ given = [o \in Objects |-> Null]
  /\ freed_ctx = {} /\ freed_client = {}
  /\ errno = [o \in Objects |-> "nobody"] /\ rc = errno
  /\ raced = [k \in Kinds |-> FALSE]

Kind(o) == IF o \in FileObjects THEN "file" ELSE "filesystem"

GoTo(o, point) == pc' = [pc EXCEPT ![o] = point]

-----------------------------------------------------------------------------
\* The process that hosts the plug-ins becomes a proxy.
ExportProxy ==
  /\ ~proxy
  /\ proxy' = TRUE
  /\ UNCHANGED <<roots, pc, fields, heap, errno, rc, raced>>

\* Outside a proxy, an object has a pair of its own.
ConstructPrivate(o) ==
  /\ pc[o] = "unborn" /\ ~proxy
  /\ ctx' = [ctx EXCEPT ![o] = o]
  /\ client' = [client EXCEPT ![o] = o]
  /\ given' = [given EXCEPT ![o] = o]
  /\ GoTo(o, "live")
  /\ UNCHANGED <<proxy, roots, freed_ctx, freed_client, errno, rc, raced>>

\* Inside one, the constructor tests the shared context without a lock.
ConstructShared(o) ==
  /\ pc[o] = "unborn" /\ proxy
  /\ GoTo(o, IF root_ctx[Kind(o)] = Null THEN "make_ctx" ELSE "take_ctx")
  /\ raced' = [raced EXCEPT ![Kind(o)] =
       @ \/ \E p \in Objects : Kind(p) = Kind(o) /\ pc[p] \in {"make_ctx", "make_client"}]
  /\ UNCHANGED <<proxy, roots, fields, heap, errno, rc>>

MakeContext(o) ==
  /\ pc[o] = "make_ctx"
  /\ root_ctx' = [root_ctx EXCEPT ![Kind(o)] = o]
  /\ GoTo(o, "make_client")
  /\ UNCHANGED <<proxy, root_client, fields, heap, errno, rc, raced>>

MakeClient(o) ==
  /\ pc[o] = "make_client"
  /\ given' = [given EXCEPT ![o] = root_ctx[Kind(o)]]
  /\ root_client' = [root_client EXCEPT ![Kind(o)] = o]
  /\ GoTo(o, "take_ctx")
  /\ UNCHANGED <<proxy, root_ctx, fields, freed_ctx, freed_client, errno, rc, raced>>

TakeContext(o) ==
  /\ pc[o] = "take_ctx"
  /\ ctx' = [ctx EXCEPT ![o] = root_ctx[Kind(o)]]
  /\ GoTo(o, "take_client")
  /\ UNCHANGED <<proxy, roots, client, heap, errno, rc, raced>>

\* Mutant: the other plug-in's client, whose name differs by a suffix.
FileClient(o) == root_client["file"]

SharedClient(o) == root_client[Kind(o)]

TakeClient(o) ==
  /\ pc[o] = "take_client"
  /\ client' = [client EXCEPT ![o] = SharedClient(o)]
  /\ GoTo(o, "live")
  /\ UNCHANGED <<proxy, roots, ctx, heap, errno, rc, raced>>

-----------------------------------------------------------------------------
\* A method that fails sets errno.  With a null client it ends the process instead.
Use(o) ==
  /\ pc[o] = "live" /\ client[o] # Null
  /\ errno' = [errno EXCEPT ![o] = "operation"]
  /\ UNCHANGED <<proxy, roots, pc, fields, heap, rc, raced>>

\* Mutant: each destructor tests the file plug-in's context.
PrivateIfNoFile(o) == root_ctx["file"] = Null

\* The destructor tests the shared context, not how the object was constructed.
TakenForPrivate(o) == root_ctx[Kind(o)] = Null

Destroy(o) ==
  /\ pc[o] = "live"
  /\ rc' = [rc EXCEPT ![o] = errno[o]]
  /\ GoTo(o, IF TakenForPrivate(o) THEN "free_client" ELSE "dead")
  /\ UNCHANGED <<proxy, roots, fields, heap, errno, raced>>

\* delete "will call something in ssl3 lib which reset errno".
Reset(o) == {errno[o], "library"}

FreeClient(o) ==
  /\ pc[o] = "free_client"
  /\ freed_client' = freed_client \cup {client[o]}
  /\ \E e \in Reset(o) : errno' = [errno EXCEPT ![o] = e]
  /\ GoTo(o, "free_ctx")
  /\ UNCHANGED <<proxy, roots, fields, given, freed_ctx, rc, raced>>

\* Mutant: errno is not put back.
NotRestored(o, e) == e

\* HttpFileSystemPlugIn puts errno back, HttpFilePlugIn does not.
Restored(o, e) == IF o \in FileSystemObjects THEN rc[o] ELSE e

FreeContext(o) ==
  /\ pc[o] = "free_ctx"
  /\ freed_ctx' = freed_ctx \cup {ctx[o]}
  /\ \E e \in Reset(o) : errno' = [errno EXCEPT ![o] = Restored(o, e)]
  /\ GoTo(o, "dead")
  /\ UNCHANGED <<proxy, roots, fields, given, freed_client, rc, raced>>

Constructor(o) ==
  \/ ConstructPrivate(o) \/ ConstructShared(o)
  \/ MakeContext(o) \/ MakeClient(o) \/ TakeContext(o) \/ TakeClient(o)

Destructor(o) == Destroy(o) \/ FreeClient(o) \/ FreeContext(o)

Next == ExportProxy \/ \E o \in Objects : Constructor(o) \/ Use(o) \/ Destructor(o)

Spec == Init /\ [][Next]_vars

-----------------------------------------------------------------------------
(* Properties *)

\* A context, a client, and the context inside a client are all still there.
Usable(c, k) ==
  /\ c \notin freed_ctx
  /\ k \notin freed_client
  /\ k # Null => given[k] \notin freed_ctx

\* No object that lives, and no object still to be constructed, meets a context or a
\* client that another's destructor has deleted, and nothing is deleted twice: the
\* destructors test the shared context of that moment, not whether their own object
\* took it (HttpFilePlugIn.cc:76, HttpFileSystemPlugIn.cc:50).
NeverDangling ==
  /\ \A o \in Objects :
       /\ pc[o] \in {"live", "free_client"} => Usable(ctx[o], client[o])
       /\ pc[o] = "take_client" => ctx[o] \notin freed_ctx
       /\ pc[o] = "free_ctx" => ctx[o] \notin freed_ctx
  /\ \A k \in Kinds : Usable(root_ctx[k], root_client[k])

\* Unless two constructors of a kind overlap while the shared pair is made, each object
\* has a client, made with the context the object has, and in a proxy all have the same
\* (HttpFilePlugIn.cc:65-70, HttpFileSystemPlugIn.cc:36-41).  When they do overlap, an
\* object may be left with a null client, or with another's context.
PairUnlessRaced ==
  \A o \in Objects :
    pc[o] = "live" /\ ~raced[Kind(o)] =>
      /\ client[o] # Null /\ given[client[o]] = ctx[o]
      /\ client[o] # o => client[o] = root_client[Kind(o)] /\ ctx[o] = root_ctx[Kind(o)]

\* After the destructor of an HttpFileSystemPlugIn, errno is what the last operation
\* left, "so that XrdPssSys::Stat will see it" (HttpFileSystemPlugIn.cc:45-54).
ErrnoSurvives ==
  \A o \in FileSystemObjects : pc[o] = "dead" => errno[o] # "library"
=============================================================================
