------------------------ MODULE PlugInContextsProofs ------------------------
(***************************************************************************)
(* Proofs about PlugInContexts, for any number of objects of either kind.  *)
(***************************************************************************)
EXTENDS PlugInContexts, TLAPS

LEMMA KindOf == ASSUME NEW o PROVE Kind(o) \in Kinds
BY DEF Kind, Kinds

\* Types are kept: a pointer is NULL or names the object that made what it points to.
THEOREM TypeCorrect == Spec => []TypeOK
<1>1. Init => TypeOK
  BY DEF Init, TypeOK, Points, Pointers, Errnos
<1>2. TypeOK /\ [Next]_vars => TypeOK'
  <2> SUFFICES ASSUME TypeOK, [Next]_vars PROVE TypeOK'
    OBVIOUS
  <2> USE DEF TypeOK, Points, Pointers, Errnos, GoTo
  <2>1. CASE ExportProxy
    BY <2>1 DEF ExportProxy, roots, fields, heap
  <2>2. ASSUME NEW o \in Objects, Constructor(o) PROVE TypeOK'
    <3>1. Kind(o) \in Kinds
      BY KindOf
    <3>2. CASE ConstructPrivate(o)
      BY <3>2 DEF ConstructPrivate, roots
    <3>3. CASE ConstructShared(o)
      <4>1. raced' \in [Kinds -> BOOLEAN]
        BY <3>1, <3>3 DEF ConstructShared
      <4>2. QED BY <4>1, <3>3 DEF ConstructShared, roots, fields, heap
    <3>4. CASE MakeContext(o)
      BY <3>1, <3>4 DEF MakeContext, fields, heap
    <3>5. CASE MakeClient(o)
      BY <3>1, <3>5 DEF MakeClient, fields
    <3>6. CASE TakeContext(o)
      BY <3>1, <3>6 DEF TakeContext, roots, heap
    <3>7. CASE TakeClient(o)
      BY <3>1, <3>7 DEF TakeClient, SharedClient, roots, heap
    <3>8. QED BY <2>2, <3>2, <3>3, <3>4, <3>5, <3>6, <3>7 DEF Constructor
  <2>3. ASSUME NEW o \in Objects, Use(o) PROVE TypeOK'
    BY <2>3 DEF Use, roots, fields, heap
  <2>4. ASSUME NEW o \in Objects, Destructor(o) PROVE TypeOK'
    <3>1. CASE Destroy(o)
      BY <3>1 DEF Destroy, roots, fields, heap
    <3>2. CASE FreeClient(o)
      BY <3>2 DEF FreeClient, Reset, roots, fields
    <3>3. CASE FreeContext(o)
      BY <3>3 DEF FreeContext, Reset, Restored, roots, fields
    <3>4. QED BY <2>4, <3>1, <3>2, <3>3 DEF Destructor
  <2>5. CASE UNCHANGED vars
    BY <2>5 DEF vars, roots, fields, heap
  <2>6. QED BY <2>1, <2>2, <2>3, <2>4, <2>5 DEF Next
<1>3. QED BY <1>1, <1>2, PTL DEF Spec

-----------------------------------------------------------------------------
(* Nothing dangles. *)

\* p's fields, or the client p made, lead to what o made.
LeadsTo(p, o) == ctx[p] = o \/ client[p] = o \/ given[p] = o

Unshared(o) == \A k \in Kinds : root_ctx[k] # o /\ root_client[k] # o

\* What o made is o's alone.
Private(o) ==
  /\ ctx[o] = o /\ client[o] = o /\ given[o] = o
  /\ Unshared(o) /\ \A p \in Objects : p # o => ~LeadsTo(p, o)

\* What can be said of one object.  An object frees only what is its own, because as
\* long as one that is not lives, the shared context is there.
OwnershipOf(o) ==
  /\ pc[o] \in {"unborn", "make_ctx"} =>
       Unshared(o) /\ \A p \in Objects : ~LeadsTo(p, o)
  /\ pc[o] = "make_client" =>
       (\A k \in Kinds : root_client[k] # o) /\ (\A p \in Objects : client[p] # o)
  /\ pc[o] \in {"make_client", "take_ctx", "take_client"} => root_ctx[Kind(o)] # Null
  /\ pc[o] = "live" => Private(o) \/ root_ctx[Kind(o)] # Null
  /\ pc[o] \in {"free_client", "free_ctx"} => Private(o)
  /\ o \in freed_ctx => pc[o] = "dead" /\ Private(o)
  /\ o \in freed_client => pc[o] \in {"free_ctx", "dead"} /\ Private(o)

Ownership ==
  /\ Null \notin freed_ctx \cup freed_client
  /\ \A o \in Objects : OwnershipOf(o)

\* Ownership is what NeverDangling needs.
LEMMA OwnershipSuffices == TypeOK /\ Ownership => NeverDangling
<1> SUFFICES ASSUME TypeOK, Ownership PROVE NeverDangling
  OBVIOUS
<1>1. \A c \in Objects : c \in freed_ctx \cup freed_client => Private(c)
  BY DEF Ownership, OwnershipOf
<1>2. freed_ctx \cup freed_client \subseteq Objects
  BY DEF TypeOK, Ownership, Pointers
<1>3. \A k \in Kinds : Usable(root_ctx[k], root_client[k])
  <2> SUFFICES ASSUME NEW k \in Kinds PROVE Usable(root_ctx[k], root_client[k])
    OBVIOUS
  <2>1. root_ctx[k] \notin freed_ctx /\ root_client[k] \notin freed_client
    BY <1>1, <1>2 DEF Private, Unshared
  <2>2. ASSUME root_client[k] # Null PROVE given[root_client[k]] \notin freed_ctx
    <3>1. root_client[k] \in Objects
      BY <2>2 DEF TypeOK, Pointers
    <3>2. QED BY <1>1, <1>2, <3>1 DEF Private, Unshared, LeadsTo
  <2>3. QED BY <2>1, <2>2 DEF Usable
<1>4. ASSUME NEW o \in Objects, pc[o] \in {"live", "take_client", "free_client", "free_ctx"}
      PROVE  /\ ctx[o] \notin freed_ctx
             /\ pc[o] \in {"live", "free_client"} => Usable(ctx[o], client[o])
  <2>1. o \notin freed_ctx /\ (o \in freed_client => pc[o] = "free_ctx")
    BY <1>4 DEF Ownership, OwnershipOf
  <2>2. ctx[o] \notin freed_ctx
    BY <1>1, <1>2, <2>1 DEF Private, LeadsTo
  <2>3. ASSUME pc[o] \in {"live", "free_client"} PROVE Usable(ctx[o], client[o])
    <3>1. client[o] \notin freed_client
      BY <1>1, <1>2, <2>1, <2>3 DEF Private, LeadsTo
    <3>2. ASSUME client[o] # Null PROVE given[client[o]] \notin freed_ctx
      <4>1. client[o] \in Objects
        BY <3>2 DEF TypeOK, Pointers
      <4>2. CASE given[client[o]] = client[o]
        BY <4>1, <4>2, <1>1, <1>2, <2>1 DEF Private, LeadsTo
      <4>3. CASE given[client[o]] # client[o]
        BY <4>1, <4>3, <1>1, <1>2 DEF Private, LeadsTo
      <4>4. QED BY <4>2, <4>3
    <3>3. QED BY <2>2, <3>1, <3>2 DEF Usable
  <2>4. QED BY <2>2, <2>3
<1>5. QED BY <1>3, <1>4 DEF NeverDangling

\* A step that frees nothing, moves o alone and changes no other object's pointers
\* keeps Ownership if it keeps what is said of o, and leads nobody to what was nobody's.
LEMMA OwnershipKept == TypeOK /\ Ownership /\ [Next]_vars => Ownership'
<1> SUFFICES ASSUME TypeOK, Ownership, [Next]_vars PROVE Ownership'
  OBVIOUS
<1>n. Null \notin Objects
  BY ObjectsAssumption
<1>1. CASE ExportProxy
  BY <1>1 DEF ExportProxy, roots, fields, heap, Ownership, OwnershipOf, Private, Unshared,
     LeadsTo
<1>2. ASSUME NEW p \in Objects, Constructor(p) PROVE Ownership'
  <2>0. /\ freed_ctx' = freed_ctx /\ freed_client' = freed_client
        /\ Kind(p) \in Kinds
    BY <1>2, KindOf DEF Constructor, ConstructPrivate, ConstructShared, MakeContext,
       MakeClient, TakeContext, TakeClient, heap
  <2>p. OwnershipOf(p) /\ p \notin freed_ctx \cup freed_client
    BY <1>2 DEF Ownership, OwnershipOf, Constructor, ConstructPrivate, ConstructShared,
       MakeContext, MakeClient, TakeContext, TakeClient
  <2>h. Null \notin (freed_ctx \cup freed_client)'
    BY <2>0 DEF Ownership
  <2> SUFFICES ASSUME NEW o \in Objects PROVE OwnershipOf(o)'
    BY <2>h DEF Ownership
  <2>o. OwnershipOf(o)
    BY DEF Ownership
  <2> USE DEF TypeOK, GoTo, OwnershipOf, Private, Unshared, LeadsTo
  <2>1. CASE ConstructPrivate(p)
    BY <2>1, <2>0, <2>p, <2>o DEF ConstructPrivate, roots
  <2>2. CASE ConstructShared(p)
    BY <2>2, <2>0, <2>p, <2>o DEF ConstructShared, roots, fields, heap
  <2>3. CASE MakeContext(p)
    BY <2>3, <2>0, <2>p, <2>o, <1>n DEF MakeContext, fields, heap
  <2>4. CASE MakeClient(p)
    BY <2>4, <2>0, <2>p, <2>o DEF MakeClient, fields
  <2>5. CASE TakeContext(p)
    BY <2>5, <2>0, <2>p, <2>o DEF TakeContext, roots, heap
  <2>6. CASE TakeClient(p)
    BY <2>6, <2>0, <2>p, <2>o DEF TakeClient, SharedClient, roots, heap
  <2>7. QED BY <1>2, <2>1, <2>2, <2>3, <2>4, <2>5, <2>6 DEF Constructor
<1>3. ASSUME NEW p \in Objects, Use(p) PROVE Ownership'
  BY <1>3 DEF Use, roots, fields, heap, Ownership, OwnershipOf, Private, Unshared, LeadsTo
<1>4. ASSUME NEW p \in Objects, Destructor(p) PROVE Ownership'
  <2>1. UNCHANGED <<root_ctx, root_client, ctx, client, given>>
    BY <1>4 DEF Destructor, Destroy, FreeClient, FreeContext, roots, fields, heap
  <2>2. \A o \in Objects : Private(o)' = Private(o)
    BY <2>1 DEF Private, Unshared, LeadsTo
  <2>p. OwnershipOf(p)
    BY DEF Ownership
  <2>3. CASE Destroy(p)
    <3>1. freed_ctx' = freed_ctx /\ freed_client' = freed_client
      BY <2>3 DEF Destroy, heap
    <3>2. pc' = [pc EXCEPT ![p] = IF root_ctx[Kind(p)] = Null THEN "free_client" ELSE "dead"]
          /\ pc[p] = "live"
      BY <2>3 DEF Destroy, GoTo, TakenForPrivate
    <3>3. QED BY <2>1, <2>2, <2>p, <3>1, <3>2 DEF TypeOK, Ownership, OwnershipOf, Unshared, LeadsTo
  <2>4. CASE FreeClient(p)
    <3>1. Private(p) /\ pc[p] = "free_client"
      BY <2>4, <2>p DEF FreeClient, OwnershipOf
    <3>2. /\ freed_ctx' = freed_ctx /\ freed_client' = freed_client \cup {p}
          /\ pc' = [pc EXCEPT ![p] = "free_ctx"]
      BY <2>4, <3>1 DEF FreeClient, GoTo, Private
    <3>3. QED BY <1>n, <2>1, <2>2, <2>p, <3>1, <3>2 DEF TypeOK, Ownership, OwnershipOf, Unshared, LeadsTo
  <2>5. CASE FreeContext(p)
    <3>1. Private(p) /\ pc[p] = "free_ctx"
      BY <2>5, <2>p DEF FreeContext, OwnershipOf
    <3>2. /\ freed_client' = freed_client /\ freed_ctx' = freed_ctx \cup {p}
          /\ pc' = [pc EXCEPT ![p] = "dead"]
      BY <2>5, <3>1 DEF FreeContext, GoTo, Private
    <3>3. QED BY <1>n, <2>1, <2>2, <2>p, <3>1, <3>2 DEF TypeOK, Ownership, OwnershipOf, Unshared, LeadsTo
  <2>6. QED BY <1>4, <2>3, <2>4, <2>5 DEF Destructor
<1>5. CASE UNCHANGED vars
  BY <1>5 DEF vars, roots, fields, heap, Ownership, OwnershipOf, Private, Unshared, LeadsTo
<1>6. QED BY <1>1, <1>2, <1>3, <1>4, <1>5 DEF Next

\* No plug-in object meets a context or a client that a destructor has deleted, and
\* none is deleted twice, however the constructors race.
THEOREM NothingDangles == Spec => []NeverDangling
<1>1. Init => Ownership
  BY ObjectsAssumption DEF Init, Ownership, OwnershipOf, Private, Unshared, LeadsTo
<1>2. QED BY TypeCorrect, OwnershipSuffices, OwnershipKept, <1>1, PTL DEF Spec

-----------------------------------------------------------------------------
(* The shared pair. *)

Making(o) == pc[o] \in {"make_ctx", "make_client"}

OfKind(k) == {o \in Objects : Kind(o) = k}

\* What can be said of a kind whose constructors have not overlapped: one object makes
\* the pair, the client with the context, and the pair is whole when nobody makes it.
PairOf(k) ==
  /\ \A o, p \in OfKind(k) : Making(o) /\ Making(p) => o = p
  /\ root_client[k] # Null => root_ctx[k] # Null /\ given[root_client[k]] = root_ctx[k]
  /\ root_ctx[k] # Null /\ root_client[k] = Null =>
       \E o \in OfKind(k) : pc[o] = "make_client"
  /\ \A o \in OfKind(k) :
       /\ Making(o) => root_client[k] = Null
       /\ pc[o] = "make_ctx" => root_ctx[k] = Null
       /\ pc[o] \in {"take_ctx", "take_client"} => root_client[k] # Null
       /\ pc[o] = "take_client" => ctx[o] = root_ctx[k]
       /\ pc[o] = "live" =>
            \/ ctx[o] = o /\ client[o] = o /\ given[o] = o
            \/ client[o] = root_client[k] /\ ctx[o] = root_ctx[k] /\ root_client[k] # Null

PairInv == \A k \in Kinds : ~raced[k] => PairOf(k)

LEMMA PairSuffices == PairInv => PairUnlessRaced
<1> SUFFICES ASSUME PairInv, NEW o \in Objects, pc[o] = "live", ~raced[Kind(o)]
             PROVE  /\ client[o] # Null /\ given[client[o]] = ctx[o]
                    /\ client[o] # o => client[o] = root_client[Kind(o)]
                                       /\ ctx[o] = root_ctx[Kind(o)]
  BY DEF PairUnlessRaced
<1>1. PairOf(Kind(o)) /\ o \in OfKind(Kind(o))
  BY KindOf DEF PairInv, OfKind
<1>2. QED BY <1>1, ObjectsAssumption DEF PairOf

LEMMA PairKept == TypeOK /\ Ownership /\ PairInv /\ [Next]_vars => PairInv'
<1> SUFFICES ASSUME TypeOK, Ownership, PairInv, [Next]_vars,
                    NEW k \in Kinds, ~raced[k]'
             PROVE  PairOf(k)'
  BY DEF PairInv
<1>n. Null \notin Objects
  BY ObjectsAssumption
<1>1. ASSUME UNCHANGED <<roots, pc, fields, given, raced>> PROVE PairOf(k)'
  BY <1>1 DEF PairInv, PairOf, OfKind, Making, roots, fields
<1>2. ASSUME NEW p \in Objects, Constructor(p) PROVE PairOf(k)'
  <2>1. OwnershipOf(p)
    BY DEF Ownership
  <2>2. ~raced[k] /\ PairOf(k)
    BY <1>2 DEF TypeOK, PairInv, Constructor, ConstructPrivate, ConstructShared,
       MakeContext, MakeClient, TakeContext, TakeClient
  <2> USE DEF TypeOK, GoTo, PairOf, OfKind, Making
  <2>3. CASE ConstructPrivate(p)
    BY <1>n, <2>1, <2>2, <2>3
       DEF ConstructPrivate, roots, OwnershipOf, Unshared, LeadsTo
  <2>4. CASE ConstructShared(p)
    BY <2>2, <2>4 DEF ConstructShared, roots, fields, heap
  <2>5. CASE MakeContext(p)
    BY <1>n, <2>2, <2>5 DEF MakeContext, fields, heap
  <2>6. CASE MakeClient(p)
    BY <1>n, <2>1, <2>2, <2>6 DEF MakeClient, fields, OwnershipOf
  <2>7. CASE TakeContext(p)
    BY <2>2, <2>7 DEF TakeContext, roots, heap
  <2>8. CASE TakeClient(p)
    BY <2>2, <2>8 DEF TakeClient, SharedClient, roots, heap
  <2>9. QED BY <1>2, <2>3, <2>4, <2>5, <2>6, <2>7, <2>8 DEF Constructor
<1>3. ASSUME NEW p \in Objects, Destructor(p) PROVE PairOf(k)'
  <2>1. /\ UNCHANGED <<roots, fields, given, raced>>
        /\ pc[p] \in {"live", "free_client", "free_ctx"}
        /\ \E point \in {"free_client", "free_ctx", "dead"} : pc' = [pc EXCEPT ![p] = point]
    BY <1>3 DEF Destructor, Destroy, FreeClient, FreeContext, GoTo, heap
  <2>2. QED BY <2>1 DEF TypeOK, PairInv, PairOf, OfKind, Making, roots, fields
<1>4. CASE ExportProxy
  BY <1>1, <1>4 DEF ExportProxy, heap
<1>5. ASSUME NEW p \in Objects, Use(p) PROVE PairOf(k)'
  BY <1>1, <1>5 DEF Use, heap
<1>6. CASE UNCHANGED vars
  BY <1>1, <1>6 DEF vars, heap
<1>7. QED BY <1>2, <1>3, <1>4, <1>5, <1>6 DEF Next

\* Unless constructors of its kind overlapped, every object has a whole pair.
THEOREM PairsWhole == Spec => []PairUnlessRaced
<1>1. Init => Ownership /\ PairInv
  BY ObjectsAssumption DEF Init, Ownership, OwnershipOf, Private, Unshared, LeadsTo,
     PairInv, PairOf, OfKind, Making
<1>2. QED BY TypeCorrect, OwnershipKept, PairKept, PairSuffices, <1>1, PTL DEF Spec

-----------------------------------------------------------------------------
(* errno. *)

\* Up to its destructor errno is not the library's; from there on the copy is not.
ErrnoOf(o) ==
  /\ pc[o] \notin {"free_client", "free_ctx"} => errno[o] # "library"
  /\ pc[o] \in {"free_client", "free_ctx"} => rc[o] # "library"

ErrnoInv == \A o \in FileSystemObjects : ErrnoOf(o)

\* The destructor of an HttpFileSystemPlugIn leaves errno as the last operation did.
THEOREM ErrnoPreserved == Spec => []ErrnoSurvives
<1>1. Init => ErrnoInv
  BY DEF Init, ErrnoInv, ErrnoOf, Objects
<1>2. TypeOK /\ ErrnoInv /\ [Next]_vars => ErrnoInv'
  <2> SUFFICES ASSUME TypeOK, ErrnoInv, [Next]_vars, NEW q \in FileSystemObjects
               PROVE  ErrnoOf(q)'
    BY DEF ErrnoInv
  <2>0. ErrnoOf(q) /\ q \in Objects
    BY DEF ErrnoInv, Objects
  <2> USE <2>0 DEF TypeOK, ErrnoOf, GoTo
  <2>1. CASE ExportProxy
    BY <2>1 DEF ExportProxy
  <2>2. ASSUME NEW o \in Objects, Constructor(o) PROVE ErrnoOf(q)'
    <3>1. /\ errno' = errno /\ rc' = rc
          /\ pc[o] \notin {"free_client", "free_ctx"}
          /\ \E point \in Points \ {"free_client", "free_ctx"} :
               pc' = [pc EXCEPT ![o] = point]
      BY <2>2 DEF Constructor, ConstructPrivate, ConstructShared, MakeContext, MakeClient,
         TakeContext, TakeClient, Points
    <3>2. QED BY <3>1
  <2>3. ASSUME NEW o \in Objects, Use(o) PROVE ErrnoOf(q)'
    BY <2>3 DEF Use
  <2>4. ASSUME NEW o \in Objects, Destroy(o) PROVE ErrnoOf(q)'
    BY <2>4 DEF Destroy
  <2>5. ASSUME NEW o \in Objects, FreeClient(o) PROVE ErrnoOf(q)'
    BY <2>5 DEF FreeClient
  <2>6. ASSUME NEW o \in Objects, FreeContext(o) PROVE ErrnoOf(q)'
    BY <2>6 DEF FreeContext, Restored
  <2>7. CASE UNCHANGED vars
    BY <2>7 DEF vars
  <2>8. QED BY <2>1, <2>2, <2>3, <2>4, <2>5, <2>6, <2>7 DEF Next, Destructor
<1>3. ErrnoInv => ErrnoSurvives
  BY DEF ErrnoInv, ErrnoOf, ErrnoSurvives
<1>4. QED BY TypeCorrect, <1>1, <1>2, <1>3, PTL DEF Spec
=============================================================================
