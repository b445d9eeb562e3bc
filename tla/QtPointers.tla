----------------------------- MODULE QtPointers -----------------------------
(***************************************************************************)
(* base::weak_qptr, base::unique_qptr and object_ptr: pointers to QObjects *)
(* that a parent or Qt may delete at any time.  All three keep a QPointer, *)
(* which is null once its object is gone; they differ in when they delete  *)
(* the object themselves.  An object here is a live one or a free name.    *)
(***************************************************************************)
EXTENDS FiniteSets, Naturals

CONSTANTS QObjects,
          Unique, Scoped, Weak,  \* unique_qptr, object_ptr and weak_qptr
          Null

VARIABLES
  holds,      \* pointer -> live object or Null
  living,     \* objects that exist
  parent,     \* object -> parent() or Null
  deferred,   \* deleteLater() was called
  loose,      \* raw pointers that the program has after release()
  forgotten   \* objects that object_ptr dropped and that nothing deletes

vars == <<holds, living, parent, deferred, loose, forgotten>>

Owning == Unique \union Scoped
Pointers == Owning \union Weak

Init ==
  /\ holds = [p \in Pointers |-> Null]
  /\ living = {} /\ parent = [o \in QObjects |-> Null]
  /\ deferred = {} /\ loose = {} /\ forgotten = {}

\* An object with its children, theirs and so on, which are deleted with it.
Subtree(o) ==
  {c \in living :
     \A S \in SUBSET living :
       (\A d \in living : d = o \/ parent[d] \in S => d \in S) => c \in S}

\* The pointers h, when the objects gone have been deleted.
Settle(h, gone) ==
  /\ holds' = [p \in Pointers |-> IF h[p] \in gone THEN Null ELSE h[p]]
  /\ living' = living \ gone
  /\ parent' = [o \in QObjects |-> IF o \in gone THEN Null ELSE parent[o]]
  /\ deferred' = deferred \ gone
  /\ loose' = loose \ gone
  /\ forgotten' = forgotten \ gone

Delete(o) == Settle(holds, Subtree(o))

-----------------------------------------------------------------------------
\* Owning pointers.

\* make_unique_q(), emplace(), object_ptr(parent, ...) and create(), with a
\* parent that does not die with the object the pointer had.
Create(p, o, par) ==
  /\ p \in Owning /\ o \notin living
  /\ par \in (living \union {Null}) \ Subtree(holds[p])
  /\ LET gone == Subtree(holds[p])
     IN /\ holds' = [q \in Pointers |-> IF q = p THEN o
                                        ELSE IF holds[q] \in gone THEN Null ELSE holds[q]]
        /\ living' = (living \ gone) \union {o}
        /\ parent' = [c \in QObjects |-> IF c = o THEN par
                                         ELSE IF c \in gone THEN Null ELSE parent[c]]
        /\ deferred' = deferred \ gone /\ loose' = loose \ gone
        /\ forgotten' = forgotten \ gone

\* unique_qptr(pointer), reset(value) and object_ptr::fromRaw().
Adopt(p, o) ==
  /\ p \in Owning /\ (p \in Scoped => holds[p] = Null)
  /\ o \in loose \ Subtree(holds[p])
  /\ LET gone == Subtree(holds[p])
     IN /\ holds' = [q \in Pointers |-> IF q = p THEN o
                                        ELSE IF holds[q] \in gone THEN Null ELSE holds[q]]
        /\ living' = living \ gone
        /\ parent' = [c \in QObjects |-> IF c \in gone THEN Null ELSE parent[c]]
        /\ deferred' = deferred \ gone /\ loose' = loose \ (gone \union {o})
        /\ forgotten' = forgotten \ gone

\* Move assignment between pointers of one type; a unique_qptr takes the other
\* object after destroy(), an object_ptr before: an object that dies with the
\* one that was there ends up in neither.
MoveMutant(p, q) ==
  /\ {p, q} \subseteq Unique \/ {p, q} \subseteq Scoped
  /\ p # q /\ holds[q] # Null
  /\ Settle([holds EXCEPT ![p] = holds[q]], Subtree(holds[p]))
Move(p, q) ==
  /\ {p, q} \subseteq Unique \/ {p, q} \subseteq Scoped
  /\ p # q /\ holds[q] # Null
  /\ Settle([holds EXCEPT ![p] = holds[q], ![q] = Null], Subtree(holds[p]))

\* reset(), "= nullptr" of a unique_qptr, destroy() of an object_ptr.
Reset(p) ==
  /\ p \in Owning /\ holds[p] # Null
  /\ Delete(holds[p])

release(p) ==
  /\ p \in Owning /\ holds[p] # Null
  /\ holds' = [holds EXCEPT ![p] = Null]
  /\ loose' = loose \union {holds[p]}
  /\ UNCHANGED <<living, parent, deferred, forgotten>>

\* "= nullptr" of an object_ptr, and the move from one to a derived type: what
\* the pointer had is dropped, not deleted.
Drop(p, q) ==
  /\ {p, q} \subseteq Scoped /\ holds[p] # Null
  /\ holds' = IF p = q THEN [holds EXCEPT ![p] = Null]
              ELSE [holds EXCEPT ![p] = holds[q], ![q] = Null]
  /\ forgotten' = IF parent[holds[p]] = Null THEN forgotten \union {holds[p]} ELSE forgotten
  /\ UNCHANGED <<living, parent, deferred, loose>>

destroyDelayed(p) ==
  /\ p \in Scoped /\ holds[p] # Null
  /\ deferred' = deferred \union {holds[p]}
  /\ holds' = [holds EXCEPT ![p] = Null]
  /\ UNCHANGED <<living, parent, loose, forgotten>>

\* The destructors; the name of the pointer is free for another.
Destruct(p) ==
  /\ p \in Owning /\ holds[p] # Null
  /\ IF p \in Unique \/ parent[holds[p]] = Null
     THEN Delete(holds[p])
     ELSE Settle([holds EXCEPT ![p] = Null], {})

\* A weak_qptr is made of, or assigned, any other pointer or nullptr.
Observe(w, o) ==
  /\ w \in Weak /\ o \in living \union {Null} /\ holds[w] # o
  /\ holds' = [holds EXCEPT ![w] = o]
  /\ UNCHANGED <<living, parent, deferred, loose, forgotten>>

-----------------------------------------------------------------------------
\* What Qt and the rest of the program do.

setParent(o, par) ==
  /\ o \in living /\ par \in living \ Subtree(o) /\ parent[o] # par
  /\ parent' = [parent EXCEPT ![o] = par]
  /\ loose' = loose \ {o} /\ forgotten' = forgotten \ {o}
  /\ UNCHANGED <<holds, living, deferred>>

DeferredDelete == \E o \in deferred : Delete(o)

\* "delete" of a raw pointer, even of one that an owner still holds.
DeleteElsewhere == \E o \in living : Delete(o)

Next ==
  \/ \E p \in Owning :
       \/ \E o \in QObjects : Adopt(p, o) \/ \E par \in QObjects \union {Null} : Create(p, o, par)
       \/ \E q \in Owning : Move(p, q) \/ Drop(p, q)
       \/ Reset(p) \/ release(p) \/ destroyDelayed(p) \/ Destruct(p)
  \/ \E w \in Weak, o \in QObjects \union {Null} : Observe(w, o)
  \/ \E o, par \in QObjects : setParent(o, par)
  \/ DeferredDelete \/ DeleteElsewhere

Spec == Init /\ [][Next]_vars

-----------------------------------------------------------------------------
TypeOK ==
  /\ holds \in [Pointers -> living \union {Null}]
  /\ parent \in [QObjects -> living \union {Null}]
  /\ living \subseteq QObjects
  /\ deferred \subseteq living /\ loose \subseteq living /\ forgotten \subseteq living

Owners(o) == {p \in Owning : holds[p] = o}

\* Whatever is moved, reset or deleted elsewhere, two owners never share an
\* object, and one that was released or will be deleted has no owner.
OneOwner ==
  \A o \in living : /\ Cardinality(Owners(o)) <= 1
                    /\ o \in loose \union deferred => Owners(o) = {}

\* Every object that exists will be deleted by a parent, by its owner, by Qt's
\* deferred delete or by who released it, except one that object_ptr dropped.
SomeoneDeletes ==
  \A o \in living :
    \/ parent[o] # Null \/ Owners(o) # {}
    \/ o \in deferred \union loose \union forgotten

\* An object_ptr that goes out of scope leaves an object with a parent alone.
ScopeSparesChildren ==
  [][\A p \in Scoped, o \in QObjects :
       Destruct(p) /\ holds[p] = o /\ parent[o] # Null => o \in living']_vars
=============================================================================
