--------------------------- MODULE RuntimeComposer ---------------------------
(***************************************************************************)
(* Objects composed at run time of optional components.  The type of a     *)
(* component gets its index in the mask when a thread first asks for it;   *)
(* the layout of a mask is computed once, from the descriptions that are   *)
(* there at that moment, and kept for ever; an object gets other           *)
(* components by making a new block, moving what both have and destroying  *)
(* the old one.  A mask is the set of the types of its bits.               *)
(***************************************************************************)
EXTENDS Naturals

CONSTANTS Types,       \* of components
          Users,       \* threads
          Composers,   \* objects
          Nothing,
          IndexLimit,  \* 64 in the code
          Contents,    \* what a component may hold; Initial is one of them
          Initial,
          MaxThrows    \* bound on the constructors that throw

VARIABLES
  RuntimeComponentIndexLast, MyIndex, RuntimeComponentWraps,
  asking,              \* thread -> where it is in Index(), with its type and last
  metadatas,           \* the cached masks -> the types they lay out
  raced,               \* masks laid out while a description was being written
  composer,            \* object -> its components' contents, or Nothing
  maskOf,              \* object -> mask of its metadata
  lost,                \* type -> components never destroyed
  throws, wrecked      \* wrecked: RuntimeComponentWraps[-1].Destruct was called

indexVars    == <<RuntimeComponentIndexLast, MyIndex, RuntimeComponentWraps, asking>>
metadataVars == <<metadatas, raced>>
objectVars   == <<composer, maskOf, lost, throws, wrecked>>
vars == <<indexVars, metadataVars, objectVars>>

Idle == [at |-> "idle", type |-> Nothing, last |-> 0]
Masks == SUBSET Types

Init ==
  /\ RuntimeComponentIndexLast = 0
  /\ MyIndex = [T \in Types |-> 0]
  /\ RuntimeComponentWraps = [i \in 0..IndexLimit - 1 |-> Nothing]
  /\ asking = [t \in Users |-> Idle]
  /\ metadatas = [m \in {{}} |-> {}]
  /\ raced = {}
  /\ composer = [o \in Composers |-> Nothing]
  /\ maskOf = [o \in Composers |-> {}]
  /\ lost = [T \in Types |-> 0]
  /\ throws = 0 /\ wrecked = FALSE

-----------------------------------------------------------------------------
\* Index() of a type that has none, in the steps other threads can see.

LoadLast(t, T) ==
  /\ \/ asking[t] = Idle /\ MyIndex[T] = 0
     \/ asking[t].at = "load" /\ asking[t].type = T
  /\ asking' = [asking EXCEPT ![t] =
                  [at |-> "exchange", type |-> T, last |-> RuntimeComponentIndexLast]]
  /\ UNCHANGED <<RuntimeComponentIndexLast, MyIndex, RuntimeComponentWraps,
                 metadataVars, objectVars>>

ExchangeMutant(t) ==
  /\ asking[t].at = "exchange" /\ asking[t].last < IndexLimit
  /\ RuntimeComponentIndexLast' = asking[t].last + 1
  /\ asking' = [asking EXCEPT ![t].at = "publish"]
  /\ UNCHANGED <<MyIndex, RuntimeComponentWraps, metadataVars, objectVars>>
Exchange(t) ==
  /\ asking[t].at = "exchange" /\ asking[t].last < IndexLimit
  /\ IF RuntimeComponentIndexLast = asking[t].last
     THEN /\ RuntimeComponentIndexLast' = asking[t].last + 1
          /\ asking' = [asking EXCEPT ![t].at = "publish"]
     ELSE /\ asking' = [asking EXCEPT ![t].at = "load"]
          /\ UNCHANGED RuntimeComponentIndexLast
  /\ UNCHANGED <<MyIndex, RuntimeComponentWraps, metadataVars, objectVars>>

\* The index of a thread that comes second is never used.
Publish(t) ==
  /\ asking[t].at = "publish"
  /\ LET T == asking[t].type
     IN IF MyIndex[T] = 0
        THEN /\ MyIndex' = [MyIndex EXCEPT ![T] = asking[t].last + 1]
             /\ asking' = [asking EXCEPT ![t].at = "describe"]
        ELSE /\ asking' = [asking EXCEPT ![t] = Idle]
             /\ UNCHANGED MyIndex
  /\ UNCHANGED <<RuntimeComponentIndexLast, RuntimeComponentWraps, metadataVars,
                 objectVars>>

Describe(t) ==
  /\ asking[t].at = "describe"
  /\ RuntimeComponentWraps' =
       [RuntimeComponentWraps EXCEPT ![asking[t].last] = asking[t].type]
  /\ asking' = [asking EXCEPT ![t] = Idle]
  /\ UNCHANGED <<RuntimeComponentIndexLast, MyIndex, metadataVars, objectVars>>

-----------------------------------------------------------------------------
\* Objects, by a thread that has the bits of the mask.

Index(T) == MyIndex[T] - 1

\* RuntimeComposerMetadata(): a component with no size yet is left out.
Layout(mask) == {T \in mask : RuntimeComponentWraps[Index(T)] = T}

\* GetRuntimeComposerMetadata(), under its mutex.
Metadata(mask) ==
  IF mask \in DOMAIN metadatas THEN metadatas[mask] ELSE Layout(mask)
GetRuntimeComposerMetadata(mask) ==
  /\ metadatas' = [m \in DOMAIN metadatas \union {mask} |-> Metadata(m)]
  /\ raced' = IF /\ mask \notin DOMAIN metadatas
                 /\ \E t \in Users : asking[t].at = "describe" /\ asking[t].type \in mask
              THEN raced \union {mask} ELSE raced

\* The rollback of a constructor in which T throws goes down two at a time: it
\* misses the components before every second index, and passes 0 from an odd one.
RolledBack(laid, T) ==
  {U \in laid : Index(U) < Index(T) /\ (Index(T) - Index(U)) % 2 = 0}
Constructed(laid, T) == {U \in laid : Index(U) < Index(T)}

Throw(laid, T) ==
  /\ T \in laid /\ throws < MaxThrows
  /\ throws' = throws + 1
  /\ lost' = [U \in Types |->
                IF U \in Constructed(laid, T) \ RolledBack(laid, T)
                THEN lost[U] + 1 ELSE lost[U]]
  /\ wrecked' \in IF Index(T) % 2 = 1 THEN BOOLEAN ELSE {FALSE}
  /\ UNCHANGED <<composer, maskOf>>

\* UpdateComponents() moves what both blocks have; the old one is destroyed.
Moved(was, laid) == [T \in laid |-> IF T \in DOMAIN was THEN was[T] ELSE Initial]

\* RuntimeComposerBase(mask), and UpdateComponents(mask) of an object.
Compose(o, mask) ==
  /\ \A T \in mask : MyIndex[T] # 0
  /\ composer[o] # Nothing => maskOf[o] # mask
  /\ GetRuntimeComposerMetadata(mask)
  /\ \/ LET was == IF composer[o] = Nothing THEN [T \in {} |-> Initial] ELSE composer[o]
        IN /\ composer' = [composer EXCEPT ![o] = Moved(was, Metadata(mask))]
           /\ maskOf' = [maskOf EXCEPT ![o] = mask]
           /\ UNCHANGED <<lost, throws, wrecked>>
     \/ \E T \in Types : Throw(Metadata(mask), T)
  /\ UNCHANGED indexVars

AddComponents(o, mask)    == composer[o] # Nothing /\ Compose(o, maskOf[o] \union mask)
RemoveComponents(o, mask) == composer[o] # Nothing /\ Compose(o, maskOf[o] \ mask)
Create(o, mask)           == composer[o] = Nothing /\ Compose(o, mask)

\* Get<T>() and a write to it.
Set(o, T, c) ==
  /\ composer[o] # Nothing /\ T \in DOMAIN composer[o]
  /\ composer' = [composer EXCEPT ![o][T] = c]
  /\ UNCHANGED <<maskOf, lost, throws, wrecked, indexVars, metadataVars>>

Destroy(o) ==
  /\ composer[o] # Nothing
  /\ composer' = [composer EXCEPT ![o] = Nothing]
  /\ maskOf' = [maskOf EXCEPT ![o] = {}]
  /\ UNCHANGED <<lost, throws, wrecked, indexVars, metadataVars>>

Next ==
  /\ ~wrecked
  /\ \/ \E t \in Users : \/ \E T \in Types : LoadLast(t, T)
                         \/ Exchange(t) \/ Publish(t) \/ Describe(t)
     \/ /\ \E t \in Users : asking[t] = Idle
        /\ \E o \in Composers :
             \/ \E mask \in Masks :
                  Create(o, mask) \/ AddComponents(o, mask) \/ RemoveComponents(o, mask)
             \/ \E T \in Types, c \in Contents : Set(o, T, c)
             \/ Destroy(o)

Spec == Init /\ [][Next]_vars

-----------------------------------------------------------------------------
TypeOK ==
  /\ RuntimeComponentIndexLast \in 0..IndexLimit
  /\ MyIndex \in [Types -> 0..IndexLimit]
  /\ \A i \in DOMAIN RuntimeComponentWraps :
       RuntimeComponentWraps[i] \in Types \union {Nothing}
  /\ \A t \in Users : asking[t].at \in {"idle", "load", "exchange", "publish", "describe"}
  /\ DOMAIN metadatas \subseteq Masks /\ raced \subseteq DOMAIN metadatas
  /\ \A o \in Composers : composer[o] = Nothing \/ DOMAIN composer[o] \subseteq maskOf[o]
  /\ lost \in [Types -> Nat]

\* However the threads race for indexes, two types never share a bit, and the
\* bit of a type with no description yet is nobody else's.
BitsDistinct ==
  /\ \A T, U \in Types : MyIndex[T] # 0 /\ MyIndex[T] = MyIndex[U] => T = U
  /\ \A T \in Types : MyIndex[T] # 0 =>
       RuntimeComponentWraps[Index(T)] \in {T, Nothing}

\* An object has all components of its mask, unless the mask was laid out while
\* another thread was between publishing an index and describing it.
HasItsMask ==
  \A o \in Composers : composer[o] # Nothing /\ maskOf[o] \notin raced =>
    DOMAIN composer[o] = maskOf[o]

\* When other components come and go, those that stay keep what they hold.
ContentsKept ==
  [][\A o \in Composers : composer[o] # Nothing /\ composer'[o] # Nothing
        /\ composer'[o] # composer[o] =>
       \/ \E T \in DOMAIN composer[o] : \E c \in Contents :
            composer'[o] = [composer[o] EXCEPT ![T] = c]
       \/ \A T \in DOMAIN composer[o] \intersect DOMAIN composer'[o] :
            composer'[o][T] = composer[o][T]]_composer
=============================================================================
