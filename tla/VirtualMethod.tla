--------------------------- MODULE VirtualMethod ---------------------------
(***************************************************************************)
(* virtual_object, virtual_override and virtual_method of                  *)
(* base/virtual_method.h: multiple dispatch, for a method of two virtual   *)
(* arguments over one hierarchy.  Classes and overrides register           *)
(* themselves from static constructors, in any order; the first call makes *)
(* the table of the method, and each call fills its entry of it.           *)
(* A method is named by the classes of its arguments.                      *)
(***************************************************************************)
EXTENDS Integers, FiniteSets, Sequences, SequencesExt

CONSTANTS
  Classes,        \* the classes that derive virtual_object
  ParentOf,       \* the parent of each
  NoParent,       \* that of the root
  Overrides,      \* the pairs of classes that have a virtual_override
  DefaultCall,    \* BaseMethod::default_call
  Null,
  MaxDispatches   \* bound of the calls

VARIABLES
  childEntries,   \* virtual_object_get_child_entries()
  tableIndex,     \* _index of each class, from 0
  overrideMap,    \* virtual_method_get_override_map()
  table,          \* virtual_method_get_table_data(), empty before the first call
  fired,          \* first_dispatch_fired()
  dispatched,     \* the last call: its arguments' classes, what it called, fresh
  calls           \* the number of calls

vars == <<childEntries, tableIndex, overrideMap, table, fired, dispatched, calls>>

\* is_parent<>::check of c and its parents.
Parents[c \in Classes] ==
  {c} \cup IF ParentOf[c] = NoParent THEN {} ELSE Parents[ParentOf[c]]

Registered == {childEntries[i] : i \in DOMAIN childEntries}

\* virtual_object_register_child: before the first of its parents, so that the
\* indices of all that follow move by one.
FirstParentMutant(c) == Len(childEntries) + 1

FirstParent(c) ==
  LET found == {i \in DOMAIN childEntries : childEntries[i] \in Parents[c]}
  IN IF found = {} THEN Len(childEntries) + 1
     ELSE CHOOSE i \in found : \A j \in found : i <= j

RegisterChild(c) ==
  /\ c \notin Registered /\ ~fired
  /\ childEntries' = InsertAt(childEntries, FirstParent(c), c)
  /\ tableIndex' = [d \in Classes |->
       CASE d = c -> FirstParent(c) - 1
         [] d \in Registered /\ tableIndex[d] >= FirstParent(c) - 1 -> tableIndex[d] + 1
         [] OTHER -> tableIndex[d]]
  /\ UNCHANGED <<overrideMap, table, fired, dispatched, calls>>

\* virtual_method_register_override: the key points to the indices.
RegisterOverride(o) ==
  /\ o \notin overrideMap /\ ~fired
  /\ overrideMap' = overrideMap \cup {o}
  /\ UNCHANGED <<childEntries, tableIndex, table, fired, dispatched, calls>>

-----------------------------------------------------------------------------
Indices == 0 .. Len(childEntries) - 1
Index(pair) == <<tableIndex[pair[1]], tableIndex[pair[2]]>>

\* virtual_method_prepare_table
Prepared ==
  IF fired THEN table
  ELSE [at \in Indices \X Indices |->
          IF \E o \in overrideMap : Index(o) = at
          THEN CHOOSE o \in overrideMap : Index(o) = at ELSE Null]

\* The indices at which the loop of table_fill_entry_helper looks, from start
\* on: good() asks about the entry looked at before, not about the next one.
Looked(start) ==
  {i \in Indices : /\ i >= start
                   /\ \A k \in start + 1 .. i - 1 :
                        childEntries[k + 1] \in Parents[childEntries[start + 1]]}

\* The same for the two nested loops: the first entry that is filled.
Before(p, q) == p[1] < q[1] \/ (p[1] = q[1] /\ p[2] < q[2])

FillEntry(t, at) ==
  LET found == {p \in Looked(at[1]) \X Looked(at[2]) : t[p] # Null}
  IN IF found = {} THEN DefaultCall
     ELSE t[CHOOSE p \in found : \A q \in found : p = q \/ Before(p, q)]

\* virtual_method::call, once the classes it needs are all registered.  The call
\* is fresh if no earlier one has filled an entry at which it looks: such an entry
\* counts as found, also one that holds the default.
Call(a, b) ==
  LET t == Prepared  at == Index(<<a, b>>)
      entry == IF t[at] # Null THEN t[at] ELSE FillEntry(t, at)
      fresh == \A p \in Looked(at[1]) \X Looked(at[2]) :
                 t[p] # Null => \E o \in overrideMap : Index(o) = p
  IN /\ calls < MaxDispatches /\ calls' = calls + 1
     /\ {a, b} \cup UNION {{o[1], o[2]} : o \in overrideMap} \subseteq Registered
     /\ table' = [t EXCEPT ![at] = entry] /\ fired' = TRUE
     /\ dispatched' = [arguments |-> <<a, b>>, method |-> entry, fresh |-> fresh]
     /\ UNCHANGED <<childEntries, tableIndex, overrideMap>>

-----------------------------------------------------------------------------
Init ==
  /\ childEntries = <<>> /\ tableIndex = [c \in Classes |-> -1]
  /\ overrideMap = {} /\ table = [at \in {} |-> Null] /\ fired = FALSE
  /\ dispatched = Null /\ calls = 0

Next ==
  \/ \E c \in Classes : RegisterChild(c)
  \/ \E o \in Overrides : RegisterOverride(o)
  \/ \E a, b \in Classes : Call(a, b)

Spec == Init /\ [][Next]_vars

-----------------------------------------------------------------------------
\* The type invariant.
TypeOK ==
  /\ Registered \subseteq Classes /\ Len(childEntries) <= Cardinality(Classes)
  /\ tableIndex \in [Classes -> -1 .. Cardinality(Classes) - 1]
  /\ overrideMap \subseteq Overrides /\ fired \in BOOLEAN
  /\ DOMAIN table \subseteq Indices \X Indices
  /\ \A at \in DOMAIN table : table[at] \in Overrides \cup {DefaultCall, Null}
  /\ calls \in 0 .. MaxDispatches

\* Whatever the order of the static constructors, each class knows its place
\* among the entries, and children come before their parents.
EntriesOrdered ==
  /\ \A c \in Classes :
       IF c \in Registered THEN childEntries[tableIndex[c] + 1] = c
                           ELSE tableIndex[c] = -1
  /\ \A i, j \in DOMAIN childEntries :
       childEntries[j] \in Parents[childEntries[i]] => i <= j

\* Only parents of c come after it: no class of another branch was registered
\* between them.
Alone(c) ==
  \A i \in tableIndex[c] + 2 .. Len(childEntries) : childEntries[i] \in Parents[c]

\* An override fits a call if its classes are those of the arguments or parents
\* of them, and is nearest if no other that fits has a class further down, in
\* the first argument or, with the same first class, in the second.
Fits(o, given) == o[1] \in Parents[given[1]] /\ o[2] \in Parents[given[2]]
Nearest(o, given) ==
  /\ Fits(o, given)
  /\ \A u \in overrideMap :
       Fits(u, given) /\ o[1] \in Parents[u[1]]
         => o[1] = u[1] /\ (o[2] \in Parents[u[2]] => o[2] = u[2])

\* An override that is registered for the very classes of the arguments is
\* called, whatever was called before.  For classes that are Alone what is called
\* fits or is the default; and in a fresh call it is the nearest that fits, and
\* the default only if none does.
DispatchFits ==
  fired =>
    LET given == dispatched.arguments  method == dispatched.method
    IN /\ given \in overrideMap => method = given
       /\ Alone(given[1]) /\ Alone(given[2]) =>
            /\ method # DefaultCall => Fits(method, given)
            /\ dispatched.fresh =>
                 IF method = DefaultCall THEN ~\E u \in overrideMap : Fits(u, given)
                                         ELSE Nearest(method, given)
=============================================================================
