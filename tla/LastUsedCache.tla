---------------------------- MODULE LastUsedCache ----------------------------
(***************************************************************************)
(* base::last_used_cache: a list of entries, the lowest first, and a map   *)
(* from an entry to its node of the list.  A node is known by the number   *)
(* that insert() gives it; lastUse is when up() was last called, which the *)
(* code does not keep.                                                     *)
(***************************************************************************)
EXTENDS Naturals, Sequences, SequencesExt

CONSTANTS Entries, NoEntry, MaxUps

VARIABLES _queue,   \* of [entry, node]
          _map,     \* entry -> node, or 0
          lastUse,  \* entry -> the number of the up(), or 0
          ups, taken

vars == <<_queue, _map, lastUse, ups, taken>>

Init == /\ _queue = <<>> /\ _map = [e \in Entries |-> 0]
        /\ lastUse = [e \in Entries |-> 0] /\ ups = 0 /\ taken = NoEntry

Position(node) == CHOOSE i \in DOMAIN _queue : _queue[i].node = node
FreeNode == CHOOSE n \in 1..Len(_queue) + 1 : \A i \in DOMAIN _queue : _queue[i].node # n
Spliced(node) == Append(RemoveAt(_queue, Position(node)), _queue[Position(node)])

up(e) ==
  /\ ups < MaxUps
  /\ ups' = ups + 1 /\ lastUse' = [lastUse EXCEPT ![e] = ups + 1]
  /\ IF _queue # <<>> /\ Last(_queue).entry = e
     THEN UNCHANGED <<_queue, _map>>
     ELSE IF _map[e] # 0
     THEN _queue' = Spliced(_map[e]) /\ UNCHANGED _map
     ELSE /\ _queue' = Append(_queue, [entry |-> e, node |-> FreeNode])
          /\ _map' = [_map EXCEPT ![e] = FreeNode]
  /\ UNCHANGED taken

remove(e) ==
  /\ _map[e] # 0
  /\ _queue' = RemoveAt(_queue, Position(_map[e]))
  /\ _map' = [_map EXCEPT ![e] = 0]
  /\ UNCHANGED <<lastUse, ups, taken>>

clear == /\ _queue' = <<>> /\ _map' = [e \in Entries |-> 0]
         /\ UNCHANGED <<lastUse, ups, taken>>

take_lowest ==
  /\ IF _queue = <<>> THEN taken' = NoEntry /\ UNCHANGED <<_queue, _map>>
     ELSE /\ taken' = Head(_queue).entry
          /\ _queue' = Tail(_queue)
          /\ _map' = [_map EXCEPT ![Head(_queue).entry] = 0]
  /\ UNCHANGED <<lastUse, ups>>

Next == clear \/ take_lowest \/ \E e \in Entries : up(e) \/ remove(e)
Spec == Init /\ [][Next]_vars

TypeOK ==
  /\ _queue \in Seq([entry : Entries, node : 1..Cardinality(Entries)])
  /\ _map \in [Entries -> 0..Cardinality(Entries)]
  /\ taken \in Entries \union {NoEntry}

\* The map leads from each entry to its own node, and to no node that was
\* erased; no entry is twice in the list.
MapFollowsList ==
  \A e \in Entries :
    LET at == {i \in DOMAIN _queue : _queue[i].entry = e}
    IN IF _map[e] = 0 THEN at = {}
       ELSE \E i \in at : at = {i} /\ _queue[i].node = _map[e]

\* The list is in the order of the last uses: what take_lowest() takes was
\* used before all that stay.
OldestFirst ==
  \A i, j \in DOMAIN _queue : i < j => lastUse[_queue[i].entry] < lastUse[_queue[j].entry]
=============================================================================
