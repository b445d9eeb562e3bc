---------------------------- MODULE XcbConnection ----------------------------
(***************************************************************************)
(* A connection to the X server that its users share, for as long as one   *)
(* of them holds a SharedConnection: the handlers of its events, the event *)
(* mask of the root window, and GetTimestamp(), which runs an event loop   *)
(* of its own until the server tells of the change of a property.  The     *)
(* connection of Qt, and its QtEventFilter, are not modelled.              *)
(***************************************************************************)
EXTENDS Naturals, Sequences, SequencesExt

CONSTANTS XcbUsers,
          Bits,        \* of an event mask, PropertyChange among them
          PropertyChange,
          MaxWire,     \* bound on the events not read
          MaxMasks     \* bound on the lifetimes of event masks

VARIABLES
  connection,  \* "none", "up" or "failed"
  holders,     \* of a SharedConnection
  handlers,    \* whose handlers are in the vector, in its order; a user of
               \* GetTimestamp() is <<u, "stamp">>, another one <<u, "own">>
  notifier,    \* of EventHandlers: "none" without an entry, "on" or "null"
  wire,        \* "other" and "stamp" events that are not read
  mask,        \* of the root window
  masks,       \* live lifetimes of ChangeWindowEventMask(), the newest last
  loops,       \* the nested event loops of GetTimestamp(), the inner one last
  toldFailed,  \* handlers that were called with nullptr
  dropped      \* users whose bits another lifetime took away

vars == <<connection, holders, handlers, notifier, wire, mask, masks, loops,
          toldFailed, dropped>>

Init == /\ connection = "none" /\ holders = {} /\ handlers = <<>>
        /\ notifier = "none" /\ wire = <<>> /\ mask = {} /\ masks = <<>>
        /\ loops = <<>> /\ toldFailed = {} /\ dropped = {}

HasError == connection # "up"
InLoop(u) == \E i \in DOMAIN loops : loops[i].user = u
HasMask(h) == \E i \in DOMAIN masks : masks[i].user = h
Uses(u) == InLoop(u) \/ Contains(handlers, <<u, "own">>) \/ HasMask(<<u, "own">>)

-----------------------------------------------------------------------------
\* SharedConnection() shares what another user holds, be it failed, or connects
\* anew, which may fail at once.
Connect(u) ==
  /\ u \notin holders /\ holders' = holders \union {u}
  /\ IF connection = "none" THEN connection' \in {"up", "failed"} ELSE UNCHANGED connection
  /\ UNCHANGED <<handlers, notifier, wire, mask, masks, loops, toldFailed, dropped>>

\* The last one disconnects, and the server forgets the mask of this client.
Disconnect(u) ==
  /\ u \in holders /\ ~Uses(u) /\ holders' = holders \ {u}
  /\ IF holders' = {}
     THEN connection' = "none" /\ wire' = <<>> /\ mask' = {}
     ELSE UNCHANGED <<connection, wire, mask>>
  /\ UNCHANGED <<handlers, notifier, masks, loops, toldFailed, dropped>>

\* InstallEventHandler() and its lifetime.
Installed(h) ==
  /\ handlers' = Append(handlers, h)
  /\ notifier' = IF notifier = "none" THEN "on" ELSE notifier
Removed(h) ==
  /\ handlers' = RemoveAt(handlers, CHOOSE i \in DOMAIN handlers : handlers[i] = h)
  /\ notifier' = IF handlers' = <<>> THEN "none" ELSE notifier
  /\ toldFailed' = toldFailed \ {h}

InstallEventHandler(u) ==
  /\ u \in holders /\ ~HasError /\ ~Contains(handlers, <<u, "own">>)
  /\ Installed(<<u, "own">>)
  /\ UNCHANGED <<connection, holders, wire, mask, masks, loops, toldFailed, dropped>>
RemoveEventHandler(u) ==
  /\ Contains(handlers, <<u, "own">>)
  /\ Removed(<<u, "own">>)
  /\ UNCHANGED <<connection, holders, wire, mask, masks, loops, dropped>>

\* ChangeWindowEventMask(): any common bit counts as added, and as not removed.
Unneeded(bits, mode) == CASE mode = "Add"     -> mask \intersect bits # {}
                          [] mode = "Remove"  -> mask \intersect bits = {}
                          [] mode = "Replace" -> FALSE
Changed(bits, mode) == CASE mode = "Add"     -> mask \union bits
                         [] mode = "Remove"  -> mask \ bits
                         [] mode = "Replace" -> bits
\* Lifetimes of the sequence ms that added bits which the mask m has not.
Losers(ms, m) == {ms[i].user : i \in {j \in DOMAIN ms : ~ms[j].added \subseteq m}}

ChangeMask(h, bits, mode) ==
  LET same == Unneeded(bits, mode) \/ mask = bits
      added == IF mode = "Remove" THEN {} ELSE bits
  IN /\ mask' = IF same THEN mask ELSE Changed(bits, mode)
     /\ masks' = Append(masks, [user |-> h, added |-> added, old |-> mask, reverts |-> ~same])
     /\ dropped' = (dropped \ {h})
                   \union (IF mode = "Add" /\ ~same THEN {} ELSE Losers(masks', mask'))
\* A lifetime that changed the mask puts the old one back, whatever it is now.
RevertMask(h) ==
  LET at == CHOOSE i \in DOMAIN masks : masks[i].user = h
      l == masks[at]
  IN /\ masks' = RemoveAt(masks, at)
     /\ mask' = IF l.reverts /\ ~HasError THEN l.old ELSE mask
     /\ dropped' = (dropped \ {h})
                   \union (IF at = Len(masks) THEN {} ELSE Losers(masks', mask'))

ChangeWindowEventMask(u) ==
  /\ u \in holders /\ ~HasError /\ ~HasMask(<<u, "own">>) /\ Len(masks) < MaxMasks
  /\ \E bits \in SUBSET Bits \ {{}}, mode \in {"Add", "Remove", "Replace"} :
       ChangeMask(<<u, "own">>, bits, mode)
  /\ UNCHANGED <<connection, holders, handlers, notifier, wire, loops, toldFailed>>
RevertWindowEventMask(u) ==
  /\ HasMask(<<u, "own">>) /\ RevertMask(<<u, "own">>)
  /\ UNCHANGED <<connection, holders, handlers, notifier, wire, loops, toldFailed>>

-----------------------------------------------------------------------------
\* GetTimestamp() until its loop runs.  A failure inside shows as an error of
\* the property's change, or to the handler.
GetTimestamp(u) ==
  /\ u \in holders /\ ~HasError /\ ~InLoop(u)
  /\ Len(wire) < MaxWire /\ Len(masks) < MaxMasks
  /\ ChangeMask(<<u, "stamp">>, {PropertyChange}, "Add")
  /\ Installed(<<u, "stamp">>)
  /\ wire' = IF PropertyChange \in mask' THEN Append(wire, "stamp") ELSE wire
  /\ loops' = Append(loops, [user |-> u, quit |-> FALSE])
  /\ UNCHANGED <<connection, holders, toldFailed>>

\* The inner loop ends; the handler goes before the mask.
GotTimestamp ==
  /\ loops # <<>> /\ Last(loops).quit
  /\ LET h == <<Last(loops).user, "stamp">> IN Removed(h) /\ RevertMask(h)
  /\ loops' = Front(loops)
  /\ UNCHANGED <<connection, holders, wire>>

\* Whose property it is, is not asked: every loop waits for the same one.
Quit(hs) == [i \in DOMAIN loops |->
               IF <<loops[i].user, "stamp">> \in hs
               THEN [loops[i] EXCEPT !.quit = TRUE] ELSE loops[i]]

\* The slot of aboutToBlock, in the inner loop: an event is told to the handlers,
DispatchEvent ==
  /\ notifier = "on" /\ ~HasError /\ wire # <<>>
  /\ wire' = Tail(wire)
  /\ loops' = IF Head(wire) = "stamp" THEN Quit(ToSet(handlers)) ELSE loops
  /\ UNCHANGED <<connection, holders, handlers, notifier, mask, masks, toldFailed, dropped>>

\* and an error is told once, as nullptr.
DispatchError ==
  /\ notifier = "on" /\ HasError
  /\ notifier' = "null"
  /\ toldFailed' = toldFailed \union ToSet(handlers)
  /\ loops' = Quit(ToSet(handlers))
  /\ UNCHANGED <<connection, holders, handlers, wire, mask, masks, dropped>>

-----------------------------------------------------------------------------
\* The server.

ServerEvent ==
  /\ ~HasError /\ mask # {} /\ Len(wire) < MaxWire
  /\ wire' = Append(wire, "other")
  /\ UNCHANGED <<connection, holders, handlers, notifier, mask, masks, loops,
                 toldFailed, dropped>>
ConnectionFails ==
  /\ connection = "up" /\ connection' = "failed" /\ wire' = <<>>
  /\ UNCHANGED <<holders, handlers, notifier, mask, masks, loops, toldFailed, dropped>>

Dispatch == DispatchEvent \/ DispatchError
Next ==
  \/ \E u \in XcbUsers :
       \/ Connect(u) \/ Disconnect(u) \/ GetTimestamp(u)
       \/ InstallEventHandler(u) \/ RemoveEventHandler(u)
       \/ ChangeWindowEventMask(u) \/ RevertWindowEventMask(u)
  \/ Dispatch \/ GotTimestamp \/ ServerEvent \/ ConnectionFails

\* The inner loop runs, and ends when it was asked to: its user may start another
\* one before, not for ever.
Fairness == /\ WF_vars(Dispatch)
            /\ \A u \in XcbUsers : SF_vars(loops # <<>> /\ Last(loops).user = u /\ GotTimestamp)
Spec == Init /\ [][Next]_vars /\ Fairness

-----------------------------------------------------------------------------
Handles == XcbUsers \X {"own", "stamp"}
TypeOK ==
  /\ connection \in {"none", "up", "failed"} /\ holders \subseteq XcbUsers
  /\ handlers \in Seq(Handles) /\ IsInjective(handlers)
  /\ notifier \in {"none", "on", "null"}
  /\ wire \in Seq({"other", "stamp"}) /\ Len(wire) <= MaxWire
  /\ mask \subseteq Bits /\ {toldFailed, dropped} \subseteq SUBSET Handles
  /\ loops \in Seq([user : XcbUsers, quit : BOOLEAN])
  /\ masks \in Seq([user : Handles, added : SUBSET Bits, old : SUBSET Bits,
                    reverts : BOOLEAN])

\* The entry of a connection is there while it has handlers, its notifier is
\* there until the handlers were told of a failure, and a handler never waits on
\* an entry that was left by an earlier connection.
HandlersAreServed ==
  /\ (notifier = "none") = (handlers = <<>>)
  /\ connection = "none" => handlers = <<>>
  /\ notifier = "null" => HasError /\ ToSet(handlers) \subseteq toldFailed

\* The bits a lifetime added are in the mask while it lives, unless it was made
\* with some of them there already, or another one took them: lifetimes must go
\* in the reverse of their order, and "Remove" and "Replace" ask for it.
MaskHasAdded ==
  ~HasError => \A i \in DOMAIN masks :
    masks[i].user \in dropped \/ masks[i].added \subseteq mask

\* GetTimestamp() returns: the server tells of its property, or the connection
\* fails and the handler is told.
TimestampReturns == \A u \in XcbUsers : InLoop(u) ~> ~InLoop(u)
=============================================================================
