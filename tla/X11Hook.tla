------------------------------- MODULE X11Hook -------------------------------
(***************************************************************************)
(* The hook of global shortcuts on X11: an X11Manager records the keys and *)
(* buttons of all clients through a connection of its own and passes what  *)
(* a reply holds to the ProcessCallback.  A reply holds one event or more. *)
(***************************************************************************)
EXTENDS Naturals, Sequences, SequencesExt

CONSTANTS HookKeys,       \* keys, and buttons that are not skipped
          MaxReplies, MaxInReply

LeftButton == [key |-> "left_or_wheel", down |-> TRUE]

VARIABLES
  recorder,       \* "none", "broken" or "recording": _x11Manager, _cookie
  x11Callback,    \* ProcessCallback is set
  replies,        \* what the server recorded, not yet read
  keysDown,       \* keys that are down
  x11Told,        \* keys the callback was last told are down
  unseen          \* keys whose last event came before Start() or was dropped

vars == <<recorder, x11Callback, replies, keysDown, x11Told, unseen>>

Event == [key : HookKeys \union {LeftButton.key}, down : BOOLEAN]

Init == /\ recorder = "none" /\ x11Callback = FALSE /\ replies = <<>>
        /\ keysDown = {} /\ x11Told = {} /\ unseen = {}

-----------------------------------------------------------------------------
\* EnsureX11ShortcutManager(): the constructor gives up when there is no
\* display, no RECORD extension or no context.
Ensure == IF recorder = "none" THEN recorder' \in {"broken", "recording"}
                               ELSE UNCHANGED recorder

Available ==
  /\ recorder = "none" /\ Ensure
  /\ UNCHANGED <<x11Callback, replies, keysDown, x11Told, unseen>>

Start ==
  /\ ~x11Callback
  /\ x11Callback' = TRUE /\ Ensure
  /\ unseen' = keysDown
  /\ UNCHANGED <<replies, keysDown, x11Told>>

\* ~X11Manager() disables and frees the context.
Stop ==
  /\ x11Callback
  /\ x11Callback' = FALSE /\ recorder' = "none"
  /\ replies' = <<>> /\ x11Told' = {} /\ unseen' = {}
  /\ UNCHANGED keysDown

\* The server records an event, into the last reply or a new one.
Record(e) ==
  /\ \/ recorder # "recording" /\ UNCHANGED replies
     \/ /\ recorder = "recording"
        /\ replies # <<>> /\ Len(Last(replies)) < MaxInReply
        /\ replies' = Append(Front(replies), Append(Last(replies), e))
     \/ /\ recorder = "recording" /\ Len(replies) < MaxReplies
        /\ replies' = Append(replies, <<e>>)
  /\ UNCHANGED <<recorder, x11Callback, x11Told, unseen>>

Press(k) ==
  /\ k \notin keysDown /\ keysDown' = keysDown \union {k}
  /\ Record([key |-> k, down |-> TRUE])
Release(k) ==
  /\ k \in keysDown /\ keysDown' = keysDown \ {k}
  /\ Record([key |-> k, down |-> FALSE])
Click == recorder = "recording" /\ Record(LeftButton) /\ UNCHANGED keysDown

\* process() returns at the first button that SkipMouseButton() names: the rest
\* of the reply is dropped.
Processed(reply) == {i \in DOMAIN reply : \A j \in 1 .. i : reply[j] # LeftButton}
Dropped(reply) == DOMAIN reply \ Processed(reply)

KeysAt(reply, places) == {reply[i].key : i \in places} \intersect HookKeys

ToldAfterMutant(reply) == x11Told \union KeysAt(reply, Processed(reply))
ToldAfter(reply) ==
  {k \in HookKeys :
     LET at == {i \in Processed(reply) : reply[i].key = k}
     IN IF at = {} THEN k \in x11Told
        ELSE \E i \in at : reply[i].down /\ \A j \in at : j <= i}

\* The notifier's handler, for each reply of the record context.
Activated ==
  /\ recorder = "recording" /\ replies # <<>>
  /\ replies' = Tail(replies)
  /\ LET reply == Head(replies)
     IN IF x11Callback
        THEN /\ x11Told' = ToldAfter(reply)
             /\ unseen' = (unseen \ KeysAt(reply, Processed(reply)))
                          \union KeysAt(reply, Dropped(reply))
        ELSE UNCHANGED <<x11Told, unseen>>
  /\ UNCHANGED <<recorder, x11Callback, keysDown>>

\* xcb_connection_has_error(), or an error for the cookie: nothing more comes.
ConnectionFails ==
  /\ recorder = "recording" /\ recorder' = "broken"
  /\ replies' = <<>>
  /\ UNCHANGED <<x11Callback, keysDown, x11Told, unseen>>

Next == \/ Available \/ Start \/ Stop \/ Click \/ Activated \/ ConnectionFails
        \/ \E k \in HookKeys : Press(k) \/ Release(k)

Spec == Init /\ [][Next]_vars

-----------------------------------------------------------------------------
TypeOK ==
  /\ recorder \in {"none", "broken", "recording"}
  /\ x11Callback \in BOOLEAN
  /\ Len(replies) <= MaxReplies
  /\ \A i \in DOMAIN replies : /\ replies[i] \in Seq(Event)
                               /\ Len(replies[i]) \in 1..MaxInReply
  /\ {keysDown, x11Told, unseen} \subseteq SUBSET HookKeys

\* Once all that was recorded is read, the shortcuts think that those keys are
\* down that are, except a key that was down at Start() or whose last event
\* came after a left button or the wheel in one reply: its release is lost too.
ToldIsTrue ==
  recorder = "recording" /\ x11Callback /\ replies = <<>> =>
    x11Told \ unseen = keysDown \ unseen
=============================================================================
