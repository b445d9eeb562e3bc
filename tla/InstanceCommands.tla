--------------------------- MODULE InstanceCommands ---------------------------
(***************************************************************************)
(* The commands that secondary instances send to the primary one of        *)
(* SingleInstance, and its replies.  A command or reply is its parts, the  *)
(* last of which ends with a semicolon, and a read takes what has come.    *)
(* What was read stays: a second command is read together with the first.  *)
(***************************************************************************)
EXTENDS Naturals, Sequences, SequencesExt, FiniteSets

CONSTANTS Senders,   \* secondary instances, each with its socket
          MaxSends, MaxReplies

VARIABLES
  connected,   \* [Senders -> BOOLEAN]
  accepted,    \* [Senders -> BOOLEAN]: newInstanceConnected() has its client
  sends,       \* [Senders -> commands sent]
  toPrimary,   \* [Senders -> parts not read]
  data,        \* [Senders -> parts read], of _clients
  fired,       \* [Senders -> the messages fired, as how many commands are in one]
  replies,     \* [Senders -> replies written]
  toSender,    \* [Senders -> parts not read, and how many replies were ended]
  received,    \* [Senders -> for each send() the parts read since]
  dones        \* [Senders -> for each send() the calls of done()]

vars == <<connected, accepted, sends, toPrimary, data, fired, replies, toSender,
          received, dones>>

\* What is written: the end is the part with the semicolon.
Parts == <<"part", "end">>
Ends(parts) == Cardinality({i \in DOMAIN parts : parts[i] = "end"})

\* DecodeMessage(): a message is there when the last part ends one.
DecodedMutant(parts) == Ends(parts) > 0
Decoded(parts) == parts # <<>> /\ Last(parts) = "end"

Init ==
  /\ connected = [s \in Senders |-> FALSE] /\ accepted = [s \in Senders |-> FALSE]
  /\ sends = [s \in Senders |-> 0] /\ replies = [s \in Senders |-> 0]
  /\ toPrimary = [s \in Senders |-> <<>>] /\ toSender = [s \in Senders |-> <<>>]
  /\ data = [s \in Senders |-> <<>>] /\ fired = [s \in Senders |-> <<>>]
  /\ received = [s \in Senders |-> <<>>] /\ dones = [s \in Senders |-> <<>>]

-----------------------------------------------------------------------------
Connect(s) ==
  /\ ~connected[s] /\ sends[s] = 0
  /\ connected' = [connected EXCEPT ![s] = TRUE]
  /\ UNCHANGED <<accepted, sends, toPrimary, data, fired, replies, toSender, received, dones>>

\* newInstanceConnected() takes all that wait, each with an id of its own.
NewInstanceConnected ==
  /\ \E s \in Senders : connected[s] /\ ~accepted[s]
  /\ accepted' = connected
  /\ UNCHANGED <<connected, sends, toPrimary, data, fired, replies, toSender, received, dones>>

\* send(): one more handler of what is read from now on.
Send(s) ==
  /\ connected[s] /\ sends[s] < MaxSends
  /\ sends' = [sends EXCEPT ![s] = @ + 1]
  /\ toPrimary' = [toPrimary EXCEPT ![s] = @ \o Parts]
  /\ received' = [received EXCEPT ![s] = Append(@, <<>>)]
  /\ dones' = [dones EXCEPT ![s] = Append(@, 0)]
  /\ UNCHANGED <<connected, accepted, data, fired, replies, toSender>>

\* readClient(): n parts have come.
ReadClient(s) ==
  /\ accepted[s]
  /\ \E n \in 1..Len(toPrimary[s]) :
       /\ toPrimary' = [toPrimary EXCEPT ![s] = SubSeq(@, n + 1, Len(@))]
       /\ data' = [data EXCEPT ![s] = @ \o SubSeq(toPrimary[s], 1, n)]
  /\ fired' = IF Decoded(data'[s]) THEN [fired EXCEPT ![s] = Append(@, Ends(data'[s]))]
                                   ELSE fired
  /\ UNCHANGED <<connected, accepted, sends, replies, toSender, received, dones>>

\* reply(), to the id of a message that was fired, if its client is still there.
Reply(s) ==
  /\ accepted[s] /\ fired[s] # <<>> /\ replies[s] < MaxReplies
  /\ replies' = [replies EXCEPT ![s] = @ + 1]
  /\ toSender' = [toSender EXCEPT ![s] = @ \o Parts]
  /\ UNCHANGED <<connected, accepted, sends, toPrimary, data, fired, received, dones>>

\* readyRead of the sender's socket: the handler of every send() reads, the first
\* takes it all with readAll(), and the others see none.
ReadReply(s) ==
  /\ connected[s] /\ toSender[s] # <<>>
  /\ \E n \in 1..Len(toSender[s]) :
       /\ toSender' = [toSender EXCEPT ![s] = SubSeq(@, n + 1, Len(@))]
       /\ received' = [received EXCEPT ![s][1] = @ \o SubSeq(toSender[s], 1, n)]
  /\ dones' = [dones EXCEPT ![s] = [i \in DOMAIN @ |->
                 IF Decoded(received'[s][i]) THEN @[i] + 1 ELSE @[i]]]
  /\ UNCHANGED <<connected, accepted, sends, toPrimary, data, fired, replies>>

\* Either side goes: removeClient(), and what was not read is lost.
Disconnect(s) ==
  /\ connected[s]
  /\ connected' = [connected EXCEPT ![s] = FALSE]
  /\ accepted' = [accepted EXCEPT ![s] = FALSE]
  /\ sends' = [sends EXCEPT ![s] = MaxSends]
  /\ toPrimary' = [toPrimary EXCEPT ![s] = <<>>] /\ data' = [data EXCEPT ![s] = <<>>]
  /\ fired' = [fired EXCEPT ![s] = <<>>] /\ replies' = [replies EXCEPT ![s] = 0]
  /\ toSender' = [toSender EXCEPT ![s] = <<>>] /\ received' = [received EXCEPT ![s] = <<>>]
  /\ dones' = [dones EXCEPT ![s] = <<>>]

Next ==
  \/ NewInstanceConnected
  \/ \E s \in Senders : \/ Connect(s) \/ Send(s) \/ ReadClient(s) \/ Reply(s)
                        \/ ReadReply(s) \/ Disconnect(s)

\* The sockets bring what was written, and the primary accepts.
Fairness == /\ WF_vars(NewInstanceConnected)
            /\ \A s \in Senders : WF_vars(ReadClient(s)) /\ WF_vars(ReadReply(s))
Spec == Init /\ [][Next]_vars /\ Fairness

-----------------------------------------------------------------------------
AllParts == {"part", "end"}
TypeOK ==
  /\ connected \in [Senders -> BOOLEAN] /\ accepted \in [Senders -> BOOLEAN]
  /\ \A s \in Senders :
       /\ accepted[s] => connected[s]
       /\ sends[s] \in 0..MaxSends /\ replies[s] \in 0..MaxReplies
       /\ {toPrimary[s], toSender[s], data[s]} \subseteq Seq(AllParts)
       /\ fired[s] \in Seq(1..MaxSends)
       /\ received[s] \in Seq(Seq(AllParts)) /\ dones[s] \in Seq(Nat)

\* Messages hold all the commands that a sender sent so far, in their order: the
\* first of one that sends once is its command, whole, and it is fired once.
CommandsWhole ==
  \A s \in Senders :
    /\ \A i \in DOMAIN fired[s] : i > 1 => fired[s][i - 1] < fired[s][i]
    /\ accepted[s] /\ toPrimary[s] = <<>> /\ sends[s] > 0 =>
         fired[s] # <<>> /\ Last(fired[s]) = sends[s]

\* done() of the first send() is called for every reply that was read apart, and
\* never without one; those of later ones are never called.
DoneIsAnswered ==
  \A s \in Senders :
    /\ \A i \in DOMAIN dones[s] : dones[s][i] <= (IF i = 1 THEN replies[s] ELSE 0)
    /\ replies[s] > 0 /\ toSender[s] = <<>> => dones[s][1] > 0

\* A command is fired, unless its sender or the primary instance goes.
CommandsArrive ==
  \A s \in Senders : connected[s] /\ sends[s] > 0 ~> ~connected[s] \/ fired[s] # <<>>
=============================================================================
