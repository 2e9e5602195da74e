---------------------------- MODULE NotifyProofs ----------------------------
(***************************************************************************)
(* What holds of Notify for every number of messages and attempts.          *)
(***************************************************************************)
EXTENDS Notify, FiniteSetTheorems, TLAPS

(***************************************************************************)
(* Types.  The type invariant alone is not inductive: the attempt counter   *)
(* stays in range because no call waits for an attempt it may not make.     *)
(***************************************************************************)
CallInv ==
  /\ TypeOK
  /\ phase # "idle" => msg \in Msgs
  /\ phase \in {"ready", "backoff"} => attempt < Attempts

\* Slack and the network keep the types.
LEMMA SlackTypes ==
  ASSUME CallInv, Slack
  PROVE  CallInv'
<1> USE DEF CallInv, TypeOK, clientVars
<1>1. PICK request \in wire :
        \/ \E posts \in BOOLEAN, status \in Statuses :
             Processes(request, posts, status)
        \/ Loses(request)
  BY DEF Slack
<1>2. request[1] \in Msgs
  BY <1>1
<1>3. CASE Loses(request)
  BY <1>3 DEF Loses
<1>4. ASSUME NEW posts \in BOOLEAN, NEW status \in Statuses,
             Processes(request, posts, status)
      PROVE  CallInv'
  <2>1. channel' \in Seq(Msgs)
    <3>1. Append(channel, request[1]) \in Seq(Msgs)
      BY <1>2
    <3> QED  BY <1>4, <3>1 DEF Processes
  <2>2. reply' \in Statuses \cup {None}
    BY <1>4 DEF Processes
  <2>3. wire' \subseteq Msgs \X (1..Attempts)
    BY <1>4 DEF Processes
  <2> QED  BY <1>4, <2>1, <2>2, <2>3 DEF Processes
<1> QED  BY <1>1, <1>3, <1>4

\* The client keeps the types.
LEMMA ClientTypes ==
  ASSUME CallInv, Client
  PROVE  CallInv'
<1> USE MessagesAssumption, AttemptsAssumption
    DEF CallInv, TypeOK, Msgs, Phases, Finish, AfterFailure
<1>1. CASE RejectURL  BY <1>1 DEF RejectURL
<1>2. CASE Post
  <2>1. /\ msg \in Msgs /\ attempt' = attempt + 1 /\ attempt' \in 1..Attempts
        /\ wire' = wire \cup {<<msg, attempt'>>}
    BY <1>2 DEF Post
  <2>2. wire' \subseteq Msgs \X (1..Attempts)
    BY <2>1
  <2> QED  BY <1>2, <2>1, <2>2 DEF Post
<1>3. CASE PostRefused
  <2>1. attempt' \in 0..Attempts
    BY <1>3 DEF PostRefused
  <2> QED  BY <1>3, <2>1 DEF PostRefused
<1>4. CASE ReadReply
  <2>1. reply' = None /\ UNCHANGED <<url, msg, attempt, silent, wire, channel,
                                     cancelled>>
    BY <1>4 DEF ReadReply
  <2>2. \/ phase' = "idle" /\ outcome' = [outcome EXCEPT ![msg] = "ok"]
        \/ phase' = "idle" /\ outcome' = [outcome EXCEPT ![msg] = "error"]
        \/ phase' = "backoff" /\ attempt < Attempts /\ UNCHANGED outcome
    BY <1>4 DEF ReadReply
  <2> QED  BY <1>4, <2>1, <2>2 DEF ReadReply
<1>5. CASE PostBreaks  BY <1>5 DEF PostBreaks
<1>6. CASE BackoffFires  BY <1>6 DEF BackoffFires
<1>7. CASE BackoffCut  BY <1>7 DEF BackoffCut
<1> QED  BY <1>1, <1>2, <1>3, <1>4, <1>5, <1>6, <1>7 DEF Client

\* Every step keeps the types and the budget of attempts.
LEMMA CallStep ==
  ASSUME CallInv, [Next]_vars
  PROVE  CallInv'
<1>1. CASE Call
  BY <1>1, MessagesAssumption, AttemptsAssumption
  DEF Call, CallInv, TypeOK, Msgs, Phases
<1>2. CASE Client  BY <1>2, ClientTypes
<1>3. CASE Cancel  BY <1>3 DEF Cancel, CallInv, TypeOK, clientVars
<1>4. CASE Slack  BY <1>4, SlackTypes
<1>5. CASE Finished \/ UNCHANGED vars
  BY <1>5 DEF Finished, vars, clientVars, CallInv, TypeOK
<1> QED  BY <1>1, <1>2, <1>3, <1>4, <1>5 DEF Next

\* No call is under way at the start.
LEMMA CallInit == Init => CallInv
<1> SUFFICES ASSUME Init PROVE CallInv
  OBVIOUS
<1>1. channel \in Seq(Msgs)
  <2>1. <<>> \in Seq(Msgs)
    OBVIOUS
  <2> QED  BY <2>1 DEF Init
<1>2. msg \in 0..MaxMessages /\ attempt \in 0..Attempts /\ attempt < Attempts
  BY MessagesAssumption, AttemptsAssumption DEF Init
<1>3. outcome \in [Msgs -> {"none", "ok", "error"}]
  BY DEF Init
<1>4. wire = {} /\ silent = {} /\ phase = "idle" /\ reply = None
      /\ cancelled = FALSE /\ url \in {"empty", "malformed", "valid"}
  BY DEF Init
<1> QED  BY <1>1, <1>2, <1>3, <1>4 DEF CallInv, TypeOK, Phases

\* Every variable keeps its type; in particular no call makes more POSTs than
\* it has attempts.
THEOREM TypeCorrect == Spec => []TypeOK
<1>1. Init => CallInv  BY CallInit
<1>2. CallInv /\ [Next]_vars => CallInv'  BY CallStep
<1>3. CallInv => TypeOK  BY DEF CallInv
<1> QED  BY <1>1, <1>2, <1>3, PTL DEF Spec

(***************************************************************************)
(* What is on the wire and in the channel.                                  *)
(***************************************************************************)
\* Only messages already handed over, and not silently, travel or arrive; a
\* call that began dead is still dead; a 2xx answers a message that was posted.
TravelInv ==
  /\ \A r \in wire : r[1] <= msg /\ r[1] \notin silent
  /\ \A i \in 1..Len(channel) : channel[i] <= msg /\ channel[i] \notin silent
  /\ \A m \in silent : m <= msg /\ Dead(m)
  /\ reply = "2xx" => \E i \in 1..Len(channel) : channel[i] = msg
  /\ reply # None => phase = "posting"

\* What Slack does with a request keeps the invariant.
LEMMA SlackTravels ==
  ASSUME CallInv, TravelInv, Slack
  PROVE  TravelInv'
<1>1. PICK request \in wire :
        \/ \E posts \in BOOLEAN, status \in Statuses :
             Processes(request, posts, status)
        \/ Loses(request)
  BY DEF Slack
<1>2. /\ request[1] \in Msgs /\ request[1] <= msg /\ request[1] \notin silent
      /\ channel \in Seq(Msgs)
  BY <1>1 DEF CallInv, TypeOK, TravelInv
<1>3. CASE Loses(request)
  BY <1>3 DEF Loses, TravelInv, Dead, clientVars
<1>4. ASSUME NEW posts \in BOOLEAN, NEW status \in Statuses,
             Processes(request, posts, status)
      PROVE  TravelInv'
  <2>1. /\ wire' \subseteq wire /\ UNCHANGED <<msg, phase, silent, cancelled>>
        /\ channel' = IF posts THEN Append(channel, request[1]) ELSE channel
    BY <1>4 DEF Processes, clientVars
  <2>2. /\ Len(channel) \in Nat
        /\ \A i \in 1..Len(channel) : i \in 1..Len(channel') /\ channel'[i] = channel[i]
        /\ posts => /\ Len(channel') = Len(channel) + 1
                    /\ channel'[Len(channel) + 1] = request[1]
        /\ ~posts => channel' = channel
    BY <1>2, <2>1
  <2>3. \A i \in 1..Len(channel') : channel'[i] <= msg /\ channel'[i] \notin silent
    <3> TAKE i \in 1..Len(channel')
    <3>1. CASE i \in 1..Len(channel)
      BY <2>2, <3>1 DEF TravelInv
    <3>2. CASE posts /\ i = Len(channel) + 1
      BY <1>2, <2>2, <3>2
    <3> QED  BY <2>2, <3>1, <3>2
  <2>4. reply' = "2xx" => \E i \in 1..Len(channel') : channel'[i] = msg
    <3>1. CASE phase = "posting" /\ request = <<msg, attempt>>
      <4>1. reply' = status /\ request[1] = msg /\ (status = "2xx" => posts)
        BY <1>4, <3>1 DEF Processes
      <4>2. posts => Len(channel) + 1 \in 1..Len(channel')
        BY <2>2
      <4> QED  BY <2>2, <4>1, <4>2
    <3>2. CASE ~(phase = "posting" /\ request = <<msg, attempt>>)
      <4>1. reply' = reply
        BY <1>4, <3>2 DEF Processes
      <4> QED  BY <2>2, <4>1 DEF TravelInv
    <3> QED  BY <3>1, <3>2
  <2>5. reply' # None => phase = "posting"
    BY <1>4 DEF Processes, TravelInv
  <2> QED  BY <2>1, <2>3, <2>4, <2>5 DEF TravelInv, Dead
<1> QED  BY <1>1, <1>3, <1>4

\* Every step keeps the invariant.
LEMMA TravelStep ==
  ASSUME CallInv, TravelInv, [Next]_vars
  PROVE  TravelInv'
<1> USE DEF TravelInv, Dead
<1>1. CASE Call
  <2>1. /\ msg \in Nat /\ msg' = msg + 1 /\ reply = None
        /\ UNCHANGED <<wire, channel, cancelled, reply>>
    BY <1>1 DEF Call, CallInv, TypeOK
  <2>2. /\ silent' = IF Dead(msg + 1) THEN silent \cup {msg + 1} ELSE silent
        /\ silent \subseteq Nat
    BY <1>1 DEF Call, CallInv, TypeOK, Msgs
  <2>3. \A r \in wire : r[1] \in Nat
    BY DEF CallInv, TypeOK, Msgs
  <2>4. \A i \in 1..Len(channel) : channel[i] \in Nat
    <3>1. channel \in Seq(Msgs) /\ \A m \in Msgs : m \in Nat
      BY DEF CallInv, TypeOK, Msgs
    <3> QED  BY <3>1
  <2> QED  BY <2>1, <2>2, <2>3, <2>4, NoneAssumption
<1>2. CASE Client
  <2>1. CASE Post
    <3>1. /\ wire' = wire \cup {<<msg, attempt + 1>>} /\ reply' = None
          /\ ~Dead(msg) /\ UNCHANGED <<msg, silent, channel, cancelled>>
          /\ phase' = "posting"
      BY <2>1 DEF Post
    <3>2. msg \notin silent /\ msg <= msg
      BY <3>1 DEF CallInv, TypeOK
    <3> QED  BY <3>1, <3>2, NoneAssumption
  <2>2. CASE RejectURL \/ PostRefused \/ BackoffFires \/ BackoffCut
    <3>1. /\ reply = None /\ UNCHANGED <<msg, silent, wire, channel, cancelled,
                                         reply>>
      BY <2>2 DEF RejectURL, PostRefused, BackoffFires, BackoffCut
    <3> QED  BY <3>1, NoneAssumption
  <2>3. CASE ReadReply \/ PostBreaks
    <3>1. /\ reply' = None /\ UNCHANGED <<msg, silent, wire, channel, cancelled>>
      BY <2>3 DEF ReadReply, PostBreaks
    <3> QED  BY <3>1, NoneAssumption
  <2> QED  BY <1>2, <2>1, <2>2, <2>3 DEF Client
<1>3. CASE Cancel  BY <1>3 DEF Cancel, clientVars
<1>4. CASE Slack  BY <1>4, SlackTravels
<1>5. CASE Finished \/ UNCHANGED vars
  BY <1>5 DEF Finished, vars, clientVars
<1> QED  BY <1>1, <1>2, <1>3, <1>4, <1>5 DEF Next

\* Nothing has been sent at the start.
LEMMA TravelInit == Init => TravelInv
  BY NoneAssumption DEF Init, TravelInv

\* A message handed over under a dead context never leaves and never arrives.
THEOREM SilenceKept == Spec => []SilentStaysSilent
<1>1. Init => CallInv /\ TravelInv  BY CallInit, TravelInit
<1>2. CallInv /\ TravelInv /\ [Next]_vars => (CallInv /\ TravelInv)'
  BY CallStep, TravelStep
<1>3. TravelInv => SilentStaysSilent
  BY DEF TravelInv, SilentStaysSilent, Arrivals
<1> QED  BY <1>1, <1>2, <1>3, PTL DEF Spec

(***************************************************************************)
(* Refinement.                                                              *)
(***************************************************************************)
\* The initial states of the client are initial states of the contract.
LEMMA RefinesInit == Init => Contract!Init
  BY DEF Init, Contract!Init, Msgs, Contract!Msgs

\* Every step of the client, of Slack and of the network is a step the contract
\* allows, or none.
LEMMA RefinesStep ==
  ASSUME CallInv, TravelInv, [Next]_vars
  PROVE  [Contract!Next]_(Contract!deliveryVars)
<1> USE DEF Contract!deliveryVars, Contract!Next, Contract!Msgs, Msgs
<1>1. CASE Call
  <2>1. Contract!HandOver
    BY <1>1 DEF Call, Contract!HandOver, Dead
  <2> QED  BY <2>1
<1>2. CASE Client
  <2>1. ASSUME phase # "idle", NEW result \in {"ok", "error"},
               result = "ok" => \E i \in 1..Len(channel) : channel[i] = msg,
               Finish(result), UNCHANGED <<msg, cancelled, silent, channel>>
        PROVE  Contract!Next
    <3>1. Contract!Return(result)
      BY <2>1 DEF Contract!Return, Contract!Arrived, Finish
    <3> QED  BY <3>1
  <2>2. ASSUME phase # "idle", phase' # "idle", UNCHANGED outcome,
               UNCHANGED <<msg, cancelled, silent, channel>>
        PROVE  UNCHANGED Contract!deliveryVars
    BY <2>2
  <2>3. CASE RejectURL \/ BackoffCut
    BY <2>1, <2>3 DEF RejectURL, BackoffCut
  <2>4. CASE Post \/ BackoffFires
    BY <2>2, <2>4 DEF Post, BackoffFires
  <2>5. CASE PostRefused \/ PostBreaks
    BY <2>1, <2>2, <2>5 DEF PostRefused, PostBreaks, AfterFailure
  <2>6. CASE ReadReply
    <3>1. phase # "idle" /\ UNCHANGED <<msg, cancelled, silent, channel>>
      BY <2>6 DEF ReadReply
    <3>2. CASE reply = "2xx"
      <4>1. Finish("ok") /\ \E i \in 1..Len(channel) : channel[i] = msg
        BY <2>6, <3>2 DEF ReadReply, TravelInv
      <4> QED  BY <2>1, <3>1, <4>1
    <3>3. CASE reply = "4xx"
      <4>1. Finish("error")
        BY <2>6, <3>3 DEF ReadReply
      <4> QED  BY <2>1, <3>1, <4>1
    <3>4. CASE reply \notin {"2xx", "4xx"}
      <4>1. AfterFailure(attempt)
        BY <2>6, <3>4 DEF ReadReply
      <4> QED  BY <2>1, <2>2, <3>1, <4>1 DEF AfterFailure
    <3> QED  BY <3>2, <3>3, <3>4
  <2> QED  BY <1>2, <2>3, <2>4, <2>5, <2>6 DEF Client
<1>3. CASE Cancel
  <2>1. Contract!Cancel
    BY <1>3 DEF Cancel, Contract!Cancel, clientVars
  <2> QED  BY <2>1
<1>4. CASE Slack
  <2>1. PICK request \in wire :
          \/ \E posts \in BOOLEAN, status \in Statuses :
               Processes(request, posts, status)
          \/ Loses(request)
    BY <1>4 DEF Slack
  <2>2. /\ request[1] \in Msgs /\ request[1] <= msg
        /\ request[1] \notin silent
    BY <2>1 DEF CallInv, TypeOK, TravelInv
  <2>3. UNCHANGED <<msg, phase, outcome, cancelled, silent>>
    BY <2>1 DEF Processes, Loses, clientVars
  <2>4. channel' = Append(channel, request[1]) \/ channel' = channel
    BY <2>1 DEF Processes, Loses
  <2>5. CASE channel' = Append(channel, request[1])
    <3>1. Contract!Arrive(request[1])
      BY <2>2, <2>3, <2>5 DEF Contract!Arrive
    <3> QED  BY <2>2, <3>1
  <2>6. CASE channel' = channel
    BY <2>3, <2>6
  <2> QED  BY <2>4, <2>5, <2>6
<1>5. CASE Finished \/ UNCHANGED vars
  BY <1>5 DEF Finished, vars, clientVars
<1> QED  BY <1>1, <1>2, <1>3, <1>4, <1>5 DEF Next

\* For every number of messages, attempts and cancellable messages, the client
\* implements the contract of module Delivery.
THEOREM Refines == Spec => DeliversAsPromised
<1>1. Init => CallInv /\ TravelInv /\ Contract!Init
  BY CallInit, TravelInit, RefinesInit
<1>2. CallInv /\ TravelInv /\ [Next]_vars
        => /\ (CallInv /\ TravelInv)'
           /\ [Contract!Next]_(Contract!deliveryVars)
  BY CallStep, TravelStep, RefinesStep
<1> QED  BY <1>1, <1>2, PTL DEF Spec, DeliversAsPromised, Contract!Spec

(***************************************************************************)
(* What the channel holds of each message.                                  *)
(***************************************************************************)
\* The channel only grows at its end.
LEMMA ChannelExtends ==
  ASSUME CallInv, [Next]_vars
  PROVE  \/ channel' = channel
         \/ \E request \in wire :
              /\ channel' = Append(channel, request[1]) /\ request[1] \in Msgs
              /\ wire' = wire \ {request}
              /\ UNCHANGED <<msg, attempt, outcome, phase>>
<1>1. CASE Call \/ Client \/ Cancel \/ Finished \/ UNCHANGED vars
  BY <1>1 DEF Call, Client, RejectURL, Post, PostRefused, ReadReply, PostBreaks,
              BackoffFires, BackoffCut, Cancel, Finished, vars
<1>2. CASE Slack
  <2>1. \A request \in wire : request[1] \in Msgs
    BY DEF CallInv, TypeOK
  <2> QED  BY <1>2, <2>1 DEF Slack, Processes, Loses, clientVars
<1> QED  BY <1>1, <1>2 DEF Next

\* Only a success that Slack confirmed makes an outcome "ok".
LEMMA OutcomeOk ==
  ASSUME CallInv, TravelInv, [Next]_vars, NEW m \in Msgs,
         outcome'[m] = "ok", outcome[m] # "ok"
  PROVE  /\ m = msg /\ channel' = channel
         /\ \E i \in 1..Len(channel) : channel[i] = m
<1>1. Client
  BY DEF Next, Call, Cancel, Slack, Processes, Loses, Finished, vars, clientVars
<1>2. ReadReply /\ reply = "2xx"
  BY <1>1 DEF CallInv, TypeOK, Client, RejectURL, Post, PostRefused, ReadReply,
     PostBreaks, BackoffFires, BackoffCut, Finish, AfterFailure
<1>3. m = msg /\ channel' = channel
  BY <1>2 DEF ReadReply, Finish, CallInv, TypeOK
<1> QED  BY <1>2, <1>3 DEF TravelInv

\* Every step keeps each acknowledged message in front of the later ones: what is
\* acknowledged now has no later message in the channel yet, and what arrives is
\* appended.
LEMMA AcknowledgedStep ==
  ASSUME CallInv, TravelInv, AcknowledgedArrives, [Next]_vars
  PROVE  AcknowledgedArrives'
<1> SUFFICES ASSUME NEW m \in Msgs, outcome'[m] = "ok"
             PROVE  \E i \in Arrivals(m)' : \A n \in Msgs : n > m =>
                      \A j \in Arrivals(n)' : i < j
  BY DEF AcknowledgedArrives, Msgs
<1>0. /\ channel \in Seq(Msgs) /\ Len(channel) \in Nat
      /\ msg \in Nat /\ Msgs \subseteq Nat
  BY DEF CallInv, TypeOK, Msgs
<1>1. PICK i \in Arrivals(m) : \A n \in Msgs : n > m => \A j \in Arrivals(n) : i < j
  <2>1. CASE outcome[m] = "ok"
    BY <2>1 DEF AcknowledgedArrives
  <2>2. CASE outcome[m] # "ok"
    <3>1. m = msg /\ \E i \in 1..Len(channel) : channel[i] = m
      BY <2>2, OutcomeOk
    <3>2. \A n \in Msgs : n > m => Arrivals(n) = {}
      BY <1>0, <3>1 DEF TravelInv, Arrivals
    <3> QED  BY <3>1, <3>2 DEF Arrivals
  <2> QED  BY <2>1, <2>2
<1>2. i \in 1..Len(channel) /\ channel[i] = m
  BY DEF Arrivals
<1>3. CASE channel' = channel
  BY <1>1, <1>3 DEF Arrivals
<1>4. ASSUME NEW r \in Msgs, channel' = Append(channel, r)
      PROVE  \E k \in Arrivals(m)' : \A n \in Msgs : n > m =>
               \A j \in Arrivals(n)' : k < j
  <2>1. /\ Len(channel') = Len(channel) + 1
        /\ \A k \in 1..Len(channel) : channel'[k] = channel[k]
    BY <1>0, <1>4
  <2>2. i \in Arrivals(m)'
    BY <1>0, <1>2, <2>1 DEF Arrivals
  <2>3. ASSUME NEW n \in Msgs, n > m, NEW j \in Arrivals(n)' PROVE i < j
    <3>1. j \in 1..Len(channel') /\ channel'[j] = n
      BY DEF Arrivals
    <3>2. CASE j \in 1..Len(channel)
      <4>1. j \in Arrivals(n)
        BY <2>1, <3>1, <3>2 DEF Arrivals
      <4> QED  BY <1>1, <2>3, <4>1
    <3>3. CASE j = Len(channel) + 1
      BY <1>0, <1>2, <3>3
    <3> QED  BY <1>0, <2>1, <3>1, <3>2, <3>3
  <2> QED  BY <2>2, <2>3
<1> QED  BY <1>3, <1>4, ChannelExtends

\* For every number of messages and attempts: a message whose Send returned nil
\* is in the channel, in front of every copy of a later message.
THEOREM AcknowledgedInOrder == Spec => []AcknowledgedArrives
<1>1. Init => CallInv /\ TravelInv /\ AcknowledgedArrives
  <2>1. Init => AcknowledgedArrives
    BY DEF Init, AcknowledgedArrives
  <2> QED  BY <2>1, CallInit, TravelInit
<1>2. CallInv /\ TravelInv /\ AcknowledgedArrives /\ [Next]_vars
        => (CallInv /\ TravelInv /\ AcknowledgedArrives)'
  BY CallStep, TravelStep, AcknowledgedStep
<1> QED  BY <1>1, <1>2, PTL DEF Spec

(***************************************************************************)
(* How many copies of a message there can be.                               *)
(***************************************************************************)
\* The requests of m that are on their way.
OnWire(m) == {r \in wire : r[1] = m}
Copies(m) == Cardinality(Arrivals(m)) + Cardinality(OnWire(m))

\* The copies of the current message are paid for by its attempts so far.
CopiesInv ==
  /\ IsFiniteSet(wire)
  /\ \A m \in Msgs : Copies(m) <= Attempts
  /\ \A m \in Msgs : m = msg => Copies(m) <= attempt

\* The copies of a message can be counted.
LEMMA CopiesFinite ==
  ASSUME CallInv, IsFiniteSet(wire), NEW m \in Msgs
  PROVE  /\ IsFiniteSet(Arrivals(m)) /\ IsFiniteSet(OnWire(m))
         /\ Cardinality(Arrivals(m)) \in Nat /\ Cardinality(OnWire(m)) \in Nat
<1>1. IsFiniteSet(1..Len(channel))
  <2>1. Len(channel) \in Nat
    BY DEF CallInv, TypeOK
  <2> QED  BY <2>1, FS_Interval
<1>2. Arrivals(m) \in SUBSET (1..Len(channel)) /\ OnWire(m) \in SUBSET wire
  BY DEF Arrivals, OnWire
<1>3. IsFiniteSet(Arrivals(m)) /\ IsFiniteSet(OnWire(m))
  BY <1>1, <1>2, FS_Subset
<1> QED  BY <1>3, FS_CardinalityType

\* A message that was not handed over yet has no copies.
LEMMA NoCopiesYet ==
  ASSUME CallInv, TravelInv, NEW m \in Msgs, m > msg
  PROVE  Copies(m) = 0
<1>1. Arrivals(m) = {} /\ OnWire(m) = {}
  BY DEF TravelInv, Arrivals, OnWire, CallInv, TypeOK, Msgs
<1> QED  BY <1>1, FS_EmptySet DEF Copies

\* Every POST adds one copy at most.
LEMMA PostCopies ==
  ASSUME CallInv, IsFiniteSet(wire), Post, NEW m \in Msgs
  PROVE  /\ IsFiniteSet(wire)' /\ Copies(m)' \in Nat
         /\ m # msg => Copies(m)' = Copies(m)
         /\ m = msg => Copies(m)' <= Copies(m) + 1
<1> DEFINE request == <<msg, attempt + 1>>
<1>1. wire' = wire \cup {request} /\ channel' = channel /\ request[1] = msg
  BY DEF Post
<1> HIDE DEF request
<1>2. Arrivals(m)' = Arrivals(m)
  BY <1>1 DEF Arrivals
<1>3. /\ IsFiniteSet(wire)'
      /\ IsFiniteSet(OnWire(m))
      /\ Cardinality(Arrivals(m)) \in Nat /\ Cardinality(OnWire(m)) \in Nat
  BY <1>1, FS_AddElement, CopiesFinite
<1>4. CASE m # msg
  <2>1. OnWire(m)' = OnWire(m)
    BY <1>1, <1>4 DEF OnWire
  <2> QED  BY <1>2, <1>3, <1>4, <2>1 DEF Copies
<1>5. CASE m = msg
  <2>1. OnWire(m)' = OnWire(m) \cup {request}
    BY <1>1, <1>5 DEF OnWire
  <2>2. Cardinality(OnWire(m)')
          = IF request \in OnWire(m) THEN Cardinality(OnWire(m))
                                     ELSE Cardinality(OnWire(m)) + 1
    BY <1>3, <2>1, FS_AddElement
  <2> QED  BY <1>2, <1>3, <1>5, <2>2 DEF Copies
<1> QED  BY <1>4, <1>5

\* What Slack and the network do turns a request into an arrival or loses it.
LEMMA SlackCopies ==
  ASSUME CallInv, IsFiniteSet(wire), Slack, NEW m \in Msgs
  PROVE  IsFiniteSet(wire)' /\ Copies(m)' \in Nat /\ Copies(m)' <= Copies(m)
<1>1. PICK request \in wire :
        /\ wire' = wire \ {request}
        /\ channel' = channel \/ channel' = Append(channel, request[1])
  BY DEF Slack, Processes, Loses
<1>2. IsFiniteSet(wire)'
  BY <1>1, FS_RemoveElement
<1>3. /\ IsFiniteSet(Arrivals(m)) /\ IsFiniteSet(OnWire(m))
      /\ Cardinality(Arrivals(m)) \in Nat /\ Cardinality(OnWire(m)) \in Nat
  BY CopiesFinite
<1>4. channel \in Seq(Msgs) /\ Len(channel) \in Nat /\ request[1] \in Msgs
  BY <1>1 DEF CallInv, TypeOK
<1>5. CASE request[1] = m
  <2>1. OnWire(m)' = OnWire(m) \ {request} /\ request \in OnWire(m)
    BY <1>1, <1>5 DEF OnWire
  <2>2. /\ Cardinality(OnWire(m)') = Cardinality(OnWire(m)) - 1
        /\ Cardinality(OnWire(m)') \in Nat
    <3>1. IsFiniteSet(OnWire(m) \ {request})
      BY <1>3, FS_RemoveElement
    <3>2. Cardinality(OnWire(m) \ {request}) \in Nat
      BY <3>1, FS_CardinalityType
    <3> QED  BY <1>3, <2>1, <3>2, FS_RemoveElement
  <2>3. Cardinality(Arrivals(m)') <= Cardinality(Arrivals(m)) + 1
        /\ Cardinality(Arrivals(m)') \in Nat
    <3>1. CASE channel' = channel
      <4>1. Arrivals(m)' = Arrivals(m)
        BY <3>1 DEF Arrivals
      <4> QED  BY <1>3, <4>1
    <3>2. CASE channel' = Append(channel, request[1])
      <4>1. Arrivals(m)' = Arrivals(m) \cup {Len(channel) + 1}
        BY <1>4, <1>5, <3>2 DEF Arrivals
      <4>2. Cardinality(Arrivals(m)') = Cardinality(Arrivals(m))
            \/ Cardinality(Arrivals(m)') = Cardinality(Arrivals(m)) + 1
        BY <1>3, <4>1, FS_AddElement
      <4> QED  BY <1>3, <4>2
    <3> QED  BY <1>1, <3>1, <3>2
  <2> QED  BY <1>2, <1>3, <2>2, <2>3 DEF Copies
<1>6. CASE request[1] # m
  <2>1. OnWire(m)' = OnWire(m)
    BY <1>1, <1>6 DEF OnWire
  <2>2. Arrivals(m)' = Arrivals(m)
    BY <1>1, <1>4, <1>6 DEF Arrivals
  <2> QED  BY <1>2, <1>3, <2>1, <2>2 DEF Copies
<1> QED  BY <1>5, <1>6

\* Every step keeps the invariant.
LEMMA CopiesStep ==
  ASSUME CallInv, TravelInv, CopiesInv, [Next]_vars
  PROVE  CopiesInv'
<1>0. /\ Msgs \subseteq Nat /\ msg \in Nat /\ attempt \in Nat /\ Attempts \in Nat
      /\ attempt <= Attempts
  BY AttemptsAssumption DEF CallInv, TypeOK, Msgs
<1>1. ASSUME NEW m \in Msgs PROVE Copies(m) \in Nat
  BY <1>1, CopiesFinite DEF CopiesInv, Copies
<1>2. ASSUME UNCHANGED <<wire, channel>>
      PROVE  IsFiniteSet(wire)' /\ \A m \in Msgs : Copies(m)' = Copies(m)
  BY <1>2 DEF CopiesInv, Copies, Arrivals, OnWire
<1>3. CASE Call
  <2>1. msg' = msg + 1 /\ attempt' = 0 /\ UNCHANGED <<wire, channel>>
    BY <1>3 DEF Call
  <2>2. \A m \in Msgs : m = msg' => Copies(m) = 0
    BY <1>0, <2>1, NoCopiesYet
  <2> QED  BY <1>2, <2>1, <2>2 DEF CopiesInv
<1>4. CASE Client
  <2>1. CASE Post
    <3>1. msg' = msg /\ attempt' = attempt + 1 /\ attempt < Attempts
      BY <2>1 DEF Post, CallInv
    <3>2. ASSUME NEW m \in Msgs
          PROVE  Copies(m)' <= Attempts /\ (m = msg' => Copies(m)' <= attempt')
      <4>1. CASE m # msg
        BY <2>1, <3>1, <4>1, PostCopies DEF CopiesInv
      <4>2. CASE m = msg
        <5>1. Copies(m) <= attempt /\ Copies(m)' <= Copies(m) + 1
          BY <2>1, <4>2, PostCopies DEF CopiesInv
        <5>2. Copies(m) \in Nat /\ Copies(m)' \in Nat
          BY <1>1, <2>1, PostCopies DEF CopiesInv
        <5> QED  BY <1>0, <3>1, <5>1, <5>2
      <4> QED  BY <4>1, <4>2
    <3>3. IsFiniteSet(wire)'
      <4>1. wire' = wire \cup {<<msg, attempt + 1>>}
        BY <2>1 DEF Post
      <4> QED  BY <4>1, FS_AddElement DEF CopiesInv
    <3> QED  BY <3>2, <3>3 DEF CopiesInv
  <2>2. CASE ~Post
    <3>1. /\ UNCHANGED <<wire, channel, msg>>
          /\ attempt' = attempt \/ attempt' = attempt + 1
      BY <1>4, <2>2 DEF Client, RejectURL, PostRefused, ReadReply, PostBreaks,
                        BackoffFires, BackoffCut
    <3>2. ASSUME NEW m \in Msgs, m = msg' PROVE Copies(m)' <= attempt'
      <4>1. Copies(m)' = Copies(m) /\ Copies(m) <= attempt
        BY <1>2, <3>1, <3>2 DEF CopiesInv
      <4> QED  BY <1>0, <1>1, <3>1, <4>1
    <3> QED  BY <1>2, <3>1, <3>2 DEF CopiesInv
  <2> QED  BY <2>1, <2>2
<1>5. CASE Cancel \/ Finished \/ UNCHANGED vars
  <2>1. UNCHANGED <<wire, channel, msg, attempt>>
    BY <1>5 DEF Cancel, Finished, vars, clientVars
  <2> QED  BY <1>2, <2>1 DEF CopiesInv
<1>6. CASE Slack
  <2>1. UNCHANGED <<msg, attempt>>
    BY <1>6 DEF Slack, Processes, Loses, clientVars
  <2>2. ASSUME NEW m \in Msgs, NEW bound \in Nat, Copies(m) <= bound
        PROVE  Copies(m)' <= bound
    <3>1. Copies(m)' <= Copies(m) /\ Copies(m)' \in Nat
      BY <1>6, SlackCopies DEF CopiesInv
    <3> QED  BY <1>1, <2>2, <3>1
  <2>3. IsFiniteSet(wire)'
    <3>1. PICK request \in wire : wire' = wire \ {request}
      BY <1>6 DEF Slack, Processes, Loses
    <3> QED  BY <3>1, FS_RemoveElement DEF CopiesInv
  <2> QED  BY <1>0, <2>1, <2>2, <2>3 DEF CopiesInv
<1> QED  BY <1>3, <1>4, <1>5, <1>6 DEF Next

\* Nothing is on the wire at the start.
LEMMA CopiesInit == Init => CopiesInv
<1> SUFFICES ASSUME Init PROVE CopiesInv
  OBVIOUS
<1>1. IsFiniteSet(wire)
  BY FS_EmptySet DEF Init
<1>2. ASSUME NEW m \in Msgs PROVE Copies(m) = 0
  <2>1. Arrivals(m) = {} /\ OnWire(m) = {}
    BY DEF Init, Arrivals, OnWire
  <2> QED  BY <2>1, FS_EmptySet DEF Copies
<1>3. 0 <= Attempts /\ 0 <= attempt
  BY AttemptsAssumption DEF Init
<1> QED  BY <1>1, <1>2, <1>3 DEF CopiesInv

\* For every number of messages and attempts: no message is posted more often
\* than Send has attempts, however the answers get lost.
THEOREM CopiesAreBounded == Spec => []CopiesBounded
<1>1. Init => CallInv /\ TravelInv /\ CopiesInv
  BY CallInit, TravelInit, CopiesInit
<1>2. CallInv /\ TravelInv /\ CopiesInv /\ [Next]_vars
        => (CallInv /\ TravelInv /\ CopiesInv)'
  BY CallStep, TravelStep, CopiesStep
<1>3. CopiesInv => CopiesBounded
  BY DEF CopiesInv, CopiesBounded, Copies, OnWire
<1> QED  BY <1>1, <1>2, <1>3, PTL DEF Spec

(***************************************************************************)
(* Why a message is given up.                                               *)
(***************************************************************************)
\* For every number of messages and attempts: Send gives a message up only after
\* its last attempt, on a 4xx, without a usable URL or under a dead context.
THEOREM GivingUpIsJustified == Spec => GivesUpForAReason
<1> DEFINE Justified(m) ==
      outcome'[m] = "error" /\ outcome[m] # "error" =>
        \/ attempt' = Attempts
        \/ reply = "4xx"
        \/ url # "valid"
        \/ Dead(m)
<1>1. CallInv /\ [Next]_vars => [\A m \in Msgs : Justified(m)]_vars
  <2> SUFFICES ASSUME CallInv, [Next]_vars, NEW m \in Msgs,
                      outcome'[m] = "error", outcome[m] # "error"
               PROVE  Justified(m)
    OBVIOUS
  <2>1. Client
    BY DEF Next, Call, Cancel, Slack, Processes, Loses, Finished, vars, clientVars
  <2>2. m = msg
    BY <2>1 DEF CallInv, TypeOK, Client, RejectURL, Post, PostRefused, ReadReply,
       PostBreaks, BackoffFires, BackoffCut, Finish, AfterFailure
  <2>3. attempt \in Nat /\ Attempts \in Nat /\ attempt <= Attempts
    BY AttemptsAssumption DEF CallInv, TypeOK
  <2>4. CASE RejectURL \/ Post \/ BackoffFires \/ BackoffCut
    BY <2>2, <2>4 DEF RejectURL, Post, BackoffFires, BackoffCut
  <2>5. CASE PostRefused
    <3>1. attempt' = attempt + 1 /\ attempt < Attempts /\ ~(attempt + 1 < Attempts)
      BY <2>5 DEF PostRefused, AfterFailure, CallInv
    <3> QED  BY <2>3, <3>1
  <2>6. CASE ReadReply \/ PostBreaks
    <3>1. /\ attempt' = attempt
          /\ reply = "4xx" \/ ~(attempt < Attempts)
      BY <2>6 DEF ReadReply, PostBreaks, AfterFailure, Finish, CallInv, TypeOK
    <3> QED  BY <2>3, <3>1
  <2> QED  BY <2>1, <2>4, <2>5, <2>6 DEF Client
<1> QED  BY <1>1, CallInit, CallStep, PTL DEF Spec, GivesUpForAReason
=============================================================================
