------------------------------ MODULE Delivery ------------------------------
(***************************************************************************)
(* What a caller of Notifier.Send may rely on (internal/lifecycle,          *)
(* internal/notify), with no word about attempts, replies or timers.  One   *)
(* goroutine hands over messages 1, 2, ... one after the other.             *)
(*                                                                         *)
(*   - a call that returns nil was accepted by the channel before it        *)
(*     returned, hence before the next message is handed over;              *)
(*   - a call that returns an error promises nothing: the message may be    *)
(*     missing, arrive later, or arrive several times;                      *)
(*   - a message handed over under a context that is already cancelled      *)
(*     never arrives.                                                       *)
(***************************************************************************)
EXTENDS Naturals, Sequences

CONSTANTS
  MaxMessages,  \* bound: how many messages are handed over
  Bound         \* the messages sent under the cancellable context

VARIABLES
  msg,        \* the last message handed over
  open,       \* its call of Send has not returned
  outcome,    \* what each call returned
  cancelled,  \* the context of the Bound messages
  silent,     \* messages handed over under a cancelled context
  channel     \* arrivals in the Slack channel, in order

deliveryVars == <<msg, open, outcome, cancelled, silent, channel>>

Msgs == 1..MaxMessages
Arrived(m) == \E i \in 1..Len(channel) : channel[i] = m

Init ==
  /\ msg = 0 /\ open = FALSE
  /\ outcome = [m \in Msgs |-> "none"]
  /\ cancelled = FALSE /\ silent = {} /\ channel = <<>>

HandOver ==
  /\ ~open /\ msg < MaxMessages
  /\ msg' = msg + 1 /\ open' = TRUE
  /\ silent' = IF cancelled /\ msg + 1 \in Bound
                 THEN silent \cup {msg + 1} ELSE silent
  /\ UNCHANGED <<outcome, cancelled, channel>>

Arrive(m) ==
  /\ m <= msg /\ m \notin silent
  /\ channel' = Append(channel, m)
  /\ UNCHANGED <<msg, open, outcome, cancelled, silent>>

Return(result) ==
  /\ open
  /\ result = "ok" => Arrived(msg)
  /\ open' = FALSE
  /\ outcome' = [outcome EXCEPT ![msg] = result]
  /\ UNCHANGED <<msg, cancelled, silent, channel>>

Cancel ==
  /\ ~cancelled /\ cancelled' = TRUE
  /\ UNCHANGED <<msg, open, outcome, silent, channel>>

Next ==
  \/ HandOver \/ Cancel
  \/ \E m \in Msgs : Arrive(m)
  \/ \E result \in {"ok", "error"} : Return(result)

Spec == Init /\ [][Next]_deliveryVars
=============================================================================
