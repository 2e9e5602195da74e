------------------------------- MODULE Notify -------------------------------
(***************************************************************************)
(* notify.Client.Send: one goroutine sends messages 1, 2, ... to the Slack  *)
(* webhook.  Each call makes up to Attempts POSTs with a backoff in front   *)
(* of every retry; a 2xx ends it well, a 4xx ends it at once, anything else *)
(* is retried, and the cancellation of the context cuts it short.           *)
(*                                                                         *)
(* The network and Slack are the environment: a request that left may be    *)
(* lost, processed after the client has given it up, or processed although  *)
(* the answer says otherwise or never comes back.                           *)
(***************************************************************************)
EXTENDS Naturals, Sequences, FiniteSets

CONSTANTS
  MaxMessages,  \* bound: how many messages the caller sends
  Attempts,     \* len(Backoffs) + 1
  Bound,        \* the messages sent under the cancellable context
  None          \* no reply yet

ASSUME MessagesAssumption ==
  MaxMessages \in Nat \ {0} /\ Bound \subseteq 1..MaxMessages
ASSUME AttemptsAssumption == Attempts \in Nat \ {0}
ASSUME NoneAssumption == None \notin {"2xx", "4xx", "other"}

VARIABLES
  url,        \* the webhook URL: "empty", "malformed" or "valid"
  msg,        \* the message of the current or latest call
  phase,      \* where that call is
  attempt,    \* how many POSTs it has tried
  reply,      \* the status Slack answered the current POST with
  wire,       \* requests <<message, attempt>> on their way to Slack
  channel,    \* messages Slack has posted, in order
  cancelled,  \* ctx.Err() # nil for the Bound messages
  outcome,    \* what each call returned
  silent      \* history: messages whose call began with ctx cancelled

clientVars == <<msg, phase, attempt, outcome, silent>>
vars == <<url, clientVars, reply, wire, channel, cancelled>>

Msgs == 1..MaxMessages
Statuses == {"2xx", "4xx", "other"}
Phases == {"idle", "ready", "posting", "backoff"}

Dead(m) == cancelled /\ m \in Bound

Finish(result) ==
  /\ phase' = "idle"
  /\ outcome' = [outcome EXCEPT ![msg] = result]

\* Mutant: the attempts are counted over all calls.
CallKeepsCounting ==
  /\ phase = "idle" /\ msg < MaxMessages
  /\ msg' = msg + 1
  /\ phase' = "ready"
  /\ silent' = IF Dead(msg + 1) THEN silent \cup {msg + 1} ELSE silent
  /\ UNCHANGED <<url, attempt, outcome, reply, wire, channel, cancelled>>

\* Entry of Send, with the check of the URL.
Call ==
  /\ phase = "idle" /\ msg < MaxMessages
  /\ msg' = msg + 1 /\ attempt' = 0
  /\ phase' = "ready"
  /\ silent' = IF Dead(msg + 1) THEN silent \cup {msg + 1} ELSE silent
  /\ UNCHANGED <<url, outcome, reply, wire, channel, cancelled>>

\* An empty URL, or one no request can be built from, fails before any POST.
RejectURL ==
  /\ phase = "ready" /\ url # "valid"
  /\ Finish("error")
  /\ UNCHANGED <<url, msg, attempt, silent, reply, wire, channel, cancelled>>

\* Mutant: the request is built without the context.
PostWithoutContext ==
  /\ phase = "ready" /\ url = "valid"
  /\ attempt' = attempt + 1 /\ phase' = "posting" /\ reply' = None
  /\ wire' = wire \cup {<<msg, attempt + 1>>}
  /\ UNCHANGED <<url, msg, outcome, silent, channel, cancelled>>

\* httpClient.Do puts a request on the wire; under a dead context it does not.
Post ==
  /\ phase = "ready" /\ url = "valid" /\ ~Dead(msg)
  /\ attempt' = attempt + 1 /\ phase' = "posting" /\ reply' = None
  /\ wire' = wire \cup {<<msg, attempt + 1>>}
  /\ UNCHANGED <<url, msg, outcome, silent, channel, cancelled>>

\* Mutant: one backoff, hence one attempt, too many.
AfterFailureOffByOne(k) ==
  IF k <= Attempts THEN phase' = "backoff" /\ UNCHANGED outcome
                   ELSE Finish("error")

\* What follows the k-th failed attempt: the backoff or the end of the call.
AfterFailure(k) ==
  IF k < Attempts THEN phase' = "backoff" /\ UNCHANGED outcome
                  ELSE Finish("error")

\* Do fails before anything is on the wire: dead context, no route, no DNS.
PostRefused ==
  /\ phase = "ready" /\ url = "valid"
  /\ attempt' = attempt + 1
  /\ AfterFailure(attempt + 1)
  /\ UNCHANGED <<url, msg, silent, reply, wire, channel, cancelled>>

\* Mutant: every answer that is not a 4xx counts as a success.
ReadReplyTrusting ==
  /\ phase = "posting" /\ reply # None
  /\ IF reply = "4xx" THEN Finish("error") ELSE Finish("ok")
  /\ reply' = None
  /\ UNCHANGED <<url, msg, attempt, silent, wire, channel, cancelled>>

\* Mutant: a 5xx is as final as a 4xx.
ReadReplyFinal ==
  /\ phase = "posting" /\ reply # None
  /\ IF reply = "2xx" THEN Finish("ok") ELSE Finish("error")
  /\ reply' = None
  /\ UNCHANGED <<url, msg, attempt, silent, wire, channel, cancelled>>

\* The answer is read: 2xx succeeds, 4xx is final, the rest is retried.
ReadReply ==
  /\ phase = "posting" /\ reply # None
  /\ CASE reply = "2xx" -> Finish("ok")
       [] reply = "4xx" -> Finish("error")
       [] OTHER -> AfterFailure(attempt)
  /\ reply' = None
  /\ UNCHANGED <<url, msg, attempt, silent, wire, channel, cancelled>>

\* Mutant: http.DefaultClient, which has no timeout.
PostBreaksOnCancel ==
  /\ phase = "posting" /\ Dead(msg)
  /\ AfterFailure(attempt)
  /\ reply' = None
  /\ UNCHANGED <<url, msg, attempt, silent, wire, channel, cancelled>>

\* The 30 s timeout of the HTTP client, the context or the transport ends the
\* POST; whatever Slack did or will do with the request, the client is blind.
PostBreaks ==
  /\ phase = "posting"
  /\ AfterFailure(attempt)
  /\ reply' = None
  /\ UNCHANGED <<url, msg, attempt, silent, wire, channel, cancelled>>

\* The select between ctx.Done and the timer takes either when both are ready.
BackoffFires ==
  /\ phase = "backoff"
  /\ phase' = "ready"
  /\ UNCHANGED <<url, msg, attempt, outcome, silent, reply, wire, channel,
                 cancelled>>

BackoffCut ==
  /\ phase = "backoff" /\ Dead(msg)
  /\ Finish("error")
  /\ UNCHANGED <<url, msg, attempt, silent, reply, wire, channel, cancelled>>

Cancel ==
  /\ ~cancelled /\ cancelled' = TRUE
  /\ UNCHANGED <<url, clientVars, reply, wire, channel>>

\* Slack processes a request: it posts the message or not, and answers.  Only
\* the answer to the POST the client is waiting for reaches it.
Processes(request, posts, status) ==
  /\ request \in wire
  /\ status = "2xx" => posts
  /\ status = "4xx" => ~posts
  /\ wire' = wire \ {request}
  /\ channel' = IF posts THEN Append(channel, request[1]) ELSE channel
  /\ reply' = IF phase = "posting" /\ request = <<msg, attempt>>
                THEN status ELSE reply
  /\ UNCHANGED <<url, clientVars, cancelled>>

Loses(request) ==
  /\ request \in wire
  /\ wire' = wire \ {request}
  /\ UNCHANGED <<url, clientVars, reply, channel, cancelled>>

Init ==
  /\ url \in {"empty", "malformed", "valid"}
  /\ msg = 0 /\ phase = "idle" /\ attempt = 0 /\ reply = None
  /\ wire = {} /\ channel = <<>> /\ cancelled = FALSE
  /\ outcome = [m \in Msgs |-> "none"] /\ silent = {}

Client ==
  \/ RejectURL \/ Post \/ PostRefused \/ ReadReply \/ PostBreaks
  \/ BackoffFires \/ BackoffCut

Slack ==
  \E request \in wire :
    \/ \E posts \in BOOLEAN, status \in Statuses :
         Processes(request, posts, status)
    \/ Loses(request)

\* The caller has sent everything.
Finished == phase = "idle" /\ msg = MaxMessages /\ UNCHANGED vars

Next == Call \/ Client \/ Cancel \/ Slack \/ Finished

Spec == Init /\ [][Next]_vars

\* The client's goroutine runs and its timers fire; Slack owes nothing.
FairSpec == Spec /\ WF_vars(Client)

(***************************************************************************)
(* Properties.                                                              *)
(***************************************************************************)
TypeOK ==
  /\ url \in {"empty", "malformed", "valid"}
  /\ msg \in 0..MaxMessages /\ phase \in Phases
  /\ attempt \in 0..Attempts
  /\ reply \in Statuses \cup {None}
  /\ wire \subseteq Msgs \X (1..Attempts)
  /\ channel \in Seq(Msgs)
  /\ cancelled \in BOOLEAN
  /\ outcome \in [Msgs -> {"none", "ok", "error"}]
  /\ silent \subseteq Msgs

Arrivals(m) == {i \in 1..Len(channel) : channel[i] = m}

\* A message whose Send returned nil is in the channel, in front of every copy
\* of a later message: this is what lets watch send its startup notice first
\* and have it seen before the failures.  Late copies of unacknowledged
\* attempts do not disturb it.
AcknowledgedArrives ==
  \A m \in Msgs : outcome[m] = "ok" =>
    \E i \in Arrivals(m) : \A n \in Msgs : n > m =>
      \A j \in Arrivals(n) : i < j

\* However the answers get lost, no message is posted more often than Send has
\* attempts: every arrival is one of its own POSTs.
CopiesBounded ==
  \A m \in Msgs :
    Cardinality(Arrivals(m)) + Cardinality({r \in wire : r[1] = m}) <= Attempts

\* Nothing handed over under a context that is already cancelled ever arrives.
SilentStaysSilent ==
  \A m \in silent : Arrivals(m) = {} /\ \A r \in wire : r[1] # m

\* Send gives a message up only when every attempt was made, Slack refused it
\* with a 4xx, the URL is unusable or the context was cancelled.
GivesUpForAReason ==
  [][\A m \in Msgs : outcome'[m] = "error" /\ outcome[m] # "error" =>
       \/ attempt' = Attempts
       \/ reply = "4xx"
       \/ url # "valid"
       \/ Dead(m)]_vars

\* Send always returns, whatever Slack and the network do with the requests.
SendReturns == (phase # "idle") ~> (phase = "idle")

\* The client implements the contract its callers are written against.
Contract == INSTANCE Delivery WITH open <- phase # "idle"
DeliversAsPromised == Contract!Spec
=============================================================================
