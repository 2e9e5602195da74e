---------------------------- MODULE RequestCheck ----------------------------
(***************************************************************************)
(* One evaluation of an http check (internal/checker/httpcheck) or of a     *)
(* container check (internal/checker/container): one exchange through       *)
(* net/http under a deadline, and the verdict on the reply.  The deadline   *)
(* is the timeout of the http check, and the runner's hard cap for a        *)
(* container check (runner.go: evaluate).                                   *)
(*                                                                         *)
(* The server is the environment: it redirects, answers, sends its body in  *)
(* pieces, stalls or breaks off as it likes.  JSON values are nodes of a    *)
(* document: Members and Items say what an object and an array hold, every  *)
(* other node is a scalar; equal values are the same node.                  *)
(***************************************************************************)
EXTENDS Integers, Sequences

CONSTANTS
  Members,      \* for each object, its fields and their values
  Items,        \* for each array, its elements
  Roots,        \* documents a server may send
  Texts,        \* the nodes that are strings
  Statuses,     \* HTTP statuses a server may answer with
  RequestWants, \* configurations of the check
  Timeout,      \* the deadline
  MaxRedirects, \* redirects net/http follows (10)
  None          \* no verdict, no expectation, no body

Objects == DOMAIN Members
Arrays == DOMAIN Items
Nodes ==
  Objects \cup Arrays \cup Texts \cup Roots
    \cup UNION {{Members[o][f] : f \in DOMAIN Members[o]} : o \in Objects}
    \cup UNION {{Items[a][i] : i \in 1..Len(Items[a])} : a \in Arrays}

\* parseJSONPath: no index is negative.
Segments == [isIndex : {TRUE}, key : Nat] \cup [isIndex : {FALSE}, key : STRING]

Assumption ==
  /\ Timeout \in Nat \ {0} /\ MaxRedirects \in Nat
  /\ None \notin Nodes \cup Int \cup {"ok"}
  /\ \A a \in Arrays : Items[a] \in Seq(Nodes)
  /\ Objects \cap (Arrays \cup Texts) = {} /\ Arrays \cap Texts = {}
  \* compileExpect and compileRule: something is expected, and each rule has a
  \* path and one of the operators.
  /\ \A w \in RequestWants :
       w.type = "http" =>
         /\ w.latency \in Nat
         /\ w.status # None \/ w.text \/ w.rules # <<>> \/ w.latency > 0
         /\ \A i \in 1..Len(w.rules) :
              /\ w.rules[i].path \in Seq(Segments)
              /\ w.rules[i].op \in {"exists", "equals", "match"}

VARIABLES
  want,      \* the configuration
  pc,        \* where Evaluate is
  verdict,   \* what it returned
  ctxDone,   \* its context is cancelled
  spent,     \* time since the request was sent
  elapsed,   \* the latency Evaluate measured
  hops,      \* redirects followed
  reply,     \* what the server answers: status, text looked for, JSON document
  came,      \* how much of it came: "nothing", "headers", "value" (the first
             \* JSON value is complete) or "all"
  broken,    \* the connection broke
  endedAt    \* history: when the last byte came

serverVars == <<reply, came, broken, endedAt>>
vars == <<want, pc, verdict, ctxDone, spent, elapsed, hops, serverVars>>

(***************************************************************************)
(* body_jsonpath.                                                           *)
(***************************************************************************)
\* A segment of a path: an index, counted from 0, or a field.
HasChild(node, segment) ==
  IF segment.isIndex THEN node \in Arrays /\ segment.key < Len(Items[node])
                     ELSE node \in Objects /\ segment.key \in DOMAIN Members[node]

Child(node, segment) ==
  IF segment.isIndex THEN Items[node][segment.key + 1]
                     ELSE Members[node][segment.key]

\* One turn of its loop: None stands for "not found".
Follow(node, segment) ==
  IF node # None /\ HasChild(node, segment) THEN Child(node, segment) ELSE None

\* evalJSONPath: where the path leads from the root.
EvalPath(segments, root) ==
  LET walk[i \in 0..Len(segments)] ==
        IF i = 0 THEN root ELSE Follow(walk[i - 1], segments[i])
  IN walk[Len(segments)]

\* Mutant: equals compares nothing when the path leads nowhere.
RuleHoldsIfFound(rule, root) ==
  LET v == EvalPath(rule.path, root) IN
  CASE rule.op = "exists" -> (v # None) = rule.arg
    [] rule.op = "equals" -> v = None \/ v = rule.arg
    [] rule.op = "match"  -> v \in Texts /\ v \in rule.arg

\* evaluateRule; contains and regex are a set of strings that match.
RuleHolds(rule, root) ==
  LET v == EvalPath(rule.path, root) IN
  CASE rule.op = "exists" -> (v # None) = rule.arg
    [] rule.op = "equals" -> v # None /\ v = rule.arg
    [] rule.op = "match"  -> v \in Texts /\ v \in rule.arg

(***************************************************************************)
(* Evaluate.                                                                *)
(***************************************************************************)
Return(result) == pc' = "returned" /\ verdict' = result

\* The URL or the method of the configuration is no good.
BuildFails ==
  /\ pc = "enter"
  /\ Return("not built")
  /\ UNCHANGED <<want, ctxDone, spent, elapsed, hops, serverVars>>

Send ==
  /\ pc = "enter" /\ pc' = "do"
  /\ UNCHANGED <<want, verdict, ctxDone, spent, elapsed, hops, serverVars>>

\* http.Client follows a redirect with a new request, up to a limit.
FollowRedirect ==
  /\ pc = "do" /\ came = "redirect"
  /\ IF hops < MaxRedirects
       THEN /\ hops' = hops + 1 /\ came' = "nothing"
            /\ UNCHANGED <<pc, verdict>>
       ELSE Return("request failed") /\ UNCHANGED <<hops, came>>
  /\ UNCHANGED <<want, ctxDone, spent, elapsed, reply, broken, endedAt>>

\* The deadline, the context or the network ends the exchange; what was received
\* by then may still be read.
Cut ==
  /\ pc \in {"do", "read"}
  /\ spent >= Timeout \/ ctxDone \/ broken
  /\ Return(IF pc = "do" THEN "request failed"
            ELSE IF want.type = "http" THEN "body failed" ELSE "decode failed")
  /\ UNCHANGED <<want, ctxDone, spent, elapsed, hops, serverVars>>

Answered == came \in {"headers", "value", "all"}

\* A container check looks at the status before it reads the body.
Rejected == want.type = "container" /\ reply.status \notin 200..299

StatusRejected ==
  /\ pc = "do" /\ Answered /\ Rejected
  /\ Return(IF reply.status = 404 THEN "not found" ELSE "engine error")
  /\ UNCHANGED <<want, ctxDone, spent, elapsed, hops, serverVars>>

DoReturns ==
  /\ pc = "do" /\ Answered /\ ~Rejected
  /\ pc' = "read"
  /\ UNCHANGED <<want, verdict, ctxDone, spent, elapsed, hops, serverVars>>

\* io.ReadAll, and the latency up to its end.
ReadBody ==
  /\ pc = "read" /\ want.type = "http" /\ came = "all"
  /\ pc' = "judge" /\ elapsed' = spent
  /\ UNCHANGED <<want, verdict, ctxDone, spent, hops, serverVars>>

\* json.Decoder.Decode is content with the first value; an undecodable one may
\* also be an empty or a cut one.
Decode ==
  /\ pc = "read" /\ want.type = "container" /\ came \in {"value", "all"}
  /\ Return(IF reply.state = "undecodable" THEN "decode failed"
            ELSE IF (reply.state = "running") # want.running THEN "state"
            ELSE "ok")
  /\ UNCHANGED <<want, ctxDone, spent, elapsed, hops, serverVars>>

\* The first condition that is not met decides; the latency comes last.
Conditions ==
  IF want.status # None /\ reply.status # want.status THEN "status"
  ELSE IF want.text /\ ~reply.text THEN "text"
  ELSE IF want.rules # <<>> /\ reply.doc = None THEN "no JSON"
  ELSE IF \E i \in 1..Len(want.rules) : ~RuleHolds(want.rules[i], reply.doc) THEN "rule"
  ELSE IF want.latency > 0 /\ elapsed >= want.latency THEN "slow"
  ELSE "ok"

Judge ==
  /\ pc = "judge"
  /\ Return(Conditions)
  /\ UNCHANGED <<want, ctxDone, spent, elapsed, hops, serverVars>>

(***************************************************************************)
(* The server, the network and the clock.                                   *)
(***************************************************************************)
Exchanging == pc \in {"do", "read"} /\ ~broken

Replies ==
  IF want.type = "http"
    THEN [status : Statuses, text : BOOLEAN, doc : Roots \cup {None}, state : {None}]
    ELSE [status : Statuses, text : {FALSE}, doc : {None},
          state : {"running", "other", "undecodable"}]

Redirect ==
  /\ Exchanging /\ came = "nothing"
  /\ came' = "redirect"
  /\ UNCHANGED <<want, pc, verdict, ctxDone, spent, elapsed, hops, reply, broken,
                 endedAt>>

Answer(r) ==
  /\ Exchanging /\ came = "nothing"
  /\ came' = "headers" /\ reply' = r
  /\ UNCHANGED <<want, pc, verdict, ctxDone, spent, elapsed, hops, broken, endedAt>>

SendBody(part) ==
  /\ Exchanging
  /\ came = "headers" \/ (came = "value" /\ part = "all")
  /\ came' = part
  /\ endedAt' = IF part = "all" THEN spent ELSE endedAt
  /\ UNCHANGED <<want, pc, verdict, ctxDone, spent, elapsed, hops, reply, broken>>

Break ==
  /\ Exchanging /\ came # "all"
  /\ broken' = TRUE
  /\ UNCHANGED <<want, pc, verdict, ctxDone, spent, elapsed, hops, reply, came,
                 endedAt>>

Tick ==
  /\ pc \in {"do", "read"} /\ spent < Timeout
  /\ spent' = spent + 1
  /\ UNCHANGED <<want, pc, verdict, ctxDone, elapsed, hops, serverVars>>

CancelContext ==
  /\ ~ctxDone /\ ctxDone' = TRUE
  /\ UNCHANGED <<want, pc, verdict, spent, elapsed, hops, serverVars>>

(***************************************************************************)
(* The specification.                                                       *)
(***************************************************************************)
Init ==
  /\ want \in RequestWants
  /\ pc = "enter" /\ verdict = None /\ ctxDone = FALSE
  /\ spent = 0 /\ elapsed = 0 /\ hops = 0
  /\ reply = None /\ came = "nothing" /\ broken = FALSE /\ endedAt = None

Evaluate ==
  \/ BuildFails \/ Send \/ FollowRedirect \/ Cut
  \/ StatusRejected \/ DoReturns \/ ReadBody \/ Decode \/ Judge

Server ==
  \/ Redirect \/ Break
  \/ \E r \in Replies : Answer(r)
  \/ \E part \in {"value", "all"} : SendBody(part)

Returned == pc = "returned" /\ UNCHANGED vars

Next == Evaluate \/ Server \/ Tick \/ CancelContext \/ Returned

Spec == Init /\ [][Next]_vars

\* The goroutine runs and time passes; the server owes nothing.
FairSpec == Spec /\ WF_vars(Evaluate) /\ WF_vars(Tick)

(***************************************************************************)
(* Properties.                                                              *)
(***************************************************************************)
Verdicts == {None, "not built", "request failed", "body failed", "not found",
             "engine error", "decode failed", "state", "status", "text", "no JSON",
             "rule", "slow", "ok"}

TypeOK ==
  /\ want \in RequestWants
  /\ pc \in {"enter", "do", "read", "judge", "returned"}
  /\ verdict \in Verdicts
  /\ ctxDone \in BOOLEAN /\ broken \in BOOLEAN
  /\ spent \in 0..Timeout /\ elapsed \in 0..Timeout /\ hops \in 0..MaxRedirects
  /\ (reply = None \/ reply \in Replies)
  /\ came \in {"nothing", "redirect", "headers", "value", "all"}
  /\ (endedAt = None \/ endedAt \in 0..Timeout)

\* What a path leads to, step by step from the root.
Leads(path, root, node) ==
  \E walk \in [0..Len(path) -> Nodes] :
    /\ walk[0] = root /\ walk[Len(path)] = node
    /\ \A i \in 1..Len(path) :
         HasChild(walk[i - 1], path[i]) /\ walk[i] = Child(walk[i - 1], path[i])

Satisfies(rule, root) ==
  LET found == {v \in Nodes : Leads(rule.path, root, v)} IN
  CASE rule.op = "exists" -> rule.arg = (found # {})
    [] rule.op = "equals" -> found = {rule.arg}
    [] rule.op = "match"  -> found # {} /\ found \subseteq rule.arg \cap Texts

\* A check passes only on the last reply of the chain of redirects and on all of
\* what it judges: an http check on the whole body, which came in less than
\* latency_under after the first request, a container check on a complete value.
PassIsReal ==
  verdict = "ok" =>
    IF want.type = "http"
      THEN /\ came = "all"
           /\ want.status # None => reply.status = want.status
           /\ want.text => reply.text
           /\ \A i \in 1..Len(want.rules) : Satisfies(want.rules[i], reply.doc)
           /\ want.latency > 0 => endedAt < want.latency
      ELSE /\ came \in {"value", "all"} /\ reply.status \in 200..299
           /\ reply.state = IF want.running THEN "running" ELSE "other"

\* The server cannot keep Evaluate from returning, wherever it stalls and however
\* often it redirects.
EvaluateReturns == <>(pc = "returned")
=============================================================================
