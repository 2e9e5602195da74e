--------------------------- MODULE RequestProofs ----------------------------
(***************************************************************************)
(* The http and the container check pass only on what they judge, for any   *)
(* configuration, document, deadline and number of redirects.               *)
(***************************************************************************)
EXTENDS Checkers, Sequences, WellFoundedInduction, TLAPS

(***************************************************************************)
(* One exchange and the verdict on it.                                      *)
(***************************************************************************)
\* The steps of a request are those of its module.
LEMMA RequestSteps ==
  ASSUME type = "request", [Next]_vars
  PROVE  type' = "request" /\ [Request!Next]_(Request!vars)
<1> USE DEF Request!vars, Request!serverVars
<1>1. CASE UNCHANGED vars
  BY <1>1 DEF vars, shared, requestOnly
<1>2. CASE Done
  BY <1>2 DEF Done, vars, shared, requestOnly
<1>3. CASE Next /\ ~Done
  BY <1>3 DEF Next, Evaluate, CmdStep, FileStep, RequestStep, OutputStep, Request!Next
<1> QED  BY <1>1, <1>2, <1>3

\* What was received is a reply, all of it not before its end, and Evaluate goes on
\* to read what was not rejected and to judge what is complete.
RequestStages ==
  /\ Request!Answered => reply \in Request!Replies
  /\ came = "all" => endedAt \in 0..Timeout /\ endedAt <= spent
  /\ pc \in {"enter", "do", "read", "judge"} => verdict = None
  /\ pc = "read" => Request!Answered /\ ~Request!Rejected
  /\ pc = "judge" =>
       want.type = "http" /\ came = "all" /\ endedAt \in 0..Timeout /\ endedAt <= elapsed

\* A verdict of ok was given to the last reply, which can no longer change.
RequestJudged ==
  verdict = "ok" =>
    /\ pc = "returned"
    /\ IF want.type = "http"
         THEN /\ came = "all"
              /\ want.status # None => reply.status = want.status
              /\ want.text => reply.text
              /\ want.rules # <<>> => reply.doc \in Roots
              /\ \A i \in 1..Len(want.rules) : Request!RuleHolds(want.rules[i], reply.doc)
              /\ want.latency > 0 => endedAt < want.latency
         ELSE /\ came \in {"value", "all"} /\ reply.status \in 200..299
              /\ reply.state = IF want.running THEN "running" ELSE "other"

RequestInv == Request!TypeOK /\ RequestStages /\ RequestJudged

\* A return of Evaluate without ok.
LEMMA RequestFails ==
  ASSUME RequestInv, pc # "returned", pc' = "returned", verdict' \in Request!Verdicts,
         verdict' # "ok",
         UNCHANGED <<want, ctxDone, spent, elapsed, hops, reply, came, broken, endedAt>>
  PROVE  RequestInv'
<1>1. Request!TypeOK'
  <2>1. Request!Replies' = Request!Replies
    BY DEF Request!Replies
  <2> QED  BY <2>1 DEF RequestInv, Request!TypeOK
<1>2. RequestStages' /\ RequestJudged'
  BY DEF RequestInv, RequestStages, RequestJudged, Request!Answered, Request!Replies
<1> QED  BY <1>1, <1>2 DEF RequestInv

\* The server sends what it likes, but only while Evaluate is in the exchange.
LEMMA RequestWorldStep ==
  ASSUME RequestInv, Request!Server \/ Request!Tick \/ Request!CancelContext
  PROVE  RequestInv'
<1>1. CASE Request!Redirect
  <2>1. /\ came' = "redirect" /\ pc \in {"do", "read"} /\ came = "nothing"
        /\ UNCHANGED <<want, pc, verdict, ctxDone, spent, elapsed, hops, reply, broken,
                       endedAt>>
    BY <1>1 DEF Request!Redirect, Request!Exchanging
  <2>2. Request!TypeOK'
    BY <2>1 DEF RequestInv, Request!TypeOK, Request!Replies
  <2>3. RequestStages' /\ RequestJudged'
    BY <2>1 DEF RequestInv, RequestStages, RequestJudged, Request!Answered
  <2> QED  BY <2>2, <2>3 DEF RequestInv
<1>2. CASE Request!Break
  <2>1. /\ broken' = TRUE /\ pc \in {"do", "read"}
        /\ UNCHANGED <<want, pc, verdict, ctxDone, spent, elapsed, hops, reply, came, endedAt>>
    BY <1>2 DEF Request!Break, Request!Exchanging
  <2>2. Request!TypeOK'
    BY <2>1 DEF RequestInv, Request!TypeOK, Request!Replies
  <2>3. /\ Request!Replies' = Request!Replies
        /\ Request!Answered' = Request!Answered /\ Request!Rejected' = Request!Rejected
    BY <2>1 DEF Request!Replies, Request!Answered, Request!Rejected
  <2>4. RequestStages'
    BY <2>1, <2>3 DEF RequestInv, RequestStages
  <2>5. verdict' # "ok"
    BY <2>1 DEF RequestInv, RequestJudged
  <2> QED  BY <2>2, <2>4, <2>5 DEF RequestInv, RequestJudged
<1>3. ASSUME NEW r \in Request!Replies, Request!Answer(r)
      PROVE  RequestInv'
  <2>1. /\ came' = "headers" /\ reply' = r /\ pc \in {"do", "read"} /\ came = "nothing"
        /\ UNCHANGED <<want, pc, verdict, ctxDone, spent, elapsed, hops, broken, endedAt>>
    BY <1>3 DEF Request!Answer, Request!Exchanging
  <2>2. Request!Replies' = Request!Replies
    BY <2>1 DEF Request!Replies
  <2>3. Request!TypeOK'
    BY <1>3, <2>1, <2>2 DEF RequestInv, Request!TypeOK
  <2>4. RequestStages' /\ RequestJudged'
    BY <1>3, <2>1, <2>2 DEF RequestInv, RequestStages, RequestJudged, Request!Answered
  <2> QED  BY <2>3, <2>4 DEF RequestInv
<1>4. ASSUME NEW part \in {"value", "all"}, Request!SendBody(part)
      PROVE  RequestInv'
  <2>1. /\ came' = part /\ pc \in {"do", "read"} /\ came \in {"headers", "value"}
        /\ endedAt' = IF part = "all" THEN spent ELSE endedAt
        /\ UNCHANGED <<want, pc, verdict, ctxDone, spent, elapsed, hops, reply, broken>>
    BY <1>4 DEF Request!SendBody, Request!Exchanging
  <2>2. spent \in 0..Timeout /\ spent <= spent
    BY RequestAssumption DEF RequestInv, Request!TypeOK, Request!Assumption
  <2>3. endedAt' = None \/ endedAt' \in 0..Timeout
    BY <2>1, <2>2 DEF RequestInv, Request!TypeOK
  <2>4. Request!Replies' = Request!Replies
    BY <2>1 DEF Request!Replies
  <2>5. Request!TypeOK'
    BY <1>4, <2>1, <2>3, <2>4 DEF RequestInv, Request!TypeOK
  <2>6. RequestStages' /\ RequestJudged'
    BY <1>4, <2>1, <2>2, <2>4 DEF RequestInv, RequestStages, RequestJudged, Request!Answered,
       Request!Rejected
  <2> QED  BY <2>5, <2>6 DEF RequestInv
<1>5. CASE Request!Tick
  <2>1. /\ pc \in {"do", "read"} /\ spent < Timeout /\ spent' = spent + 1
        /\ UNCHANGED <<want, pc, verdict, ctxDone, elapsed, hops, reply, came, broken, endedAt>>
    BY <1>5 DEF Request!Tick, Request!serverVars
  <2>2. spent \in 0..Timeout /\ Timeout \in Nat
    BY RequestAssumption DEF RequestInv, Request!TypeOK, Request!Assumption
  <2>3. spent' \in 0..Timeout /\ \A t \in 0..Timeout : t <= spent => t <= spent'
    BY <2>1, <2>2
  <2>4. Request!TypeOK'
    BY <2>1, <2>3 DEF RequestInv, Request!TypeOK, Request!Replies
  <2>5. /\ Request!Replies' = Request!Replies
        /\ Request!Answered' = Request!Answered /\ Request!Rejected' = Request!Rejected
    BY <2>1 DEF Request!Replies, Request!Answered, Request!Rejected
  <2>6. came' = "all" => endedAt' \in 0..Timeout /\ endedAt' <= spent'
    BY <2>1, <2>3 DEF RequestInv, RequestStages
  <2>7. RequestStages'
    BY <2>1, <2>5, <2>6 DEF RequestInv, RequestStages
  <2>8. verdict' # "ok"
    BY <2>1 DEF RequestInv, RequestJudged
  <2> QED  BY <2>4, <2>7, <2>8 DEF RequestInv, RequestJudged
<1>6. CASE Request!CancelContext
  <2>1. /\ ctxDone' = TRUE
        /\ UNCHANGED <<want, pc, verdict, spent, elapsed, hops, reply, came, broken, endedAt>>
    BY <1>6 DEF Request!CancelContext, Request!serverVars
  <2>2. Request!TypeOK'
    BY <2>1 DEF RequestInv, Request!TypeOK, Request!Replies
  <2>3. /\ Request!Replies' = Request!Replies
        /\ Request!Answered' = Request!Answered /\ Request!Rejected' = Request!Rejected
    BY <2>1 DEF Request!Replies, Request!Answered, Request!Rejected
  <2>4. RequestStages'
    BY <2>1, <2>3 DEF RequestInv, RequestStages
  <2>5. RequestJudged'
    BY <2>1 DEF RequestInv, RequestJudged
  <2> QED  BY <2>2, <2>4, <2>5 DEF RequestInv
<1> QED
  BY <1>1, <1>2, <1>3, <1>4, <1>5, <1>6 DEF Request!Server

\* Evaluate reads only what was accepted and judges only what is complete.
LEMMA RequestEvaluateStep ==
  ASSUME RequestInv, Request!Evaluate
  PROVE  RequestInv'
<1> USE DEF Request!serverVars
<1>1. CASE Request!BuildFails
  <2>1. /\ pc = "enter" /\ pc' = "returned" /\ verdict' = "not built"
        /\ UNCHANGED <<want, ctxDone, spent, elapsed, hops, reply, came, broken, endedAt>>
    BY <1>1 DEF Request!BuildFails, Request!Return
  <2> QED  BY <2>1, RequestFails DEF Request!Verdicts
<1>2. CASE Request!Send
  <2>1. /\ pc = "enter" /\ pc' = "do"
        /\ UNCHANGED <<want, verdict, ctxDone, spent, elapsed, hops, reply, came, broken,
                       endedAt>>
    BY <1>2 DEF Request!Send
  <2>2. Request!TypeOK'
    BY <2>1 DEF RequestInv, Request!TypeOK, Request!Replies
  <2>3. RequestStages' /\ RequestJudged'
    BY <2>1 DEF RequestInv, RequestStages, RequestJudged, Request!Answered, Request!Replies
  <2> QED  BY <2>2, <2>3 DEF RequestInv
<1>3. CASE Request!FollowRedirect
  <2>1. /\ pc = "do" /\ came = "redirect"
        /\ UNCHANGED <<want, ctxDone, spent, elapsed, reply, broken, endedAt>>
    BY <1>3 DEF Request!FollowRedirect
  <2>2. CASE hops < MaxRedirects
    <3>1. hops' = hops + 1 /\ came' = "nothing" /\ UNCHANGED <<pc, verdict>>
      BY <1>3, <2>2 DEF Request!FollowRedirect
    <3>2. hops' \in 0..MaxRedirects
      BY <2>2, <3>1, RequestAssumption DEF RequestInv, Request!TypeOK, Request!Assumption
    <3>3. Request!TypeOK'
      BY <2>1, <3>1, <3>2 DEF RequestInv, Request!TypeOK, Request!Replies
    <3>4. RequestStages' /\ RequestJudged'
      BY <2>1, <3>1 DEF RequestInv, RequestStages, RequestJudged, Request!Answered
    <3> QED  BY <3>3, <3>4 DEF RequestInv
  <2>3. CASE ~(hops < MaxRedirects)
    <3>1. pc' = "returned" /\ verdict' = "request failed" /\ UNCHANGED <<hops, came>>
      BY <1>3, <2>3 DEF Request!FollowRedirect, Request!Return
    <3> QED  BY <2>1, <3>1, RequestFails DEF Request!Verdicts
  <2> QED  BY <2>2, <2>3
<1>4. CASE Request!Cut \/ Request!StatusRejected
  <2>1. /\ pc \in {"do", "read"} /\ pc' = "returned"
        /\ verdict' \in {"request failed", "body failed", "decode failed", "not found",
                         "engine error"}
        /\ UNCHANGED <<want, ctxDone, spent, elapsed, hops, reply, came, broken, endedAt>>
    BY <1>4 DEF Request!Cut, Request!StatusRejected, Request!Return
  <2> QED  BY <2>1, RequestFails DEF Request!Verdicts
<1>5. CASE Request!DoReturns
  <2>1. /\ pc = "do" /\ pc' = "read" /\ Request!Answered /\ ~Request!Rejected
        /\ UNCHANGED <<want, verdict, ctxDone, spent, elapsed, hops, reply, came, broken,
                       endedAt>>
    BY <1>5 DEF Request!DoReturns
  <2>2. Request!TypeOK'
    BY <2>1 DEF RequestInv, Request!TypeOK, Request!Replies
  <2>3. RequestStages' /\ RequestJudged'
    BY <2>1 DEF RequestInv, RequestStages, RequestJudged, Request!Answered, Request!Rejected,
       Request!Replies
  <2> QED  BY <2>2, <2>3 DEF RequestInv
<1>6. CASE Request!ReadBody
  <2>1. /\ pc = "read" /\ pc' = "judge" /\ want.type = "http" /\ came = "all"
        /\ elapsed' = spent
        /\ UNCHANGED <<want, verdict, ctxDone, spent, hops, reply, came, broken, endedAt>>
    BY <1>6 DEF Request!ReadBody
  <2>2. Request!TypeOK'
    BY <2>1 DEF RequestInv, Request!TypeOK, Request!Replies
  <2>3. RequestStages' /\ RequestJudged'
    BY <2>1 DEF RequestInv, RequestStages, RequestJudged, Request!Answered, Request!Replies
  <2> QED  BY <2>2, <2>3 DEF RequestInv
<1>7. CASE Request!Decode
  <2>1. /\ pc = "read" /\ pc' = "returned" /\ want.type = "container"
        /\ came \in {"value", "all"}
        /\ verdict' \in {"decode failed", "state", "ok"}
        /\ verdict' = "ok" => /\ reply.state # "undecodable"
                              /\ (reply.state = "running") = want.running
        /\ UNCHANGED <<want, ctxDone, spent, elapsed, hops, reply, came, broken, endedAt>>
    BY <1>7 DEF Request!Decode, Request!Return
  <2>2. CASE verdict' # "ok"
    BY <2>1, <2>2, RequestFails DEF Request!Verdicts
  <2>3. CASE verdict' = "ok"
    <3>1. reply \in Request!Replies /\ reply.status \in 200..299
      BY <2>1 DEF RequestInv, RequestStages, Request!Answered, Request!Rejected
    <3>2. reply.state \in {"running", "other"}
      BY <2>1, <2>3, <3>1 DEF Request!Replies
    <3>3. reply.state = IF want.running THEN "running" ELSE "other"
      BY <2>1, <2>3, <3>2
    <3>4. Request!TypeOK'
      BY <2>1, <2>3 DEF RequestInv, Request!TypeOK, Request!Replies, Request!Verdicts
    <3>5. RequestStages'
      BY <2>1 DEF RequestInv, RequestStages, Request!Answered, Request!Replies
    <3>6. RequestJudged'
      BY <2>1, <2>3, <3>1, <3>3 DEF RequestJudged
    <3> QED  BY <3>4, <3>5, <3>6 DEF RequestInv
  <2> QED  BY <2>2, <2>3
<1>8. CASE Request!Judge
  <2>1. /\ pc = "judge" /\ pc' = "returned" /\ verdict' = Request!Conditions
        /\ UNCHANGED <<want, ctxDone, spent, elapsed, hops, reply, came, broken, endedAt>>
    BY <1>8 DEF Request!Judge, Request!Return
  <2>2. verdict' \in Request!Verdicts
    BY <2>1 DEF Request!Conditions, Request!Verdicts
  <2>3. CASE verdict' # "ok"
    BY <2>1, <2>2, <2>3, RequestFails
  <2>4. CASE verdict' = "ok"
    <3>1. /\ want.status # None => reply.status = want.status
          /\ want.text => reply.text
          /\ want.rules # <<>> => reply.doc # None
          /\ \A i \in 1..Len(want.rules) : Request!RuleHolds(want.rules[i], reply.doc)
          /\ want.latency > 0 => ~(elapsed >= want.latency)
      BY <2>1, <2>4 DEF Request!Conditions
    <3>2. want.type = "http" /\ came = "all" /\ endedAt \in 0..Timeout /\ endedAt <= elapsed
          /\ reply \in Request!Replies
      BY <2>1 DEF RequestInv, RequestStages, Request!Answered
    <3>3. want.rules # <<>> => reply.doc \in Roots
      BY <3>1, <3>2 DEF Request!Replies
    <3>4. want.latency \in Nat /\ Timeout \in Nat /\ elapsed \in 0..Timeout
      BY <3>2, RequestAssumption DEF RequestInv, Request!TypeOK, Request!Assumption
    <3>5. want.latency > 0 => endedAt < want.latency
      BY <3>1, <3>2, <3>4
    <3>6. Request!TypeOK'
      BY <2>1, <2>2 DEF RequestInv, Request!TypeOK, Request!Replies
    <3>7. RequestStages'
      BY <2>1 DEF RequestInv, RequestStages, Request!Answered, Request!Replies
    <3>8. RequestJudged'
      BY <2>1, <3>1, <3>2, <3>3, <3>5 DEF RequestJudged
    <3> QED  BY <3>6, <3>7, <3>8 DEF RequestInv
  <2> QED  BY <2>3, <2>4
<1> QED
  BY <1>1, <1>2, <1>3, <1>4, <1>5, <1>6, <1>7, <1>8 DEF Request!Evaluate

\* The steps of a request keep the invariant.
LEMMA RequestStays ==
  ASSUME RequestInv, [Request!Next]_(Request!vars)
  PROVE  RequestInv'
<1>1. CASE Request!Returned \/ UNCHANGED Request!vars
  <2>1. UNCHANGED <<want, pc, verdict, ctxDone, spent, elapsed, hops, reply, came, broken,
                    endedAt>>
    BY <1>1 DEF Request!Returned, Request!vars, Request!serverVars
  <2>2. Request!TypeOK'
    BY <2>1 DEF RequestInv, Request!TypeOK, Request!Replies
  <2>3. /\ Request!Replies' = Request!Replies
        /\ Request!Answered' = Request!Answered /\ Request!Rejected' = Request!Rejected
    BY <2>1 DEF Request!Replies, Request!Answered, Request!Rejected
  <2>4. RequestStages'
    BY <2>1, <2>3 DEF RequestInv, RequestStages
  <2>5. RequestJudged'
    BY <2>1 DEF RequestInv, RequestJudged
  <2> QED  BY <2>2, <2>4, <2>5 DEF RequestInv
<1> QED  BY <1>1, RequestWorldStep, RequestEvaluateStep DEF Request!Next

\* Every state of a request has its invariant.
LEMMA RequestInvariant == Spec => [](type = "request" => RequestInv)
<1>1. Init => (type = "request" => RequestInv)
  <2> SUFFICES ASSUME Request!Init PROVE RequestInv
    BY DEF Init
  <2>1. /\ verdict \in Request!Verdicts
        /\ spent \in 0..Timeout /\ elapsed \in 0..Timeout /\ hops \in 0..MaxRedirects
    BY RequestAssumption DEF Request!Init, Request!Verdicts, Request!Assumption
  <2>2. Request!TypeOK
    BY <2>1 DEF Request!Init, Request!TypeOK
  <2>3. RequestStages /\ RequestJudged
    BY RequestAssumption
       DEF Request!Init, RequestStages, RequestJudged, Request!Answered, Request!Assumption
  <2> QED  BY <2>2, <2>3 DEF RequestInv
<1>2. type' = type \/ ~[Next]_vars
  BY DEF Next, Evaluate, CmdStep, FileStep, RequestStep, OutputStep, Done, vars
<1>3. (type = "request" => RequestInv) /\ [Next]_vars => (type = "request" => RequestInv)'
  BY <1>2, RequestSteps, RequestStays
<1> QED  BY <1>1, <1>3, PTL DEF Spec

(***************************************************************************)
(* The paths of body_jsonpath.                                              *)
(***************************************************************************)
\* Every set of natural numbers has a least member; with it the steps of a path are
\* counted off.
LEMMA Least ==
  ASSUME NEW S \in SUBSET Nat, S # {}
  PROVE  \E m \in S : \A n \in S : m <= n
<1>1. PICK m \in S : \A n \in S : ~(<<n, m>> \in OpToRel(<, Nat))
  BY NatLessThanWellFounded, WFMin
<1>2. \A n \in S : ~(n < m)
  BY <1>1 DEF OpToRel
<1> QED  BY <1>2

\* g is the walk along the first n segments of a path.
Walks(g, n, path, root) ==
  /\ g \in [0..n -> Request!Nodes \cup {None}] /\ g[0] = root
  /\ \A i \in 1..n : g[i] = Request!Follow(g[i - 1], path[i])

\* One segment leads to a node of the document or to none.
LEMMA FollowType ==
  ASSUME NEW node, NEW segment \in Request!Segments
  PROVE  Request!Follow(node, segment) \in Request!Nodes \cup {None}
<1>1. CASE ~(node # None /\ Request!HasChild(node, segment))
  BY <1>1 DEF Request!Follow
<1>2. CASE node # None /\ Request!HasChild(node, segment)
  <2>1. Request!Follow(node, segment) = Request!Child(node, segment)
    BY <1>2 DEF Request!Follow
  <2>2. CASE segment.isIndex
    <3>1. segment.key \in Nat
      BY <2>2 DEF Request!Segments
    <3>2. node \in Request!Arrays /\ segment.key < Len(Items[node])
      BY <1>2, <2>2 DEF Request!HasChild
    <3>3. Items[node] \in Seq(Request!Nodes)
      BY <3>2, RequestAssumption DEF Request!Assumption
    <3>4. segment.key + 1 \in 1..Len(Items[node])
      BY <3>1, <3>2, <3>3
    <3> QED  BY <2>1, <2>2, <3>3, <3>4 DEF Request!Child
  <2>3. CASE ~segment.isIndex
    <3>1. node \in Request!Objects /\ segment.key \in DOMAIN Members[node]
      BY <1>2, <2>3 DEF Request!HasChild
    <3>2. Members[node][segment.key] \in {Members[node][f] : f \in DOMAIN Members[node]}
      BY <3>1
    <3>3. Members[node][segment.key] \in
            UNION {{Members[o][f] : f \in DOMAIN Members[o]} : o \in Request!Objects}
      BY <3>1, <3>2
    <3> QED  BY <2>1, <2>3, <3>3 DEF Request!Child, Request!Nodes
  <2> QED  BY <2>2, <2>3
<1> QED  BY <1>1, <1>2

\* Every path can be walked to its end.
LEMMA WalkExists ==
  ASSUME NEW root \in Request!Nodes, NEW path \in Seq(Request!Segments)
  PROVE  \E g : Walks(g, Len(path), path, root)
<1> DEFINE S == {n \in 0..Len(path) : ~ \E g : Walks(g, n, path, root)}
<1>1. SUFFICES ASSUME S # {} PROVE FALSE
  BY DEF S
<1>2. PICK m \in S : \A n \in S : m <= n
  <2>1. S \in SUBSET Nat
    OBVIOUS
  <2> HIDE DEF S
  <2> QED  BY <1>1, <2>1, Least
<1>3. m # 0
  <2>1. Walks([i \in 0..0 |-> root], 0, path, root)
    BY DEF Walks
  <2> QED  BY <1>2, <2>1
<1>4. m - 1 \in 0..Len(path) /\ m - 1 \notin S /\ m \in 1..Len(path)
  BY <1>2, <1>3
<1>5. PICK g : Walks(g, m - 1, path, root)
  BY <1>4
<1> DEFINE last == Request!Follow(g[m - 1], path[m])
           h == [i \in 0..m |-> IF i = m THEN last ELSE g[i]]
<1>6. path[m] \in Request!Segments
  BY <1>4
<1>7. last \in Request!Nodes \cup {None}
  BY <1>6, FollowType
<1>8. \A i \in 0..(m - 1) : h[i] = g[i] /\ g[i] \in Request!Nodes \cup {None}
  BY <1>4, <1>5 DEF Walks
<1>9. h \in [0..m -> Request!Nodes \cup {None}]
  <2> HIDE DEF last
  <2>1. \A i \in 0..m : h[i] \in Request!Nodes \cup {None}
    <3> TAKE i \in 0..m
    <3>1. CASE i = m
      BY <1>7, <3>1
    <3>2. CASE i # m
      <4>1. i \in 0..(m - 1)
        BY <1>4, <3>2
      <4> QED  BY <1>8, <4>1
    <3> QED  BY <3>1, <3>2
  <2> QED  BY <2>1
<1>10. \A i \in 1..m : h[i] = Request!Follow(h[i - 1], path[i])
  <2> TAKE i \in 1..m
  <2>1. CASE i = m
    BY <1>4, <2>1
  <2>2. CASE i # m
    <3>1. i \in 1..(m - 1) /\ i \in 0..(m - 1) /\ i - 1 \in 0..(m - 1)
      BY <1>4, <2>2
    <3>2. g[i] = Request!Follow(g[i - 1], path[i])
      BY <1>5, <3>1 DEF Walks
    <3> QED  BY <1>8, <3>1, <3>2
  <2> QED  BY <2>1, <2>2
<1>11. Walks(h, m, path, root)
  <2>1. h[0] = root
    BY <1>4, <1>5, <1>8 DEF Walks
  <2> QED  BY <1>9, <1>10, <2>1 DEF Walks
<1> QED  BY <1>2, <1>11

\* evalJSONPath returns what is at the end of the walk.
LEMMA EvalPathWalks ==
  ASSUME NEW root \in Request!Nodes, NEW path \in Seq(Request!Segments)
  PROVE  \E g : Walks(g, Len(path), path, root) /\ Request!EvalPath(path, root) = g[Len(path)]
<1> DEFINE Def(w) == [i \in 0..Len(path) |-> IF i = 0 THEN root
                                             ELSE Request!Follow(w[i - 1], path[i])]
           walk == CHOOSE w : w = Def(w)
<1>1. PICK g : Walks(g, Len(path), path, root)
  BY WalkExists
<1>2. g = Def(g)
  BY <1>1 DEF Walks
<1>3. walk = Def(walk)
  BY <1>2
<1>4. Request!EvalPath(path, root) = walk[Len(path)]
  BY DEF Request!EvalPath
<1>5. /\ \A i \in 0..Len(path) :
           walk[i] = IF i = 0 THEN root ELSE Request!Follow(walk[i - 1], path[i])
      /\ DOMAIN walk = 0..Len(path)
      /\ walk = [i \in 0..Len(path) |-> walk[i]]
  BY <1>3
<1> HIDE DEF walk
<1>6. walk \in [0..Len(path) -> Request!Nodes \cup {None}]
  <2>1. \A i \in 0..Len(path) : walk[i] \in Request!Nodes \cup {None}
    <3> TAKE i \in 0..Len(path)
    <3>1. CASE i = 0
      BY <1>5, <3>1
    <3>2. CASE i # 0
      <4>1. i \in 1..Len(path) /\ path[i] \in Request!Segments
        BY <3>2
      <4> QED  BY <1>5, <3>2, <4>1, FollowType
    <3> QED  BY <3>1, <3>2
  <2> QED  BY <1>5, <2>1
<1>7. walk[0] = root /\ \A i \in 1..Len(path) : walk[i] = Request!Follow(walk[i - 1], path[i])
  BY <1>5
<1> QED  BY <1>4, <1>6, <1>7 DEF Walks

\* A walk along the nodes of the document is the walk.
LEMMA WalkUnique ==
  ASSUME NEW root \in Request!Nodes, NEW path \in Seq(Request!Segments),
         NEW g, Walks(g, Len(path), path, root),
         NEW w \in [0..Len(path) -> Request!Nodes], w[0] = root,
         \A i \in 1..Len(path) : /\ Request!HasChild(w[i - 1], path[i])
                                 /\ w[i] = Request!Child(w[i - 1], path[i])
  PROVE  g[Len(path)] = w[Len(path)]
<1> DEFINE S == {n \in 0..Len(path) : g[n] # w[n]}
<1>1. SUFFICES ASSUME S # {} PROVE FALSE
  BY DEF S
<1>2. PICK m \in S : \A n \in S : m <= n
  <2>1. S \in SUBSET Nat
    OBVIOUS
  <2> HIDE DEF S
  <2> QED  BY <1>1, <2>1, Least
<1>3. m \in 1..Len(path)
  BY <1>2 DEF Walks
<1>4. m - 1 \in 0..Len(path) /\ m - 1 \notin S
  BY <1>2, <1>3
<1>5. g[m - 1] = w[m - 1] /\ w[m - 1] \in Request!Nodes
  BY <1>4
<1>6. w[m - 1] # None
  BY <1>5, RequestAssumption DEF Request!Assumption
<1>7. g[m] = Request!Follow(g[m - 1], path[m])
  BY <1>3 DEF Walks
<1>8. g[m] = w[m]
  BY <1>3, <1>5, <1>6, <1>7 DEF Request!Follow
<1> QED  BY <1>2, <1>8

\* A walk that ends at a node went from node to node.
LEMMA WalkStays ==
  ASSUME NEW root \in Request!Nodes, NEW path \in Seq(Request!Segments),
         NEW g, Walks(g, Len(path), path, root), g[Len(path)] # None
  PROVE  /\ g \in [0..Len(path) -> Request!Nodes]
         /\ \A i \in 1..Len(path) : /\ Request!HasChild(g[i - 1], path[i])
                                    /\ g[i] = Request!Child(g[i - 1], path[i])
<1> DEFINE S == {n \in 0..Len(path) : g[Len(path) - n] = None}
<1>1. S = {}
  <2>1. SUFFICES ASSUME S # {} PROVE FALSE
    OBVIOUS
  <2>2. PICK m \in S : \A n \in S : m <= n
    <3>1. S \in SUBSET Nat
      OBVIOUS
    <3> HIDE DEF S
    <3> QED  BY <2>1, <3>1, Least
  <2>3. m \in 1..Len(path)
    BY <2>2
  <2> DEFINE k == Len(path) - m
  <2>4. k + 1 \in 1..Len(path) /\ m - 1 \notin S /\ m - 1 \in 0..Len(path)
    BY <2>2, <2>3
  <2>5. g[k] = None /\ g[k + 1] # None
    <3>1. Len(path) - (m - 1) = k + 1
      BY <2>3
    <3> QED  BY <2>2, <2>4, <3>1
  <2>6. g[k + 1] = Request!Follow(g[k], path[k + 1])
    <3>1. \A i \in 1..Len(path), j \in Int : j + 1 = i => i - 1 = j
      OBVIOUS
    <3>2. k \in Int
      BY <2>3
    <3> HIDE DEF k
    <3> QED  BY <2>4, <3>1, <3>2 DEF Walks
  <2> QED  BY <2>5, <2>6 DEF Request!Follow
<1>2. \A i \in 0..Len(path) : g[i] # None
  <2> TAKE i \in 0..Len(path)
  <2>1. Len(path) - i \in 0..Len(path) /\ Len(path) - (Len(path) - i) = i
    OBVIOUS
  <2> QED  BY <1>1, <2>1
<1>3. g \in [0..Len(path) -> Request!Nodes]
  BY <1>2 DEF Walks
<1>4. ASSUME NEW i \in 1..Len(path)
      PROVE  /\ Request!HasChild(g[i - 1], path[i])
             /\ g[i] = Request!Child(g[i - 1], path[i])
  <2>1. i \in 0..Len(path) /\ g[i] # None /\ g[i] = Request!Follow(g[i - 1], path[i])
    BY <1>2 DEF Walks
  <2> QED  BY <2>1 DEF Request!Follow
<1> QED  BY <1>3, <1>4

\* evalJSONPath finds a node if and only if the path leads there.
LEMMA EvalPathLeads ==
  ASSUME NEW root \in Request!Nodes, NEW path \in Seq(Request!Segments),
         NEW node \in Request!Nodes
  PROVE  Request!Leads(path, root, node) <=> Request!EvalPath(path, root) = node
<1>1. PICK g : Walks(g, Len(path), path, root) /\ Request!EvalPath(path, root) = g[Len(path)]
  BY EvalPathWalks
<1>2. node # None
  BY RequestAssumption DEF Request!Assumption
<1>3. ASSUME Request!Leads(path, root, node)
      PROVE  g[Len(path)] = node
  BY <1>1, <1>3, WalkUnique DEF Request!Leads
<1>4. ASSUME g[Len(path)] = node
      PROVE  Request!Leads(path, root, node)
  <2>1. g[0] = root
    BY <1>1 DEF Walks
  <2> QED  BY <1>1, <1>2, <1>4, <2>1, WalkStays DEF Request!Leads
<1> QED  BY <1>1, <1>3, <1>4

\* evaluateRule accepts a rule only when the document satisfies it.
LEMMA RuleSatisfied ==
  ASSUME NEW root \in Request!Nodes, NEW rule, rule.path \in Seq(Request!Segments),
         rule.op \in {"exists", "equals", "match"}, Request!RuleHolds(rule, root)
  PROVE  Request!Satisfies(rule, root)
<1> DEFINE value == Request!EvalPath(rule.path, root)
           found == {v \in Request!Nodes : Request!Leads(rule.path, root, v)}
<1>1. \A v \in Request!Nodes : v \in found <=> value = v
  BY EvalPathLeads
<1>2. value \in Request!Nodes \cup {None}
  <2>1. PICK g : Walks(g, Len(rule.path), rule.path, root) /\ value = g[Len(rule.path)]
    BY EvalPathWalks
  <2>2. Len(rule.path) \in 0..Len(rule.path)
    OBVIOUS
  <2> HIDE DEF value
  <2> QED  BY <2>1, <2>2 DEF Walks
<1>3. None \notin Request!Nodes /\ Texts \subseteq Request!Nodes
  BY RequestAssumption DEF Request!Assumption, Request!Nodes
<1>4. found \subseteq Request!Nodes
  OBVIOUS
<1> HIDE DEF value, found
<1>5. found = IF value = None THEN {} ELSE {value}
  BY <1>1, <1>2, <1>3, <1>4
<1>6. CASE rule.op = "exists"
  <2>1. (value # None) = rule.arg
    BY <1>6 DEF Request!RuleHolds, value
  <2>2. rule.arg = (found # {})
    BY <1>5, <2>1
  <2> QED  BY <1>6, <2>2 DEF Request!Satisfies, found
<1>7. CASE rule.op = "equals"
  <2>1. value # None /\ value = rule.arg
    BY <1>7 DEF Request!RuleHolds, value
  <2> QED  BY <1>5, <1>7, <2>1 DEF Request!Satisfies, found
<1>8. CASE rule.op = "match"
  <2>1. value \in Texts /\ value \in rule.arg
    BY <1>8 DEF Request!RuleHolds, value
  <2>2. found # {} /\ found \subseteq rule.arg \cap Texts
    BY <1>3, <1>5, <2>1
  <2> QED  BY <1>8, <2>2 DEF Request!Satisfies, found
<1> QED  BY <1>6, <1>7, <1>8

\* An http or container check passes only on what it judges: the whole of the last
\* reply, in time, and what each path of it leads to (httpcheck.go: Evaluate,
\* evaluateRule; container.go: Evaluate).
THEOREM RequestPasses == Spec => []RequestPassIsReal
<1>1. (type = "request" => RequestInv) => RequestPassIsReal
  <2> SUFFICES ASSUME RequestInv, verdict = "ok" PROVE Request!PassIsReal
    BY DEF RequestPassIsReal, Request!PassIsReal
  <2>1. ASSUME want.type = "http", NEW i \in 1..Len(want.rules)
        PROVE  Request!Satisfies(want.rules[i], reply.doc)
    <3>1. /\ want.rules[i].path \in Seq(Request!Segments)
          /\ want.rules[i].op \in {"exists", "equals", "match"}
      BY <2>1, RequestAssumption DEF RequestInv, Request!TypeOK, Request!Assumption
    <3>2. Request!RuleHolds(want.rules[i], reply.doc)
      BY <2>1 DEF RequestInv, RequestJudged
    <3>3. want.rules # <<>>
      BY <2>1
    <3>4. reply.doc \in Request!Nodes
      BY <2>1, <3>3 DEF RequestInv, RequestJudged, Request!Nodes
    <3> QED  BY <3>1, <3>2, <3>4, RuleSatisfied
  <2> QED  BY <2>1 DEF RequestInv, RequestJudged, Request!PassIsReal
<1> QED  BY <1>1, RequestInvariant, PTL
=============================================================================
