----------------------------- MODULE EdgeProofs -----------------------------
(***************************************************************************)
(* Theorems about Edge, for any number of requests, payloads, deliveries   *)
(* and interruptions.                                                      *)
(***************************************************************************)
EXTENDS Edge, TLAPS

Busy == {"mark", "resolve", "insert", "content", "window", "publish"}

-----------------------------------------------------------------------------
(* Types *)

\* What a request that is not idle holds.
LEMMA BusyTyped ==
  ASSUME TypeOK, NEW r \in Request, ~At(r, "idle")
  PROVE  /\ req[r] \in InFlight /\ req[r].stage \in Busy
         /\ req[r].payload \in Payload /\ req[r].out \in Seq(Published)
         /\ req[r].item \in DOMAIN Batch(r) /\ req[r].principal \in Nat
         /\ Batch(r) \in Seq(Item) /\ Current(r) \in Item
         /\ req[r].item \in 1 .. Len(Batch(r)) /\ Len(Batch(r)) \in Nat
<1>1. req[r] \in InFlight
  BY DEF TypeOK, At, Idle
<1>2. /\ req[r].payload \in Payload /\ req[r].out \in Seq(Published)
      /\ req[r].stage \in Busy /\ req[r].principal \in Nat
  BY <1>1 DEF InFlight, Busy
<1>3. Batch(r) \in Seq(Item)
  BY <1>2, EdgeAssumption DEF Batch
<1>4. req[r].item \in DOMAIN Batch(r)
  BY DEF TypeOK
<1>5. Current(r) \in Item
  BY <1>3, <1>4 DEF Current
<1>6. req[r].item \in 1 .. Len(Batch(r)) /\ Len(Batch(r)) \in Nat
  BY <1>3, <1>4
<1> QED
  BY <1>1, <1>2, <1>3, <1>4, <1>5, <1>6

\* Replacing one request's record by another of its type.
LEMMA PutTyped ==
  ASSUME TypeOK, NEW r \in Request, NEW t \in InFlight,
         req' = [req EXCEPT ![r] = t], t.item \in DOMAIN Items[t.payload]
  PROVE  /\ req' \in [Request -> {Idle} \cup InFlight]
         /\ \A q \in Request : ~At(q, "idle")' => req'[q].item \in DOMAIN Batch(q)'
<1>1. req' \in [Request -> {Idle} \cup InFlight] /\ req'[r] = t
  BY DEF TypeOK
<1>2. \A q \in Request : q # r => req'[q] = req[q]
  BY DEF TypeOK
<1> QED
  BY <1>1, <1>2 DEF TypeOK, At, Batch

LEMMA IdleTyped ==
  ASSUME TypeOK, NEW r \in Request, req' = [req EXCEPT ![r] = Idle]
  PROVE  /\ req' \in [Request -> {Idle} \cup InFlight]
         /\ \A q \in Request : ~At(q, "idle")' => req'[q].item \in DOMAIN Batch(q)'
<1>1. req' \in [Request -> {Idle} \cup InFlight] /\ req'[r] = Idle
  BY DEF TypeOK
<1>2. \A q \in Request : q # r => req'[q] = req[q]
  BY DEF TypeOK
<1> QED
  BY <1>1, <1>2 DEF TypeOK, At, Batch, Idle

\* A request that goes on with its item keeps payload, item and events.
LEMMA KeepEffect ==
  ASSUME TypeOK, NEW r \in Request, ~At(r, "idle"), NEW s \in Busy, NEW p \in Nat,
         \/ req' = [req EXCEPT ![r].stage = s]
         \/ req' = [req EXCEPT ![r].principal = p, ![r].stage = s]
  PROVE  /\ req' \in [Request -> {Idle} \cup InFlight]
         /\ \A q \in Request : ~At(q, "idle")' => req'[q].item \in DOMAIN Batch(q)'
         /\ req'[r].stage = s /\ req'[r].payload = req[r].payload
         /\ req'[r].item = req[r].item /\ req'[r].out = req[r].out
         /\ \A q \in Request : q # r => req'[q] = req[q]
<1>1. req[r] \in InFlight /\ req[r].item \in DOMAIN Items[req[r].payload]
  BY BusyTyped DEF Batch
<1>2. CASE req' = [req EXCEPT ![r].stage = s]
  <2> DEFINE t == [req[r] EXCEPT !.stage = s]
  <2>1. /\ t \in InFlight /\ t.item = req[r].item /\ t.payload = req[r].payload
        /\ t.stage = s /\ t.out = req[r].out
        /\ req' = [req EXCEPT ![r] = t]
    BY <1>1, <1>2 DEF InFlight, Busy
  <2> HIDE DEF t
  <2> QED
    BY <1>1, <2>1, PutTyped DEF TypeOK
<1>3. CASE req' = [req EXCEPT ![r].principal = p, ![r].stage = s]
  <2> DEFINE t == [req[r] EXCEPT !.principal = p, !.stage = s]
  <2>1. /\ t \in InFlight /\ t.item = req[r].item /\ t.payload = req[r].payload
        /\ t.stage = s /\ t.out = req[r].out
        /\ req' = [req EXCEPT ![r] = t]
    BY <1>1, <1>3 DEF InFlight, Busy, TypeOK
  <2> HIDE DEF t
  <2> QED
    BY <1>1, <2>1, PutTyped DEF TypeOK
<1> QED
  BY <1>2, <1>3

\* A request that hands its first event to Kafka.
LEMMA TailEffect ==
  ASSUME TypeOK, NEW r \in Request, At(r, "publish"), req[r].out # <<>>,
         req' = [req EXCEPT ![r].out = Tail(@)]
  PROVE  /\ req' \in [Request -> {Idle} \cup InFlight]
         /\ \A q \in Request : ~At(q, "idle")' => req'[q].item \in DOMAIN Batch(q)'
         /\ req'[r].stage = "publish" /\ req'[r].out = Tail(req[r].out)
         /\ req'[r].payload = req[r].payload /\ req'[r].item = req[r].item
         /\ Tail(req[r].out) \in Seq(Published) /\ Head(req[r].out) \in Published
         /\ \A q \in Request : q # r => req'[q] = req[q]
<1>1. ~At(r, "idle")
  BY DEF At
<1>2. /\ req[r] \in InFlight /\ req[r].item \in DOMAIN Items[req[r].payload]
      /\ req[r].out \in Seq(Published)
  BY <1>1, BusyTyped DEF Batch
<1>3. Tail(req[r].out) \in Seq(Published) /\ Head(req[r].out) \in Published
  BY <1>2
<1> DEFINE t == [req[r] EXCEPT !.out = Tail(req[r].out)]
<1>4. /\ t \in InFlight /\ t.item = req[r].item /\ t.payload = req[r].payload
      /\ t.stage = "publish" /\ t.out = Tail(req[r].out)
      /\ req' = [req EXCEPT ![r] = t]
  BY <1>2, <1>3 DEF InFlight, At
<1> HIDE DEF t
<1> QED
  BY <1>2, <1>3, <1>4, PutTyped DEF TypeOK

\* What Done makes of a request.
LEMMA DoneEffect ==
  ASSUME TypeOK, NEW r \in Request, ~At(r, "idle"), NEW out \in Seq(Published),
         Done(r, out)
  PROVE  /\ req' \in [Request -> {Idle} \cup InFlight]
         /\ \A q \in Request : ~At(q, "idle")' => req'[q].item \in DOMAIN Batch(q)'
         /\ req'[r].out = out /\ req'[r].stage \in {"mark", "window", "publish"}
         /\ req'[r].payload = req[r].payload
         /\ \/ req'[r].stage = "mark" /\ req'[r].item = req[r].item + 1
            \/ req'[r].stage # "mark" /\ req'[r].item = req[r].item
         /\ req'[r].stage = "publish" => out = <<>>
         /\ \A q \in Request : q # r => req'[q] = req[q]
<1>2. /\ req[r] \in InFlight /\ req[r].item \in 1 .. Len(Batch(r))
      /\ Len(Batch(r)) \in Nat /\ Batch(r) = Items[req[r].payload]
      /\ DOMAIN Batch(r) = 1 .. Len(Batch(r))
  BY BusyTyped DEF Batch
<1>3. CASE ~IsLast(r)
  <2> DEFINE t == [req[r] EXCEPT !.stage = "mark", !.item = req[r].item + 1, !.out = out]
  <2>1. req' = [req EXCEPT ![r] = t]
    BY <1>3 DEF Done
  <2>2. req[r].item + 1 \in 1 .. Len(Batch(r)) /\ req[r].item + 1 \in Nat
    BY <1>2, <1>3 DEF IsLast
  <2>3. /\ t \in InFlight /\ t.item = req[r].item + 1 /\ t.payload = req[r].payload
        /\ t.out = out /\ t.stage = "mark"
    BY <1>2, <2>2 DEF InFlight
  <2> HIDE DEF t
  <2>4. t.item \in DOMAIN Items[t.payload]
    BY <1>2, <2>2, <2>3
  <2> QED
    BY <2>1, <2>3, <2>4, PutTyped DEF TypeOK
<1>4. CASE IsLast(r)
  <2>1. PICK s \in {"window", "publish"} :
          /\ s = "publish" => out = <<>>
          /\ req' = [req EXCEPT ![r] = [req[r] EXCEPT !.out = out, !.stage = s]]
    BY <1>4 DEF Done
  <2> DEFINE t == [req[r] EXCEPT !.out = out, !.stage = s]
  <2>2. /\ t \in InFlight /\ t.item = req[r].item /\ t.payload = req[r].payload
        /\ t.out = out /\ t.stage \in {"window", "publish"}
        /\ t.stage = "publish" => out = <<>>
    BY <1>2, <2>1 DEF InFlight
  <2>3. req' = [req EXCEPT ![r] = t]
    BY <2>1
  <2> HIDE DEF t
  <2>4. t.item \in DOMAIN Items[t.payload]
    BY <1>2, <2>2
  <2> QED
    BY <2>2, <2>3, <2>4, PutTyped DEF TypeOK
<1> QED
  BY <1>3, <1>4

\* The event a request makes of its item.
LEMMA EventTyped ==
  ASSUME TypeOK, NEW r \in Request, ~At(r, "idle")
  PROVE  Event(r) \in Published /\ Append(req[r].out, Event(r)) \in Seq(Published)
<1>1. Current(r) \in Item /\ req[r].principal \in Nat /\ req[r].out \in Seq(Published)
  BY BusyTyped
<1>2. Event(r) \in Published
  BY <1>1 DEF Event, Published, Item
<1> QED
  BY <1>1, <1>2

\* One lemma for every way a request changes: the rest of the type invariant.
LEMMA OthersTyped ==
  ASSUME TypeOK,
         req' \in [Request -> {Idle} \cup InFlight],
         \A q \in Request : ~At(q, "idle")' => req'[q].item \in DOMAIN Batch(q)',
         deliveries' \in [Payload -> 0 .. MaxDeliveries], acked' \subseteq Payload,
         marked' \subseteq STRING, identifier' \in [Customer -> Nat],
         principals' \in [Customer -> Nat], window' \subseteq Customer,
         inbound' \in Seq(Published), collisions' \in Nat,
         interruptions' \in 0 .. MaxInterruptions
  PROVE  TypeOK'
  BY DEF TypeOK

LEMMA NextTyped == TypeOK /\ [Next]_vars => TypeOK'
<1> SUFFICES ASSUME TypeOK, [Next]_vars PROVE TypeOK'
  OBVIOUS
<1>0. /\ deliveries \in [Payload -> 0 .. MaxDeliveries] /\ acked \subseteq Payload
      /\ marked \subseteq STRING /\ identifier \in [Customer -> Nat]
      /\ principals \in [Customer -> Nat] /\ window \subseteq Customer
      /\ inbound \in Seq(Published) /\ collisions \in Nat
      /\ interruptions \in 0 .. MaxInterruptions
      /\ MaxDeliveries \in Nat /\ MaxInterruptions \in Nat
  BY EdgeAssumption DEF TypeOK
<1>i. Interrupted => interruptions' \in 0 .. MaxInterruptions
  BY <1>0 DEF Interrupted
<1> USE DEF provider, identities
<1>1. CASE UNCHANGED vars
  BY <1>1 DEF TypeOK, vars, At, Batch
<1>2. ASSUME NEW r \in Request, NEW p \in Payload, Deliver(r, p) PROVE TypeOK'
  <2> DEFINE t == [stage |-> "mark", payload |-> p, item |-> 1, principal |-> 0,
                   out |-> <<>>]
  <2>1. t \in InFlight /\ t.item = 1 /\ t.payload = p /\ req' = [req EXCEPT ![r] = t]
    BY <1>2 DEF Deliver, InFlight
  <2> HIDE DEF t
  <2>2. Items[p] \in Seq(Item) /\ Items[p] # <<>>
    BY EdgeAssumption
  <2>3. 1 \in DOMAIN Items[p]
    BY <2>2
  <2>4. /\ req' \in [Request -> {Idle} \cup InFlight]
        /\ \A q \in Request : ~At(q, "idle")' => req'[q].item \in DOMAIN Batch(q)'
    BY <2>1, <2>3, PutTyped
  <2>5. deliveries' \in [Payload -> 0 .. MaxDeliveries]
    BY <1>0, <1>2 DEF Deliver
  <2>6. acked' \subseteq Payload
    BY <1>0, <1>2 DEF Deliver
  <2> QED
    BY <1>0, <1>2, <2>4, <2>5, <2>6, OthersTyped DEF Deliver
<1>3. ASSUME NEW r \in Request, Mark(r) PROVE TypeOK'
  <2>1. ~At(r, "idle")
    BY <1>3 DEF Mark, At
  <2>2. req[r].out \in Seq(Published) /\ Current(r) \in Item
    BY <2>1, BusyTyped
  <2>3. marked' \subseteq STRING
    BY <1>0, <1>3, <2>2 DEF Mark, Item
  <2>4. Goto(r, "resolve") \/ Done(r, req[r].out)
    BY <1>3 DEF Mark
  <2>5. /\ req' \in [Request -> {Idle} \cup InFlight]
        /\ \A q \in Request : ~At(q, "idle")' => req'[q].item \in DOMAIN Batch(q)'
    <3>1. CASE Goto(r, "resolve")
      BY <2>1, <3>1, KeepEffect DEF Goto, Busy
    <3>2. CASE Done(r, req[r].out)
      BY <2>1, <2>2, <3>2, DoneEffect
    <3> QED
      BY <2>4, <3>1, <3>2
  <2> QED
    BY <1>0, <1>3, <2>3, <2>5, OthersTyped DEF Mark
<1>4. ASSUME NEW r \in Request, Resolve(r) PROVE TypeOK'
  <2>1. ~At(r, "idle")
    BY <1>4 DEF Resolve, At
  <2>2. identifier[Current(r).customer] \in Nat
    BY <1>0, <2>1, BusyTyped DEF Item
  <2>3. \E p \in Nat, s \in Busy : req' = [req EXCEPT ![r].principal = p, ![r].stage = s]
    BY <1>4, <2>2 DEF Resolve, Busy
  <2>4. /\ req' \in [Request -> {Idle} \cup InFlight]
        /\ \A q \in Request : ~At(q, "idle")' => req'[q].item \in DOMAIN Batch(q)'
    BY <2>1, <2>3, KeepEffect
  <2> QED
    BY <1>0, <1>4, <2>4, OthersTyped DEF Resolve
<1>5. ASSUME NEW r \in Request, Insert(r) PROVE TypeOK'
  <2>1. ~At(r, "idle")
    BY <1>5 DEF Insert, At
  <2>2. Current(r).customer \in Customer
    BY <2>1, BusyTyped DEF Item
  <2>3. principals[Current(r).customer] + 1 \in Nat
    BY <1>0, <2>2
  <2>4. principals' \in [Customer -> Nat] /\ identifier' \in [Customer -> Nat]
    BY <1>0, <1>5, <2>3 DEF Insert
  <2>5. \E p \in Nat, s \in Busy : req' = [req EXCEPT ![r].principal = p, ![r].stage = s]
    BY <1>5, <2>3 DEF Insert, Busy
  <2>6. /\ req' \in [Request -> {Idle} \cup InFlight]
        /\ \A q \in Request : ~At(q, "idle")' => req'[q].item \in DOMAIN Batch(q)'
    BY <2>1, <2>5, KeepEffect
  <2> QED
    BY <1>0, <1>5, <2>4, <2>6, OthersTyped DEF Insert
<1>6. ASSUME NEW r \in Request, InsertRefused(r) \/ Finish(r) \/ Lose(r) PROVE TypeOK'
  <2>1. req' = [req EXCEPT ![r] = Idle]
    BY <1>6 DEF InsertRefused, Finish, Lose
  <2>2. /\ req' \in [Request -> {Idle} \cup InFlight]
        /\ \A q \in Request : ~At(q, "idle")' => req'[q].item \in DOMAIN Batch(q)'
    BY <2>1, IdleTyped
  <2>3. /\ UNCHANGED <<deliveries, acked, marked, identifier, principals, window, inbound>>
        /\ collisions' \in Nat /\ interruptions' \in 0 .. MaxInterruptions
    <3>1. CASE InsertRefused(r)
      BY <1>0, <3>1 DEF InsertRefused
    <3>2. CASE Finish(r)
      BY <1>0, <3>2 DEF Finish
    <3>3. CASE Lose(r)
      BY <1>0, <1>i, <3>3 DEF Lose
    <3> QED
      BY <1>6, <3>1, <3>2, <3>3
  <2> QED
    BY <1>0, <2>2, <2>3, OthersTyped
<1>7. ASSUME NEW r \in Request, Translate(r) PROVE TypeOK'
  <2>1. ~At(r, "idle")
    BY <1>7 DEF Translate, At
  <2>2. \E out \in Seq(Published) : Done(r, out)
    BY <1>7, <2>1, EventTyped, BusyTyped DEF Translate
  <2>3. /\ req' \in [Request -> {Idle} \cup InFlight]
        /\ \A q \in Request : ~At(q, "idle")' => req'[q].item \in DOMAIN Batch(q)'
    BY <2>1, <2>2, DoneEffect
  <2> QED
    BY <1>0, <1>7, <2>3, OthersTyped DEF Translate
<1>8. ASSUME NEW r \in Request, RefreshWindow(r) PROVE TypeOK'
  <2>1. ~At(r, "idle") /\ Goto(r, "publish")
    BY <1>8 DEF RefreshWindow, At
  <2>2. Batch(r) \in Seq(Item)
    BY <2>1, BusyTyped
  <2>3. \A i \in DOMAIN Batch(r) : Batch(r)[i].customer \in Customer
    <3>1. \A i \in DOMAIN Batch(r) : Batch(r)[i] \in Item
      BY <2>2
    <3> QED
      BY <3>1 DEF Item
  <2>4. window' \subseteq Customer
    BY <1>0, <1>8, <2>3 DEF RefreshWindow
  <2>5. /\ req' \in [Request -> {Idle} \cup InFlight]
        /\ \A q \in Request : ~At(q, "idle")' => req'[q].item \in DOMAIN Batch(q)'
    BY <2>1, KeepEffect DEF Goto, Busy
  <2> QED
    BY <1>0, <1>8, <2>4, <2>5, OthersTyped DEF RefreshWindow
<1>9. ASSUME NEW r \in Request, Publish(r) \/ PublishFails(r) PROVE TypeOK'
  <2>1. /\ At(r, "publish") /\ req[r].out # <<>>
        /\ req' = [req EXCEPT ![r].out = Tail(@)]
        /\ inbound' \in {inbound, Append(inbound, Head(req[r].out))}
    BY <1>9 DEF Publish, PublishFails
  <2>2. /\ req' \in [Request -> {Idle} \cup InFlight]
        /\ \A q \in Request : ~At(q, "idle")' => req'[q].item \in DOMAIN Batch(q)'
        /\ Head(req[r].out) \in Published
    BY <2>1, TailEffect
  <2>3. \A e \in Published : Append(inbound, e) \in Seq(Published)
    BY <1>0
  <2>4. inbound' \in Seq(Published)
    BY <1>0, <2>1, <2>2, <2>3
  <2> QED
    BY <1>0, <1>i, <1>9, <2>2, <2>4, OthersTyped DEF Publish, PublishFails
<1> QED
  BY <1>1, <1>2, <1>3, <1>4, <1>5, <1>6, <1>7, <1>8, <1>9 DEF Next, Handle

LEMMA InitTyped == Init => TypeOK
<1> SUFFICES ASSUME Init PROVE TypeOK
  OBVIOUS
<1>1. identifier \in [Customer -> Nat] /\ principals \in [Customer -> Nat]
  BY DEF Init
<1> QED
  BY <1>1, EdgeAssumption DEF Init, TypeOK, At, Idle

\* The types hold in every reachable state, for any requests and payloads.
THEOREM TypeCorrect == Spec => []TypeOK
  BY InitTyped, NextTyped, PTL DEF Spec

-----------------------------------------------------------------------------
(* Sequences of events and their keys *)

Distinct(events) ==
    \A i, j \in DOMAIN events : events[i].mark = events[j].mark => i = j

LEMMA MarksAppend ==
  ASSUME NEW s \in Seq(Published), NEW e \in Published
  PROVE  /\ MarksOf(Append(s, e)) = MarksOf(s) \cup {e.mark}
         /\ Distinct(s) /\ e.mark \notin MarksOf(s) => Distinct(Append(s, e))
<1> DEFINE n == Len(s) + 1  t == Append(s, e)
<1>1. /\ DOMAIN t = DOMAIN s \cup {n} /\ n \notin DOMAIN s
      /\ t[n] = e /\ \A i \in DOMAIN s : t[i] = s[i]
  OBVIOUS
<1> HIDE DEF n, t
<1>2. MarksOf(t) = MarksOf(s) \cup {e.mark}
  BY <1>1 DEF MarksOf
<1>3. Distinct(s) /\ e.mark \notin MarksOf(s) => Distinct(t)
  BY <1>1 DEF Distinct, MarksOf
<1> QED
  BY <1>2, <1>3 DEF t

LEMMA MarksTail ==
  ASSUME NEW s \in Seq(Published), s # <<>>
  PROVE  /\ MarksOf(s) = {Head(s).mark} \cup MarksOf(Tail(s))
         /\ Distinct(s) => Distinct(Tail(s)) /\ Head(s).mark \notin MarksOf(Tail(s))
<1> DEFINE t == Tail(s)
<1>1. /\ 1 \in DOMAIN s /\ Head(s) = s[1]
      /\ \A i \in DOMAIN t : i \in Nat /\ i # 0 /\ i + 1 \in DOMAIN s /\ t[i] = s[i + 1]
      /\ \A i \in DOMAIN s : i = 1 \/ (i - 1 \in DOMAIN t /\ t[i - 1] = s[i])
  OBVIOUS
<1> HIDE DEF t
<1>2. MarksOf(s) = {Head(s).mark} \cup MarksOf(t)
  BY <1>1 DEF MarksOf
<1>3. ASSUME Distinct(s) PROVE Distinct(t) /\ Head(s).mark \notin MarksOf(t)
  <2>1. ASSUME NEW i \in DOMAIN t, NEW j \in DOMAIN t, t[i].mark = t[j].mark
        PROVE  i = j
    <3>1. i + 1 = j + 1
      BY <1>1, <1>3, <2>1 DEF Distinct
    <3> QED
      BY <1>1, <3>1
  <2>2. ASSUME NEW i \in DOMAIN t, t[i].mark = Head(s).mark PROVE FALSE
    <3>1. i + 1 = 1
      BY <1>1, <1>3, <2>2 DEF Distinct
    <3> QED
      BY <1>1, <3>1
  <2> QED
    BY <2>1, <2>2 DEF Distinct, MarksOf
<1> QED
  BY <1>2, <1>3 DEF t

-----------------------------------------------------------------------------
(* One claim, one event *)

\* A request that has claimed its item and has not translated it yet.
Working(r) == req[r].stage \in {"resolve", "insert", "content"}

\* The events a request holds have keys of their own, and so has its item.
Tidy(r) ==
    ~At(r, "idle") => /\ Distinct(req[r].out)
                      /\ Working(r) => Current(r).mark \notin MarksOf(req[r].out)

\* What is claimed is with one request, on the topic, or lost, and in one
\* place only.
ClaimInv ==
    /\ MarksOf(inbound) \subseteq marked /\ Distinct(inbound)
    /\ \A r \in Request :
         /\ Carried(r) \subseteq marked
         /\ Carried(r) \cap MarksOf(inbound) = {}
         /\ Tidy(r)
         /\ \A q \in Request : q # r => Carried(q) \cap Carried(r) = {}

\* A request that stays as it is holds what it held.
LEMMA SameCarried ==
  ASSUME NEW q \in Request, req'[q] = req[q]
  PROVE  Carried(q)' = Carried(q) /\ (Tidy(q) => Tidy(q)')
<1>1. /\ Current(q)' = Current(q) /\ At(q, "idle")' = At(q, "idle")
      /\ Working(q)' = Working(q)
  BY DEF Current, Batch, At, Working
<1>2. MarksOf(req[q].out)' = MarksOf(req[q].out) /\ Distinct(req[q].out)' = Distinct(req[q].out)
  BY DEF MarksOf, Distinct
<1>3. Carried(q)' = Carried(q)
  BY <1>1, <1>2 DEF Carried
<1>4. Tidy(q) => Tidy(q)'
  BY <1>1, <1>2 DEF Tidy
<1> QED
  BY <1>3, <1>4

LEMMA OthersCarry ==
  ASSUME NEW r \in Request, \A q \in Request : q # r => req'[q] = req[q]
  PROVE  \A q \in Request : q # r => /\ Carried(q)' = Carried(q)
                                     /\ Tidy(q) => Tidy(q)'
  BY SameCarried

\* A step on one request that gives up claims, or keeps them.
LEMMA HoldStep ==
  ASSUME ClaimInv, NEW r \in Request, UNCHANGED <<marked, inbound>>,
         \A q \in Request : q # r => req'[q] = req[q],
         Carried(r)' \subseteq Carried(r), Tidy(r)'
  PROVE  ClaimInv'
<1>1. \A q \in Request : q # r => Carried(q)' = Carried(q) /\ Tidy(q)'
  BY OthersCarry DEF ClaimInv
<1>2. MarksOf(inbound)' = MarksOf(inbound) /\ Distinct(inbound)'
  BY DEF MarksOf, Distinct, ClaimInv
<1>3. \A q \in Request : Carried(q)' \subseteq Carried(q)
  BY <1>1
<1>4. \A q \in Request : /\ Carried(q) \subseteq marked
                          /\ Carried(q) \cap MarksOf(inbound) = {} /\ Tidy(q)
                          /\ \A p \in Request : p # q => Carried(p) \cap Carried(q) = {}
  BY DEF ClaimInv
<1>5. \A q \in Request : Tidy(q)'
  BY <1>1
<1>6. \A q \in Request : Carried(q)' \subseteq marked'
  BY <1>3, <1>4
<1>7. \A q \in Request : Carried(q)' \cap MarksOf(inbound)' = {}
  BY <1>2, <1>3, <1>4
<1>8. \A q \in Request : \A p \in Request : p # q => Carried(p)' \cap Carried(q)' = {}
  BY <1>3, <1>4
<1>9. MarksOf(inbound)' \subseteq marked'
  BY <1>2 DEF ClaimInv
<1> QED
  BY <1>2, <1>5, <1>6, <1>7, <1>8, <1>9 DEF ClaimInv

LEMMA ClaimNext == ClaimInv /\ TypeOK /\ [Next]_vars => ClaimInv'
<1> SUFFICES ASSUME ClaimInv, TypeOK, [Next]_vars PROVE ClaimInv'
  OBVIOUS
<1> USE DEF provider, identities
<1>1. CASE UNCHANGED vars
  <2>1. \A q \in Request : Carried(q)' = Carried(q) /\ (Tidy(q) => Tidy(q)')
    BY <1>1, SameCarried DEF vars
  <2>2. /\ MarksOf(inbound)' = MarksOf(inbound) /\ marked' = marked
        /\ Distinct(inbound)' = Distinct(inbound)
    BY <1>1 DEF vars, MarksOf, Distinct
  <2> QED
    BY <2>1, <2>2 DEF ClaimInv
<1>2. ASSUME NEW r \in Request, NEW p \in Payload, Deliver(r, p) PROVE ClaimInv'
  <2>1. /\ req'[r].stage = "mark" /\ req'[r].out = <<>>
        /\ \A q \in Request : q # r => req'[q] = req[q]
    BY <1>2 DEF Deliver, TypeOK
  <2>2. Carried(r)' = {} /\ Tidy(r)'
    BY <2>1 DEF Carried, Tidy, At, Working, MarksOf, Distinct
  <2> QED
    BY <1>2, <2>1, <2>2, HoldStep DEF Deliver
<1>3. ASSUME NEW r \in Request, Mark(r), Goto(r, "resolve"), Fresh(r) PROVE ClaimInv'
  <2> DEFINE k == Current(r).mark
  <2>1. ~At(r, "idle")
    BY <1>3 DEF Mark, At
  <2>2. /\ req'[r].stage = "resolve" /\ req'[r].payload = req[r].payload
        /\ req'[r].item = req[r].item /\ req'[r].out = req[r].out
        /\ \A q \in Request : q # r => req'[q] = req[q]
    BY <1>3, <2>1, KeepEffect DEF Goto, Busy
  <2>3. marked' = marked \cup {k} /\ k \notin marked /\ inbound' = inbound
    BY <1>3 DEF Mark, Fresh
  <2>4. Carried(r) = MarksOf(req[r].out) /\ Carried(r) \subseteq marked
    BY <1>3 DEF Mark, Carried, At, ClaimInv
  <2>5. Current(r)' = Current(r)
    BY <2>2 DEF Current, Batch
  <2>6. Carried(r)' = Carried(r) \cup {k}
    BY <2>2, <2>4, <2>5 DEF Carried, At, MarksOf
  <2>7. Tidy(r)'
    <3>1. Distinct(req[r].out)
      BY <2>1 DEF ClaimInv, Tidy
    <3>2. k \notin MarksOf(req[r].out)
      BY <2>3, <2>4
    <3> QED
      BY <2>2, <2>5, <3>1, <3>2 DEF Tidy, Distinct, MarksOf
  <2> HIDE DEF k
  <2>8. \A q \in Request : q # r => Carried(q)' = Carried(q) /\ Tidy(q)'
    BY <2>2, OthersCarry DEF ClaimInv
  <2>9. MarksOf(inbound)' = MarksOf(inbound) /\ Distinct(inbound)'
    BY <2>3 DEF MarksOf, Distinct, ClaimInv
  <2>10. /\ MarksOf(inbound) \subseteq marked
         /\ \A q \in Request :
              /\ Carried(q) \subseteq marked /\ Carried(q) \cap MarksOf(inbound) = {}
              /\ \A p \in Request : p # q => Carried(p) \cap Carried(q) = {}
    BY DEF ClaimInv
  <2>11. \A q \in Request : k \notin Carried(q) /\ k \notin MarksOf(inbound)
    BY <2>3, <2>10
  <2>12. MarksOf(inbound)' \subseteq marked'
    BY <2>3, <2>9, <2>10
  <2>13. \A q \in Request : Carried(q)' \subseteq marked' /\ Tidy(q)'
    BY <2>3, <2>6, <2>7, <2>8, <2>10
  <2>14. \A q \in Request : Carried(q)' \cap MarksOf(inbound)' = {}
    BY <2>6, <2>8, <2>9, <2>10, <2>11
  <2>15. \A q \in Request : \A p \in Request : p # q => Carried(p)' \cap Carried(q)' = {}
    <3> SUFFICES ASSUME NEW q \in Request, NEW p \in Request, p # q
                 PROVE  Carried(p)' \cap Carried(q)' = {}
      OBVIOUS
    <3>1. Carried(p) \cap Carried(q) = {} /\ k \notin Carried(p) /\ k \notin Carried(q)
      BY <2>10, <2>11
    <3> QED
      BY <2>6, <2>8, <3>1
  <2> QED
    BY <2>9, <2>12, <2>13, <2>14, <2>15 DEF ClaimInv
<1>4. ASSUME NEW r \in Request, Mark(r), Done(r, req[r].out), ~Fresh(r) \/ Current(r).kind = "echo"
      PROVE  ClaimInv'
  <2>1. ~At(r, "idle") /\ ~Working(r) /\ inbound' = inbound
    BY <1>4 DEF Mark, At, Working
  <2>2. /\ req'[r].out = req[r].out /\ req'[r].stage \in {"mark", "window", "publish"}
        /\ \A q \in Request : q # r => req'[q] = req[q]
    BY <1>4, <2>1, DoneEffect, BusyTyped
  <2>3. Carried(r)' = Carried(r)
    BY <2>1, <2>2 DEF Carried, At, Working, MarksOf
  <2>4. Tidy(r)'
    BY <2>1, <2>2 DEF ClaimInv, Tidy, Working, Distinct
  <2>5. marked \subseteq marked'
    BY <1>4 DEF Mark
  <2>6. \A q \in Request : Carried(q)' = Carried(q) /\ Tidy(q)'
    BY <2>2, <2>3, <2>4, OthersCarry DEF ClaimInv
  <2>7. MarksOf(inbound)' = MarksOf(inbound) /\ Distinct(inbound)'
    BY <2>1 DEF MarksOf, Distinct, ClaimInv
  <2> QED
    BY <2>5, <2>6, <2>7 DEF ClaimInv
<1>5. ASSUME NEW r \in Request, Mark(r) PROVE ClaimInv'
  BY <1>3, <1>4, <1>5 DEF Mark
<1>6. ASSUME NEW r \in Request, Resolve(r) \/ Insert(r) PROVE ClaimInv'
  <2>1. ~At(r, "idle") /\ Working(r) /\ UNCHANGED <<marked, inbound>>
    BY <1>6 DEF Resolve, Insert, At, Working
  <2>2. Current(r) \in Item
    BY <2>1, BusyTyped
  <2>3. \E p \in Nat, s \in {"insert", "content"} :
          req' = [req EXCEPT ![r].principal = p, ![r].stage = s]
    <3>1. Current(r).customer \in Customer
      BY <2>2 DEF Item
    <3>2. /\ identifier[Current(r).customer] \in Nat
          /\ principals[Current(r).customer] + 1 \in Nat
      BY <3>1 DEF TypeOK
    <3> QED
      BY <1>6, <3>2 DEF Resolve, Insert
  <2>4. /\ req'[r].stage \in {"insert", "content"} /\ req'[r].payload = req[r].payload
        /\ req'[r].item = req[r].item /\ req'[r].out = req[r].out
        /\ \A q \in Request : q # r => req'[q] = req[q]
    BY <2>1, <2>3, KeepEffect DEF Busy
  <2>5. Carried(r)' = Carried(r)
    BY <2>1, <2>4 DEF Carried, At, Working, MarksOf, Current, Batch
  <2>6. Tidy(r)'
    BY <2>1, <2>4 DEF ClaimInv, Tidy, Working, Distinct, MarksOf, Current, Batch
  <2> QED
    BY <2>1, <2>4, <2>5, <2>6, HoldStep
<1>7. ASSUME NEW r \in Request, InsertRefused(r) \/ Finish(r) \/ Lose(r) PROVE ClaimInv'
  <2>1. req' = [req EXCEPT ![r] = Idle] /\ UNCHANGED <<marked, inbound>>
    BY <1>7 DEF InsertRefused, Finish, Lose
  <2>2. req'[r].stage = "idle" /\ \A q \in Request : q # r => req'[q] = req[q]
    BY <2>1 DEF TypeOK, Idle
  <2>3. Carried(r)' = {} /\ Tidy(r)'
    BY <2>2 DEF Carried, Tidy, At
  <2> QED
    BY <2>1, <2>2, <2>3, HoldStep
<1>8. ASSUME NEW r \in Request, Translate(r) PROVE ClaimInv'
  <2> DEFINE s == req[r].out  e == Event(r)
  <2>1. ~At(r, "idle") /\ Working(r) /\ UNCHANGED <<marked, inbound>>
    BY <1>8 DEF Translate, At, Working
  <2>2. s \in Seq(Published) /\ e \in Published /\ e.mark = Current(r).mark
    BY <2>1, BusyTyped, EventTyped DEF Event
  <2>3. Distinct(s) /\ e.mark \notin MarksOf(s)
    BY <2>1, <2>2 DEF ClaimInv, Tidy
  <2>4. PICK out \in {s, Append(s, e)} : Done(r, out)
    BY <1>8 DEF Translate
  <2>5. Carried(r) = MarksOf(s) \cup {e.mark}
    BY <2>1, <2>2 DEF Carried, Working
  <2> HIDE DEF s, e
  <2>m. /\ MarksOf(Append(s, e)) = MarksOf(s) \cup {e.mark}
        /\ Distinct(Append(s, e)) /\ Append(s, e) \in Seq(Published)
    BY <2>2, <2>3, MarksAppend
  <2>6. out \in Seq(Published) /\ Distinct(out) /\ MarksOf(out) \subseteq Carried(r)
    BY <2>2, <2>3, <2>4, <2>5, <2>m
  <2>7. /\ req'[r].out = out /\ req'[r].stage \in {"mark", "window", "publish"}
        /\ \A q \in Request : q # r => req'[q] = req[q]
    BY <2>1, <2>4, <2>6, DoneEffect
  <2>8. Carried(r)' = MarksOf(out)
    BY <2>7 DEF Carried, At, MarksOf
  <2>9. Tidy(r)'
    BY <2>6, <2>7 DEF Tidy, Working, Distinct
  <2> QED
    BY <2>1, <2>6, <2>7, <2>8, <2>9, HoldStep
<1>9. ASSUME NEW r \in Request, RefreshWindow(r) PROVE ClaimInv'
  <2>1. /\ ~At(r, "idle") /\ ~Working(r) /\ UNCHANGED <<marked, inbound>>
        /\ Goto(r, "publish")
    BY <1>9 DEF RefreshWindow, At, Working
  <2>2. /\ req'[r].stage = "publish" /\ req'[r].out = req[r].out
        /\ \A q \in Request : q # r => req'[q] = req[q]
    BY <2>1, KeepEffect DEF Goto, Busy
  <2>3. Carried(r)' = Carried(r)
    BY <2>1, <2>2 DEF Carried, At, Working, MarksOf
  <2>4. Tidy(r)'
    BY <2>1, <2>2 DEF ClaimInv, Tidy, Working, Distinct
  <2> QED
    BY <2>1, <2>2, <2>3, <2>4, HoldStep
<1>10. ASSUME NEW r \in Request, Publish(r) \/ PublishFails(r) PROVE ClaimInv'
  <2> DEFINE s == req[r].out  e == Head(req[r].out)
  <2>1. /\ At(r, "publish") /\ s # <<>> /\ marked' = marked
        /\ req' = [req EXCEPT ![r].out = Tail(@)]
        /\ inbound' \in {inbound, Append(inbound, e)}
    BY <1>10 DEF Publish, PublishFails
  <2>2. s \in Seq(Published) /\ Distinct(s) /\ ~At(r, "idle")
    BY <2>1, BusyTyped DEF ClaimInv, Tidy, At
  <2>3. /\ req'[r].stage = "publish" /\ req'[r].out = Tail(s)
        /\ Tail(s) \in Seq(Published) /\ e \in Published
        /\ \A q \in Request : q # r => req'[q] = req[q]
    BY <2>1, TailEffect
  <2>4. Carried(r) = MarksOf(s)
    BY <2>1 DEF Carried, At
  <2>5. Carried(r)' = MarksOf(Tail(s))
    BY <2>3 DEF Carried, At, MarksOf
  <2> HIDE DEF s, e
  <2>6. /\ MarksOf(s) = {e.mark} \cup MarksOf(Tail(s))
        /\ Distinct(Tail(s)) /\ e.mark \notin MarksOf(Tail(s))
    BY <2>1, <2>2, MarksTail DEF e, s
  <2>7. Tidy(r)'
    BY <2>3, <2>6 DEF Tidy, Working, Distinct
  <2>8. CASE inbound' = inbound
    BY <2>1, <2>3, <2>4, <2>5, <2>6, <2>7, <2>8, HoldStep
  <2>9. CASE inbound' = Append(inbound, e)
    <3>1. /\ MarksOf(inbound) \subseteq marked /\ Distinct(inbound)
          /\ inbound \in Seq(Published)
          /\ \A q \in Request :
               /\ Carried(q) \subseteq marked /\ Carried(q) \cap MarksOf(inbound) = {}
               /\ \A p \in Request : p # q => Carried(p) \cap Carried(q) = {}
      BY DEF ClaimInv, TypeOK
    <3>2. e.mark \in marked /\ e.mark \notin MarksOf(inbound)
      BY <2>4, <2>6, <3>1
    <3>3. MarksOf(inbound)' = MarksOf(inbound) \cup {e.mark} /\ Distinct(inbound)'
      <4>1. /\ MarksOf(Append(inbound, e)) = MarksOf(inbound) \cup {e.mark}
            /\ Distinct(Append(inbound, e))
        BY <2>3, <3>1, <3>2, MarksAppend
      <4> QED
        BY <2>9, <4>1 DEF MarksOf, Distinct
    <3>4. \A q \in Request : Tidy(q)' /\ Carried(q)' \subseteq Carried(q)
      BY <2>3, <2>4, <2>5, <2>6, <2>7, OthersCarry DEF ClaimInv
    <3>5. \A q \in Request : e.mark \notin Carried(q)'
      <4> SUFFICES ASSUME NEW q \in Request PROVE e.mark \notin Carried(q)'
        OBVIOUS
      <4>1. CASE q = r
        BY <2>5, <2>6, <4>1
      <4>2. CASE q # r
        BY <2>4, <2>6, <3>1, <3>4, <4>2
      <4> QED
        BY <4>1, <4>2
    <3>6. MarksOf(inbound)' \subseteq marked'
      BY <2>1, <3>1, <3>2, <3>3
    <3>7. \A q \in Request : /\ Carried(q)' \subseteq marked'
                             /\ Carried(q)' \cap MarksOf(inbound)' = {}
      BY <2>1, <3>1, <3>3, <3>4, <3>5
    <3>8. \A q \in Request : \A p \in Request : p # q => Carried(p)' \cap Carried(q)' = {}
      BY <3>1, <3>4
    <3> QED
      BY <3>3, <3>4, <3>6, <3>7, <3>8 DEF ClaimInv
  <2> QED
    BY <2>1, <2>8, <2>9
<1> QED
  BY <1>1, <1>2, <1>5, <1>6, <1>7, <1>8, <1>9, <1>10 DEF Next, Handle

\* Deduplication works for any number of requests, deliveries and failures:
\* no idempotency key is on the topic twice.
THEOREM PublishedAtMostOnce == Spec => []PublishedOnce
<1>1. Init => ClaimInv
  BY DEF Init, ClaimInv, Carried, Tidy, At, Idle, MarksOf, Distinct
<1>2. ClaimInv => PublishedOnce
  BY DEF ClaimInv, Distinct, PublishedOnce
<1> QED
  BY <1>1, <1>2, ClaimNext, TypeCorrect, PTL DEF Spec

-----------------------------------------------------------------------------
(* One principal per customer *)

\* Events that carry the principal of their customer.
Attributed(events) ==
    \A i \in DOMAIN events : /\ identifier[events[i].customer] # 0
                             /\ events[i].principal = identifier[events[i].customer]

PrincipalInv ==
    /\ \A c \in Customer : principals[c] = identifier[c] /\ identifier[c] \in {0, 1}
    /\ Attributed(inbound)
    /\ \A r \in Request :
         /\ ~At(r, "idle") => Attributed(req[r].out)
         /\ At(r, "content") => /\ identifier[Current(r).customer] # 0
                                /\ req[r].principal = identifier[Current(r).customer]

LEMMA AttributedParts ==
  ASSUME NEW s \in Seq(Published), Attributed(s)
  PROVE  /\ s # <<>> => /\ Attributed(Tail(s)) /\ Head(s) \in Published
                        /\ identifier[Head(s).customer] # 0
                        /\ Head(s).principal = identifier[Head(s).customer]
         /\ \A e \in Published :
              /\ identifier[e.customer] # 0
              /\ e.principal = identifier[e.customer]
              => Attributed(Append(s, e))
<1>1. ASSUME s # <<>>
      PROVE  /\ Attributed(Tail(s)) /\ Head(s) \in Published
             /\ identifier[Head(s).customer] # 0
             /\ Head(s).principal = identifier[Head(s).customer]
  <2> DEFINE t == Tail(s)
  <2>1. /\ 1 \in DOMAIN s /\ Head(s) = s[1] /\ Head(s) \in Published
        /\ \A i \in DOMAIN t : i + 1 \in DOMAIN s /\ t[i] = s[i + 1]
    BY <1>1
  <2> HIDE DEF t
  <2>2. Attributed(t)
    BY <2>1 DEF Attributed
  <2> QED
    BY <2>1, <2>2 DEF Attributed, t
<1>2. ASSUME NEW e \in Published, identifier[e.customer] # 0,
             e.principal = identifier[e.customer]
      PROVE  Attributed(Append(s, e))
  <2> DEFINE t == Append(s, e)
  <2>1. \A i \in DOMAIN t : t[i] = e \/ (i \in DOMAIN s /\ t[i] = s[i])
    OBVIOUS
  <2> HIDE DEF t
  <2>2. Attributed(t)
    BY <1>2, <2>1 DEF Attributed
  <2> QED
    BY <2>2 DEF t
<1> QED
  BY <1>1, <1>2

\* A step that leaves the identifiers alone: what is to be seen of one request.
LEMMA SameIdentities ==
  ASSUME PrincipalInv, UNCHANGED <<identifier, principals, inbound>>,
         NEW r \in Request, \A q \in Request : q # r => req'[q] = req[q],
         At(r, "idle")' \/ Attributed(req'[r].out),
         At(r, "content")' => /\ identifier[Current(r)'.customer] # 0
                              /\ req'[r].principal = identifier[Current(r)'.customer]
  PROVE  PrincipalInv'
<1>1. \A s : Attributed(s) => Attributed(s)'
  BY DEF Attributed
<1>2. Attributed(inbound)'
  <2>1. Attributed(inbound) /\ inbound' = inbound
    BY DEF PrincipalInv
  <2> QED
    BY <2>1 DEF Attributed
<1>3. ASSUME NEW q \in Request
      PROVE  /\ ~At(q, "idle")' => Attributed(req[q].out)'
             /\ At(q, "content")' =>
                  /\ identifier'[Current(q)'.customer] # 0
                  /\ req'[q].principal = identifier'[Current(q)'.customer]
  <2>1. CASE q = r
    BY <2>1 DEF Attributed
  <2>2. CASE q # r
    <3>1. req'[q] = req[q]
      BY <2>2
    <3>2. Current(q)' = Current(q) /\ At(q, "idle")' = At(q, "idle")
          /\ At(q, "content")' = At(q, "content")
      BY <3>1 DEF Current, Batch, At
    <3>3. ~At(q, "idle") => Attributed(req[q].out)'
      BY <3>1 DEF PrincipalInv, Attributed
    <3> QED
      BY <3>1, <3>2, <3>3 DEF PrincipalInv
  <2> QED
    BY <2>1, <2>2
<1>4. \A c \in Customer : principals'[c] = identifier'[c] /\ identifier'[c] \in {0, 1}
  BY DEF PrincipalInv
<1> QED
  BY <1>2, <1>3, <1>4 DEF PrincipalInv

LEMMA PrincipalNext == PrincipalInv /\ TypeOK /\ [Next]_vars => PrincipalInv'
<1> SUFFICES ASSUME PrincipalInv, TypeOK, [Next]_vars PROVE PrincipalInv'
  OBVIOUS
<1> USE DEF provider, identities
<1>1. CASE UNCHANGED vars
  BY <1>1 DEF vars, PrincipalInv, Attributed, At, Current, Batch
<1>2. ASSUME NEW r \in Request, NEW p \in Payload, Deliver(r, p) PROVE PrincipalInv'
  <2>1. /\ req'[r].stage = "mark" /\ req'[r].out = <<>>
        /\ \A q \in Request : q # r => req'[q] = req[q]
    BY <1>2 DEF Deliver, TypeOK
  <2>2. Attributed(req'[r].out) /\ ~At(r, "content")'
    BY <2>1 DEF Attributed, At
  <2> QED
    BY <1>2, <2>1, <2>2, SameIdentities DEF Deliver
<1>3. ASSUME NEW r \in Request, Mark(r) PROVE PrincipalInv'
  <2>1. ~At(r, "idle") /\ UNCHANGED <<identifier, principals, inbound>>
    BY <1>3 DEF Mark, At
  <2>2. req[r].out \in Seq(Published) /\ Attributed(req[r].out)
    BY <2>1, BusyTyped DEF PrincipalInv
  <2>3. Goto(r, "resolve") \/ Done(r, req[r].out)
    BY <1>3 DEF Mark
  <2>4. /\ req'[r].out = req[r].out
        /\ req'[r].stage \in {"resolve", "mark", "window", "publish"}
        /\ \A q \in Request : q # r => req'[q] = req[q]
    <3>1. CASE Goto(r, "resolve")
      BY <2>1, <3>1, KeepEffect DEF Goto, Busy
    <3>2. CASE Done(r, req[r].out)
      BY <2>1, <2>2, <3>2, DoneEffect
    <3> QED
      BY <2>3, <3>1, <3>2
  <2>5. ~At(r, "content")'
    BY <2>4 DEF At
  <2> QED
    BY <2>1, <2>2, <2>4, <2>5, SameIdentities
<1>4. ASSUME NEW r \in Request, Resolve(r) PROVE PrincipalInv'
  <2> DEFINE found == identifier[Current(r).customer]
             stage == IF found = 0 THEN "insert" ELSE "content"
  <2>1. ~At(r, "idle") /\ UNCHANGED <<identifier, principals, inbound>>
    BY <1>4 DEF Resolve, At
  <2>2. found \in Nat /\ stage \in Busy
    BY <2>1, BusyTyped DEF Item, TypeOK, Busy
  <2>3. req' = [req EXCEPT ![r].principal = found, ![r].stage = stage]
    BY <1>4 DEF Resolve
  <2>4. req[r] \in InFlight /\ req \in [Request -> {Idle} \cup InFlight]
    BY <2>1, BusyTyped DEF TypeOK
  <2>5. req'[r].principal = found
    BY <2>3, <2>4 DEF InFlight
  <2> HIDE DEF found, stage
  <2>6. /\ req'[r].stage = stage /\ req'[r].payload = req[r].payload
        /\ req'[r].item = req[r].item /\ req'[r].out = req[r].out
        /\ \A q \in Request : q # r => req'[q] = req[q]
    BY <2>1, <2>2, <2>3, KeepEffect
  <2>7. Attributed(req'[r].out)
    BY <2>1, <2>6 DEF PrincipalInv
  <2>8. Current(r)' = Current(r)
    BY <2>6 DEF Current, Batch
  <2>9. At(r, "content")' => found # 0
    BY <2>6 DEF At, stage
  <2>10. At(r, "content")' => /\ identifier[Current(r)'.customer] # 0
                              /\ req'[r].principal = identifier[Current(r)'.customer]
    BY <2>5, <2>8, <2>9 DEF found
  <2> QED
    BY <2>1, <2>6, <2>7, <2>10, SameIdentities
<1>5. ASSUME NEW r \in Request, Insert(r) PROVE PrincipalInv'
  <2> DEFINE c == Current(r).customer
  <2>1. ~At(r, "idle") /\ inbound' = inbound
    BY <1>5 DEF Insert, At
  <2>2. c \in Customer
    BY <2>1, BusyTyped DEF Item
  <2>3. /\ identifier[c] = 0 /\ principals[c] + 1 = 1 /\ principals[c] + 1 \in Nat
        /\ identifier \in [Customer -> Nat] /\ principals \in [Customer -> Nat]
    BY <1>5, <2>2 DEF Insert, Unclaimed, PrincipalInv, TypeOK
  <2>4. /\ principals' = [principals EXCEPT ![c] = principals[c] + 1]
        /\ identifier' = [identifier EXCEPT ![c] = principals[c] + 1]
        /\ req' = [req EXCEPT ![r].principal = principals[c] + 1, ![r].stage = "content"]
    BY <1>5 DEF Insert
  <2>5. /\ req'[r].stage = "content" /\ req'[r].payload = req[r].payload
        /\ req'[r].item = req[r].item /\ req'[r].out = req[r].out
        /\ \A q \in Request : q # r => req'[q] = req[q]
    BY <2>1, <2>3, <2>4, KeepEffect DEF Busy
  <2>6. req'[r].principal = 1
    <3>1. req[r] \in InFlight /\ req \in [Request -> {Idle} \cup InFlight]
      BY <2>1, BusyTyped DEF TypeOK
    <3> QED
      BY <2>3, <2>4, <3>1 DEF InFlight
  <2>7. Current(r)' = Current(r)
    BY <2>5 DEF Current, Batch
  <2> HIDE DEF c
  <2>8. /\ identifier'[c] = 1 /\ principals'[c] = 1
        /\ \A d \in Customer : d # c => /\ identifier'[d] = identifier[d]
                                        /\ principals'[d] = principals[d]
    BY <2>2, <2>3, <2>4
  <2>9. \A d \in Customer : identifier[d] # 0 => identifier'[d] = identifier[d]
    BY <2>3, <2>8
  <2>10. ASSUME NEW s \in Seq(Published), Attributed(s) PROVE Attributed(s)'
    <3>1. \A i \in DOMAIN s : s[i] \in Published
      OBVIOUS
    <3>2. \A i \in DOMAIN s : s[i].customer \in Customer
      BY <3>1 DEF Published
    <3> QED
      BY <2>9, <2>10, <3>2 DEF Attributed
  <2>11. Attributed(inbound)'
    <3>1. inbound \in Seq(Published) /\ Attributed(inbound)
      BY DEF TypeOK, PrincipalInv
    <3> QED
      BY <2>1, <2>10, <3>1 DEF Attributed
  <2>12. ASSUME NEW q \in Request, ~At(q, "idle")' PROVE Attributed(req[q].out)'
    <3>1. req'[q].out = req[q].out /\ ~At(q, "idle")
      BY <2>1, <2>5, <2>12 DEF At
    <3>2. req[q].out \in Seq(Published) /\ Attributed(req[q].out)
      BY <3>1, BusyTyped DEF PrincipalInv
    <3> QED
      BY <2>10, <3>1, <3>2 DEF Attributed
  <2>13. ASSUME NEW q \in Request, At(q, "content")'
         PROVE  /\ identifier'[Current(q)'.customer] # 0
                /\ req'[q].principal = identifier'[Current(q)'.customer]
    <3>1. CASE q = r
      BY <2>6, <2>7, <2>8, <3>1 DEF c
    <3>2. CASE q # r
      <4>1. req'[q] = req[q]
        BY <2>5, <3>2
      <4>2. At(q, "content") /\ ~At(q, "idle") /\ Current(q)' = Current(q)
        BY <2>13, <4>1 DEF At, Current, Batch
      <4>3. Current(q).customer \in Customer
        BY <4>2, BusyTyped DEF Item
      <4>4. /\ identifier[Current(q).customer] # 0
            /\ req[q].principal = identifier[Current(q).customer]
        BY <4>2 DEF PrincipalInv
      <4> QED
        BY <2>9, <4>1, <4>2, <4>3, <4>4
    <3> QED
      BY <3>1, <3>2
  <2>14. \A d \in Customer : principals'[d] = identifier'[d] /\ identifier'[d] \in {0, 1}
    BY <2>8 DEF PrincipalInv
  <2> QED
    BY <2>11, <2>12, <2>13, <2>14 DEF PrincipalInv
<1>6. ASSUME NEW r \in Request, InsertRefused(r) \/ Finish(r) \/ Lose(r) PROVE PrincipalInv'
  <2>1. /\ req' = [req EXCEPT ![r] = Idle]
        /\ UNCHANGED <<identifier, principals, inbound>>
    BY <1>6 DEF InsertRefused, Finish, Lose
  <2>2. req'[r].stage = "idle" /\ \A q \in Request : q # r => req'[q] = req[q]
    BY <2>1 DEF TypeOK, Idle
  <2>3. At(r, "idle")' /\ ~At(r, "content")'
    BY <2>2 DEF At
  <2> QED
    BY <2>1, <2>2, <2>3, SameIdentities
<1>7. ASSUME NEW r \in Request, Translate(r) PROVE PrincipalInv'
  <2> DEFINE s == req[r].out  e == Event(r)
  <2>1. /\ ~At(r, "idle") /\ At(r, "content")
        /\ UNCHANGED <<identifier, principals, inbound>>
    BY <1>7 DEF Translate, At
  <2>2. /\ s \in Seq(Published) /\ e \in Published /\ Append(s, e) \in Seq(Published)
        /\ e.customer = Current(r).customer /\ e.principal = req[r].principal
    BY <2>1, BusyTyped, EventTyped DEF Event
  <2>3. Attributed(s) /\ identifier[e.customer] # 0 /\ e.principal = identifier[e.customer]
    BY <2>1, <2>2 DEF PrincipalInv
  <2>4. PICK out \in {s, Append(s, e)} : Done(r, out)
    BY <1>7 DEF Translate
  <2> HIDE DEF s, e
  <2>5. out \in Seq(Published) /\ Attributed(out)
    BY <2>2, <2>3, <2>4, AttributedParts
  <2>6. /\ req'[r].out = out /\ req'[r].stage \in {"mark", "window", "publish"}
        /\ \A q \in Request : q # r => req'[q] = req[q]
    BY <2>1, <2>4, <2>5, DoneEffect
  <2>7. ~At(r, "content")' /\ Attributed(req'[r].out)
    BY <2>5, <2>6 DEF At
  <2> QED
    BY <2>1, <2>6, <2>7, SameIdentities
<1>8. ASSUME NEW r \in Request, RefreshWindow(r) PROVE PrincipalInv'
  <2>1. /\ ~At(r, "idle") /\ UNCHANGED <<identifier, principals, inbound>>
        /\ Goto(r, "publish")
    BY <1>8 DEF RefreshWindow, At
  <2>2. /\ req'[r].stage = "publish" /\ req'[r].out = req[r].out
        /\ \A q \in Request : q # r => req'[q] = req[q]
    BY <2>1, KeepEffect DEF Goto, Busy
  <2>3. ~At(r, "content")' /\ Attributed(req'[r].out)
    BY <2>1, <2>2 DEF At, PrincipalInv
  <2> QED
    BY <2>1, <2>2, <2>3, SameIdentities
<1>9. ASSUME NEW r \in Request, Publish(r) \/ PublishFails(r) PROVE PrincipalInv'
  <2> DEFINE s == req[r].out  e == Head(req[r].out)
  <2>1. /\ At(r, "publish") /\ s # <<>> /\ UNCHANGED <<identifier, principals>>
        /\ req' = [req EXCEPT ![r].out = Tail(@)]
        /\ inbound' \in {inbound, Append(inbound, e)}
    BY <1>9 DEF Publish, PublishFails
  <2>2. s \in Seq(Published) /\ ~At(r, "idle")
    BY <2>1, BusyTyped DEF At
  <2>3. Attributed(s)
    BY <2>2 DEF PrincipalInv
  <2>4. /\ req'[r].stage = "publish" /\ req'[r].out = Tail(s)
        /\ \A q \in Request : q # r => req'[q] = req[q]
    BY <2>1, TailEffect
  <2> HIDE DEF s
  <2>5. /\ Attributed(Tail(s)) /\ Head(s) \in Published
        /\ identifier[Head(s).customer] # 0
        /\ Head(s).principal = identifier[Head(s).customer]
    BY <2>1, <2>2, <2>3, AttributedParts
  <2>6. inbound \in Seq(Published) /\ Attributed(inbound)
    BY DEF TypeOK, PrincipalInv
  <2>7. Attributed(inbound')
    BY <2>1, <2>5, <2>6, AttributedParts DEF s
  <2>8. \A t : Attributed(t) <=> \A i \in DOMAIN t :
                 /\ identifier'[t[i].customer] # 0
                 /\ t[i].principal = identifier'[t[i].customer]
    BY <2>1 DEF Attributed
  <2>9. Attributed(inbound)'
    BY <2>7, <2>8 DEF Attributed
  <2>10. ASSUME NEW q \in Request
         PROVE  /\ ~At(q, "idle")' => Attributed(req[q].out)'
                /\ At(q, "content")' =>
                     /\ identifier'[Current(q)'.customer] # 0
                     /\ req'[q].principal = identifier'[Current(q)'.customer]
    <3>1. CASE q = r
      <4>1. Attributed(req'[q].out)
        BY <2>4, <2>5, <3>1
      <4> QED
        BY <2>4, <2>8, <3>1, <4>1 DEF Attributed, At
    <3>2. CASE q # r
      <4>1. req'[q] = req[q]
        BY <2>4, <3>2
      <4>2. /\ At(q, "content")' = At(q, "content") /\ At(q, "idle")' = At(q, "idle")
            /\ Current(q)' = Current(q)
        BY <4>1 DEF At, Current, Batch
      <4>3. ~At(q, "idle") => Attributed(req'[q].out)
        BY <4>1 DEF PrincipalInv
      <4>4. ~At(q, "idle") => Attributed(req[q].out)'
        BY <2>8, <4>3 DEF Attributed
      <4> QED
        BY <2>1, <4>1, <4>2, <4>4 DEF PrincipalInv
    <3> QED
      BY <3>1, <3>2
  <2>11. \A c \in Customer : principals'[c] = identifier'[c] /\ identifier'[c] \in {0, 1}
    BY <2>1 DEF PrincipalInv
  <2> QED
    BY <2>9, <2>10, <2>11 DEF PrincipalInv
<1> QED
  BY <1>1, <1>2, <1>3, <1>4, <1>5, <1>6, <1>7, <1>8, <1>9 DEF Next, Handle

\* However many requests meet a new customer at once, one principal is made and
\* all of the customer's events carry it.
THEOREM OnePrincipalPerCustomer == Spec => []OnePrincipal
<1>1. Init => PrincipalInv
  BY DEF Init, PrincipalInv, Attributed, At, Idle
<1>2. PrincipalInv => OnePrincipal
  BY DEF PrincipalInv, OnePrincipal, Attributed
<1> QED
  BY <1>1, <1>2, PrincipalNext, TypeCorrect, PTL DEF Spec

-----------------------------------------------------------------------------
(* The order of a batch *)

\* e is the event of the n-th item of payload p; how far a request has come
\* with its batch.
Is(e, p, n) == n \in DOMAIN Items[p] /\ e.mark = Items[p][n].mark
Passed(r) == IF req[r].stage \in {"window", "publish"} THEN req[r].item
                                                       ELSE req[r].item - 1

\* p's events among some are in the order of p's items; there are none.
Ascending(events, p) ==
    \A i, j \in DOMAIN events : \A m, n \in DOMAIN Items[p] :
        i < j /\ Is(events[i], p, m) /\ Is(events[j], p, n) => m < n
Foreign(events, p) ==
    \A i \in DOMAIN events : \A n \in DOMAIN Items[p] : ~Is(events[i], p, n)

\* What a request holds are events of items it has passed, in order; its
\* payload was delivered, and more than once if another request has it too; and
\* if it was delivered once only, what is on the topic of it is of items before
\* those the request still holds.
Placed(r) ==
    ~At(r, "idle") =>
      /\ Ascending(req[r].out, req[r].payload)
      /\ \A i \in DOMAIN req[r].out : \E n \in 1 .. Passed(r) :
           /\ Is(req[r].out[i], req[r].payload, n)
           /\ req[r].out[i].customer = Batch(r)[n].customer
Counted(r) ==
    ~At(r, "idle") =>
      /\ deliveries[req[r].payload] > 0
      /\ \A q \in Request : q # r /\ ~At(q, "idle") /\ req[q].payload = req[r].payload
           => deliveries[req[r].payload] > 1
Ahead(r) ==
    ~At(r, "idle") /\ deliveries[req[r].payload] = 1 =>
      /\ ~At(r, "publish") => Foreign(inbound, req[r].payload)
      /\ \A i \in DOMAIN inbound, k \in DOMAIN req[r].out :
           \A m, n \in DOMAIN Batch(r) :
             Is(inbound[i], req[r].payload, m) /\ Is(req[r].out[k], req[r].payload, n)
               => m < n

\* BatchInOrder says nothing of events still to come: it needs what requests
\* hold of a batch to be behind what is published of it.
OrderInv ==
    /\ \A r \in Request : Placed(r) /\ Counted(r) /\ Ahead(r)
    /\ \A p \in Payload : /\ deliveries[p] = 0 => Foreign(inbound, p)
                          /\ deliveries[p] = 1 => Ascending(inbound, p)

\* A key names one item of one payload.
LEMMA OneItem ==
  ASSUME NEW p \in Payload, NEW q \in Payload, NEW m, NEW n, NEW e,
         Is(e, p, m), Is(e, q, n)
  PROVE  p = q /\ m = n
<1>1. p = q
  BY EdgeAssumption DEF Is
<1>2. m = n
  BY <1>1, EdgeAssumption DEF Is
<1> QED
  BY <1>1, <1>2

LEMMA AscendingAppend ==
  ASSUME NEW s \in Seq(Published), NEW e \in Published, NEW p \in Payload,
         Ascending(s, p),
         \A i \in DOMAIN s : \A m, n \in DOMAIN Items[p] :
             Is(s[i], p, m) /\ Is(e, p, n) => m < n
  PROVE  Ascending(Append(s, e), p)
<1> DEFINE t == Append(s, e)  l == Len(s) + 1
<1>1. /\ \A i \in DOMAIN t : (i \in DOMAIN s /\ t[i] = s[i]) \/ (i = l /\ t[i] = e)
      /\ \A i \in DOMAIN s : i < l
      /\ l \in Nat /\ DOMAIN t \subseteq 1 .. l
  OBVIOUS
<1> HIDE DEF t, l
<1>2. ASSUME NEW i \in DOMAIN t, NEW j \in DOMAIN t, NEW m \in DOMAIN Items[p],
             NEW n \in DOMAIN Items[p], i < j, Is(t[i], p, m), Is(t[j], p, n)
      PROVE  m < n
  <2>1. i \in DOMAIN s /\ t[i] = s[i]
    <3>1. i # l
      BY <1>1, <1>2
    <3> QED
      BY <1>1, <3>1
  <2>2. CASE j \in DOMAIN s /\ t[j] = s[j]
    BY <1>2, <2>1, <2>2 DEF Ascending
  <2>3. CASE t[j] = e
    BY <1>2, <2>1, <2>3
  <2> QED
    BY <1>1, <2>2, <2>3
<1> QED
  BY <1>2 DEF Ascending, t

LEMMA ForeignAppend ==
  ASSUME NEW s \in Seq(Published), NEW e \in Published, NEW p \in Payload,
         Foreign(s, p), \A n \in DOMAIN Items[p] : ~Is(e, p, n)
  PROVE  Foreign(Append(s, e), p)
<1>1. \A i \in DOMAIN Append(s, e) : \/ i \in DOMAIN s /\ Append(s, e)[i] = s[i]
                                     \/ Append(s, e)[i] = e
  OBVIOUS
<1> QED
  BY <1>1 DEF Foreign

\* The tail keeps the order, and the head comes before it.
LEMMA TailParts ==
  ASSUME NEW s \in Seq(Published), s # <<>>
  PROVE  /\ 1 \in DOMAIN s /\ Head(s) = s[1]
         /\ \A i \in DOMAIN Tail(s) : /\ i + 1 \in DOMAIN s /\ i + 1 > 1 /\ i \in Nat
                                      /\ Tail(s)[i] = s[i + 1]
  OBVIOUS

LEMMA AscendingTail ==
  ASSUME NEW s \in Seq(Published), s # <<>>, NEW p \in Payload, Ascending(s, p)
  PROVE  /\ Ascending(Tail(s), p)
         /\ \A i \in DOMAIN Tail(s) : \A m, n \in DOMAIN Items[p] :
              Is(Head(s), p, m) /\ Is(Tail(s)[i], p, n) => m < n
<1> DEFINE t == Tail(s)
<1>1. /\ 1 \in DOMAIN s /\ Head(s) = s[1]
      /\ \A i \in DOMAIN t : /\ i + 1 \in DOMAIN s /\ i + 1 > 1 /\ i \in Nat
                             /\ t[i] = s[i + 1]
  BY TailParts
<1> HIDE DEF t
<1>2. \A i, j \in DOMAIN t : i < j => i + 1 < j + 1
  BY <1>1
<1>3. Ascending(t, p)
  BY <1>1, <1>2 DEF Ascending
<1>4. \A i \in DOMAIN t : \A m, n \in DOMAIN Items[p] :
        Is(Head(s), p, m) /\ Is(t[i], p, n) => m < n
  BY <1>1 DEF Ascending
<1> QED
  BY <1>3, <1>4 DEF t

\* What a request says of itself does not change while it does not.
LEMMA SameOrder ==
  ASSUME OrderInv, NEW q \in Request, req'[q] = req[q], UNCHANGED <<deliveries, inbound>>
  PROVE  Placed(q)' /\ Ahead(q)'
<1>1. /\ Batch(q)' = Batch(q) /\ Passed(q)' = Passed(q)
      /\ \A s : At(q, s)' = At(q, s)
  BY DEF Batch, Passed, At
<1> QED
  BY <1>1 DEF OrderInv, Placed, Ahead, Ascending, Foreign

\* A step on one request that publishes nothing and keeps its payload, or
\* drops it.
LEMMA OrderStep ==
  ASSUME OrderInv, TypeOK, NEW r \in Request, UNCHANGED <<deliveries, inbound>>,
         \A q \in Request : q # r => req'[q] = req[q],
         \/ req'[r] = Idle
         \/ /\ ~At(r, "idle") /\ req'[r].payload = req[r].payload
            /\ Placed(r)' /\ Ahead(r)'
  PROVE  OrderInv'
<1>1. \A q \in Request : Placed(q)' /\ Ahead(q)'
  <2>1. CASE req'[r] = Idle
    <3>1. Placed(r)' /\ Ahead(r)'
      BY <2>1 DEF Placed, Ahead, At, Idle
    <3> QED
      BY <3>1, SameOrder
  <2>2. CASE req'[r] # Idle
    BY <2>2, SameOrder
  <2> QED
    BY <2>1, <2>2
<1>2. \A q \in Request : ~At(q, "idle")' => /\ ~At(q, "idle")
                                            /\ req'[q].payload = req[q].payload
  BY DEF At, Idle
<1>3. \A q \in Request : Counted(q)'
  BY <1>2 DEF OrderInv, Counted
<1> QED
  BY <1>1, <1>3 DEF OrderInv, Foreign, Ascending

\* A request that goes on with its item, or leaves the batch's items behind,
\* keeps its events; the topic stays as it is.
LEMMA KeepsOrder ==
  ASSUME OrderInv, TypeOK, NEW r \in Request, ~At(r, "idle"), ~At(r, "publish"),
         UNCHANGED inbound, req'[r].payload = req[r].payload,
         req'[r].out = req[r].out, req'[r].item \in Int, Passed(r) <= Passed(r)'
  PROVE  Placed(r)' /\ (UNCHANGED deliveries => Ahead(r)')
<1>1. Batch(r)' = Batch(r)
  BY DEF Batch
<1>2. req[r].item \in Int /\ Passed(r) \in Int
  BY BusyTyped DEF Passed
<1>3. Passed(r)' \in Int
  BY DEF Passed
<1>4. \A n \in 1 .. Passed(r) : n \in 1 .. Passed(r)'
  BY <1>2, <1>3
<1>5. /\ Ascending(req[r].out, req[r].payload)
      /\ \A i \in DOMAIN req[r].out : \E n \in 1 .. Passed(r) :
           /\ Is(req[r].out[i], req[r].payload, n)
           /\ req[r].out[i].customer = Batch(r)[n].customer
  BY DEF OrderInv, Placed
<1>6. \A i \in DOMAIN req'[r].out : \E n \in 1 .. Passed(r)' :
           /\ Is(req'[r].out[i], req'[r].payload, n)
           /\ req'[r].out[i].customer = Batch(r)'[n].customer
  BY <1>1, <1>4, <1>5
<1>7. Placed(r)'
  BY <1>5, <1>6 DEF Placed, Ascending
<1>8. UNCHANGED deliveries => Ahead(r)'
  BY <1>1 DEF OrderInv, Ahead, Foreign
<1> QED
  BY <1>7, <1>8

LEMMA OrderNext == OrderInv /\ TypeOK /\ [Next]_vars => OrderInv'
<1> SUFFICES ASSUME OrderInv, TypeOK, [Next]_vars PROVE OrderInv'
  OBVIOUS
<1> USE DEF provider, identities
<1>1. CASE UNCHANGED vars
  <2>1. UNCHANGED <<req, deliveries, inbound>>
    BY <1>1 DEF vars
  <2>2. \A q \in Request : Placed(q)' /\ Ahead(q)'
    BY <2>1, SameOrder
  <2>3. \A q \in Request : Counted(q)'
    BY <2>1 DEF OrderInv, Counted, At
  <2> QED
    BY <2>1, <2>2, <2>3 DEF OrderInv, Foreign, Ascending
<1>2. ASSUME NEW r \in Request, NEW p \in Payload, Deliver(r, p) PROVE OrderInv'
  <2>1. /\ req'[r].stage = "mark" /\ req'[r].out = <<>> /\ req'[r].payload = p
        /\ \A q \in Request : q # r => req'[q] = req[q]
        /\ inbound' = inbound /\ At(r, "idle")
    BY <1>2 DEF Deliver, TypeOK
  <2>2. /\ deliveries'[p] = deliveries[p] + 1
        /\ \A q \in Payload : q # p => deliveries'[q] = deliveries[q]
        /\ \A q \in Payload : deliveries[q] \in Nat /\ deliveries'[q] \in Nat
    <3>1. /\ deliveries \in [Payload -> 0 .. MaxDeliveries]
          /\ deliveries' = [deliveries EXCEPT ![p] = @ + 1]
      BY <1>2 DEF TypeOK, Deliver
    <3>2. MaxDeliveries \in Nat
      BY EdgeAssumption
    <3> QED
      BY <3>1, <3>2
  <2>3. \A q \in Request : q # r => /\ At(q, "idle")' = At(q, "idle")
                                    /\ At(q, "publish")' = At(q, "publish")
                                    /\ Batch(q)' = Batch(q) /\ Passed(q)' = Passed(q)
    BY <2>1 DEF At, Batch, Passed
  <2>4. \A q \in Request : ~At(q, "idle") => req[q].payload \in Payload
    BY BusyTyped
  <2>5. \A q \in Request : Placed(q)'
    <3>1. Placed(r)'
      BY <2>1 DEF Placed, Ascending
    <3>2. ASSUME NEW q \in Request, q # r PROVE Placed(q)'
      <4>1. Placed(q) /\ req'[q] = req[q]
        BY <2>1, <3>2 DEF OrderInv
      <4> QED
        BY <2>3, <3>2, <4>1 DEF Placed, Ascending
    <3> QED
      BY <3>1, <3>2
  <2>6. \A q \in Request : Counted(q)'
    <3>1. Counted(r)'
      <4>1. ASSUME NEW q \in Request, q # r, ~At(q, "idle"), req[q].payload = p
            PROVE  deliveries[p] > 0
        BY <4>1 DEF OrderInv, Counted
      <4> QED
        BY <2>1, <2>2, <2>3, <4>1 DEF Counted
    <3>2. ASSUME NEW q \in Request, q # r, ~At(q, "idle") PROVE Counted(q)'
      <4>1. /\ deliveries[req[q].payload] > 0 /\ req[q].payload \in Payload
            /\ \A s \in Request : s # q /\ ~At(s, "idle") /\ req[s].payload = req[q].payload
                 => deliveries[req[q].payload] > 1
        BY <2>4, <3>2 DEF OrderInv, Counted
      <4>2. CASE req[q].payload = p
        <5>1. deliveries'[p] > 1
          BY <2>2, <4>1, <4>2
        <5>2. deliveries'[p] > 0
          BY <2>2, <5>1
        <5> QED
          BY <2>1, <3>2, <4>2, <5>1, <5>2 DEF Counted
      <4>3. CASE req[q].payload # p
        <5>1. deliveries'[req[q].payload] = deliveries[req[q].payload]
          BY <2>2, <4>1, <4>3
        <5> QED
          BY <2>1, <2>3, <3>2, <4>1, <4>3, <5>1 DEF Counted
      <4> QED
        BY <4>2, <4>3
    <3>3. ASSUME NEW q \in Request, q # r, At(q, "idle") PROVE Counted(q)'
      BY <2>3, <3>3 DEF Counted
    <3> QED
      BY <3>1, <3>2, <3>3
  <2>7. \A q \in Request : Ahead(q)'
    <3>1. Ahead(r)'
      <4>1. deliveries'[p] = 1 => Foreign(inbound, p)
        BY <2>2 DEF OrderInv
      <4> QED
        BY <2>1, <4>1 DEF Ahead, Foreign
    <3>2. ASSUME NEW q \in Request, q # r, ~At(q, "idle") PROVE Ahead(q)'
      <4>1. deliveries[req[q].payload] > 0 /\ req[q].payload \in Payload
        BY <2>4, <3>2 DEF OrderInv, Counted
      <4>2. deliveries'[req[q].payload] = 1 => deliveries[req[q].payload] = 1
        BY <2>2, <4>1
      <4>3. Ahead(q)
        BY DEF OrderInv
      <4> QED
        BY <2>1, <2>3, <3>2, <4>2, <4>3 DEF Ahead, Foreign
    <3>3. ASSUME NEW q \in Request, q # r, At(q, "idle") PROVE Ahead(q)'
      BY <2>3, <3>3 DEF Ahead
    <3> QED
      BY <3>1, <3>2, <3>3
  <2>8. \A q \in Payload : /\ deliveries'[q] = 0 => deliveries[q] = 0
                           /\ deliveries'[q] = 1 => deliveries[q] = 1 \/ deliveries[q] = 0
    BY <2>2
  <2>9. \A q \in Payload : Foreign(inbound, q) => Ascending(inbound, q)
    BY DEF Foreign, Ascending
  <2>10. \A q \in Payload : /\ deliveries'[q] = 0 => Foreign(inbound, q)
                            /\ deliveries'[q] = 1 => Ascending(inbound, q)
    BY <2>8, <2>9 DEF OrderInv
  <2>11. \A q \in Payload : /\ Foreign(inbound, q)' = Foreign(inbound, q)
                            /\ Ascending(inbound, q)' = Ascending(inbound, q)
    BY <2>1 DEF Foreign, Ascending
  <2> QED
    BY <2>5, <2>6, <2>7, <2>10, <2>11 DEF OrderInv
<1>3. ASSUME NEW r \in Request, Mark(r) PROVE OrderInv'
  <2>1. ~At(r, "idle") /\ ~At(r, "publish") /\ UNCHANGED <<deliveries, inbound>>
    BY <1>3 DEF Mark, At
  <2>2. req[r].out \in Seq(Published) /\ req[r].item \in Int
    BY <2>1, BusyTyped
  <2>3. /\ req'[r].payload = req[r].payload /\ req'[r].out = req[r].out
        /\ req'[r].item \in Int /\ Passed(r) <= Passed(r)'
        /\ \A q \in Request : q # r => req'[q] = req[q]
    <3>1. CASE Goto(r, "resolve")
      <4>1. /\ req'[r].stage = "resolve" /\ req'[r].payload = req[r].payload
            /\ req'[r].item = req[r].item /\ req'[r].out = req[r].out
            /\ \A q \in Request : q # r => req'[q] = req[q]
        BY <2>1, <3>1, KeepEffect DEF Goto, Busy
      <4> QED
        BY <1>3, <2>2, <4>1 DEF Passed, Mark, At
    <3>2. CASE Done(r, req[r].out)
      <4>1. /\ req'[r].out = req[r].out /\ req'[r].stage \in {"mark", "window", "publish"}
            /\ req'[r].payload = req[r].payload
            /\ \/ req'[r].stage = "mark" /\ req'[r].item = req[r].item + 1
               \/ req'[r].stage # "mark" /\ req'[r].item = req[r].item
            /\ \A q \in Request : q # r => req'[q] = req[q]
        BY <2>1, <2>2, <3>2, DoneEffect
      <4> QED
        BY <1>3, <2>2, <4>1 DEF Passed, Mark, At
    <3> QED
      BY <1>3, <3>1, <3>2 DEF Mark
  <2>4. Placed(r)' /\ Ahead(r)'
    BY <2>1, <2>3, KeepsOrder
  <2> QED
    BY <2>1, <2>3, <2>4, OrderStep
<1>4. ASSUME NEW r \in Request, Resolve(r) \/ Insert(r) \/ RefreshWindow(r) PROVE OrderInv'
  <2>1. /\ ~At(r, "idle") /\ ~At(r, "publish") /\ UNCHANGED <<deliveries, inbound>>
        /\ At(r, "window") \/ At(r, "resolve") \/ At(r, "insert")
    BY <1>4 DEF Resolve, Insert, RefreshWindow, At
  <2>2. Current(r) \in Item /\ req[r].item \in Int
    BY <2>1, BusyTyped
  <2>3. \E p \in Nat, s \in Busy :
          /\ At(r, "window") => s = "publish"
          /\ ~At(r, "window") => s \in {"insert", "content"}
          /\ \/ req' = [req EXCEPT ![r].stage = s]
             \/ req' = [req EXCEPT ![r].principal = p, ![r].stage = s]
    <3>1. Current(r).customer \in Customer
      BY <2>2 DEF Item
    <3>2. /\ identifier[Current(r).customer] \in Nat
          /\ principals[Current(r).customer] + 1 \in Nat
      BY <3>1 DEF TypeOK
    <3>3. CASE Resolve(r)
      BY <3>2, <3>3 DEF Resolve, Busy, At
    <3>4. CASE Insert(r)
      BY <3>2, <3>4 DEF Insert, Busy, At
    <3>5. CASE RefreshWindow(r)
      BY <3>5 DEF RefreshWindow, Goto, Busy, At
    <3> QED
      BY <1>4, <3>3, <3>4, <3>5
  <2>4. /\ req'[r].payload = req[r].payload /\ req'[r].out = req[r].out
        /\ req'[r].item = req[r].item
        /\ At(r, "window") => req'[r].stage = "publish"
        /\ ~At(r, "window") => req'[r].stage \in {"insert", "content"}
        /\ \A q \in Request : q # r => req'[q] = req[q]
    BY <2>1, <2>3, KeepEffect
  <2>5. Passed(r) <= Passed(r)'
    BY <2>1, <2>2, <2>4 DEF Passed, At
  <2>6. Placed(r)' /\ Ahead(r)'
    BY <2>1, <2>2, <2>4, <2>5, KeepsOrder
  <2> QED
    BY <2>1, <2>4, <2>6, OrderStep
<1>5. ASSUME NEW r \in Request, InsertRefused(r) \/ Finish(r) \/ Lose(r) PROVE OrderInv'
  <2>1. /\ req' = [req EXCEPT ![r] = Idle] /\ UNCHANGED <<deliveries, inbound>>
    BY <1>5 DEF InsertRefused, Finish, Lose
  <2>2. req'[r] = Idle /\ \A q \in Request : q # r => req'[q] = req[q]
    BY <2>1 DEF TypeOK
  <2> QED
    BY <2>1, <2>2, OrderStep
<1>6. ASSUME NEW r \in Request, Translate(r) PROVE OrderInv'
  <2> DEFINE s == req[r].out  e == Event(r)  p == req[r].payload  n == req[r].item
  <2>1. /\ ~At(r, "idle") /\ At(r, "content") /\ ~At(r, "publish")
        /\ UNCHANGED <<deliveries, inbound>>
    BY <1>6 DEF Translate, At
  <2>2. /\ s \in Seq(Published) /\ e \in Published /\ Append(s, e) \in Seq(Published)
        /\ p \in Payload /\ n \in DOMAIN Items[p] /\ n \in Nat \ {0}
        /\ e.mark = Items[p][n].mark /\ e.customer = Items[p][n].customer
        /\ Batch(r) = Items[p]
    BY <2>1, BusyTyped, EventTyped DEF Event, Current, Batch
  <2>3. /\ Ascending(s, p)
        /\ \A i \in DOMAIN s : \E m \in 1 .. n - 1 :
             Is(s[i], p, m) /\ s[i].customer = Items[p][m].customer
    BY <2>1, <2>2 DEF OrderInv, Placed, Passed, At
  <2>4. Is(e, p, n)
    BY <2>2 DEF Is
  <2>5. PICK out \in {s, Append(s, e)} : Done(r, out)
    BY <1>6 DEF Translate
  <2>6. out \in Seq(Published)
    BY <2>2, <2>5
  <2>7. /\ req'[r].out = out /\ req'[r].stage \in {"mark", "window", "publish"}
        /\ req'[r].payload = p
        /\ \/ req'[r].stage = "mark" /\ req'[r].item = n + 1
           \/ req'[r].stage # "mark" /\ req'[r].item = n
        /\ req'[r].stage = "publish" => out = <<>>
        /\ \A q \in Request : q # r => req'[q] = req[q]
    BY <2>1, <2>5, <2>6, DoneEffect
  <2>8. Passed(r)' = n /\ Batch(r)' = Items[p]
    BY <2>2, <2>7 DEF Passed, Batch
  <2>f. deliveries[p] = 1 => Foreign(inbound, p)
    BY <2>1 DEF OrderInv, Ahead
  <2> HIDE DEF s, e, p, n
  <2>9. Ascending(Append(s, e), p)
    <3>1. ASSUME NEW i \in DOMAIN s, NEW l \in DOMAIN Items[p], NEW m \in DOMAIN Items[p],
                 Is(s[i], p, l), Is(e, p, m)
          PROVE  l < m
      <4>1. PICK k \in 1 .. n - 1 : Is(s[i], p, k)
        BY <2>3
      <4>2. k = l /\ m = n
        BY <2>2, <2>4, <3>1, <4>1, OneItem
      <4> QED
        BY <2>2, <4>1, <4>2
    <3> QED
      BY <2>2, <2>3, <3>1, AscendingAppend
  <2>10. Ascending(out, p)
    BY <2>3, <2>5, <2>9
  <2>11. \A i \in DOMAIN out : \E m \in 1 .. n :
            Is(out[i], p, m) /\ out[i].customer = Items[p][m].customer
    <3>1. \A i \in DOMAIN out : \/ i \in DOMAIN s /\ out[i] = s[i]
                                \/ out[i] = e
      BY <2>2, <2>5
    <3>2. \A m \in 1 .. n - 1 : m \in 1 .. n
      BY <2>2
    <3>3. n \in 1 .. n
      BY <2>2
    <3> QED
      BY <2>2, <2>3, <2>4, <3>1, <3>2, <3>3
  <2>12. Placed(r)'
    BY <2>7, <2>8, <2>10, <2>11 DEF Placed, Ascending
  <2>13. Ahead(r)'
    BY <2>1, <2>7, <2>f DEF Ahead, Foreign, Batch
  <2> QED
    BY <2>1, <2>7, <2>12, <2>13, OrderStep DEF p
<1>7. ASSUME NEW r \in Request, Publish(r) \/ PublishFails(r) PROVE OrderInv'
  <2> DEFINE s == req[r].out  e == Head(req[r].out)  p == req[r].payload
  <2>1. /\ At(r, "publish") /\ ~At(r, "idle") /\ s # <<>> /\ UNCHANGED deliveries
        /\ req' = [req EXCEPT ![r].out = Tail(@)]
        /\ inbound' \in {inbound, Append(inbound, e)}
    BY <1>7 DEF Publish, PublishFails, At
  <2>2. /\ s \in Seq(Published) /\ p \in Payload /\ Batch(r) = Items[p]
        /\ inbound \in Seq(Published)
    BY <2>1, BusyTyped DEF Batch, TypeOK
  <2>3. /\ req'[r].stage = "publish" /\ req'[r].out = Tail(s)
        /\ req'[r].payload = p /\ req'[r].item = req[r].item /\ e \in Published
        /\ \A q \in Request : q # r => req'[q] = req[q]
    BY <2>1, TailEffect
  <2>4. /\ Passed(r)' = Passed(r) /\ Batch(r)' = Items[p]
        /\ ~At(r, "idle")' /\ At(r, "publish")'
    BY <2>1, <2>3 DEF Passed, Batch, At
  <2>5. /\ Ascending(s, p)
        /\ \A i \in DOMAIN s : \E n \in 1 .. Passed(r) :
             Is(s[i], p, n) /\ s[i].customer = Items[p][n].customer
        /\ deliveries[p] > 0
        /\ \A q \in Request : q # r /\ ~At(q, "idle") /\ req[q].payload = p
             => deliveries[p] > 1
        /\ deliveries[p] = 1 =>
             \A i \in DOMAIN inbound, k \in DOMAIN s : \A m, n \in DOMAIN Items[p] :
               Is(inbound[i], p, m) /\ Is(s[k], p, n) => m < n
        /\ deliveries[p] \in Nat
    <3>1. deliveries[p] \in 0 .. MaxDeliveries /\ MaxDeliveries \in Nat
      BY <2>2, EdgeAssumption DEF TypeOK
    <3>2. Placed(r) /\ Counted(r) /\ Ahead(r)
      BY DEF OrderInv
    <3>3. deliveries[p] \in Nat
      BY <3>1
    <3>4. /\ Ascending(s, p) /\ deliveries[p] > 0
          /\ \A i \in DOMAIN s : \E n \in 1 .. Passed(r) :
               Is(s[i], p, n) /\ s[i].customer = Items[p][n].customer
      BY <2>1, <2>2, <3>2 DEF Placed, Counted
    <3>5. \A q \in Request : q # r /\ ~At(q, "idle") /\ req[q].payload = p
             => deliveries[p] > 1
      BY <2>1, <3>2 DEF Counted
    <3>6. deliveries[p] = 1 =>
             \A i \in DOMAIN inbound, k \in DOMAIN s : \A m, n \in DOMAIN Items[p] :
               Is(inbound[i], p, m) /\ Is(s[k], p, n) => m < n
      BY <2>1, <2>2, <3>2 DEF Ahead
    <3> QED
      BY <3>3, <3>4, <3>5, <3>6
  <2>q. \A q \in Request : q # r => Placed(q) /\ Counted(q) /\ Ahead(q)
    BY DEF OrderInv
  <2>i. \A q \in Payload : /\ deliveries[q] = 0 => Foreign(inbound, q)
                           /\ deliveries[q] = 1 => Ascending(inbound, q)
    BY DEF OrderInv
  <2> HIDE DEF s, p
  <2>6. 1 \in DOMAIN s /\ e = s[1]
    BY <2>1, <2>2, TailParts DEF s
  <2>7. PICK n \in DOMAIN Items[p] : Is(e, p, n)
    BY <2>5, <2>6 DEF Is
  <2>8. ASSUME NEW q \in Payload, q # p, NEW m \in DOMAIN Items[q] PROVE ~Is(e, q, m)
    BY <2>2, <2>7, <2>8, OneItem
  <2>9. ASSUME deliveries[p] = 1
        PROVE \A i \in DOMAIN inbound : \A l, m \in DOMAIN Items[p] :
                Is(inbound[i], p, l) /\ Is(e, p, m) => l < m
    BY <2>5, <2>6, <2>9
  <2>10. /\ Ascending(Tail(s), p)
         /\ \A i \in DOMAIN Tail(s) : \A l, m \in DOMAIN Items[p] :
              Is(e, p, l) /\ Is(Tail(s)[i], p, m) => l < m
         /\ \A i \in DOMAIN Tail(s) : \E j \in DOMAIN s : Tail(s)[i] = s[j]
    <3>1. e = Head(s)
      BY DEF s
    <3> QED
      BY <2>1, <2>2, <2>5, <3>1, AscendingTail, TailParts
  <2>11. \A i \in DOMAIN inbound' : \/ i \in DOMAIN inbound /\ inbound'[i] = inbound[i]
                                   \/ inbound'[i] = e
    BY <2>1, <2>2
  <2> HIDE DEF e
  <2>12. Placed(r)'
    <3>1. \A i \in DOMAIN Tail(s) : \E m \in 1 .. Passed(r) :
             Is(Tail(s)[i], p, m) /\ Tail(s)[i].customer = Items[p][m].customer
      BY <2>5, <2>10
    <3> QED
      BY <2>3, <2>4, <2>10, <3>1 DEF Placed, Ascending
  <2>13. Ahead(r)'
    <3>1. ASSUME deliveries[p] = 1, NEW i \in DOMAIN inbound', NEW k \in DOMAIN Tail(s),
                 NEW l \in DOMAIN Items[p], NEW m \in DOMAIN Items[p],
                 Is(inbound'[i], p, l), Is(Tail(s)[k], p, m)
          PROVE  l < m
      BY <2>5, <2>10, <2>11, <3>1
    <3> QED
      BY <2>1, <2>3, <2>4, <3>1 DEF Ahead
  <2>14. ASSUME NEW q \in Payload, q # p, Foreign(inbound, q) PROVE Foreign(inbound', q)
    BY <2>8, <2>11, <2>14 DEF Foreign
  <2>15. ASSUME NEW q \in Payload, Ascending(inbound, q), q = p => deliveries[p] = 1
         PROVE  Ascending(inbound', q)
    <3>1. \A i \in DOMAIN inbound : \A l, m \in DOMAIN Items[q] :
             Is(inbound[i], q, l) /\ Is(e, q, m) => l < m
      BY <2>8, <2>9, <2>15
    <3> QED
      BY <2>1, <2>2, <2>3, <2>15, <3>1, AscendingAppend
  <2>16. ASSUME NEW q \in Request, q # r PROVE Placed(q)' /\ Counted(q)' /\ Ahead(q)'
    <3>1. /\ req'[q] = req[q] /\ Batch(q)' = Batch(q) /\ Passed(q)' = Passed(q)
          /\ At(q, "idle")' = At(q, "idle") /\ At(q, "publish")' = At(q, "publish")
      BY <2>3, <2>16 DEF Batch, Passed, At
    <3>2. Placed(q)'
      BY <2>16, <2>q, <3>1 DEF Placed, Ascending
    <3>3. Counted(q)'
      <4>1. \A t \in Request : /\ At(t, "idle")' = At(t, "idle")
                               /\ req'[t].payload = req[t].payload
        BY <2>1, <2>3, <2>4 DEF At, p
      <4> QED
        BY <2>1, <2>16, <2>q, <4>1 DEF Counted
    <3>4. Ahead(q)'
      <4>1. CASE ~At(q, "idle") /\ deliveries[req[q].payload] = 1
        <5>1. req[q].payload # p /\ req[q].payload \in Payload
          BY <2>5, <2>16, <4>1, BusyTyped
        <5>2. ~At(q, "publish") => Foreign(inbound', req[q].payload)
          BY <2>14, <2>16, <2>q, <4>1, <5>1 DEF Ahead
        <5>3. \A i \in DOMAIN inbound', k \in DOMAIN req[q].out :
                \A m, l \in DOMAIN Batch(q) :
                  Is(inbound'[i], req[q].payload, m) /\ Is(req[q].out[k], req[q].payload, l)
                    => m < l
          <6>1. \A m \in DOMAIN Batch(q) : ~Is(e, req[q].payload, m)
            BY <2>8, <5>1 DEF Batch
          <6> QED
            BY <2>11, <2>16, <2>q, <4>1, <6>1 DEF Ahead
        <5> QED
          BY <2>1, <3>1, <5>2, <5>3 DEF Ahead, Foreign
      <4> QED
        BY <2>1, <3>1, <4>1 DEF Ahead
    <3> QED
      BY <3>2, <3>3, <3>4
  <2>17. Counted(r)'
    <3>1. ASSUME NEW q \in Request, q # r, ~At(q, "idle")', req'[q].payload = p
          PROVE  deliveries[p] > 1
      BY <2>3, <2>5, <3>1 DEF At
    <3> QED
      BY <2>1, <2>3, <2>5, <3>1 DEF Counted
  <2>18. \A q \in Payload : /\ deliveries[q] = 0 => Foreign(inbound', q)
                            /\ deliveries[q] = 1 => Ascending(inbound', q)
    <3>1. ASSUME NEW q \in Payload, deliveries[q] = 0 PROVE Foreign(inbound', q)
      <4>1. q # p
        BY <2>5, <3>1
      <4> QED
        BY <2>14, <2>i, <3>1, <4>1
    <3> QED
      BY <2>15, <2>i, <3>1
  <2>19. \A q \in Payload : /\ Foreign(inbound, q)' = Foreign(inbound', q)
                            /\ Ascending(inbound, q)' = Ascending(inbound', q)
    BY DEF Foreign, Ascending
  <2> QED
    BY <2>1, <2>12, <2>13, <2>16, <2>17, <2>18, <2>19 DEF OrderInv
<1> QED
  BY <1>1, <1>2, <1>3, <1>4, <1>5, <1>6, <1>7 DEF Next, Handle

\* A batch delivered once is on the topic in the order of its items, whatever
\* other requests publish in between.
THEOREM BatchesInOrder == Spec => []BatchInOrder
<1>1. Init => OrderInv
  BY DEF Init, OrderInv, Placed, Counted, Ahead, Foreign, Ascending, At, Idle
<1>2. OrderInv /\ TypeOK => BatchInOrder
  <2> SUFFICES ASSUME OrderInv, TypeOK, NEW p \in Payload, deliveries[p] = 1,
                      NEW i \in DOMAIN inbound, NEW j \in DOMAIN inbound,
                      NEW m \in DOMAIN Items[p], NEW n \in DOMAIN Items[p],
                      inbound[i].mark = Items[p][m].mark,
                      inbound[j].mark = Items[p][n].mark, m < n
               PROVE  i < j
    BY DEF BatchInOrder
  <2>1. i \in Nat /\ j \in Nat /\ m \in Nat /\ n \in Nat
    BY EdgeAssumption DEF TypeOK
  <2>2. ~(j < i)
    <3>1. j < i => n < m
      BY DEF OrderInv, Ascending, Is
    <3> QED
      BY <2>1, <3>1
  <2>3. i # j
    <3>1. i = j => Is(inbound[i], p, m) /\ Is(inbound[i], p, n)
      BY DEF Is
    <3>2. i = j => m = n
      BY <3>1, OneItem
    <3> QED
      BY <2>1, <3>2
  <2> QED
    BY <2>1, <2>2, <2>3
<1> QED
  BY <1>1, <1>2, OrderNext, TypeCorrect, PTL DEF Spec

\* A step of the resolver on its way.
LEMMA ResolveEffect ==
  ASSUME TypeOK, NEW r \in Request, Resolve(r) \/ Insert(r)
  PROVE  /\ req'[r].stage \in {"insert", "content"} /\ req'[r].payload = req[r].payload
         /\ req'[r].item = req[r].item /\ req'[r].out = req[r].out
         /\ \A q \in Request : q # r => req'[q] = req[q]
<1>1. ~At(r, "idle")
  BY DEF Resolve, Insert, At
<1>2. Current(r).customer \in Customer
  BY <1>1, BusyTyped DEF Item
<1>3. /\ identifier[Current(r).customer] \in Nat
      /\ principals[Current(r).customer] + 1 \in Nat
  BY <1>2 DEF TypeOK
<1>4. \E p \in Nat, s \in {"insert", "content"} :
        req' = [req EXCEPT ![r].principal = p, ![r].stage = s]
  BY <1>3 DEF Resolve, Insert
<1> QED
  BY <1>1, <1>4, KeepEffect DEF Busy

-----------------------------------------------------------------------------
(* The window of who wrote *)

Within(events, customers) == \A i \in DOMAIN events : events[i].customer \in customers

\* Who wrote what a request is about to publish has a window.
WindowInv ==
    /\ Within(inbound, window)
    /\ \A r \in Request : At(r, "publish") => Within(req[r].out, window)

\* A step on one request that publishes nothing.
LEMMA WindowStep ==
  ASSUME WindowInv, NEW r \in Request, UNCHANGED inbound, window \subseteq window',
         \A q \in Request : q # r => req'[q] = req[q],
         req'[r].stage = "publish" => Within(req'[r].out, window')
  PROVE  WindowInv'
<1>1. Within(inbound', window')
  BY DEF WindowInv, Within
<1>2. ASSUME NEW q \in Request, req'[q].stage = "publish" PROVE Within(req'[q].out, window')
  BY <1>2 DEF WindowInv, Within, At
<1>3. \A q \in Request : At(q, "publish")' => Within(req[q].out, window)'
  BY <1>2 DEF At, Within
<1> QED
  BY <1>1, <1>3 DEF WindowInv, Within

LEMMA WindowNext == WindowInv /\ OrderInv /\ TypeOK /\ [Next]_vars => WindowInv'
<1> SUFFICES ASSUME WindowInv, OrderInv, TypeOK, [Next]_vars PROVE WindowInv'
  OBVIOUS
<1> USE DEF provider, identities
<1>1. CASE UNCHANGED vars
  BY <1>1 DEF vars, WindowInv, Within, At
<1>2. ASSUME NEW r \in Request, NEW p \in Payload, Deliver(r, p) PROVE WindowInv'
  <2>1. /\ req'[r].stage = "mark" /\ UNCHANGED <<inbound, window>>
        /\ \A q \in Request : q # r => req'[q] = req[q]
    BY <1>2 DEF Deliver, TypeOK
  <2> QED
    BY <2>1, WindowStep
<1>3. ASSUME NEW r \in Request, Mark(r) PROVE WindowInv'
  <2>1. ~At(r, "idle") /\ UNCHANGED <<inbound, window>>
    BY <1>3 DEF Mark, At
  <2>2. /\ req'[r].stage = "publish" => Within(req'[r].out, window')
        /\ \A q \in Request : q # r => req'[q] = req[q]
    <3>1. CASE Goto(r, "resolve")
      BY <2>1, <3>1, KeepEffect DEF Goto, Busy
    <3>2. CASE Done(r, req[r].out)
      BY <2>1, <3>2, BusyTyped, DoneEffect DEF Within
    <3> QED
      BY <1>3, <3>1, <3>2 DEF Mark
  <2> QED
    BY <2>1, <2>2, WindowStep
<1>4. ASSUME NEW r \in Request, Resolve(r) \/ Insert(r) PROVE WindowInv'
  <2>1. /\ req'[r].stage \in {"insert", "content"} /\ UNCHANGED <<inbound, window>>
        /\ \A q \in Request : q # r => req'[q] = req[q]
    BY <1>4, ResolveEffect DEF Resolve, Insert
  <2> QED
    BY <2>1, WindowStep
<1>5. ASSUME NEW r \in Request, InsertRefused(r) \/ Finish(r) \/ Lose(r) PROVE WindowInv'
  <2>1. req' = [req EXCEPT ![r] = Idle] /\ UNCHANGED <<inbound, window>>
    BY <1>5 DEF InsertRefused, Finish, Lose
  <2>2. req'[r].stage = "idle" /\ \A q \in Request : q # r => req'[q] = req[q]
    BY <2>1 DEF TypeOK, Idle
  <2> QED
    BY <2>1, <2>2, WindowStep
<1>6. ASSUME NEW r \in Request, Translate(r) PROVE WindowInv'
  <2>1. ~At(r, "idle") /\ UNCHANGED <<inbound, window>>
    BY <1>6 DEF Translate, At
  <2>2. PICK out \in Seq(Published) : Done(r, out)
    BY <1>6, <2>1, BusyTyped, EventTyped DEF Translate
  <2>3. /\ req'[r].stage = "publish" => Within(req'[r].out, window')
        /\ \A q \in Request : q # r => req'[q] = req[q]
    BY <2>1, <2>2, DoneEffect DEF Within
  <2> QED
    BY <2>1, <2>3, WindowStep
<1>7. ASSUME NEW r \in Request, RefreshWindow(r) PROVE WindowInv'
  <2>1. /\ ~At(r, "idle") /\ UNCHANGED inbound
        /\ window' = window \cup {Batch(r)[i].customer : i \in DOMAIN Batch(r)}
    BY <1>7 DEF RefreshWindow, At
  <2>2. /\ req'[r].out = req[r].out
        /\ \A q \in Request : q # r => req'[q] = req[q]
    BY <1>7, <2>1, KeepEffect DEF RefreshWindow, Goto, Busy
  <2>3. \A i \in DOMAIN req[r].out :
          \E n \in DOMAIN Batch(r) : req[r].out[i].customer = Batch(r)[n].customer
    BY <2>1 DEF OrderInv, Placed, Is, Batch
  <2>4. Within(req'[r].out, window')
    BY <2>1, <2>2, <2>3 DEF Within
  <2> QED
    BY <2>1, <2>2, <2>4, WindowStep
<1>8. ASSUME NEW r \in Request, Publish(r) \/ PublishFails(r) PROVE WindowInv'
  <2> DEFINE s == req[r].out  e == Head(req[r].out)
  <2>1. /\ At(r, "publish") /\ ~At(r, "idle") /\ s # <<>> /\ UNCHANGED window
        /\ req' = [req EXCEPT ![r].out = Tail(@)]
        /\ inbound' \in {inbound, Append(inbound, e)}
    BY <1>8 DEF Publish, PublishFails, At
  <2>2. s \in Seq(Published) /\ inbound \in Seq(Published) /\ Within(s, window)
    BY <2>1, BusyTyped DEF TypeOK, WindowInv
  <2>3. /\ req'[r].out = Tail(s)
        /\ \A q \in Request : q # r => req'[q] = req[q]
    BY <2>1, TailEffect
  <2>4. e.customer \in window /\ Within(Tail(s), window)
    BY <2>1, <2>2, TailParts DEF Within
  <2>5. \A i \in DOMAIN inbound' : \/ i \in DOMAIN inbound /\ inbound'[i] = inbound[i]
                                  \/ inbound'[i] = e
    BY <2>1, <2>2
  <2>6. Within(inbound', window)
    BY <2>4, <2>5 DEF WindowInv, Within
  <2>7. ASSUME NEW q \in Request, At(q, "publish")' PROVE Within(req'[q].out, window)
    <3>1. CASE q = r
      BY <2>3, <2>4, <3>1
    <3>2. CASE q # r
      BY <2>3, <2>7, <3>2 DEF WindowInv, At
    <3> QED
      BY <3>1, <3>2
  <2> QED
    BY <2>1, <2>6, <2>7 DEF WindowInv, Within
<1> QED
  BY <1>1, <1>2, <1>3, <1>4, <1>5, <1>6, <1>7, <1>8 DEF Next, Handle

\* Whoever's message the orchestrator can see may be answered freely: the
\* window was opened before the message was published.
THEOREM WindowBeforeMessage == Spec => []WindowOpenForReply
<1>1. Init => OrderInv /\ WindowInv
  BY DEF Init, WindowInv, Within, OrderInv, Placed, Counted, Ahead, Foreign, Ascending,
         At, Idle
<1>2. WindowInv => WindowOpenForReply
  BY DEF WindowInv, WindowOpenForReply, Within
<1> QED
  BY <1>1, <1>2, OrderNext, WindowNext, TypeCorrect, PTL DEF Spec

-----------------------------------------------------------------------------
(* What is lost *)

Kept(k) == k \in MarksOf(inbound) \/ \E r \in Request : k \in Carried(r)
Explained(p) ==
    collisions > 0 /\ \E j \in DOMAIN Items[p] : Items[p][j].customer \notin Known

\* Known customers are never inserted; and while nothing is interrupted, a
\* claimed text is with a request or on the topic, or its batch met a refusal.
KnownInv ==
    /\ \A c \in Known : identifier[c] # 0
    /\ \A r \in Request : At(r, "insert") => Current(r).customer \notin Known
LossInv ==
    /\ KnownInv
    /\ interruptions = 0 =>
         \A p \in Payload : \A i \in DOMAIN Items[p] :
           Items[p][i].kind = "text" /\ Items[p][i].mark \in marked
             => Kept(Items[p][i].mark) \/ Explained(p)

\* A step after which whatever was kept is kept or explained, and what it
\* claims is kept.
LEMMA LossStep ==
  ASSUME LossInv, KnownInv', collisions \in Nat, collisions' \in Nat,
         interruptions' = interruptions, collisions' >= collisions,
         \A p \in Payload : \A i \in DOMAIN Items[p] :
           Items[p][i].kind = "text" =>
             /\ Items[p][i].mark \in marked'
                  => Items[p][i].mark \in marked \/ Kept(Items[p][i].mark)'
             /\ Kept(Items[p][i].mark) => Kept(Items[p][i].mark)' \/ Explained(p)'
  PROVE  LossInv'
<1>1. \A p : Explained(p) => Explained(p)'
  BY DEF Explained
<1> QED
  BY <1>1 DEF LossInv

\* Nothing is said of a run with an interruption.
LEMMA InterruptedStep ==
  ASSUME KnownInv', TypeOK, Interrupted
  PROVE  LossInv'
<1>1. interruptions \in 0 .. MaxInterruptions /\ MaxInterruptions \in Nat
  BY EdgeAssumption DEF TypeOK
<1>2. interruptions' # 0
  BY <1>1 DEF Interrupted
<1> QED
  BY <1>2 DEF LossInv

LEMMA KnownNext == KnownInv /\ TypeOK /\ [Next]_vars => KnownInv'
<1> SUFFICES ASSUME KnownInv, TypeOK, [Next]_vars PROVE KnownInv'
  OBVIOUS
<1> USE DEF provider, identities
<1>1. \A c \in Known : c \in Customer
  BY EdgeAssumption
<1>2. CASE UNCHANGED vars
  BY <1>2 DEF vars, KnownInv, At, Current, Batch
<1>3. ASSUME NEW r \in Request, \A q \in Request : q # r => req'[q] = req[q],
             UNCHANGED identifier, req'[r].stage # "insert"
      PROVE  KnownInv'
  <2>1. \A q \in Request : q # r => /\ At(q, "insert")' = At(q, "insert")
                                    /\ Current(q)' = Current(q)
    BY <1>3 DEF At, Current, Batch
  <2>2. ~At(r, "insert")'
    BY <1>3 DEF At
  <2> QED
    BY <1>3, <2>1, <2>2 DEF KnownInv
<1>4. ASSUME NEW r \in Request, NEW p \in Payload, Deliver(r, p) PROVE KnownInv'
  <2>1. /\ req'[r].stage = "mark" /\ UNCHANGED identifier
        /\ \A q \in Request : q # r => req'[q] = req[q]
    BY <1>4 DEF Deliver, TypeOK
  <2> QED
    BY <1>3, <2>1
<1>5. ASSUME NEW r \in Request, Mark(r) \/ Translate(r) PROVE KnownInv'
  <2>1. ~At(r, "idle") /\ UNCHANGED identifier
    BY <1>5 DEF Mark, Translate, At
  <2>2. Goto(r, "resolve") \/ \E out \in Seq(Published) : Done(r, out)
    BY <1>5, <2>1, BusyTyped, EventTyped DEF Mark, Translate
  <2>3. req'[r].stage # "insert" /\ \A q \in Request : q # r => req'[q] = req[q]
    <3>1. CASE Goto(r, "resolve")
      BY <2>1, <3>1, KeepEffect DEF Goto, Busy
    <3>2. CASE \E out \in Seq(Published) : Done(r, out)
      BY <2>1, <3>2, DoneEffect
    <3> QED
      BY <2>2, <3>1, <3>2
  <2> QED
    BY <1>3, <2>1, <2>3
<1>6. ASSUME NEW r \in Request, Resolve(r) PROVE KnownInv'
  <2> DEFINE found == identifier[Current(r).customer]
             stage == IF found = 0 THEN "insert" ELSE "content"
  <2>1. ~At(r, "idle") /\ UNCHANGED identifier
    BY <1>6 DEF Resolve, At
  <2>2. found \in Nat
    BY <2>1, BusyTyped DEF Item, TypeOK
  <2>3. req' = [req EXCEPT ![r].principal = found, ![r].stage = stage] /\ stage \in Busy
    BY <1>6 DEF Resolve, Busy
  <2>4. stage = "insert" => Current(r).customer \notin Known
    BY DEF KnownInv
  <2> HIDE DEF found, stage
  <2>5. /\ req'[r].stage = stage /\ req'[r].payload = req[r].payload
        /\ req'[r].item = req[r].item
        /\ \A q \in Request : q # r => req'[q] = req[q]
    BY <2>1, <2>2, <2>3, KeepEffect
  <2>6. \A q \in Request : Current(q)' = Current(q)
    BY <2>5 DEF Current, Batch
  <2>7. \A q \in Request : q # r => At(q, "insert")' = At(q, "insert")
    BY <2>5 DEF At
  <2>8. At(r, "insert")' => stage = "insert"
    BY <2>5 DEF At
  <2> QED
    BY <2>1, <2>4, <2>6, <2>7, <2>8 DEF KnownInv
<1>7. ASSUME NEW r \in Request, Insert(r) PROVE KnownInv'
  <2> DEFINE c == Current(r).customer
  <2>1. ~At(r, "idle") /\ c \in Customer /\ principals[c] \in Nat
    <3>1. ~At(r, "idle")
      BY <1>7 DEF Insert, At
    <3>2. c \in Customer
      BY <3>1, BusyTyped DEF Item
    <3> QED
      BY <3>1, <3>2 DEF TypeOK
  <2>2. identifier' = [identifier EXCEPT ![c] = principals[c] + 1]
    BY <1>7 DEF Insert
  <2>3. \A d \in Known : identifier'[d] # 0
    BY <1>1, <2>1, <2>2 DEF KnownInv, TypeOK
  <2>4. req'[r].stage = "content" /\ \A q \in Request : q # r => req'[q] = req[q]
    <3>1. /\ principals[c] + 1 \in Nat
          /\ req' = [req EXCEPT ![r].principal = principals[c] + 1, ![r].stage = "content"]
      BY <1>7, <2>1 DEF Insert
    <3> QED
      BY <2>1, <3>1, KeepEffect DEF Busy
  <2>5. \A q \in Request : q # r => /\ At(q, "insert")' = At(q, "insert")
                                    /\ Current(q)' = Current(q)
    BY <2>4 DEF At, Current, Batch
  <2>6. ~At(r, "insert")'
    BY <2>4 DEF At
  <2> QED
    BY <2>3, <2>5, <2>6 DEF KnownInv
<1>8. ASSUME NEW r \in Request, InsertRefused(r) \/ Finish(r) \/ Lose(r) PROVE KnownInv'
  <2>1. req' = [req EXCEPT ![r] = Idle] /\ UNCHANGED identifier
    BY <1>8 DEF InsertRefused, Finish, Lose
  <2>2. req'[r].stage # "insert" /\ \A q \in Request : q # r => req'[q] = req[q]
    BY <2>1 DEF TypeOK, Idle
  <2> QED
    BY <1>3, <2>1, <2>2
<1>9. ASSUME NEW r \in Request, RefreshWindow(r) PROVE KnownInv'
  <2>1. ~At(r, "idle") /\ UNCHANGED identifier
    BY <1>9 DEF RefreshWindow, At
  <2>2. req'[r].stage # "insert" /\ \A q \in Request : q # r => req'[q] = req[q]
    BY <1>9, <2>1, KeepEffect DEF RefreshWindow, Goto, Busy
  <2> QED
    BY <1>3, <2>1, <2>2
<1>10. ASSUME NEW r \in Request, Publish(r) \/ PublishFails(r) PROVE KnownInv'
  <2>1. /\ At(r, "publish") /\ req[r].out # <<>> /\ UNCHANGED identifier
        /\ req' = [req EXCEPT ![r].out = Tail(@)]
    BY <1>10 DEF Publish, PublishFails
  <2>2. req'[r].stage # "insert" /\ \A q \in Request : q # r => req'[q] = req[q]
    BY <2>1, TailEffect
  <2> QED
    BY <1>3, <2>1, <2>2
<1> QED
  BY <1>2, <1>4, <1>5, <1>6, <1>7, <1>8, <1>9, <1>10 DEF Next, Handle

\* Steps that leave the topic and the keys alone, on one request.
LEMMA CarryStep ==
  ASSUME LossInv, KnownInv', TypeOK, UNCHANGED <<marked, inbound, interruptions, collisions>>,
         NEW r \in Request, \A q \in Request : q # r => req'[q] = req[q],
         \A p \in Payload : \A i \in DOMAIN Items[p] :
           Items[p][i].kind = "text" /\ Items[p][i].mark \in Carried(r)
             => Items[p][i].mark \in Carried(r)'
  PROVE  LossInv'
<1>1. MarksOf(inbound)' = MarksOf(inbound)
  BY DEF MarksOf
<1>2. \A q \in Request : q # r => Carried(q)' = Carried(q)
  BY OthersCarry
<1>3. ASSUME NEW p \in Payload, NEW i \in DOMAIN Items[p], Items[p][i].kind = "text",
             Kept(Items[p][i].mark)
      PROVE  Kept(Items[p][i].mark)'
  BY <1>1, <1>2, <1>3 DEF Kept
<1>4. collisions \in Nat
  BY DEF TypeOK
<1> QED
  BY <1>3, <1>4, LossStep

LEMMA LossNext == LossInv /\ OrderInv /\ TypeOK /\ [Next]_vars => LossInv'
<1> SUFFICES ASSUME LossInv, OrderInv, TypeOK, [Next]_vars PROVE LossInv'
  OBVIOUS
<1> USE DEF provider, identities
<1>0. KnownInv' /\ collisions \in Nat
  BY KnownNext DEF LossInv, TypeOK
<1>1. CASE UNCHANGED vars
  <2>1. \A q \in Request : Carried(q)' = Carried(q)
    BY <1>1, SameCarried DEF vars
  <2>2. MarksOf(inbound)' = MarksOf(inbound)
    BY <1>1 DEF vars, MarksOf
  <2> QED
    BY <1>0, <1>1, <2>1, <2>2, LossStep DEF vars, Kept
<1>2. ASSUME NEW r \in Request, NEW p \in Payload, Deliver(r, p) PROVE LossInv'
  <2>1. /\ At(r, "idle") /\ UNCHANGED <<marked, inbound, interruptions, collisions>>
        /\ \A q \in Request : q # r => req'[q] = req[q]
    BY <1>2 DEF Deliver, TypeOK
  <2>2. Carried(r) = {}
    BY <2>1 DEF Carried
  <2> QED
    BY <1>0, <2>1, <2>2, CarryStep
<1>3. ASSUME NEW r \in Request, Mark(r) PROVE LossInv'
  <2> DEFINE k == Current(r).mark
  <2>1. /\ ~At(r, "idle") /\ ~Working(r) /\ marked' = marked \cup {k}
        /\ UNCHANGED <<inbound, interruptions, collisions>>
    BY <1>3 DEF Mark, At, Working
  <2>2. /\ req[r].out \in Seq(Published) /\ req[r].payload \in Payload
        /\ Is(Current(r), req[r].payload, req[r].item)
        /\ Current(r) = Items[req[r].payload][req[r].item]
    BY <2>1, BusyTyped DEF Is, Current, Batch
  <2>3. Carried(r) = MarksOf(req[r].out)
    BY <2>1 DEF Carried, Working
  <2>4. /\ \A q \in Request : q # r => req'[q] = req[q]
        /\ Carried(r) \subseteq Carried(r)'
        /\ Fresh(r) /\ Current(r).kind # "echo" => k \in Carried(r)'
    <3>1. CASE Fresh(r) /\ Current(r).kind # "echo"
      <4>1. Goto(r, "resolve")
        BY <1>3, <3>1 DEF Mark
      <4>2. /\ req'[r].stage = "resolve" /\ req'[r].payload = req[r].payload
            /\ req'[r].item = req[r].item /\ req'[r].out = req[r].out
            /\ \A q \in Request : q # r => req'[q] = req[q]
        BY <2>1, <4>1, KeepEffect DEF Goto, Busy
      <4>3. Carried(r)' = MarksOf(req[r].out) \cup {k}
        BY <4>2 DEF Carried, At, MarksOf, Current, Batch
      <4> QED
        BY <2>3, <4>2, <4>3
    <3>2. CASE ~(Fresh(r) /\ Current(r).kind # "echo")
      <4>1. Done(r, req[r].out)
        BY <1>3, <3>2 DEF Mark
      <4>2. /\ req'[r].out = req[r].out /\ req'[r].stage \in {"mark", "window", "publish"}
            /\ \A q \in Request : q # r => req'[q] = req[q]
        BY <2>1, <2>2, <4>1, DoneEffect
      <4>3. Carried(r)' = MarksOf(req[r].out)
        BY <4>2 DEF Carried, At, MarksOf
      <4> QED
        BY <2>3, <3>2, <4>2, <4>3
    <3> QED
      BY <3>1, <3>2
  <2>5. \A q \in Request : Carried(q) \subseteq Carried(q)'
    BY <2>4, OthersCarry
  <2>6. MarksOf(inbound)' = MarksOf(inbound)
    BY <2>1 DEF MarksOf
  <2>7. ASSUME NEW p \in Payload, NEW i \in DOMAIN Items[p], Items[p][i].kind = "text",
               Items[p][i].mark \in marked'
        PROVE  Items[p][i].mark \in marked \/ Kept(Items[p][i].mark)'
    <3>1. CASE Items[p][i].mark = k /\ Fresh(r)
      <4>1. Is(Current(r), p, i)
        BY <3>1 DEF Is
      <4>2. Current(r).kind = "text"
        BY <2>2, <2>7, <4>1, OneItem
      <4>3. k \in Carried(r)'
        BY <2>4, <3>1, <4>2
      <4> QED
        BY <3>1, <4>3 DEF Kept
    <3>2. CASE Items[p][i].mark = k /\ ~Fresh(r)
      BY <3>2 DEF Fresh
    <3>3. CASE Items[p][i].mark # k
      BY <2>1, <2>7, <3>3
    <3> QED
      BY <3>1, <3>2, <3>3
  <2> HIDE DEF k
  <2>8. \A m : Kept(m) => Kept(m)'
    BY <2>5, <2>6 DEF Kept
  <2> QED
    BY <1>0, <2>1, <2>7, <2>8, LossStep
<1>4. ASSUME NEW r \in Request, Resolve(r) \/ Insert(r) PROVE LossInv'
  <2>1. /\ UNCHANGED <<marked, inbound, interruptions, collisions>>
        /\ ~At(r, "idle") /\ Working(r)
    BY <1>4 DEF Resolve, Insert, At, Working
  <2>2. /\ req'[r].stage \in {"insert", "content"} /\ req'[r].payload = req[r].payload
        /\ req'[r].item = req[r].item /\ req'[r].out = req[r].out
        /\ \A q \in Request : q # r => req'[q] = req[q]
    BY <1>4, ResolveEffect
  <2>3. Carried(r)' = Carried(r)
    BY <2>1, <2>2 DEF Carried, At, Working, MarksOf, Current, Batch
  <2> QED
    BY <1>0, <2>1, <2>2, <2>3, CarryStep
<1>5. ASSUME NEW r \in Request, InsertRefused(r) PROVE LossInv'
  <2>1. /\ ~At(r, "idle") /\ At(r, "insert") /\ UNCHANGED <<marked, inbound, interruptions>>
        /\ collisions' = collisions + 1 /\ req' = [req EXCEPT ![r] = Idle]
    BY <1>5 DEF InsertRefused, At
  <2>2. PICK p \in Payload, n \in Nat :
          /\ p = req[r].payload /\ n \in DOMAIN Items[p] /\ Items[p][n] = Current(r)
          /\ Items[p][n].customer \notin Known
    <3>1. req[r].payload \in Payload /\ req[r].item \in DOMAIN Batch(r) /\ req[r].item \in Nat
      BY <2>1, BusyTyped
    <3>2. Current(r).customer \notin Known
      BY <2>1 DEF LossInv, KnownInv
    <3> QED
      BY <3>1, <3>2 DEF Current, Batch
  <2>3. \A q \in Request : q # r => req'[q] = req[q]
    BY <2>1
  <2>4. \A q \in Request : q # r => Carried(q)' = Carried(q)
    BY <2>3, OthersCarry
  <2>5. MarksOf(inbound)' = MarksOf(inbound)
    BY <2>1 DEF MarksOf
  <2>6. Explained(p)'
    BY <1>0, <2>1, <2>2 DEF Explained
  <2>7. ASSUME NEW t \in Payload, NEW i \in DOMAIN Items[t], Kept(Items[t][i].mark)
        PROVE  Kept(Items[t][i].mark)' \/ Explained(t)'
    <3>1. CASE Items[t][i].mark \in Carried(r)
      <4>1. \E m \in DOMAIN Items[p] : Items[p][m].mark = Items[t][i].mark
        <5>1. Carried(r) = MarksOf(req[r].out) \cup {Current(r).mark}
          BY <2>1 DEF Carried, At
        <5>2. ASSUME Items[t][i].mark \in MarksOf(req[r].out)
              PROVE  \E m \in DOMAIN Items[p] : Items[p][m].mark = Items[t][i].mark
          BY <2>1, <2>2, <5>2 DEF MarksOf, OrderInv, Placed, Is
        <5> QED
          BY <2>2, <3>1, <5>1, <5>2
      <4>2. t = p
        BY <2>2, <4>1, EdgeAssumption
      <4> QED
        BY <2>6, <4>2
    <3>2. CASE Items[t][i].mark \notin Carried(r)
      BY <2>4, <2>5, <2>7, <3>2 DEF Kept
    <3> QED
      BY <3>1, <3>2
  <2> QED
    BY <1>0, <2>1, <2>7, LossStep
<1>6. ASSUME NEW r \in Request, Finish(r) PROVE LossInv'
  <2>1. /\ At(r, "publish") /\ req[r].out = <<>> /\ req' = [req EXCEPT ![r] = Idle]
        /\ UNCHANGED <<marked, inbound, interruptions, collisions>>
    BY <1>6 DEF Finish
  <2>2. Carried(r) = {}
    BY <2>1 DEF Carried, At, MarksOf
  <2>3. \A q \in Request : q # r => req'[q] = req[q]
    BY <2>1
  <2> QED
    BY <1>0, <2>1, <2>2, <2>3, CarryStep
<1>7. ASSUME NEW r \in Request, Translate(r) PROVE LossInv'
  <2> DEFINE s == req[r].out  e == Event(r)
  <2>1. /\ ~At(r, "idle") /\ Working(r) /\ At(r, "content")
        /\ UNCHANGED <<marked, inbound, interruptions, collisions>>
    BY <1>7 DEF Translate, At, Working
  <2>2. /\ s \in Seq(Published) /\ e \in Published /\ e.mark = Current(r).mark
        /\ Append(s, e) \in Seq(Published) /\ req[r].payload \in Payload
        /\ Current(r) = Items[req[r].payload][req[r].item]
        /\ req[r].item \in DOMAIN Items[req[r].payload]
    BY <2>1, BusyTyped, EventTyped DEF Event, Current, Batch
  <2>3. PICK out \in Seq(Published) :
          /\ Done(r, out)
          /\ out = IF Current(r).kind = "sticker" THEN s ELSE Append(s, e)
    BY <1>7, <2>2 DEF Translate
  <2>4. Carried(r) = MarksOf(s) \cup {e.mark}
    BY <2>1, <2>2 DEF Carried, Working
  <2>5. /\ req'[r].out = out /\ req'[r].stage \in {"mark", "window", "publish"}
        /\ \A q \in Request : q # r => req'[q] = req[q]
    BY <2>1, <2>3, DoneEffect
  <2>6. Carried(r)' = MarksOf(out)
    BY <2>5 DEF Carried, At, MarksOf
  <2> HIDE DEF s, e
  <2>7. MarksOf(Append(s, e)) = MarksOf(s) \cup {e.mark}
    BY <2>2, MarksAppend
  <2>8. ASSUME NEW p \in Payload, NEW i \in DOMAIN Items[p], Items[p][i].kind = "text",
               Items[p][i].mark \in Carried(r)
        PROVE  Items[p][i].mark \in Carried(r)'
    <3>1. CASE Current(r).kind = "sticker"
      <4>1. Items[p][i].mark # e.mark
        <5>1. Items[p][i].mark = e.mark =>
                Is(Current(r), p, i) /\ Is(Current(r), req[r].payload, req[r].item)
          BY <2>2 DEF Is
        <5>2. Items[p][i].mark = e.mark => Current(r) = Items[p][i]
          BY <2>2, <5>1, OneItem
        <5> QED
          BY <2>8, <3>1, <5>2
      <4> QED
        BY <2>3, <2>4, <2>6, <2>8, <3>1, <4>1
    <3>2. CASE Current(r).kind # "sticker"
      BY <2>3, <2>4, <2>6, <2>7, <2>8, <3>2
    <3> QED
      BY <3>1, <3>2
  <2> QED
    BY <1>0, <2>1, <2>5, <2>8, CarryStep
<1>8. ASSUME NEW r \in Request, RefreshWindow(r) PROVE LossInv'
  <2>1. /\ At(r, "window") /\ ~At(r, "idle")
        /\ UNCHANGED <<marked, inbound, interruptions, collisions>>
    BY <1>8 DEF RefreshWindow, At
  <2>2. /\ req'[r].stage = "publish" /\ req'[r].out = req[r].out
        /\ \A q \in Request : q # r => req'[q] = req[q]
    BY <1>8, <2>1, KeepEffect DEF RefreshWindow, Goto, Busy
  <2>3. Carried(r)' = Carried(r)
    BY <2>1, <2>2 DEF Carried, At, MarksOf
  <2> QED
    BY <1>0, <2>1, <2>2, <2>3, CarryStep
<1>9. ASSUME NEW r \in Request, Publish(r) PROVE LossInv'
  <2> DEFINE s == req[r].out  e == Head(req[r].out)
  <2>1. /\ At(r, "publish") /\ s # <<>> /\ inbound' = Append(inbound, e)
        /\ UNCHANGED <<marked, interruptions, collisions>>
        /\ req' = [req EXCEPT ![r].out = Tail(@)]
    BY <1>9 DEF Publish
  <2>2. /\ s \in Seq(Published) /\ inbound \in Seq(Published)
    BY <2>1, BusyTyped DEF At, TypeOK
  <2>3. /\ req'[r].stage = "publish" /\ req'[r].out = Tail(s) /\ e \in Published
        /\ \A q \in Request : q # r => req'[q] = req[q]
    BY <2>1, TailEffect
  <2>4. Carried(r) = MarksOf(s) /\ Carried(r)' = MarksOf(Tail(s))
    BY <2>1, <2>3 DEF Carried, At, MarksOf
  <2>5. MarksOf(s) = {e.mark} \cup MarksOf(Tail(s))
    BY <2>1, <2>2, MarksTail
  <2>6. MarksOf(inbound') = MarksOf(inbound) \cup {e.mark}
    BY <2>1, <2>2, <2>3, MarksAppend
  <2>7. MarksOf(inbound)' = MarksOf(inbound')
    BY DEF MarksOf
  <2>8. \A q \in Request : q # r => Carried(q)' = Carried(q)
    BY <2>3, OthersCarry
  <2> HIDE DEF s, e
  <2>9. \A k : Kept(k) => Kept(k)'
    BY <2>4, <2>5, <2>6, <2>7, <2>8 DEF Kept
  <2> QED
    BY <1>0, <2>1, <2>9, LossStep
<1>10. ASSUME NEW r \in Request, PublishFails(r) \/ Lose(r) PROVE LossInv'
  <2>1. Interrupted
    BY <1>10 DEF PublishFails, Lose
  <2> QED
    BY <1>0, <2>1, InterruptedStep
<1> QED
  BY <1>1, <1>2, <1>3, <1>4, <1>5, <1>6, <1>7, <1>8, <1>9, <1>10 DEF Next, Handle

\* Without a crash or a failing await, a claimed text that nobody holds any more
\* and that is not on the topic was in the batch of a new customer's refused
\* insert.
THEOREM LossExplained == Spec => []LossHasCause
<1>1. Init => OrderInv /\ LossInv
  <2>1. Init => OrderInv
    BY DEF Init, OrderInv, Placed, Counted, Ahead, Foreign, Ascending, At, Idle
  <2>2. Init => LossInv
    BY EdgeAssumption DEF Init, LossInv, KnownInv, At, Idle
  <2> QED
    BY <2>1, <2>2
<1>2. LossInv => LossHasCause
  <2> SUFFICES ASSUME LossInv, interruptions = 0, NEW m \in Missing
               PROVE  /\ collisions > 0
                      /\ \E p \in Payload : \E i, j \in DOMAIN Items[p] :
                           Items[p][i] = m /\ Items[p][j].customer \notin Known
    BY DEF LossHasCause
  <2>1. PICK p \in Payload : \E i \in DOMAIN Items[p] : Items[p][i] = m
    BY DEF Missing, Texts
  <2>2. PICK i \in DOMAIN Items[p] : Items[p][i] = m
    BY <2>1
  <2>3. /\ m.kind = "text" /\ m.mark \in marked /\ m.mark \notin MarksOf(inbound)
        /\ \A r \in Request : m.mark \notin Carried(r)
    BY DEF Missing, Texts
  <2>4. ~Kept(m.mark)
    BY <2>3 DEF Kept
  <2>5. Explained(p)
    BY <2>2, <2>3, <2>4 DEF LossInv
  <2> QED
    BY <2>2, <2>5 DEF Explained
<1> QED
  BY <1>1, <1>2, OrderNext, LossNext, TypeCorrect, PTL DEF Spec

-----------------------------------------------------------------------------

\* One event for a message and one principal for a customer, for any number of
\* requests, payloads and customers (webhooks-whatsapp.ts, resolver.ts).
THEOREM EdgeInvariant == Spec => []EdgeInv
  BY TypeCorrect, PublishedAtMostOnce, OnePrincipalPerCustomer, PTL DEF EdgeInv
=============================================================================
