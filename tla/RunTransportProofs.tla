-------------------------- MODULE RunTransportProofs --------------------------
(***************************************************************************)
(* What holds of the send path for every set of calls, urls, addresses and *)
(* every budget.                                                           *)
(*                                                                         *)
(* Each step but Cancel, Hold, ReleaseHold and Cool is one call's, and     *)
(* changes only that call's own state (StepOfOne).  So a sum over the      *)
(* calls moves by what one call paid or wrote (TallyUpdate), and the rest  *)
(* of the invariant is about that call alone.                              *)
(***************************************************************************)
EXTENDS RunTransport, TallyLemmas

CallStep(c) ==
    \/ Decide(c) \/ Connect(c) \/ Resolve(c) \/ FailToResolve(c) \/ Drop(c)
    \/ \E fault \in BOOLEAN : Answer(c, fault)
    \/ \E u \in Urls, keep \in BOOLEAN : Redirect(c, u, keep)

RunStep == Cancel \/ Hold \/ ReleaseHold \/ \E r \in Route : Cool(r)

LEMMA NextSplits == ASSUME [Next]_vars PROVE (\E c \in Calls : CallStep(c)) \/ RunStep \/ UNCHANGED vars
BY DEF Next, CallStep, RunStep

\* Whatever a call does, no other call's state moves, and hold stays.
LEMMA StepOfOne ==
    ASSUME TypeOK, NEW c \in Calls, CallStep(c)
    PROVE  /\ \A d \in Calls \ {c} :
                 /\ pc'[d] = pc[d] /\ at'[d] = at[d] /\ writes'[d] = writes[d] /\ hop'[d] = hop[d]
                 /\ sent'[d] = sent[d] /\ wrote'[d] = wrote[d] /\ late'[d] = late[d]
           /\ held' = held /\ cancelled' = cancelled
BY DEF CallStep, Decide, Connect, Open, Resolve, FailToResolve, Drop, Answer, Redirect, Observe,
       Refuse, TypeOK, budgets, routes, history

LEMMA RouteType ==
    ASSUME TypeOK, TransportAssumption, NEW c \in Calls
    PROVE  RouteOf(c, at[c], writes[c]) \in Route
BY DEF RouteOf, Route, CarriesSession, TypeOK, TransportAssumption

\* What deciding about a hop comes to: a refusal that spends nothing of the
\* request budget, or one request paid with every check passed.
Declined(c) ==
    /\ \E o \in Refused \ {"destination_blocked"} : pc' = [pc EXCEPT ![c] = o]
    /\ used' = used /\ spent' = spent
    /\ counted' = counted \/ (GateLets(c) /\ CountWrite(c))

Admitted(c) ==
    /\ pc' = [pc EXCEPT ![c] = "connecting"]
    /\ used' = used + 1 /\ spent' = IF c \in Driven THEN spent + 1 ELSE spent
    /\ ~Stopped(c) /\ Permitted(c) /\ GateLets(c) /\ BudgetLets(c)
    /\ CountWrite(c)

LEMMA DecideEffect ==
    ASSUME TypeOK, TransportAssumption, NEW c \in Calls, Decide(c)
    PROVE  /\ Declined(c) \/ Admitted(c)
           /\ counted' \in [Findings -> Nat]
<1>0. counted' = counted \/ CountWrite(c)
    BY DEF Decide, budgets
<1>1. counted' \in [Findings -> Nat]
  <2>1. CASE counted' = counted
      BY <2>1 DEF TypeOK
  <2>2. CASE CountWrite(c)
      BY <2>2 DEF CountWrite, TypeOK, TransportAssumption
  <2> QED BY <1>0, <2>1, <2>2
<1> QED BY <1>1 DEF Decide, budgets, Refuse, Refused, Declined, Admitted

LEMMA ObserveType ==
    ASSUME TypeOK, TransportAssumption, NEW r \in Route, NEW fault \in BOOLEAN, Observe(r, fault)
    PROVE  /\ errors' \in [Route -> 0..Threshold] /\ answered' \in [Route -> BOOLEAN]
           /\ open' \in [Route -> BOOLEAN] /\ cooled' \in [Route -> BOOLEAN]
           /\ replies' \in [Route -> SUBSET {"5xx", "other"}]
<1>1. replies' \in [Route -> SUBSET {"5xx", "other"}]
    BY DEF Observe, TypeOK
<1>2. CASE fault
  <2>1. errors' \in [Route -> 0..Threshold]
      BY <1>2 DEF Observe, TypeOK, TransportAssumption
  <2>2. answered' = answered
      BY <1>2 DEF Observe
  <2>3. open' \in [Route -> BOOLEAN] /\ cooled' \in [Route -> BOOLEAN]
      BY <1>2, Zenon DEF Observe, TypeOK, Trips
  <2> QED BY <1>1, <2>1, <2>2, <2>3 DEF TypeOK
<1>3. CASE ~fault
  <2>1. open' \in [Route -> BOOLEAN] /\ cooled' \in [Route -> BOOLEAN] /\ answered' \in [Route -> BOOLEAN]
      BY <1>3 DEF Observe, TypeOK
  <2> QED BY <1>1, <1>3, <2>1 DEF Observe, TypeOK
<1> QED BY <1>2, <1>3

LEMMA OpenType ==
    ASSUME TypeOK, TransportAssumption, NEW c \in Calls, NEW a \in Addresses, Open(c, a),
           pc[c] \in {"connecting", "resolving"}
    PROVE  /\ pc' \in [Calls -> {"ready"} \union Busy \union Outcomes]
           /\ contacts' \in SUBSET Contact
           /\ sent' \in [Calls -> Nat] /\ wrote' \in [Calls -> Nat] /\ late' \in [Calls -> Nat]
<1> USE DEF TypeOK
<1>1. CASE a \in Special
    BY <1>1 DEF Open, Refuse, Outcomes, Refused
<1>2. CASE a \notin Special
  <2>1. [url |-> at[c], address |-> a, authed |-> CarriesSession(c, at[c])] \in Contact
    <3>1. CarriesSession(c, at[c]) \in BOOLEAN
        BY DEF CarriesSession
    <3>2. at[c] \in Urls
        OBVIOUS
    <3> QED BY <3>1, <3>2, Zenon DEF Contact
  <2>2. contacts' \in SUBSET Contact
      BY <1>2, <2>1 DEF Open
  <2>0. pc' = [pc EXCEPT ![c] = "sending"]
      BY <1>2 DEF Open
  <2>3. pc' \in [Calls -> {"ready"} \union Busy \union Outcomes]
      BY <2>0 DEF Busy
  <2>4. sent' \in [Calls -> Nat] /\ wrote' \in [Calls -> Nat] /\ late' \in [Calls -> Nat]
      BY <1>2 DEF Open
  <2> QED BY <2>2, <2>3, <2>4
<1> QED BY <1>1, <1>2

LEMMA NextTypeOK ==
    TransportAssumption /\ TypeOK /\ used + held <= MaxRequests /\ [Next]_vars => TypeOK'
<1> SUFFICES ASSUME TransportAssumption, TypeOK, used + held <= MaxRequests, [Next]_vars
             PROVE  TypeOK'
    OBVIOUS
<1> USE DEF TypeOK
<1>1. ASSUME NEW c \in Calls, CallStep(c) PROVE TypeOK'
  <2>0. RouteOf(c, at[c], writes[c]) \in Route
      BY RouteType
  <2>1. CASE Decide(c)
    <3>1. /\ pc' \in [Calls -> {"ready"} \union Busy \union Outcomes]
          /\ used' \in Nat /\ spent' \in Nat
        BY <2>1, DecideEffect DEF Busy, Outcomes, Declined, Admitted
    <3>2. counted' \in [Findings -> Nat]
        BY <2>1, DecideEffect
    <3>3. cooled' \in [Route -> BOOLEAN] /\ held' = held /\ cancelled' = cancelled
        BY <2>1, <2>0 DEF Decide, StartCooldown, budgets
    <3> QED BY <2>1, <3>1, <3>2, <3>3 DEF Decide, history
  <2>2. CASE Connect(c)
    <3>1. CASE pin[HostOf[at[c]]] = NoAddress
        BY <2>2, <3>1 DEF Connect, Busy, budgets, routes, history
    <3>2. CASE pin[HostOf[at[c]]] # NoAddress
      <4>1. pin[HostOf[at[c]]] \in Addresses /\ Open(c, pin[HostOf[at[c]]])
          BY <2>2, <3>2 DEF Connect, TransportAssumption
      <4>2. pc[c] = "connecting"
          BY <2>2 DEF Connect
      <4> HIDE DEF TypeOK
      <4>3. /\ pc' \in [Calls -> {"ready"} \union Busy \union Outcomes]
            /\ contacts' \in SUBSET Contact
            /\ sent' \in [Calls -> Nat] /\ wrote' \in [Calls -> Nat] /\ late' \in [Calls -> Nat]
          BY <4>1, <4>2, OpenType
      <4> QED BY <2>2, <4>1, <4>3 DEF Connect, Open, budgets, routes, TypeOK
    <3> QED BY <3>1, <3>2
  <2>3. CASE Resolve(c)
    <3>1. PICK a \in Addresses :
              /\ pin' = [pin EXCEPT ![HostOf[at[c]]] = Pinned(HostOf[at[c]], a)]
              /\ Open(c, Pinned(HostOf[at[c]], a))
        BY <2>3 DEF Resolve
    <3>2. Pinned(HostOf[at[c]], a) \in Addresses
        BY DEF Pinned, TransportAssumption
    <3>3. pc[c] = "resolving"
        BY <2>3 DEF Resolve
    <3>4. pin' \in [Hosts -> Addresses \union {NoAddress}]
        BY <3>1, <3>2
    <3> HIDE DEF TypeOK
    <3>5. /\ pc' \in [Calls -> {"ready"} \union Busy \union Outcomes]
          /\ contacts' \in SUBSET Contact
          /\ sent' \in [Calls -> Nat] /\ wrote' \in [Calls -> Nat] /\ late' \in [Calls -> Nat]
        BY <3>1, <3>2, <3>3, OpenType
    <3> QED BY <3>1, <3>4, <3>5 DEF Open, budgets, routes, TypeOK
  <2>4. CASE FailToResolve(c)
      BY <2>4 DEF FailToResolve, Refuse, Busy, Outcomes, budgets, routes, history
  <2>5. CASE Drop(c)
      BY <2>5 DEF Drop, Busy, Outcomes, budgets, routes, history
  <2>6. ASSUME NEW fault \in BOOLEAN, Answer(c, fault) PROVE TypeOK'
    <3>1. pc' \in [Calls -> {"ready"} \union Busy \union Outcomes]
        BY <2>6 DEF Answer, Outcomes
    <3> HIDE DEF TypeOK
    <3>2. /\ errors' \in [Route -> 0..Threshold] /\ answered' \in [Route -> BOOLEAN]
          /\ open' \in [Route -> BOOLEAN] /\ cooled' \in [Route -> BOOLEAN]
          /\ replies' \in [Route -> SUBSET {"5xx", "other"}]
        BY <2>0, <2>6, ObserveType DEF Answer
    <3> QED BY <2>6, <3>1, <3>2 DEF Answer, TypeOK, budgets
  <2>7. ASSUME NEW u \in Urls, NEW keep \in BOOLEAN, Redirect(c, u, keep) PROVE TypeOK'
    <3>1. /\ pc' \in [Calls -> {"ready"} \union Busy \union Outcomes]
          /\ at' \in [Calls -> Urls]
        BY <2>7 DEF Redirect, Busy
    <3>2. hop' \in [Calls -> 0..MaxRedirects]
        BY <2>7 DEF Redirect, TransportAssumption
    <3>3. writes' \in [Calls -> BOOLEAN]
        BY <2>7 DEF Redirect
    <3> HIDE DEF TypeOK
    <3>4. /\ errors' \in [Route -> 0..Threshold] /\ answered' \in [Route -> BOOLEAN]
          /\ open' \in [Route -> BOOLEAN] /\ cooled' \in [Route -> BOOLEAN]
          /\ replies' \in [Route -> SUBSET {"5xx", "other"}]
        BY <2>0, <2>7, ObserveType DEF Redirect
    <3> QED BY <2>7, <3>1, <3>2, <3>3, <3>4 DEF Redirect, TypeOK, budgets
  <2> QED BY <1>1, <2>1, <2>2, <2>3, <2>4, <2>5, <2>6, <2>7 DEF CallStep
<1>2. ASSUME RunStep PROVE TypeOK'
  <2>1. CASE Cancel
      BY <2>1 DEF Cancel, routes, history
  <2>4. CASE ReleaseHold
      BY <2>4 DEF ReleaseHold, routes, history
  <2>2. CASE Hold
    <3>1. held' \in Nat
        BY <2>2 DEF Hold, TransportAssumption
    <3> QED BY <2>2, <3>1 DEF Hold, routes, history
  <2>3. ASSUME NEW r \in Route, Cool(r) PROVE TypeOK'
      BY <2>3 DEF Cool, budgets, history
  <2> QED BY <1>2, <2>1, <2>2, <2>3, <2>4 DEF RunStep
<1>3. CASE UNCHANGED vars
    BY <1>3 DEF vars, budgets, routes, history
<1> QED BY <1>1, <1>2, <1>3, NextSplits

-----------------------------------------------------------------------------
(***************************************************************************)
(* What was paid and what was sent.                                        *)
(***************************************************************************)

\* A step of c moves c's payments alone, and moves them with the budgets.
LEMMA CallPays ==
    ASSUME TypeOK, TypeOK', TransportAssumption, NEW c \in Calls, CallStep(c)
    PROVE  /\ SameBut(Paid, Paid', Calls, c)
           /\ \/ Paid'[c] = Paid[c] /\ used' = used /\ spent' = spent
              \/ /\ Paid'[c] = Paid[c] + 1 /\ BudgetLets(c)
                 /\ used' = used + 1 /\ spent' = IF c \in Driven THEN spent + 1 ELSE spent
<1> USE DEF TypeOK, Paid
<1>1. SameBut(Paid, Paid', Calls, c)
    BY StepOfOne DEF SameBut
<1>2. CASE Decide(c)
  <2>1. pc[c] \in {"ready", "redirected"} /\ sent' = sent
      BY <1>2 DEF Decide, history
  <2>2. CASE Declined(c)
    <3>1. Paid'[c] = Paid[c]
        BY <2>1, <2>2 DEF Declined, Refused
    <3> QED BY <1>1, <2>2, <3>1 DEF Declined
  <2>3. CASE Admitted(c)
    <3>1. Paid'[c] = Paid[c] + 1
        BY <2>1, <2>3 DEF Admitted
    <3> QED BY <1>1, <2>3, <3>1 DEF Admitted
  <2> QED BY <1>2, <2>2, <2>3, DecideEffect
<1>3. ASSUME NEW a, Open(c, a), pc[c] \in {"connecting", "resolving"} PROVE Paid'[c] = Paid[c]
    BY <1>3 DEF Open, Refuse
<1>4. CASE Connect(c)
  <2>1. Paid'[c] = Paid[c]
    <3>1. CASE pin[HostOf[at[c]]] = NoAddress
        BY <1>4, <3>1 DEF Connect, history
    <3>2. CASE pin[HostOf[at[c]]] # NoAddress
        BY <1>3, <1>4, <3>2 DEF Connect
    <3> QED BY <3>1, <3>2
  <2> QED BY <1>1, <1>4, <2>1 DEF Connect, Open, budgets
<1>5. CASE Resolve(c)
  <2>1. PICK a : Open(c, a)
      BY <1>5 DEF Resolve
  <2>2. Paid'[c] = Paid[c]
      BY <1>3, <1>5, <2>1 DEF Resolve
  <2> QED BY <1>1, <2>1, <2>2 DEF Open, budgets
<1>6. CASE FailToResolve(c) \/ Drop(c)
  <2>1. Paid'[c] = Paid[c]
      BY <1>6 DEF FailToResolve, Refuse, Drop, history
  <2> QED BY <1>1, <1>6, <2>1 DEF FailToResolve, Drop, budgets
<1>7. ASSUME \/ \E fault \in BOOLEAN : Answer(c, fault)
             \/ \E u \in Urls, keep \in BOOLEAN : Redirect(c, u, keep)
      PROVE  Paid'[c] = Paid[c] /\ used' = used /\ spent' = spent
  <2>1. /\ pc[c] = "sending" /\ pc'[c] \in {"ok", "redirected"} /\ sent' = sent
        /\ used' = used /\ spent' = spent
      BY <1>7 DEF Answer, Redirect, budgets
  <2> QED BY <2>1
<1> QED BY <1>1, <1>2, <1>4, <1>5, <1>6, <1>7 DEF CallStep

LEMMA NextSendsArePaid ==
    TransportAssumption /\ TypeOK /\ TypeOK' /\ SendsArePaid /\ [Next]_vars => SendsArePaid'
<1> SUFFICES ASSUME TransportAssumption, TypeOK, TypeOK', SendsArePaid, [Next]_vars
             PROVE  SendsArePaid'
    OBVIOUS
<1>1. ASSUME NEW c \in Calls, CallStep(c) PROVE SendsArePaid'
  <2> DEFINE paid == Paid
             paidNext == Paid'
  <2>1. NatOn(paid, Calls) /\ NatOn(paidNext, Calls)
      BY DEF Paid, NatOn, TypeOK
  <2>2. SameBut(paid, paidNext, Calls, c)
      BY <1>1, CallPays
  <2>3. \/ paidNext[c] = paid[c] /\ used' = used /\ spent' = spent
        \/ /\ paidNext[c] = paid[c] + 1 /\ BudgetLets(c)
           /\ used' = used + 1 /\ spent' = IF c \in Driven THEN spent + 1 ELSE spent
      BY <1>1, CallPays
  <2>4. held' = held
      BY <1>1, StepOfOne
  <2>5. used = Tally(paid, Calls) /\ spent = Tally(paid, Driven)
        /\ used + held <= MaxRequests /\ spent <= DriverMax
      BY DEF SendsArePaid
  <2> HIDE DEF paid, paidNext
  <2>6. IsFiniteSet(Calls) /\ Driven \in SUBSET Calls /\ Calls \in SUBSET Calls
      BY DEF TransportAssumption
  <2>7. /\ paidNext[c] = paid[c] => Tally(paidNext, Calls) = Tally(paid, Calls)
                                    /\ Tally(paidNext, Driven) = Tally(paid, Driven)
        /\ paidNext[c] = paid[c] + 1 => Tally(paidNext, Calls) = Tally(paid, Calls) + 1
        /\ paidNext[c] = paid[c] + 1 /\ c \in Driven => Tally(paidNext, Driven) = Tally(paid, Driven) + 1
        /\ c \notin Driven => Tally(paidNext, Driven) = Tally(paid, Driven)
      BY <2>1, <2>2, <2>6, TallyStep
  <2>8. /\ used' = Tally(paidNext, Calls) /\ spent' = Tally(paidNext, Driven)
      BY <2>3, <2>5, <2>7
  <2>9. used' + held' <= MaxRequests /\ spent' <= DriverMax
    <3>1. CASE used' = used /\ spent' = spent
        BY <2>4, <2>5, <3>1
    <3>2. CASE /\ BudgetLets(c)
               /\ used' = used + 1 /\ spent' = IF c \in Driven THEN spent + 1 ELSE spent
      <4>1. used + 1 <= MaxRequests - held /\ (c \in Driven => spent + 1 <= DriverMax)
          BY <3>2 DEF BudgetLets
      <4>2. used \in Nat /\ held \in Nat /\ MaxRequests \in Nat
          BY DEF TypeOK, TransportAssumption
      <4>3. (used + 1) + held <= MaxRequests
          BY <4>1, <4>2
      <4> QED BY <2>4, <2>5, <3>2, <4>1, <4>3
    <3> QED BY <2>3, <3>1, <3>2
  <2> QED BY <2>8, <2>9 DEF SendsArePaid, paid, paidNext
<1>2. ASSUME RunStep PROVE SendsArePaid'
  <2>1. Paid' = Paid /\ used' = used /\ spent' = spent
      BY <1>2 DEF RunStep, Cancel, Hold, ReleaseHold, Cool, Paid, budgets, history
  <2>2. used' + held' <= MaxRequests
    <3>1. used \in Nat /\ held \in Nat /\ MaxRequests \in Nat /\ Reserve \in Nat /\ used + held <= MaxRequests
        BY DEF TypeOK, TransportAssumption, SendsArePaid
    <3>2. CASE Hold
      <4>1. held' <= MaxRequests - used /\ held' \in Int
          BY <3>1, <3>2 DEF Hold
      <4>2. \A h \in Int : h <= MaxRequests - used => used + h <= MaxRequests
          BY <3>1
      <4>3. used + held' <= MaxRequests
          BY <4>1, <4>2
      <4> QED BY <2>1, <4>3
    <3>3. CASE held' = held
        BY <2>1, <3>1, <3>3
    <3>4. CASE held' = 0
        BY <2>1, <3>1, <3>4
    <3> QED BY <1>2, <3>2, <3>3, <3>4 DEF RunStep, Cancel, ReleaseHold, Cool, budgets
  <2> QED BY <2>1, <2>2 DEF SendsArePaid
<1>3. CASE UNCHANGED vars
    BY <1>3 DEF vars, budgets, history, SendsArePaid, Paid
<1> QED BY <1>1, <1>2, <1>3, NextSplits

-----------------------------------------------------------------------------
(***************************************************************************)
(* Where a call may be, and the pins its connections went through.         *)
(***************************************************************************)

\* A call on its way to a connection passed the checks for the hop it is on.
Placed ==
    \A c \in Calls :
        /\ pc[c] \in {"connecting", "resolving"} =>
              Permitted(c) /\ (writes[c] => c \notin Driven)
        /\ pc[c] = "sending" => Permitted(c)

\* Connections were opened to the pin of their host, which is still there.
PinsHold ==
    \A x \in contacts :
        /\ pin[HostOf[x.url]] = x.address /\ x.address \notin Special
        /\ HostOf[x.url] \in ScopeHosts /\ x.url \notin Excluded
        /\ x.authed => HostOf[x.url] \in SessionHosts

LEMMA NextPlaced ==
    TransportAssumption /\ TypeOK /\ Placed /\ [Next]_vars => Placed'
<1> SUFFICES ASSUME TransportAssumption, TypeOK, Placed, [Next]_vars PROVE Placed'
    OBVIOUS
<1> USE DEF TypeOK
<1>1. ASSUME NEW c \in Calls, CallStep(c) PROVE Placed'
  <2>1. \A d \in Calls \ {c} : pc'[d] = pc[d] /\ at'[d] = at[d] /\ writes'[d] = writes[d]
      BY <1>1, StepOfOne
  <2>2. /\ pc'[c] \in {"connecting", "resolving"} =>
              Permitted(c)' /\ (writes'[c] => c \notin Driven)
        /\ pc'[c] = "sending" => Permitted(c)'
    <3>1. CASE Decide(c)
      <4>1. at' = at /\ writes' = writes
          BY <3>1 DEF Decide
      <4>2. CASE Declined(c)
          BY <4>2 DEF Declined, Refused
      <4>3. CASE Admitted(c)
          BY <4>1, <4>3 DEF Admitted, Permitted, GateLets
      <4> QED BY <3>1, <4>2, <4>3, DecideEffect
    <3>2. CASE Connect(c) \/ Resolve(c)
        BY <3>2 DEF Connect, Resolve, Open, Refuse, Placed, Permitted
    <3>3. CASE FailToResolve(c) \/ Drop(c)
        BY <3>3 DEF FailToResolve, Refuse, Drop
    <3>4. ASSUME \/ \E fault \in BOOLEAN : Answer(c, fault)
                 \/ \E u \in Urls, keep \in BOOLEAN : Redirect(c, u, keep)
          PROVE  pc'[c] \in {"ok", "redirected"}
        BY <3>4 DEF Answer, Redirect
    <3> QED BY <1>1, <3>1, <3>2, <3>3, <3>4 DEF CallStep
  <2> QED BY <2>1, <2>2 DEF Placed, Permitted
<1>2. ASSUME RunStep PROVE Placed'
    BY <1>2 DEF RunStep, Cancel, Hold, ReleaseHold, Cool, Placed, Permitted
<1>3. CASE UNCHANGED vars
    BY <1>3 DEF vars, Placed, Permitted
<1> QED BY <1>1, <1>2, <1>3, NextSplits

LEMMA OpenPinsHold ==
    ASSUME TransportAssumption, TypeOK, PinsHold, Placed, NEW c \in Calls, NEW a \in Addresses, Open(c, a),
           pc[c] \in {"connecting", "resolving"},
           pin' = [pin EXCEPT ![HostOf[at[c]]] = a],
           pin[HostOf[at[c]]] \in {NoAddress, a}
    PROVE  PinsHold'
<1> USE DEF TypeOK
<1>1. \A x \in contacts : x \in Contact /\ x.address # NoAddress
    BY DEF Contact, TransportAssumption
<1>2. \A x \in contacts : pin'[HostOf[x.url]] = x.address
    BY <1>1 DEF PinsHold, Contact, TransportAssumption
<1>3. CASE a \in Special
    BY <1>2, <1>3 DEF Open, PinsHold
<1>4. CASE a \notin Special
  <2> DEFINE new == [url |-> at[c], address |-> a, authed |-> CarriesSession(c, at[c])]
  <2>1. contacts' = contacts \union {new}
      BY <1>4 DEF Open
  <2>2. /\ pin'[HostOf[new.url]] = new.address /\ new.address \notin Special
        /\ HostOf[new.url] \in ScopeHosts /\ new.url \notin Excluded
      BY <1>4 DEF Placed, Permitted, TransportAssumption
  <2>3. new.authed => HostOf[new.url] \in SessionHosts
      BY DEF CarriesSession
  <2> HIDE DEF new
  <2> QED BY <1>2, <2>1, <2>2, <2>3 DEF PinsHold
<1> QED BY <1>3, <1>4

LEMMA NextPinsHold ==
    TransportAssumption /\ TypeOK /\ Placed /\ PinsHold /\ [Next]_vars => PinsHold'
<1> SUFFICES ASSUME TransportAssumption, TypeOK, Placed, PinsHold, [Next]_vars PROVE PinsHold'
    OBVIOUS
<1>1. ASSUME NEW c \in Calls, CallStep(c) PROVE PinsHold'
  <2>0. HostOf[at[c]] \in Hosts
      BY DEF TypeOK, TransportAssumption
  <2>1. CASE Connect(c)
    <3>1. CASE pin[HostOf[at[c]]] = NoAddress
        BY <2>1, <3>1 DEF Connect, history, PinsHold
    <3>2. CASE pin[HostOf[at[c]]] # NoAddress
      <4> DEFINE a == pin[HostOf[at[c]]]
      <4>1. a \in Addresses /\ Open(c, a) /\ pc[c] \in {"connecting", "resolving"}
          BY <2>0, <2>1, <3>2 DEF Connect, TypeOK
      <4>2. pin' = [pin EXCEPT ![HostOf[at[c]]] = a]
          BY <2>0, <2>1 DEF Connect, TypeOK
      <4> QED BY <4>1, <4>2, OpenPinsHold
    <3> QED BY <3>1, <3>2
  <2>2. CASE Resolve(c)
    <3>1. PICK a \in Addresses :
              /\ pin' = [pin EXCEPT ![HostOf[at[c]]] = Pinned(HostOf[at[c]], a)]
              /\ Open(c, Pinned(HostOf[at[c]], a))
        BY <2>2 DEF Resolve
    <3>2. Pinned(HostOf[at[c]], a) \in Addresses
          /\ pin[HostOf[at[c]]] \in {NoAddress, Pinned(HostOf[at[c]], a)}
        BY <2>0 DEF Pinned, TypeOK
    <3>3. pc[c] \in {"connecting", "resolving"}
        BY <2>2 DEF Resolve
    <3> QED BY <3>1, <3>2, <3>3, OpenPinsHold
  <2>3. CASE ~Connect(c) /\ ~Resolve(c)
      BY <1>1, <2>3 DEF CallStep, Decide, FailToResolve, Drop, Answer, Redirect, history, PinsHold
  <2> QED BY <2>1, <2>2, <2>3
<1>2. ASSUME RunStep PROVE PinsHold'
    BY <1>2 DEF RunStep, Cancel, Hold, ReleaseHold, Cool, PinsHold, history
<1>3. CASE UNCHANGED vars
    BY <1>3 DEF vars, PinsHold, history
<1> QED BY <1>1, <1>2, <1>3, NextSplits

-----------------------------------------------------------------------------
(***************************************************************************)
(* Routes and cancellation.                                                *)
(***************************************************************************)

\* The route state is a record of the answers, and only errors open a route.
RoutesTell ==
    \A r \in Route :
        /\ "other" \in replies[r] => answered[r]
        /\ open[r] => ~answered[r] /\ "5xx" \in replies[r]

LEMMA ObserveTells ==
    ASSUME TransportAssumption, TypeOK, RoutesTell, NEW r \in Route, NEW fault \in BOOLEAN, Observe(r, fault)
    PROVE  RoutesTell'
<1> USE DEF TypeOK
<1>1. \A q \in Route \ {r} : replies'[q] = replies[q] /\ answered'[q] = answered[q] /\ open'[q] = open[q]
    BY DEF Observe
<1>2. CASE fault
  <2>1. "5xx" \in replies'[r] /\ ("other" \in replies'[r] => "other" \in replies[r]) /\ answered' = answered
      BY <1>2 DEF Observe
  <2>2. open'[r] => open[r] \/ ~answered[r]
      BY <1>2, Zenon DEF Observe, Trips
  <2> QED BY <1>1, <2>1, <2>2 DEF RoutesTell
<1>3. CASE ~fault
  <2>1. answered'[r] /\ ~open'[r]
      BY <1>3 DEF Observe
  <2> QED BY <1>1, <2>1 DEF RoutesTell
<1> QED BY <1>2, <1>3

LEMMA NextRoutesTell ==
    TransportAssumption /\ TypeOK /\ RoutesTell /\ [Next]_vars => RoutesTell'
<1> SUFFICES ASSUME TransportAssumption, TypeOK, RoutesTell, [Next]_vars PROVE RoutesTell'
    OBVIOUS
<1>1. ASSUME NEW c \in Calls, CallStep(c) PROVE RoutesTell'
  <2>1. ASSUME NEW fault \in BOOLEAN, Answer(c, fault) PROVE RoutesTell'
      BY <2>1, RouteType, ObserveTells DEF Answer
  <2>2. ASSUME NEW u \in Urls, NEW keep \in BOOLEAN, Redirect(c, u, keep) PROVE RoutesTell'
      BY <2>2, RouteType, ObserveTells DEF Redirect
  <2>3. CASE Decide(c) \/ Connect(c) \/ Resolve(c) \/ FailToResolve(c) \/ Drop(c)
      BY <2>3 DEF Decide, Connect, Resolve, Open, FailToResolve, Drop, history, routes, RoutesTell
  <2> QED BY <1>1, <2>1, <2>2, <2>3 DEF CallStep
<1>2. ASSUME RunStep PROVE RoutesTell'
    BY <1>2 DEF RunStep, Cancel, Hold, ReleaseHold, Cool, routes, history, RoutesTell
<1>3. CASE UNCHANGED vars
    BY <1>3 DEF vars, routes, history, RoutesTell
<1> QED BY <1>1, <1>2, <1>3, NextSplits

\* A call that sent a request after the cancellation is not on its way to another.
LateOnce ==
    \A c \in Calls \ Cleanup :
        /\ ~cancelled => late[c] = 0
        /\ late[c] = 0 \/ (late[c] = 1 /\ pc[c] \notin {"connecting", "resolving"})

LEMMA NextLateOnce ==
    TransportAssumption /\ TypeOK /\ LateOnce /\ [Next]_vars => LateOnce'
<1> SUFFICES ASSUME TransportAssumption, TypeOK, LateOnce, [Next]_vars PROVE LateOnce'
    OBVIOUS
<1> USE DEF TypeOK
<1>1. ASSUME NEW c \in Calls, CallStep(c) PROVE LateOnce'
  <2>1. (\A d \in Calls \ {c} : pc'[d] = pc[d] /\ late'[d] = late[d]) /\ cancelled' = cancelled
      BY <1>1, StepOfOne
  <2>2. ASSUME c \notin Cleanup
        PROVE  /\ ~cancelled => late'[c] = 0
               /\ late'[c] = 0 \/ (late'[c] = 1 /\ pc'[c] \notin {"connecting", "resolving"})
    <3>0. /\ ~cancelled => late[c] = 0
          /\ late[c] = 0 \/ (late[c] = 1 /\ pc[c] \notin {"connecting", "resolving"})
        BY <2>2 DEF LateOnce
    <3>1. CASE Decide(c)
      <4>1. late' = late
          BY <3>1 DEF Decide, history
      <4>2. CASE Declined(c)
          BY <3>0, <4>1, <4>2 DEF Declined, Refused
      <4>3. CASE Admitted(c)
          BY <2>2, <3>0, <4>1, <4>3 DEF Admitted, Stopped
      <4> QED BY <3>1, <4>2, <4>3, DecideEffect
    <3>2. ASSUME NEW a, Open(c, a), pc[c] \in {"connecting", "resolving"}
          PROVE  /\ ~cancelled => late'[c] = 0
                 /\ late'[c] = 0 \/ (late'[c] = 1 /\ pc'[c] \notin {"connecting", "resolving"})
      <4>1. late[c] = 0
          BY <3>0, <3>2
      <4>2. pc'[c] \in {"sending", "destination_blocked"}
          BY <3>2 DEF Open, Refuse
      <4>3. late'[c] = 0 \/ (cancelled /\ late'[c] = 1)
          BY <3>2, <4>1 DEF Open
      <4> QED BY <4>2, <4>3
    <3>3. CASE Connect(c)
      <4>1. CASE pin[HostOf[at[c]]] = NoAddress
          BY <3>0, <3>3, <4>1 DEF Connect, history
      <4>2. CASE pin[HostOf[at[c]]] # NoAddress
          BY <3>2, <3>3, <4>2 DEF Connect
      <4> QED BY <4>1, <4>2
    <3>4. CASE Resolve(c)
        BY <3>2, <3>4 DEF Resolve
    <3>5. CASE FailToResolve(c) \/ Drop(c)
        BY <3>0, <3>5 DEF FailToResolve, Refuse, Drop, history
    <3>6. ASSUME \/ \E fault \in BOOLEAN : Answer(c, fault)
                 \/ \E u \in Urls, keep \in BOOLEAN : Redirect(c, u, keep)
          PROVE  late' = late /\ pc'[c] \in {"ok", "redirected"}
        BY <3>6 DEF Answer, Redirect
    <3> QED BY <1>1, <3>0, <3>1, <3>3, <3>4, <3>5, <3>6 DEF CallStep
  <2> QED BY <2>1, <2>2 DEF LateOnce
<1>2. ASSUME RunStep PROVE LateOnce'
    BY <1>2 DEF RunStep, Cancel, Hold, ReleaseHold, Cool, budgets, history, LateOnce
<1>3. CASE UNCHANGED vars
    BY <1>3 DEF vars, budgets, history, LateOnce
<1> QED BY <1>1, <1>2, <1>3, NextSplits

-----------------------------------------------------------------------------
(***************************************************************************)
(* What the gate counted and what was written.                             *)
(***************************************************************************)

\* What a call wrote, and a mutating request on its way to a connection.
Written == [c \in Calls |-> wrote[c] +
               IF writes[c] /\ pc[c] \in {"connecting", "resolving"} THEN 1 ELSE 0]

\* The gate counted every write of a finding, and never past the ceiling of the
\* call it counted it for.
WritesCounted ==
    /\ \A f \in Findings :
          /\ Tally(Written, FiledUnder(f)) <= counted[f]
          /\ counted[f] > 0 => \E c \in FiledUnder(f) : counted[f] <= CeilingOf[c]
    /\ \A c \in Driven : wrote[c] = 0

\* A step of c moves what c wrote alone, and with it the count of c's finding.
LEMMA CallWrites ==
    ASSUME TypeOK, TypeOK', TransportAssumption, NEW c \in Calls, CallStep(c)
    PROVE  /\ SameBut(Written, Written', Calls, c)
           /\ \/ Written'[c] <= Written[c] /\ Written'[c] \in {Written[c], Written[c] - 1} /\ counted' = counted
              \/ Written'[c] = Written[c] /\ CountWrite(c) /\ GateLets(c)
              \/ Written'[c] = Written[c] + 1 /\ CountWrite(c) /\ GateLets(c) /\ writes[c]
<1> USE DEF TypeOK, Written
<1>1. SameBut(Written, Written', Calls, c)
    BY StepOfOne DEF SameBut
<1>2. CASE Decide(c)
  <2>1. pc[c] \in {"ready", "redirected"} /\ wrote' = wrote /\ writes' = writes
      BY <1>2 DEF Decide, history
  <2>2. CASE Declined(c)
    <3>1. Written'[c] = Written[c]
        BY <2>1, <2>2 DEF Declined, Refused
    <3> QED BY <1>1, <2>2, <3>1 DEF Declined
  <2>3. CASE Admitted(c)
    <3>1. CASE writes[c]
      <4>1. Written'[c] = Written[c] + 1
          BY <2>1, <2>3, <3>1 DEF Admitted
      <4> QED BY <1>1, <2>3, <3>1, <4>1 DEF Admitted
    <3>2. CASE ~writes[c]
      <4>1. Written'[c] = Written[c]
          BY <2>1, <2>3, <3>2 DEF Admitted
      <4> QED BY <1>1, <2>3, <4>1 DEF Admitted
    <3> QED BY <3>1, <3>2
  <2> QED BY <1>2, <2>2, <2>3, DecideEffect
<1>3. ASSUME NEW a, Open(c, a), pc[c] \in {"connecting", "resolving"}
      PROVE  Written'[c] \in {Written[c], Written[c] - 1} /\ counted' = counted
  <2>1. CASE a \in Special
      BY <1>3, <2>1 DEF Open, Refuse, budgets
  <2>2. CASE a \notin Special
      BY <1>3, <2>2 DEF Open, budgets
  <2> QED BY <2>1, <2>2
<1>4. CASE Connect(c)
  <2>1. CASE pin[HostOf[at[c]]] = NoAddress
    <3>1. Written'[c] = Written[c] /\ counted' = counted
        BY <1>4, <2>1 DEF Connect, history, budgets
    <3> QED BY <1>1, <3>1
  <2>2. CASE pin[HostOf[at[c]]] # NoAddress
    <3>1. Written'[c] \in {Written[c], Written[c] - 1} /\ counted' = counted
        BY <1>3, <1>4, <2>2 DEF Connect
    <3> QED BY <1>1, <3>1
  <2> QED BY <2>1, <2>2
<1>5. CASE Resolve(c)
  <2>1. Written'[c] \in {Written[c], Written[c] - 1} /\ counted' = counted
      BY <1>3, <1>5 DEF Resolve
  <2> QED BY <1>1, <2>1
<1>6. CASE FailToResolve(c) \/ Drop(c)
  <2>1. Written'[c] \in {Written[c], Written[c] - 1} /\ counted' = counted
      BY <1>6 DEF FailToResolve, Refuse, Drop, history, budgets
  <2> QED BY <1>1, <2>1
<1>7. ASSUME \/ \E fault \in BOOLEAN : Answer(c, fault)
             \/ \E u \in Urls, keep \in BOOLEAN : Redirect(c, u, keep)
      PROVE  Written'[c] = Written[c] /\ counted' = counted
  <2>1. /\ pc[c] = "sending" /\ pc'[c] \in {"ok", "redirected"} /\ wrote' = wrote
        /\ counted' = counted
      BY <1>7 DEF Answer, Redirect, budgets
  <2> QED BY <2>1
<1> QED BY <1>1, <1>2, <1>4, <1>5, <1>6, <1>7 DEF CallStep

LEMMA NextWritesCounted ==
    TransportAssumption /\ TypeOK /\ TypeOK' /\ Placed /\ WritesCounted /\ [Next]_vars => WritesCounted'
<1> SUFFICES ASSUME TransportAssumption, TypeOK, TypeOK', Placed, WritesCounted, [Next]_vars
             PROVE  WritesCounted'
    OBVIOUS
<1>1. ASSUME NEW c \in Calls, CallStep(c) PROVE WritesCounted'
  <2> DEFINE old == Written
             new == Written'
  <2>1. NatOn(old, Calls) /\ NatOn(new, Calls)
      BY DEF Written, NatOn, TypeOK
  <2>2. SameBut(old, new, Calls, c)
      BY <1>1, CallWrites
  <2>3. \/ new[c] \in {old[c], old[c] - 1} /\ counted' = counted
        \/ new[c] = old[c] /\ CountWrite(c) /\ GateLets(c)
        \/ new[c] = old[c] + 1 /\ CountWrite(c) /\ GateLets(c) /\ writes[c]
      BY <1>1, CallWrites
  <2>4. \A f \in Findings : /\ Tally(old, FiledUnder(f)) <= counted[f]
                            /\ counted[f] > 0 => \E d \in FiledUnder(f) : counted[f] <= CeilingOf[d]
      BY DEF WritesCounted
  <2> HIDE DEF old, new
  <2>5. IsFiniteSet(Calls) /\ \A f : FiledUnder(f) \in SUBSET Calls /\ IsFiniteSet(FiledUnder(f))
      BY FS_Subset DEF TransportAssumption, FiledUnder
  <2>6. counted \in [Findings -> Nat] /\ FindingOf[c] \in Findings /\ CeilingOf \in [Calls -> Nat]
      BY DEF TypeOK, TransportAssumption
  <2>7. old[c] \in Nat /\ new[c] \in Nat
      BY <2>1 DEF NatOn
  <2>8. ASSUME NEW f \in Findings
        PROVE  /\ Tally(old, FiledUnder(f)) \in Nat
               /\ c \notin FiledUnder(f) \/ new[c] = old[c] => Tally(new, FiledUnder(f)) = Tally(old, FiledUnder(f))
               /\ c \in FiledUnder(f) /\ new[c] = old[c] + 1
                     => Tally(new, FiledUnder(f)) = Tally(old, FiledUnder(f)) + 1
               /\ c \in FiledUnder(f) /\ new[c] = old[c] - 1
                     => Tally(new, FiledUnder(f)) <= Tally(old, FiledUnder(f))
    <3>1. FiledUnder(f) \in SUBSET Calls
        BY <2>5
    <3>2. /\ Tally(old, FiledUnder(f)) \in Nat
          /\ c \notin FiledUnder(f) \/ new[c] = old[c] => Tally(new, FiledUnder(f)) = Tally(old, FiledUnder(f))
          /\ c \in FiledUnder(f) /\ new[c] = old[c] + 1
                     => Tally(new, FiledUnder(f)) = Tally(old, FiledUnder(f)) + 1
        BY <2>1, <2>2, <2>5, <3>1, TallyStep
    <3>3. SameBut(new, old, Calls, c)
        BY <2>2 DEF SameBut
    <3>4. /\ Tally(new, FiledUnder(f)) \in Nat
          /\ c \in FiledUnder(f) /\ old[c] = new[c] + 1
                     => Tally(old, FiledUnder(f)) = Tally(new, FiledUnder(f)) + 1
        BY <2>1, <2>5, <3>1, <3>3, TallyStep
    <3>5. ASSUME c \in FiledUnder(f), new[c] = old[c] - 1
          PROVE  Tally(new, FiledUnder(f)) <= Tally(old, FiledUnder(f))
      <4>1. old[c] = new[c] + 1
          BY <2>7, <3>5
      <4> QED BY <3>4, <3>5, <4>1
    <3> QED BY <3>2, <3>5
  <2>9. ASSUME NEW f \in Findings
        PROVE  /\ Tally(new, FiledUnder(f)) <= counted'[f]
               /\ counted'[f] > 0 => \E d \in FiledUnder(f) : counted'[f] <= CeilingOf[d]
    <3>0. Tally(old, FiledUnder(f)) <= counted[f] /\ counted[f] \in Nat /\ Tally(old, FiledUnder(f)) \in Nat
        BY <2>4, <2>6, <2>8
    <3>1. CASE new[c] \in {old[c], old[c] - 1} /\ counted' = counted
      <4>0. Tally(new, FiledUnder(f)) \in Nat
          BY <2>1, <2>5, TallyType DEF NatOn
      <4>1. Tally(new, FiledUnder(f)) <= Tally(old, FiledUnder(f))
          BY <2>8, <3>0, <3>1
      <4>2. Tally(new, FiledUnder(f)) <= counted[f]
          BY <3>0, <4>0, <4>1
      <4> QED BY <2>4, <3>1, <4>2
    <3>2. CASE /\ CountWrite(c) /\ GateLets(c)
               /\ new[c] = old[c] \/ (new[c] = old[c] + 1 /\ writes[c])
      <4>1. CASE c \in FiledUnder(f) /\ writes[c]
        <5>1. counted' = [counted EXCEPT ![f] = counted[f] + 1] /\ counted[f] + 1 <= CeilingOf[c]
            BY <3>2, <4>1, <2>6 DEF CountWrite, GateLets, FiledUnder
        <5>2. counted'[f] = counted[f] + 1
            BY <2>6, <5>1
        <5>3. Tally(new, FiledUnder(f)) <= counted[f] + 1
            BY <2>8, <3>0, <3>2, <4>1
        <5> QED BY <4>1, <5>1, <5>2, <5>3
      <4>2. CASE ~(c \in FiledUnder(f) /\ writes[c])
        <5>1. counted'[f] = counted[f]
            BY <2>6, <3>2, <4>2 DEF CountWrite, FiledUnder
        <5>2. Tally(new, FiledUnder(f)) = Tally(old, FiledUnder(f))
            BY <2>8, <3>2, <4>2
        <5> QED BY <2>4, <3>0, <5>1, <5>2
      <4> QED BY <4>1, <4>2
    <3> QED BY <2>3, <3>1, <3>2
  <2>10. \A d \in Driven : wrote'[d] = 0
    <3>1. \A d \in Driven \ {c} : wrote'[d] = 0
        BY <1>1, StepOfOne DEF WritesCounted, TransportAssumption
    <3>2. c \in Driven /\ pc[c] \in {"connecting", "resolving"} => ~writes[c]
        BY DEF Placed
    <3>3. c \in Driven => wrote'[c] = wrote[c]
      <4>1. ASSUME NEW a, Open(c, a), pc[c] \in {"connecting", "resolving"}, c \in Driven
            PROVE  wrote'[c] = wrote[c]
          BY <3>2, <4>1 DEF Open, TypeOK
      <4>2. CASE Connect(c)
          BY <4>1, <4>2 DEF Connect, history
      <4>3. CASE Resolve(c)
          BY <4>1, <4>3 DEF Resolve
      <4>4. CASE Decide(c) \/ FailToResolve(c) \/ Drop(c)
          BY <4>4 DEF Decide, FailToResolve, Drop, Refuse, history
      <4>5. CASE \/ \E fault \in BOOLEAN : Answer(c, fault)
                 \/ \E u \in Urls, keep \in BOOLEAN : Redirect(c, u, keep)
          BY <4>5 DEF Answer, Redirect
      <4> QED BY <1>1, <4>2, <4>3, <4>4, <4>5 DEF CallStep
    <3> QED BY <3>1, <3>3 DEF WritesCounted
  <2> QED BY <2>9, <2>10 DEF WritesCounted, new
<1>2. ASSUME RunStep PROVE WritesCounted'
  <2>1. UNCHANGED <<pc, writes, wrote, counted>>
      BY <1>2 DEF RunStep, Cancel, Hold, ReleaseHold, Cool, budgets, history
  <2>2. Written' = Written
      BY <2>1 DEF Written
  <2> QED BY <2>1, <2>2 DEF WritesCounted
<1>3. CASE UNCHANGED vars
  <2>1. UNCHANGED <<pc, writes, wrote, counted>>
      BY <1>3 DEF vars, budgets, history
  <2>2. Written' = Written
      BY <2>1 DEF Written
  <2> QED BY <2>1, <2>2 DEF WritesCounted
<1> QED BY <1>1, <1>2, <1>3, NextSplits

LEMMA CountedIsEnough ==
    ASSUME TransportAssumption, TypeOK, WritesCounted PROVE WritesWithinCeiling
<1>1. ASSUME NEW f \in Findings, Tally(wrote, FiledUnder(f)) > 0
      PROVE  \E c \in FiledUnder(f) : Tally(wrote, FiledUnder(f)) <= CeilingOf[c]
  <2>1. FiledUnder(f) \in SUBSET Calls /\ IsFiniteSet(FiledUnder(f))
      BY FS_Subset DEF TransportAssumption, FiledUnder
  <2>2. /\ NatOn(wrote, FiledUnder(f)) /\ NatOn(Written, FiledUnder(f))
        /\ \A x \in FiledUnder(f) : wrote[x] <= Written[x]
      BY <2>1 DEF TypeOK, Written, NatOn
  <2>3. Tally(wrote, FiledUnder(f)) <= Tally(Written, FiledUnder(f))
      BY <2>1, <2>2, TallyMonotone
  <2>4. Tally(wrote, FiledUnder(f)) \in Nat /\ Tally(Written, FiledUnder(f)) \in Nat
      BY <2>1, <2>2, TallyType DEF NatOn
  <2>5. Tally(Written, FiledUnder(f)) <= counted[f] /\ counted[f] \in Nat
      BY DEF WritesCounted, TypeOK
  <2>6. Tally(wrote, FiledUnder(f)) <= counted[f] /\ counted[f] > 0
      BY <1>1, <2>3, <2>4, <2>5
  <2>7. PICK c \in FiledUnder(f) : counted[f] <= CeilingOf[c]
      BY <2>6 DEF WritesCounted
  <2>8. CeilingOf[c] \in Nat
      BY <2>1 DEF TransportAssumption
  <2> QED BY <2>4, <2>5, <2>6, <2>7, <2>8
<1> QED BY <1>1 DEF WritesWithinCeiling, WritesCounted

-----------------------------------------------------------------------------

IInv ==
    TypeOK /\ SendsArePaid /\ Placed /\ PinsHold /\ RoutesTell /\ LateOnce /\ WritesCounted

LEMMA InitInv == TransportAssumption /\ Init => IInv
<1> SUFFICES ASSUME TransportAssumption, Init PROVE IInv
    OBVIOUS
<1>1. TypeOK
  <2>1. pc \in [Calls -> {"ready"} \union Busy \union Outcomes]
      BY DEF Init
  <2>2. at \in [Calls -> Urls] /\ hop \in [Calls -> 0..MaxRedirects]
      BY DEF Init, TransportAssumption
  <2>3. writes \in [Calls -> BOOLEAN]
    <3>1. writes = [c \in Calls |-> c \in Writing]
        BY DEF Init
    <3>2. \A c \in Calls : (c \in Writing) \in BOOLEAN
        OBVIOUS
    <3> QED BY <3>1, <3>2
  <2>4. used \in Nat /\ held \in Nat /\ spent \in Nat /\ counted \in [Findings -> Nat]
      BY DEF Init
  <2>5. cancelled \in BOOLEAN
      BY DEF Init
  <2>6. pin \in [Hosts -> Addresses \union {NoAddress}]
      BY DEF Init
  <2>7. errors \in [Route -> 0..Threshold]
      BY DEF Init, TransportAssumption
  <2>8. /\ answered \in [Route -> BOOLEAN] /\ open \in [Route -> BOOLEAN]
        /\ cooled \in [Route -> BOOLEAN]
      BY DEF Init
  <2>9. contacts \in SUBSET Contact /\ replies \in [Route -> SUBSET {"5xx", "other"}]
      BY DEF Init
  <2>10. sent \in [Calls -> Nat] /\ wrote \in [Calls -> Nat] /\ late \in [Calls -> Nat]
      BY DEF Init
  <2> QED BY <2>1, <2>2, <2>3, <2>4, <2>5, <2>6, <2>7, <2>8, <2>9, <2>10 DEF TypeOK
<1>2. Placed /\ PinsHold /\ RoutesTell /\ LateOnce
    BY DEF Init, Placed, PinsHold, RoutesTell, LateOnce
<1>3. \A c \in Calls : Paid[c] = 0 /\ Written[c] = 0
    BY DEF Init, Paid, Written
<1>4. SendsArePaid
  <2>1. Tally(Paid, Calls) = 0 /\ Tally(Paid, Driven) = 0
      BY <1>3, TallyZero DEF TransportAssumption
  <2> QED BY <2>1 DEF Init, SendsArePaid, TransportAssumption
<1>5. WritesCounted
  <2>1. \A f \in Findings : Tally(Written, FiledUnder(f)) = 0
      BY <1>3, TallyZero DEF FiledUnder, TransportAssumption
  <2> QED BY <2>1 DEF Init, WritesCounted, TransportAssumption
<1> QED BY <1>1, <1>2, <1>4, <1>5 DEF IInv

LEMMA Invariance == Spec => []IInv
<1>1. Init => IInv
    BY InitInv, TransportAssumption
<1>2. IInv /\ [Next]_vars => IInv'
  <2> SUFFICES ASSUME IInv, [Next]_vars PROVE IInv'
      OBVIOUS
  <2>1. used + held <= MaxRequests
      BY DEF IInv, SendsArePaid
  <2>2. TypeOK'
      BY <2>1, NextTypeOK, TransportAssumption DEF IInv
  <2>3. SendsArePaid' /\ Placed' /\ PinsHold'
      BY <2>2, NextSendsArePaid, NextPlaced, NextPinsHold, TransportAssumption DEF IInv
  <2>4. RoutesTell' /\ LateOnce' /\ WritesCounted'
      BY <2>2, NextRoutesTell, NextLateOnce, NextWritesCounted, TransportAssumption DEF IInv
  <2> QED BY <2>2, <2>3, <2>4 DEF IInv
<1> QED BY <1>1, <1>2, PTL DEF Spec

\* Every call, route, pin and counter of a run keeps its type.
THEOREM TransportTypeOK == Spec => []TypeOK
BY Invariance, PTL DEF IInv

\* For any number of concurrent calls, redirects and driver stages, every request
\* on the wire was paid once from the run's budget (RequestBudget.reserve) and
\* from the driver's share, and what is held back is not spent.
THEOREM EverySendIsPaid == Spec => []SendsArePaid
BY Invariance, PTL DEF IInv

\* Each name is connected to one address for the whole run, never a special one,
\* however many calls resolve it at once (AddressPins.address_for).
THEOREM OneAddress == Spec => []OneAddressPerHost
<1>1. IInv => OneAddressPerHost
    BY DEF IInv, PinsHold, OneAddressPerHost
<1> QED BY <1>1, Invariance, PTL

\* No redirect chain leaves the scope, reaches an excluded endpoint or takes the
\* session's credentials elsewhere.
THEOREM RedirectsLeakNothing == Spec => []NothingLeaks
<1>1. IInv => NothingLeaks
    BY DEF IInv, PinsHold, NothingLeaks
<1> QED BY <1>1, Invariance, PTL

\* The writes of a finding stay within the largest ceiling of its calls, and a
\* driver writes nothing.
THEOREM WritesAreCapped == Spec => []WritesWithinCeiling
<1>1. IInv => WritesWithinCeiling
    BY CountedIsEnough, TransportAssumption DEF IInv
<1> QED BY <1>1, Invariance, PTL

\* A route that ever answered anything but 5xx is not paused.
THEOREM PausesAreEarned == Spec => []OnlySilentRoutesPause
<1>1. TypeOK /\ RoutesTell => OnlySilentRoutesPause
  <2> SUFFICES ASSUME TypeOK, RoutesTell, NEW r \in Route, open[r] PROVE replies[r] = {"5xx"}
      BY DEF OnlySilentRoutesPause
  <2>1. replies[r] \in SUBSET {"5xx", "other"}
      BY DEF TypeOK
  <2>2. "5xx" \in replies[r] /\ "other" \notin replies[r]
      BY DEF RoutesTell
  <2> QED BY <2>1, <2>2
<1>2. IInv => OnlySilentRoutesPause
    BY <1>1 DEF IInv
<1> QED BY <1>2, Invariance, PTL

\* A cancelled run sends at most the requests that were on their way.
THEOREM CancellationStops == Spec => []CancelStops
<1>1. IInv => CancelStops
    BY DEF IInv, LateOnce, CancelStops
<1> QED BY <1>1, Invariance, PTL

=============================================================================
