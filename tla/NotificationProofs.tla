------------------------- MODULE NotificationProofs -------------------------
(***************************************************************************)
(* For any payloads, connections, capacity and times: a request is not     *)
(* accepted again within its TTL, and none is lost on its way to the       *)
(* signal goroutine but with a connection that closes.                     *)
(***************************************************************************)
EXTENDS Notification, TLAPS

\* Why the filter of duplicates works: what a handler has accepted is remembered for its TTL.
Remembered == \A p \in accepted : p \in notifications \/ now - p.ts > NotifyTTL

On(c, p) == \E i \in DOMAIN inbox[c] : inbox[c][i] = p

\* Why the filter loses nothing: a due request that it would drop is pending already, any
\* other one is still on the wire of a connection.
DueOnItsWay ==
    /\ \A p \in notifications : p.content \in Valid => p \in accepted
    /\ \A p \in due : p.content \in Valid
    /\ \A p \in due : IF p \in accepted THEN Pending(p) ELSE \E c \in Conns : On(c, p)

IInv == TypeOK /\ Remembered /\ DueOnItsWay

-----------------------------------------------------------------------------
\* The empty sequence.
LEMMA NoPayload == <<>> \in Seq(Payloads) /\ Len(<<>>) = 0
OBVIOUS

\* Nothing has been requested at first.
LEMMA InitIInv == Init => IInv
<1> SUFFICES ASSUME Init PROVE IInv OBVIOUS
<1>1. TypeOK
  <2>1. inbox \in [Conns -> Seq(Payloads)] BY NoPayload DEF Init
  <2>2. chainSignalChan \in Seq(Payloads) /\ Len(chainSignalChan) <= Cap
        BY NoPayload, NotificationAssumption DEF Init
  <2>3. now \in 0..MaxTime /\ notified \in 0..MaxNotify BY NotificationAssumption DEF Init
  <2>4. owner \in [Conns -> {"pool", "consumer", "other"}] BY DEF Init
  <2>5. sending \in [Conns -> Payloads \cup {None}] BY DEF Init
  <2> QED BY <2>1, <2>2, <2>3, <2>4, <2>5 DEF Init, TypeOK
<1> QED BY <1>1 DEF Init, IInv, Remembered, DueOnItsWay

\* What the first element and the rest of a sequence are made of.
LEMMA HeadTail ==
    ASSUME NEW S, NEW s \in Seq(S), s # <<>>
    PROVE  /\ Head(s) \in S /\ Tail(s) \in Seq(S) /\ 1 \in DOMAIN s /\ Head(s) = s[1]
           /\ Len(Tail(s)) = Len(s) - 1
           /\ \A i \in DOMAIN s : i = 1 \/ (i - 1 \in DOMAIN Tail(s) /\ Tail(s)[i - 1] = s[i])
           /\ \A i \in DOMAIN Tail(s) : i + 1 \in DOMAIN s /\ Tail(s)[i] = s[i + 1]
OBVIOUS

\* What an element more does to a sequence.
LEMMA Appended ==
    ASSUME NEW S, NEW s \in Seq(S), NEW e \in S
    PROVE  /\ Append(s, e) \in Seq(S) /\ Len(Append(s, e)) = Len(s) + 1
           /\ Len(s) + 1 \in DOMAIN Append(s, e) /\ Append(s, e)[Len(s) + 1] = e
           /\ \A i \in DOMAIN s : i \in DOMAIN Append(s, e) /\ Append(s, e)[i] = s[i]
OBVIOUS

-----------------------------------------------------------------------------
\* Every step leaves the variables in their ranges.
LEMMA TypeStep == TypeOK /\ [Next]_vars => TypeOK'
<1> SUFFICES ASSUME TypeOK, [Next]_vars PROVE TypeOK' OBVIOUS
<1> USE NotificationAssumption DEF TypeOK, connVars, history
<1>1. CASE Tick BY <1>1 DEF Tick
<1>2. CASE Forget BY <1>2 DEF Forget
<1>3. CASE Cancel BY <1>3 DEF Cancel
<1>4. CASE WaitForChainSignal
  <2>1. CASE chainSignalChan # <<>>
    <3>1. Tail(chainSignalChan) \in Seq(Payloads)
          /\ Len(Tail(chainSignalChan)) = Len(chainSignalChan) - 1
          BY <2>1, HeadTail
    <3>2. Len(chainSignalChan) \in Nat OBVIOUS
    <3>3. Len(Tail(chainSignalChan)) <= Cap BY <3>1, <3>2
    <3>4. \/ chainSignalChan' = chainSignalChan \/ chainSignalChan' = Tail(chainSignalChan)
          BY <1>4 DEF WaitForChainSignal
    <3>5. chainSignalChan' \in Seq(Payloads) /\ Len(chainSignalChan') <= Cap
          BY <3>1, <3>3, <3>4, Zenon
    <3>6. due' \subseteq due /\ pc' \in {"wait", "select", "returned"}
          BY <1>4 DEF WaitForChainSignal
    <3> QED BY <1>4, <3>5, <3>6 DEF WaitForChainSignal
  <2>2. CASE chainSignalChan = <<>> BY <1>4, <2>2 DEF WaitForChainSignal
  <2> QED BY <2>1, <2>2
<1>5. CASE SelectCancelled
  <2>1. ASSUME NEW c \in Conns, Closed(c)
        PROVE  inbox' \in [Conns -> Seq(Payloads)] /\ due' \subseteq due
        BY <2>1, NoPayload DEF Closed
  <2>2. inbox' \in [Conns -> Seq(Payloads)] /\ due' \subseteq due
        BY <1>5, <2>1 DEF SelectCancelled
  <2>3. listening' \subseteq Conns /\ owner' \in [Conns -> {"pool", "consumer", "other"}]
        BY <1>5 DEF SelectCancelled, Closed
  <2> QED BY <1>5, <2>2, <2>3 DEF SelectCancelled
<1>6. ASSUME NEW r \in Contents, Notify(r) PROVE TypeOK'
  <2> DEFINE p == [content |-> r, ts |-> now]
  <2>1. p \in Payloads BY DEF Payloads
  <2>2. inbox' \in [Conns -> Seq(Payloads)] BY <1>6, <2>1 DEF Notify
  <2>3. due' \in SUBSET Payloads
    <3>1. due' = due \cup {p} \/ due' = due BY <1>6 DEF Notify
    <3> QED BY <2>1, <3>1
  <2>4. notified' \in 0..MaxNotify BY <1>6 DEF Notify
  <2> QED BY <1>6, <2>2, <2>3, <2>4 DEF Notify
<1>7. ASSUME NEW c \in Conns, NotificationHandler(c) PROVE TypeOK'
  <2>1. Head(inbox[c]) \in Payloads /\ Tail(inbox[c]) \in Seq(Payloads)
        BY <1>7, HeadTail DEF NotificationHandler
  <2> QED BY <1>7, <2>1 DEF NotificationHandler
<1>8. ASSUME NEW c \in Conns, SendSignal(c) PROVE TypeOK'
  <2>1. sending[c] \in Payloads BY <1>8 DEF SendSignal
  <2>2. chainSignalChan' \in Seq(Payloads) /\ Len(chainSignalChan') <= Cap
        BY <1>8, <2>1, Appended DEF SendSignal
  <2> QED BY <1>8, <2>2 DEF SendSignal
<1>9. ASSUME NEW c \in Conns, PoolStep(c) PROVE TypeOK'
  <2>1. CASE Close(c)
    <3>1. inbox' \in [Conns -> Seq(Payloads)] /\ due' \subseteq due
          BY <2>1, NoPayload DEF Close, Closed
    <3> QED BY <2>1, <3>1 DEF Close, Closed
  <2> QED BY <1>9, <2>1 DEF PoolStep, Acquire, Release, Released, Listen
<1>10. ASSUME NEW c \in Conns, SelectChain(c) \/ ChainSelected(c) PROVE TypeOK'
       BY <1>10 DEF SelectChain, ChainSelected, Released
<1>11. CASE UNCHANGED vars BY <1>11 DEF vars
<1> QED BY <1>1, <1>2, <1>3, <1>4, <1>5, <1>6, <1>7, <1>8, <1>9, <1>10, <1>11
        DEF Next, ConsumerStep, HandlerStep

\* A payload goes from the memory only when its TTL is over, and the clock does not go back.
LEMMA RememberedStep == TypeOK /\ Remembered /\ [Next]_vars => Remembered'
<1> SUFFICES ASSUME TypeOK, Remembered, [Next]_vars PROVE Remembered' OBVIOUS
<1>1. \A p \in accepted : p.ts \in Nat BY NotificationAssumption DEF TypeOK, Payloads
<1>2. now \in Nat /\ NotifyTTL \in Nat BY NotificationAssumption DEF TypeOK
<1> USE DEF Remembered, connVars, history
<1>3. CASE Tick BY <1>1, <1>2, <1>3 DEF Tick
<1>4. CASE Forget BY <1>1, <1>2, <1>4 DEF Forget
<1>5. ASSUME NEW c \in Conns, NotificationHandler(c) PROVE Remembered'
      BY <1>5 DEF NotificationHandler
<1>6. CASE UNCHANGED <<accepted, notifications, now>> BY <1>6
<1>7. Tick \/ Forget \/ (\E c \in Conns : NotificationHandler(c))
        \/ UNCHANGED <<accepted, notifications, now>>
      BY DEF Next, vars, Cancel, ConsumerStep, WaitForChainSignal, SelectCancelled, SelectChain,
             ChainSelected, Notify, HandlerStep, SendSignal, PoolStep, Acquire, Release, Listen,
             Close
<1> QED BY <1>3, <1>4, <1>5, <1>6, <1>7

\* The history variables and the memory agree on what is valid and what is accepted.
LEMMA AcceptedStep ==
    ASSUME TypeOK, DueOnItsWay, [Next]_vars
    PROVE  /\ \A p \in notifications' : p.content \in Valid => p \in accepted'
           /\ \A p \in due' : p.content \in Valid
<1> USE DEF DueOnItsWay, connVars, history
<1>1. CASE Forget BY <1>1 DEF Forget
<1>2. CASE WaitForChainSignal BY <1>2 DEF WaitForChainSignal
<1>3. CASE SelectCancelled BY <1>3 DEF SelectCancelled, Closed
<1>4. ASSUME NEW r \in Contents, Notify(r) 
      PROVE  due' \subseteq due \cup {[content |-> r, ts |-> now]}
             /\ UNCHANGED <<notifications, accepted>> /\ (r \in Valid \/ due' = due)
      BY <1>4 DEF Notify
<1>5. ASSUME NEW c \in Conns, NotificationHandler(c)
      PROVE  UNCHANGED due /\ \A p \in notifications' : p.content \in Valid => p \in accepted'
      BY <1>5 DEF NotificationHandler
<1>6. ASSUME NEW c \in Conns, Close(c)
      PROVE  UNCHANGED <<notifications, accepted>> /\ due' \subseteq due
      BY <1>6 DEF Close, Closed
<1>7. CASE UNCHANGED <<notifications, accepted, due>> BY <1>7
<1>8. \/ Forget \/ WaitForChainSignal \/ SelectCancelled
      \/ UNCHANGED <<notifications, accepted, due>>
      \/ \E r \in Contents : Notify(r)
      \/ \E c \in Conns : NotificationHandler(c) \/ Close(c)
      BY DEF Next, vars, Tick, Cancel, ConsumerStep, SelectChain, ChainSelected, HandlerStep,
             SendSignal, PoolStep, Acquire, Release, Listen
<1> QED BY <1>1, <1>2, <1>3, <1>4, <1>5, <1>6, <1>7, <1>8

\* Where a due request is, accepted or not.
OnItsWay(p) == IF p \in accepted THEN Pending(p) ELSE \E c \in Conns : On(c, p)

\* A NOTIFY puts its payload behind what is on the wire.
LEMMA NotifyStep ==
    ASSUME TypeOK, NEW r \in Contents, Notify(r), \A p \in due : OnItsWay(p)
    PROVE  \A p \in due' : OnItsWay(p)'
<1>1. PICK q \in Payloads : q = [content |-> r, ts |-> now]
      BY NotificationAssumption DEF TypeOK, Payloads
<1>2. \A c \in Conns : inbox[c] \in Seq(Payloads) BY DEF TypeOK
<1>3. ASSUME NEW c \in Conns
      PROVE  inbox'[c] = IF c \in listening THEN Append(inbox[c], q) ELSE inbox[c]
      BY <1>1 DEF Notify
<1>4. ASSUME NEW c \in Conns, NEW p, On(c, p) PROVE On(c, p)'
  <2>1. PICK i \in DOMAIN inbox[c] : inbox[c][i] = p BY <1>4 DEF On
  <2>2. i \in DOMAIN Append(inbox[c], q) /\ Append(inbox[c], q)[i] = p
        BY <1>2, <2>1, Appended
  <2>3. i \in DOMAIN inbox'[c] /\ inbox'[c][i] = p BY <1>3, <2>1, <2>2, Zenon
  <2> QED BY <2>3 DEF On
<1>5. ASSUME NEW c \in listening, c \in Conns PROVE On(c, q)'
  <2> DEFINE s == Append(inbox[c], q)
  <2>1. Len(inbox[c]) + 1 \in DOMAIN s /\ s[Len(inbox[c]) + 1] = q BY <1>2, <1>5, Appended
  <2>2. inbox'[c] = s BY <1>3, <1>5
  <2> QED BY <2>1, <2>2, Zenon DEF On
<1>6. UNCHANGED <<sending, chainSignalChan, accepted>> BY DEF Notify
<1>7. \A p \in due' : p \in due \/ (p = q /\ listening # {} /\ q \notin accepted)
      BY <1>1 DEF Notify
<1>8. \A p : Pending(p) => Pending(p)' BY <1>6 DEF Pending
<1>9. listening \subseteq Conns BY DEF TypeOK
<1> QED
  <2> SUFFICES ASSUME NEW p \in due' PROVE OnItsWay(p)' OBVIOUS
  <2>1. CASE p \in due BY <2>1, <1>4, <1>6, <1>8 DEF OnItsWay
  <2>2. CASE p = q /\ listening # {} /\ q \notin accepted
        BY <2>2, <1>5, <1>6, <1>9 DEF OnItsWay
  <2> QED BY <1>7, <2>1, <2>2

\* The handler drops a due payload only if it is pending already.
LEMMA HandlerStepKeeps ==
    ASSUME TypeOK, DueOnItsWay, NEW c \in Conns, NotificationHandler(c)
    PROVE  \A p \in due' : OnItsWay(p)'
<1> DEFINE q == Head(inbox[c])
<1>1. inbox[c] \in Seq(Payloads) /\ inbox[c] # <<>> BY DEF TypeOK, NotificationHandler
<1>2. q \in Payloads /\ q = inbox[c][1] BY <1>1, HeadTail
<1>3. None \notin Payloads /\ due \subseteq Payloads BY NotificationAssumption DEF TypeOK
<1>4. /\ inbox' = [inbox EXCEPT ![c] = Tail(@)]
      /\ UNCHANGED <<chainSignalChan, due>>
      /\ sending[c] = None
      /\ IF q \notin notifications /\ q.content \in Valid
           THEN sending' = [sending EXCEPT ![c] = q] /\ accepted' = accepted \cup {q}
           ELSE UNCHANGED <<sending, accepted>>
      BY DEF NotificationHandler
<1>5. inbox \in [Conns -> Seq(Payloads)] /\ sending \in [Conns -> Payloads \cup {None}]
      BY DEF TypeOK
<1> SUFFICES ASSUME NEW p \in due PROVE OnItsWay(p)' BY <1>4
<1>6. p \in Payloads /\ p # None BY <1>3
<1>7. CASE p \in accepted
  <2>1. Pending(p) BY <1>7 DEF DueOnItsWay
  <2>2. \A d \in Conns : sending[d] = p => sending'[d] = p BY <1>4, <1>5, <1>6
  <2>3. Pending(p)' BY <2>1, <2>2, <1>4 DEF Pending
  <2>4. p \in accepted' BY <1>7, <1>4
  <2> QED BY <2>3, <2>4 DEF OnItsWay
<1>8. CASE p \notin accepted
  <2>1. p \notin notifications /\ p.content \in Valid BY <1>8 DEF DueOnItsWay
  <2>2. PICK d \in Conns : On(d, p) BY <1>8 DEF DueOnItsWay
  <2>3. CASE p = q
    <3>1. sending' = [sending EXCEPT ![c] = q] /\ accepted' = accepted \cup {q}
          BY <1>4, <2>1, <2>3
    <3>2. sending'[c] = p BY <1>5, <2>3, <3>1
    <3>3. p \in accepted' BY <2>3, <3>1
    <3>4. Pending(p)' BY <3>2 DEF Pending
    <3> QED BY <3>3, <3>4 DEF OnItsWay
  <2>4. CASE p # q
    <3>1. p \notin accepted' BY <1>4, <1>8, <2>4
    <3>2. PICK i \in DOMAIN inbox[d] : inbox[d][i] = p BY <2>2 DEF On
    <3>3. CASE d # c
      <4>1. inbox'[d] = inbox[d] BY <1>4, <1>5, <3>3
      <4>2. On(d, p)' BY <3>2, <4>1 DEF On
      <4> QED BY <3>1, <4>2 DEF OnItsWay
    <3>4. CASE d = c
      <4>1. i # 1 BY <1>2, <2>4, <3>2, <3>4
      <4>2. i - 1 \in DOMAIN Tail(inbox[c]) /\ Tail(inbox[c])[i - 1] = p
            BY <1>1, <3>2, <3>4, <4>1, HeadTail
      <4>3. inbox'[c] = Tail(inbox[c]) BY <1>4, <1>5
      <4>4. On(c, p)' BY <4>2, <4>3 DEF On
      <4> QED BY <3>1, <4>4 DEF OnItsWay
    <3> QED BY <3>3, <3>4
  <2> QED BY <2>3, <2>4
<1> QED BY <1>7, <1>8

\* A signal goes to the end of the channel.
LEMMA SendStepKeeps ==
    ASSUME TypeOK, NEW c \in Conns, SendSignal(c), NEW p, Pending(p)
    PROVE  Pending(p)'
<1> DEFINE s == Append(chainSignalChan, sending[c])
<1>1. chainSignalChan \in Seq(Payloads) /\ sending \in [Conns -> Payloads \cup {None}]
      BY DEF TypeOK
<1>2. sending[c] \in Payloads BY <1>1 DEF SendSignal
<1>3. chainSignalChan' = s BY DEF SendSignal
<1>4. sending' = [sending EXCEPT ![c] = None] BY DEF SendSignal
<1>5. CASE \E i \in DOMAIN chainSignalChan : chainSignalChan[i] = p
  <2>1. \E i \in DOMAIN s : s[i] = p BY <1>1, <1>2, <1>5, Appended
  <2> QED BY <2>1, <1>3, Zenon DEF Pending
<1>6. CASE sending[c] = p
  <2>1. Len(chainSignalChan) + 1 \in DOMAIN s /\ s[Len(chainSignalChan) + 1] = p
        BY <1>1, <1>2, <1>6, Appended
  <2> QED BY <2>1, <1>3, Zenon DEF Pending
<1>7. ASSUME NEW d \in Conns, d # c, sending[d] = p PROVE Pending(p)'
      BY <1>1, <1>4, <1>7 DEF Pending
<1> QED BY <1>5, <1>6, <1>7 DEF Pending

\* The signal goroutine takes the first signal, which is due no more.
LEMMA WaitStepKeeps ==
    ASSUME TypeOK, WaitForChainSignal, NEW p \in due', Pending(p)
    PROVE  Pending(p)'
<1>1. chainSignalChan \in Seq(Payloads) BY DEF TypeOK
<1>2. UNCHANGED sending BY DEF WaitForChainSignal
<1>3. CASE UNCHANGED chainSignalChan BY <1>2, <1>3 DEF Pending
<1>4. CASE chainSignalChan # <<>> /\ chainSignalChan' = Tail(chainSignalChan)
           /\ due' = due \ {Head(chainSignalChan)}
  <2>1. p # Head(chainSignalChan) BY <1>4
  <2>2. ASSUME NEW i \in DOMAIN chainSignalChan, chainSignalChan[i] = p PROVE Pending(p)'
    <3>1. i # 1 BY <1>1, <1>4, <2>1, <2>2, HeadTail
    <3>2. i - 1 \in DOMAIN Tail(chainSignalChan) /\ Tail(chainSignalChan)[i - 1] = p
          BY <1>1, <1>4, <2>2, <3>1, HeadTail
    <3> QED BY <3>2, <1>4, Zenon DEF Pending
  <2> QED BY <1>2, <2>2 DEF Pending
<1> QED BY <1>3, <1>4 DEF WaitForChainSignal

\* A connection that closes takes what is on its wire out of the due requests.
LEMMA ClosedKeeps ==
    ASSUME TypeOK, DueOnItsWay, NEW c \in Conns, Closed(c),
           UNCHANGED <<accepted, sending, chainSignalChan>>
    PROVE  \A p \in due' : OnItsWay(p)'
<1> SUFFICES ASSUME NEW p \in due' PROVE OnItsWay(p)' OBVIOUS
<1>1. p \in due /\ ~On(c, p) BY DEF Closed, On
<1>2. ASSUME NEW d \in Conns, On(d, p) PROVE On(d, p)'
  <2>1. inbox'[d] = inbox[d] BY <1>1, <1>2 DEF Closed, TypeOK
  <2> QED BY <1>2, <2>1 DEF On
<1>3. Pending(p) => Pending(p)' BY DEF Pending
<1> QED BY <1>1, <1>2, <1>3 DEF DueOnItsWay, OnItsWay

\* Every step leaves the due requests on their way.
LEMMA DueStep ==
    ASSUME TypeOK, DueOnItsWay, [Next]_vars
    PROVE  \A p \in due' : OnItsWay(p)'
<1>1. \A p \in due : OnItsWay(p) BY DEF DueOnItsWay, OnItsWay
<1>2. ASSUME NEW r \in Contents, Notify(r) PROVE \A p \in due' : OnItsWay(p)'
      BY <1>1, <1>2, NotifyStep
<1>3. ASSUME NEW c \in Conns, NotificationHandler(c) PROVE \A p \in due' : OnItsWay(p)'
      BY <1>3, HandlerStepKeeps
<1>4. ASSUME NEW c \in Conns, SendSignal(c) PROVE \A p \in due' : OnItsWay(p)'
  <2>1. UNCHANGED <<inbox, accepted, due>> BY <1>4 DEF SendSignal, connVars, history
  <2>2. \A p : Pending(p) => Pending(p)' BY <1>4, SendStepKeeps
  <2>3. \A d \in Conns, p \in due : On(d, p) => On(d, p)' BY <2>1 DEF On
  <2> QED BY <1>1, <2>1, <2>2, <2>3 DEF OnItsWay
<1>5. CASE WaitForChainSignal
  <2>1. UNCHANGED <<inbox, accepted>> /\ due' \subseteq due
        BY <1>5 DEF WaitForChainSignal, connVars
  <2>2. \A p \in due' : Pending(p) => Pending(p)' BY <1>5, WaitStepKeeps
  <2>3. \A d \in Conns, p \in due : On(d, p) => On(d, p)' BY <2>1 DEF On
  <2> QED BY <1>1, <2>1, <2>2, <2>3 DEF OnItsWay
<1>6. ASSUME NEW c \in Conns, Closed(c), UNCHANGED <<accepted, sending, chainSignalChan>>
      PROVE  \A p \in due' : OnItsWay(p)'
      BY <1>6, ClosedKeeps
<1>7. CASE UNCHANGED <<inbox, sending, chainSignalChan, accepted, due>>
  <2>1. \A p : Pending(p) => Pending(p)' BY <1>7 DEF Pending
  <2>2. \A d \in Conns, p \in due : On(d, p) => On(d, p)' BY <1>7 DEF On
  <2> QED BY <1>1, <1>7, <2>1, <2>2 DEF OnItsWay
<1>8. \/ WaitForChainSignal
      \/ UNCHANGED <<inbox, sending, chainSignalChan, accepted, due>>
      \/ \E r \in Contents : Notify(r)
      \/ \E c \in Conns : NotificationHandler(c) \/ SendSignal(c)
      \/ \E c \in Conns : Closed(c) /\ UNCHANGED <<accepted, sending, chainSignalChan>>
      BY DEF Next, vars, connVars, history, Tick, Forget, Cancel, ConsumerStep, SelectCancelled,
             SelectChain, ChainSelected, HandlerStep, PoolStep, Acquire, Release, Released,
             Listen, Close
<1> QED BY <1>2, <1>3, <1>4, <1>5, <1>6, <1>7, <1>8

-----------------------------------------------------------------------------
\* The memory of the filter and the due requests keep their invariants in every run
\* (NotificationHandler, retrieveAsyncChainsAndRun, the pool).
THEOREM Invariant == Spec => []IInv
<1>1. IInv /\ [Next]_vars => IInv'
  <2> SUFFICES ASSUME IInv, [Next]_vars PROVE IInv' OBVIOUS
  <2>1. TypeOK' BY TypeStep DEF IInv
  <2>2. Remembered' BY RememberedStep DEF IInv
  <2>3. /\ \A p \in notifications' : p.content \in Valid => p \in accepted'
        /\ \A p \in due' : p.content \in Valid
        BY AcceptedStep DEF IInv
  <2>4. \A p \in due' : OnItsWay(p)' BY DueStep DEF IInv
  <2>5. DueOnItsWay' BY <2>3, <2>4 DEF DueOnItsWay, OnItsWay
  <2> QED BY <2>1, <2>2, <2>5 DEF IInv
<1> QED BY InitIInv, <1>1, PTL DEF Spec

\* The channel never has more than Cap signals, and only connections of the pool listen
\* (NewPgEngine, SendSignal).
THEOREM TypeCorrect == Spec => []TypeOK
<1>1. IInv => TypeOK BY DEF IInv
<1> QED BY <1>1, Invariant, PTL

\* A valid request that reached a connection is on the wire, in a handler or in the channel
\* until the signal goroutine takes it or its connection closes (NotificationHandler,
\* SendSignal, retrieveAsyncChainsAndRun).
THEOREM NoRequestLost == Spec => []NothingLost
<1>1. IInv => NothingLost BY DEF IInv, DueOnItsWay, NothingLost, On
<1> QED BY <1>1, Invariant, PTL

\* Whatever connections deliver a payload, it is handed on again only when its TTL is over
\* (NotificationHandler).
THEOREM AcceptedOncePerTTL == Spec => HandledOnce
<1> DEFINE Twice == \A p \in accepted, c \in Conns :
                        sending'[c] = p /\ sending[c] # p => now - p.ts > NotifyTTL
<1>1. IInv /\ [Next]_vars => [Twice]_vars
  <2> SUFFICES ASSUME IInv, [Next]_vars, NEW p \in accepted, NEW c \in Conns,
                      sending'[c] = p, sending[c] # p
               PROVE  now - p.ts > NotifyTTL
      OBVIOUS
  <2>1. p \in Payloads /\ p # None BY NotificationAssumption DEF IInv, TypeOK
  <2>2. sending \in [Conns -> Payloads \cup {None}] BY DEF IInv, TypeOK
  <2>3. PICK d \in Conns : NotificationHandler(d)
    <3>1. ASSUME NEW d \in Conns, SendSignal(d) PROVE FALSE
          BY <2>1, <2>2, <3>1 DEF SendSignal
    <3>2. sending' # sending OBVIOUS
    <3> QED BY <3>1, <3>2
            DEF Next, vars, Tick, Forget, Cancel, ConsumerStep, WaitForChainSignal,
                SelectCancelled, SelectChain, ChainSelected, Notify, HandlerStep, PoolStep,
                Acquire, Release, Listen, Close
  <2>4. p \notin notifications
        BY <2>1, <2>2, <2>3 DEF NotificationHandler
  <2> QED BY <2>4 DEF IInv, Remembered
<1> QED BY <1>1, Invariant, PTL DEF Spec, HandledOnce
=============================================================================
