--------------------------- MODULE EventLanesProofs ---------------------------
(***************************************************************************)
(* Theorems about EventLanes, for every number of workers, chats, events,  *)
(* attachments and starts, and every limit of the queues.                  *)
(***************************************************************************)
EXTENDS EventLanes, DataFacts

\* The tuples of variables are expanded throughout.
USE DEF lifeVars, linkVars, laneVars, workVars

MessageEvents == {e \in Event : e.lane = "message" /\ e.chat \in Chats}
RecallEvents == {e \in Event : e.lane = "recall" /\ e.size = 0}
Arrivals == MessageEvents \cup RecallEvents

\* The events of a queue in the order of their arrival.
Increasing(q) == \A i, j \in 1..Len(q) : i < j => q[i].id < q[j].id

\* What an event holds.
LEMMA EventType ==
  /\ Arrivals \subseteq Event /\ None \notin Event
  /\ \A e \in Event : e.id \in 1..MaxEvents /\ e.id \in Nat /\ e.session \in 1..MaxSessions /\ e.size \in Nat
  /\ \A e \in MessageEvents : e.lane = "message" /\ e.chat \in Chats
  /\ \A e \in RecallEvents : e.lane = "recall" /\ e.size = 0
<1>1. None \notin Event /\ Sizes \subseteq Nat /\ MaxEvents \in Nat BY LanesAssumption
<1>2. ASSUME NEW e \in Event
      PROVE  e.id \in 1..MaxEvents /\ e.id \in Nat /\ e.session \in 1..MaxSessions /\ e.size \in Nat
  <2>1. e.id \in 1..MaxEvents /\ e.session \in 1..MaxSessions /\ e.size \in Sizes \cup {0}
    BY DEF Event
  <2>2. e.size \in Nat
    <3>1. Sizes \cup {0} \subseteq Nat BY <1>1
    <3> QED BY <2>1, <3>1
  <2>3. e.id \in Nat BY <1>1, <2>1
  <2> QED BY <2>1, <2>2, <2>3
<1> QED BY <1>1, <1>2 DEF Arrivals, MessageEvents, RecallEvents

\* The bounds and the finite sets.
LEMMA Bounds ==
  /\ {EventWorkers, QueueSize, MaxBytes} \subseteq Nat \ {0}
  /\ MaxEvents \in Nat /\ MaxSessions \in Nat /\ MaxStarts \in Nat
  /\ IsFiniteSet(Workers) /\ Cardinality(Workers) \in Nat
<1>1. /\ {EventWorkers, QueueSize, MaxBytes} \subseteq Nat \ {0}
      /\ MaxEvents \in Nat /\ MaxSessions \in Nat /\ MaxStarts \in Nat
  BY LanesAssumption
<1>2. IsFiniteSet(1..MaxStarts) /\ IsFiniteSet(0..EventWorkers) BY <1>1, FS_Interval
<1>3. IsFiniteSet(Workers) BY <1>2, FS_Product DEF Workers
<1> QED BY <1>1, <1>3, FS_CardinalityType

-----------------------------------------------------------------------------
(* The bytes *)

SizesOf(q) == [i \in DOMAIN q |-> q[i].size]

\* The size of a queue is a natural, the sum over its places.
LEMMA TotalType ==
  ASSUME NEW q \in Seq(Event)
  PROVE  /\ Total(q) \in Nat
         /\ Total(q) = SumFunctionOnSet(SizesOf(q), 1..Len(q))
         /\ \A i \in 1..Len(q) : SizesOf(q)[i] = q[i].size /\ SizesOf(q)[i] \in Nat
<1>1. DOMAIN q = 1..Len(q) /\ Len(q) \in Nat /\ \A i \in 1..Len(q) : q[i] \in Event OBVIOUS
<1>2. \A i \in 1..Len(q) : SizesOf(q)[i] = q[i].size /\ SizesOf(q)[i] \in Nat
  BY <1>1, EventType DEF SizesOf
<1>3. Total(q) = SumFunctionOnSet(SizesOf(q), 1..Len(q))
  BY <1>1 DEF SumFunction, SizesOf, Total
<1>4. IsFiniteSet(1..Len(q)) BY <1>1, FS_Interval
<1>5. SumFunctionOnSet(SizesOf(q), 1..Len(q)) \in Nat BY <1>2, <1>4, SumType
<1> QED BY <1>2, <1>3, <1>5

\* An event admitted adds its size.
LEMMA TotalAppend ==
  ASSUME NEW q \in Seq(Event), NEW e \in Event
  PROVE  Total(Append(q, e)) = Total(q) + e.size
<1> DEFINE r == Append(q, e)
<1>1. /\ r \in Seq(Event) /\ Len(r) = Len(q) + 1 /\ Len(q) \in Nat /\ r[Len(q) + 1] = e
      /\ \A i \in 1..Len(q) : r[i] = q[i]
  OBVIOUS
<1> HIDE DEF r
<1>2. /\ Total(r) = SumFunctionOnSet(SizesOf(r), 1..Len(q) + 1)
      /\ Total(q) = SumFunctionOnSet(SizesOf(q), 1..Len(q))
      /\ \A i \in 1..Len(q) + 1 : SizesOf(r)[i] = r[i].size /\ SizesOf(r)[i] \in Nat
      /\ \A i \in 1..Len(q) : SizesOf(q)[i] = q[i].size
  BY <1>1, TotalType
<1>3. \A i \in 1..Len(q) : SizesOf(q)[i] = SizesOf(r)[i]
  <2>1. 1..Len(q) \subseteq 1..Len(q) + 1 BY <1>1
  <2> QED BY <1>1, <1>2, <2>1
<1>4. SumFunctionOnSet(SizesOf(r), 1..Len(q) + 1)
        = SumFunctionOnSet(SizesOf(q), 1..Len(q)) + SizesOf(r)[Len(q) + 1]
  BY <1>1, <1>2, <1>3, QueueSumAppend
<1>5. SizesOf(r)[Len(q) + 1] = e.size BY <1>1, <1>2
<1> QED BY <1>2, <1>4, <1>5 DEF r

\* An event taken takes its size with it.
LEMMA TotalTail ==
  ASSUME NEW q \in Seq(Event), q # <<>>
  PROVE  Total(q) = Head(q).size + Total(Tail(q))
<1> DEFINE r == Tail(q)
           n == Len(q)
<1>1. /\ r \in Seq(Event) /\ Len(r) = n - 1 /\ n \in Nat \ {0} /\ q[1] = Head(q)
      /\ \A i \in 1..n - 1 : r[i] = q[i + 1]
  OBVIOUS
<1> HIDE DEF r, n
<1>2. /\ Total(q) = SumFunctionOnSet(SizesOf(q), 1..n)
      /\ Total(r) = SumFunctionOnSet(SizesOf(r), 1..n - 1)
      /\ \A i \in 1..n : SizesOf(q)[i] = q[i].size /\ SizesOf(q)[i] \in Nat
      /\ \A i \in 1..n - 1 : SizesOf(r)[i] = r[i].size
  BY <1>1, TotalType DEF n
<1>3. \A i \in 1..n - 1 : SizesOf(r)[i] = SizesOf(q)[i + 1]
  <2>1. \A i \in 1..n - 1 : i + 1 \in 1..n BY <1>1
  <2> QED BY <1>1, <1>2, <2>1
<1>4. SumFunctionOnSet(SizesOf(q), 1..n) = SizesOf(q)[1] + SumFunctionOnSet(SizesOf(r), 1..n - 1)
  BY <1>1, <1>2, <1>3, QueueSumTail
<1>5. SizesOf(q)[1] = Head(q).size BY <1>1, <1>2
<1> QED BY <1>2, <1>4, <1>5 DEF r

\* Nothing queued takes no bytes.
LEMMA TotalEmpty == <<>> \in Seq(Event) /\ Len(<<>>) = 0 /\ Total(<<>>) = 0
<1>1. DOMAIN [i \in DOMAIN <<>> |-> <<>>[i].size] = {} OBVIOUS
<1> QED BY <1>1, SumEmpty DEF SumFunction, Total

\* The bytes of the events the workers have taken.
Load(w) == IF item[w] = None THEN 0 ELSE item[w].size
Held == SumFunction([w \in Workers |-> Load(w)])

\* The events in the hands of the workers have a size, each no more than all of them.
LEMMA HeldType ==
  ASSUME item \in [Workers -> Event \cup {None}]
  PROVE  /\ \A w \in Workers : Load(w) \in Nat /\ Load(w) <= Held
         /\ Held \in Nat
<1> DEFINE f == [w \in Workers |-> Load(w)]
<1>1. \A w \in Workers : f[w] = Load(w) /\ f[w] \in Nat BY EventType DEF Load
<1>2. Held = SumFunctionOnSet(f, Workers) BY DEF Held, SumFunction
<1> HIDE DEF f
<1>3. Held \in Nat BY <1>1, <1>2, Bounds, SumType
<1>4. \A w \in Workers : f[w] <= Held BY <1>1, <1>2, Bounds, SumBounds
<1> QED BY <1>1, <1>3, <1>4

\* One worker takes an event or is done with one.
LEMMA HeldUpdate ==
  ASSUME item \in [Workers -> Event \cup {None}], item' \in [Workers -> Event \cup {None}],
         NEW w \in Workers, \A v \in Workers \ {w} : item'[v] = item[v]
  PROVE  Held' + Load(w) = Held + Load(w)' /\ Held' \in Nat
<1> DEFINE f == [v \in Workers |-> Load(v)]
           g == [v \in Workers |-> Load(v)']
<1>1. \A v \in Workers : f[v] = Load(v) /\ f[v] \in Nat BY EventType DEF Load
<1>2. \A v \in Workers : g[v] = Load(v)' /\ g[v] \in Nat BY EventType DEF Load
<1>3. Held = SumFunctionOnSet(f, Workers) /\ Held' = SumFunctionOnSet(g, Workers)
  BY DEF Held, SumFunction
<1>4. \A v \in Workers \ {w} : f[v] = g[v] BY DEF Load
<1> HIDE DEF f, g
<1>5. SumFunctionOnSet(g, Workers) + f[w] = SumFunctionOnSet(f, Workers) + g[w]
  BY <1>1, <1>2, <1>4, Bounds, SumUpdate
<1>6. SumFunctionOnSet(g, Workers) \in Nat BY <1>2, Bounds, SumType
<1> QED BY <1>1, <1>2, <1>3, <1>5, <1>6

-----------------------------------------------------------------------------
(* Admission *)

\* The lanes while the events es are admitted: in order, within their bounds, made of
\* all that was queued and of some of es, and with an exact account of the bytes.
GoodLanes(l, es) ==
  /\ l \in [queue : Seq(MessageEvents), recalls : Seq(RecallEvents), bytes : Nat]
  /\ Len(l.queue) <= QueueSize /\ Len(l.recalls) <= QueueSize
  /\ Increasing(l.queue)
  /\ l.bytes = Total(l.queue) + Held /\ l.bytes <= MaxBytes
  /\ ToSet(queue) \subseteq ToSet(l.queue) /\ ToSet(l.queue) \subseteq ToSet(queue) \cup ToSet(es)
  /\ ToSet(l.recalls) \subseteq ToSet(recalls) \cup ToSet(es)

\* What is queued came before what is still to be admitted.
Ahead(l, es, n) == \A i \in 1..Len(l.queue) : \A j \in n + 1..Len(es) : l.queue[i].id < es[j].id

\* _enqueue in its three cases.
LEMMA AdmitCases ==
  ASSUME NEW l, NEW e
  PROVE  \/ /\ e.lane = "recall" /\ Len(l.recalls) < QueueSize
            /\ Admit(l, e) = [l EXCEPT !.recalls = Append(@, e)]
         \/ /\ e.lane = "message" /\ Len(l.queue) < QueueSize /\ l.bytes + e.size <= MaxBytes
            /\ Admit(l, e) = [l EXCEPT !.queue = Append(@, e), !.bytes = @ + e.size]
         \/ Admit(l, e) = l
BY DEF Admit

\* What is in a queue is at one of its places.
LEMMA PlacesOf == ASSUME NEW X, NEW q \in Seq(X) PROVE ToSet(q) = {q[i] : i \in 1..Len(q)}
<1>1. DOMAIN q = 1..Len(q) OBVIOUS
<1> QED BY <1>1 DEF ToSet

\* What is in a queue that has grown.
LEMMA AppendSet ==
  ASSUME NEW X, NEW q \in Seq(X), NEW e \in X
  PROVE  ToSet(Append(q, e)) = ToSet(q) \cup {e}
<1> DEFINE r == Append(q, e)
<1>1. /\ DOMAIN r = 1..Len(q) + 1 /\ DOMAIN q = 1..Len(q) /\ Len(q) \in Nat
      /\ r[Len(q) + 1] = e /\ \A i \in 1..Len(q) : r[i] = q[i]
  OBVIOUS
<1> HIDE DEF r
<1>2. \A i \in 1..Len(q) + 1 : i = Len(q) + 1 \/ i \in 1..Len(q) BY <1>1
<1>3. \A i \in 1..Len(q) : i \in 1..Len(q) + 1 BY <1>1
<1>4. Len(q) + 1 \in 1..Len(q) + 1 BY <1>1
<1>5. ToSet(r) = ToSet(q) \cup {e}
  <2>1. \A x \in ToSet(r) : x \in ToSet(q) \cup {e} BY <1>1, <1>2 DEF ToSet
  <2>2. \A x \in ToSet(q) \cup {e} : x \in ToSet(r) BY <1>1, <1>3, <1>4 DEF ToSet
  <2> QED BY <2>1, <2>2
<1> QED BY <1>5 DEF r

\* The last event of a queue is the latest, if it came after the others.
LEMMA IncreasingAppend ==
  ASSUME NEW q \in Seq(Event), NEW e \in Event, Increasing(q), \A i \in 1..Len(q) : q[i].id < e.id
  PROVE  Increasing(Append(q, e))
<1>1. /\ Len(Append(q, e)) = Len(q) + 1 /\ Len(q) \in Nat
      /\ Append(q, e)[Len(q) + 1] = e /\ \A i \in 1..Len(q) : Append(q, e)[i] = q[i]
  OBVIOUS
<1>2. ASSUME NEW i \in 1..Len(q) + 1, NEW j \in 1..Len(q) + 1, i < j
      PROVE  Append(q, e)[i].id < Append(q, e)[j].id
  <2>1. i \in 1..Len(q) BY <1>1, <1>2
  <2>2. CASE j = Len(q) + 1 BY <1>1, <2>1, <2>2
  <2>3. CASE j \in 1..Len(q) BY <1>1, <1>2, <2>1, <2>3 DEF Increasing
  <2> QED BY <1>1, <2>2, <2>3
<1> QED BY <1>1, <1>2 DEF Increasing

\* One event more.
LEMMA AdmitStep ==
  ASSUME item \in [Workers -> Event \cup {None}],
         NEW es \in Seq(Arrivals), Increasing(es), NEW n \in 1..Len(es),
         NEW l, GoodLanes(l, es), Ahead(l, es, n - 1)
  PROVE  GoodLanes(Admit(l, es[n]), es) /\ Ahead(Admit(l, es[n]), es, n)
<1> DEFINE e == es[n]
           m == Admit(l, e)
<1>0. n \in Nat \ {0} /\ Len(es) \in Nat /\ DOMAIN es = 1..Len(es) OBVIOUS
<1>1. e \in Arrivals /\ e \in Event /\ e.size \in Nat /\ e \in ToSet(es)
  BY <1>0, EventType DEF ToSet
<1>2. /\ l \in [queue : Seq(MessageEvents), recalls : Seq(RecallEvents), bytes : Nat]
      /\ Len(l.queue) \in Nat /\ Len(l.recalls) \in Nat
      /\ l.queue \in Seq(Event) /\ Total(l.queue) \in Nat /\ Held \in Nat
  <2>1. MessageEvents \subseteq Event BY DEF MessageEvents
  <2>2. /\ l \in [queue : Seq(MessageEvents), recalls : Seq(RecallEvents), bytes : Nat]
        /\ l.queue \in Seq(MessageEvents) /\ l.recalls \in Seq(RecallEvents)
    BY DEF GoodLanes
  <2>3. l.queue \in Seq(Event) BY <2>1, <2>2
  <2> QED BY <2>2, <2>3, TotalType, HeldType
<1>3. \A j \in n + 1..Len(es) : e.id < es[j].id BY <1>0 DEF Increasing
<1>4. \A i \in 1..Len(l.queue) : l.queue[i].id < e.id
  <2>1. n \in n - 1 + 1..Len(es) BY <1>0
  <2> QED BY <2>1 DEF Ahead
<1>5. Ahead(l, es, n)
  <2>1. \A j \in n + 1..Len(es) : j \in (n - 1) + 1..Len(es) BY <1>0
  <2> QED BY <2>1 DEF Ahead
<1> HIDE DEF e
<1>6. CASE m = l BY <1>5, <1>6 DEF e
<1>7. CASE /\ e.lane = "recall" /\ Len(l.recalls) < QueueSize
           /\ m = [l EXCEPT !.recalls = Append(@, e)]
  <2>1. e \in RecallEvents BY <1>1, <1>7, EventType DEF Arrivals
  <2>2. m.queue = l.queue /\ m.bytes = l.bytes /\ m.recalls = Append(l.recalls, e)
    BY <1>2, <1>7
  <2>3. /\ m.recalls \in Seq(RecallEvents) /\ Len(m.recalls) = Len(l.recalls) + 1
        /\ ToSet(m.recalls) = ToSet(l.recalls) \cup {e}
    <3>1. l.recalls \in Seq(RecallEvents) BY DEF GoodLanes
    <3>2. /\ Append(l.recalls, e) \in Seq(RecallEvents)
          /\ Len(Append(l.recalls, e)) = Len(l.recalls) + 1
      BY <2>1, <3>1
    <3>3. ToSet(Append(l.recalls, e)) = ToSet(l.recalls) \cup {e} BY <2>1, <3>1, AppendSet
    <3> QED BY <2>2, <3>2, <3>3
  <2>4. m \in [queue : Seq(MessageEvents), recalls : Seq(RecallEvents), bytes : Nat]
    BY <1>2, <1>7, <2>3
  <2>5. Len(m.recalls) <= QueueSize BY <1>2, <1>7, <2>3, Bounds
  <2>6. GoodLanes(m, es)
    BY <1>1, <2>2, <2>3, <2>4, <2>5 DEF GoodLanes
  <2>7. Ahead(m, es, n) BY <1>5, <2>2 DEF Ahead
  <2> QED BY <2>6, <2>7 DEF e
<1>8. CASE /\ e.lane = "message" /\ Len(l.queue) < QueueSize /\ l.bytes + e.size <= MaxBytes
           /\ m = [l EXCEPT !.queue = Append(@, e), !.bytes = @ + e.size]
  <2>1. e \in MessageEvents BY <1>1, <1>8, EventType DEF Arrivals
  <2>2. m.queue = Append(l.queue, e) /\ m.bytes = l.bytes + e.size /\ m.recalls = l.recalls
    BY <1>2, <1>8
  <2>3. /\ m.queue \in Seq(MessageEvents) /\ Len(m.queue) = Len(l.queue) + 1
        /\ ToSet(m.queue) = ToSet(l.queue) \cup {e}
    <3>1. l.queue \in Seq(MessageEvents) BY DEF GoodLanes
    <3>2. /\ Append(l.queue, e) \in Seq(MessageEvents)
          /\ Len(Append(l.queue, e)) = Len(l.queue) + 1
      BY <2>1, <3>1
    <3>3. ToSet(Append(l.queue, e)) = ToSet(l.queue) \cup {e} BY <2>1, <3>1, AppendSet
    <3> QED BY <2>2, <3>2, <3>3
  <2>4. m \in [queue : Seq(MessageEvents), recalls : Seq(RecallEvents), bytes : Nat]
    <3>1. m.bytes \in Nat BY <1>1, <1>2, <2>2
    <3> QED BY <1>2, <1>8, <2>2, <2>3, <3>1
  <2>5. Len(m.queue) <= QueueSize BY <1>2, <1>8, <2>3, Bounds
  <2>6. Increasing(m.queue) BY <1>1, <1>2, <1>4, <2>2, IncreasingAppend DEF GoodLanes
  <2>7. m.bytes = Total(m.queue) + Held
    <3>1. Total(Append(l.queue, e)) = Total(l.queue) + e.size BY <1>1, <1>2, TotalAppend
    <3> QED BY <1>1, <1>2, <2>2, <3>1 DEF GoodLanes
  <2>8. GoodLanes(m, es)
    BY <1>1, <1>8, <2>2, <2>3, <2>4, <2>5, <2>6, <2>7 DEF GoodLanes
  <2>9. Ahead(m, es, n)
    <3>1. \A i \in 1..Len(l.queue) + 1 : m.queue[i] = e \/ (i \in 1..Len(l.queue) /\ m.queue[i] = l.queue[i])
      BY <1>2, <2>2
    <3> QED BY <1>3, <1>5, <2>3, <3>1 DEF Ahead
  <2> QED BY <2>8, <2>9 DEF e
<1>9. m = Admit(l, e) /\ (m = l \/ m # l) OBVIOUS
<1> HIDE DEF m
<1> QED BY <1>6, <1>7, <1>8, <1>9, AdmitCases DEF e

\* The recursion of Admitted, entry by entry.
Lanes == [queue |-> queue, recalls |-> recalls, bytes |-> bytes]
LanesStep(es, g, n) == IF n = 0 THEN Lanes ELSE Admit(g[n - 1], es[n])
LanesTable(es, g, n) == g = [k \in 0..n |-> LanesStep(es, g, k)]
LanesRun(es) == CHOOSE g : LanesTable(es, g, Len(es))

\* The lanes at the end are the last entry of a table over the events.
LEMMA AdmittedIsRun == ASSUME NEW es PROVE Admitted(es) = LanesRun(es)[Len(es)]
BY DEF Admitted, LanesRun, LanesTable, LanesStep, Lanes

\* What the table says of no event, and of one event more.
LEMMA LanesRunStep ==
  ASSUME NEW es, Len(es) \in Nat
  PROVE  /\ LanesRun(es)[0] = Lanes
         /\ \A n \in 1..Len(es) : LanesRun(es)[n] = Admit(LanesRun(es)[n - 1], es[n])
<1> DEFINE P == {n \in 0..Len(es) : \E g : LanesTable(es, g, n)}
<1>1. 0 \in P
  <2>1. LanesTable(es, [k \in 0..0 |-> Lanes], 0) BY DEF LanesTable, LanesStep
  <2> QED BY <2>1
<1>2. ASSUME NEW n \in 1..Len(es), n - 1 \in P PROVE n \in P
  <2>1. PICK g : LanesTable(es, g, n - 1) BY <1>2
  <2> DEFINE h == [k \in 0..n |-> IF k = n THEN LanesStep(es, g, n) ELSE g[k]]
  <2>2. ASSUME NEW k \in 0..n PROVE h[k] = LanesStep(es, h, k)
    <3>1. CASE k = 0 BY <3>1, <2>1 DEF LanesTable, LanesStep
    <3>2. CASE k \in 1..(n - 1)
      <4>1. h[k] = g[k] /\ h[k - 1] = g[k - 1] BY <3>2
      <4>2. g[k] = LanesStep(es, g, k) BY <3>2, <2>1 DEF LanesTable
      <4> QED BY <4>1, <4>2, <3>2 DEF LanesStep
    <3>3. CASE k = n
      <4>1. h[n - 1] = g[n - 1] /\ h[n] = LanesStep(es, g, n) OBVIOUS
      <4> QED BY <4>1, <3>3 DEF LanesStep
    <3> QED BY <3>1, <3>2, <3>3
  <2>3. h = [k \in 0..n |-> h[k]] OBVIOUS
  <2> HIDE DEF h
  <2>4. LanesTable(es, h, n) BY <2>2, <2>3 DEF LanesTable
  <2> QED BY <2>4
<1>3. P = 0..Len(es)
  <2>1. P \in SUBSET (0..Len(es)) OBVIOUS
  <2> HIDE DEF P
  <2> QED BY <1>1, <1>2, <2>1, UpTo
<1>4. Len(es) \in P BY <1>3
<1>5. LanesTable(es, LanesRun(es), Len(es)) BY <1>4 DEF LanesRun
<1>6. \A n \in 0..Len(es) : LanesRun(es)[n] = LanesStep(es, LanesRun(es), n) BY <1>5 DEF LanesTable
<1> QED BY <1>6 DEF LanesStep

\* Admitting events that came after those that are queued.
LEMMA AdmittedGood ==
  ASSUME item \in [Workers -> Event \cup {None}],
         NEW es \in Seq(Arrivals), Increasing(es), GoodLanes(Lanes, es), Ahead(Lanes, es, 0)
  PROVE  GoodLanes(Admitted(es), es)
<1> DEFINE k(n) == LanesRun(es)[n]
           P == {n \in 0..Len(es) : GoodLanes(k(n), es) /\ Ahead(k(n), es, n)}
<1>0. Len(es) \in Nat OBVIOUS
<1>1. k(0) = Lanes /\ \A n \in 1..Len(es) : k(n) = Admit(k(n - 1), es[n]) BY <1>0, LanesRunStep
<1>2. Admitted(es) = k(Len(es)) BY AdmittedIsRun
<1> HIDE DEF k
<1>3. 0 \in P BY <1>0, <1>1
<1>4. ASSUME NEW n \in 1..Len(es), n - 1 \in P PROVE n \in P
  <2> DEFINE l == k(n - 1)
  <2>1. GoodLanes(l, es) /\ Ahead(l, es, n - 1) BY <1>4
  <2>2. k(n) = Admit(l, es[n]) BY <1>1
  <2> HIDE DEF l
  <2>3. GoodLanes(Admit(l, es[n]), es) /\ Ahead(Admit(l, es[n]), es, n) BY <2>1, AdmitStep
  <2> QED BY <2>2, <2>3
<1>5. P = 0..Len(es)
  <2>1. P \in SUBSET (0..Len(es)) OBVIOUS
  <2> HIDE DEF P
  <2> QED BY <1>0, <1>3, <1>4, <2>1, UpTo
<1>6. Len(es) \in P BY <1>0, <1>5
<1> QED BY <1>2, <1>6

-----------------------------------------------------------------------------
(* The invariant *)

LifeTypes ==
  /\ phase \in {"down", "up", "stopping", "cancelling"} /\ {running, first} \subseteq BOOLEAN
  /\ starts \in 0..MaxStarts /\ alive \subseteq Workers

\* The reader: only the present session has a buffer, of its own events.
Reader ==
  /\ link \in {"off", "preauth", "on"} /\ session \in 0..MaxSessions
  /\ authed \subseteq 1..session /\ arrived \in 0..MaxEvents
  /\ preauth \in Seq(Arrivals) /\ Len(preauth) <= QueueSize /\ preBytes \in 0..MaxBytes
  /\ link # "off" => session # 0
  /\ link = "on" => session \in authed
  /\ link # "preauth" => preauth = <<>>
  /\ \A i \in 1..Len(preauth) : preauth[i].session = session /\ preauth[i].id <= arrived
  /\ Increasing(preauth)

\* The lanes: bounded, in order of arrival, older than the buffer, of sessions whose
\* account was verified, and with an exact account of the bytes.
Queued ==
  /\ GoodLanes(Lanes, <<>>)
  /\ \A i \in 1..Len(queue) : /\ queue[i].session \in authed /\ queue[i].id <= arrived
                              /\ \A j \in 1..Len(preauth) : queue[i].id < preauth[j].id
  /\ \A i \in 1..Len(recalls) : recalls[i].session \in authed

\* n is the number of an event that left the queue: it is older than what is queued.
Below(n) == /\ n <= arrived
            /\ \A i \in 1..Len(queue) : n < queue[i].id
            /\ \A i \in 1..Len(preauth) : n < preauth[i].id

\* The same in the next state, of a number that is fixed.
Later(n) == /\ n <= arrived'
            /\ \A i \in 1..Len(queue') : n < queue'[i].id
            /\ \A i \in 1..Len(preauth') : n < preauth'[i].id

\* The workers: what they have taken is verified and older than what is queued.
Items ==
  /\ item \in [Workers -> Event \cup {None}] /\ handling \subseteq Workers
  /\ \A w \in Workers : item[w] # None =>
       /\ item[w].session \in authed
       /\ w[2] = 0 => item[w] \in RecallEvents
       /\ w[2] # 0 => item[w] \in MessageEvents /\ Below(item[w].id)
  /\ \A w \in handling : item[w] # None

\* A lock object belongs to one chat and to the workers that wait for it, in the order
\* of their events; who is inside the handler has the first of them.
LockTypes ==
  /\ table \in [Chats -> [lock : Locks \cup {0}, count : 0..Cardinality(Workers)]]
  /\ lockOf \in [Workers -> Locks \cup {0}]
  /\ line \in [Locks -> Seq(Workers)]
  /\ LocksInUse

LockNames ==
  /\ \A c \in Chats : table[c].count > 0 => table[c].lock \in Locks /\ Below(table[c].lock)
  /\ \A c, d \in Chats : c # d /\ table[c].count > 0 /\ table[d].count > 0 =>
       table[c].lock # table[d].lock
  /\ \A w \in Workers : lockOf[w] # 0 <=> item[w] # None /\ w[2] > 0

Lines ==
  /\ \A l \in Locks : ToSet(line[l]) = {w \in Workers : lockOf[w] = l}
  /\ \A l \in Locks : \A i, j \in 1..Len(line[l]) : i < j =>
       item[line[l][i]].id < item[line[l][j]].id
  /\ \A w \in handling : w[2] > 0 =>
       \A v \in Workers \ {w} : lockOf[v] = lockOf[w] => item[w].id < item[v].id

LockInv == LockTypes /\ LockNames /\ Lines

LanesInv == LifeTypes /\ Reader /\ Queued /\ Items /\ LockInv

-----------------------------------------------------------------------------
(* What the invariant says *)

\* The lanes have the types of their events.
LEMMA QueuedTypes ==
  ASSUME GoodLanes(Lanes, <<>>)
  PROVE  /\ queue \in Seq(MessageEvents) /\ queue \in Seq(Event) /\ Len(queue) <= QueueSize
         /\ recalls \in Seq(RecallEvents) /\ recalls \in Seq(Event) /\ Len(recalls) <= QueueSize
         /\ Increasing(queue) /\ bytes \in 0..MaxBytes /\ bytes = Total(queue) + Held
         /\ Len(queue) \in Nat /\ Len(recalls) \in Nat
<1>1. /\ Lanes.queue = queue /\ Lanes.recalls = recalls /\ Lanes.bytes = bytes
  BY DEF Lanes
<1>2. /\ queue \in Seq(MessageEvents) /\ recalls \in Seq(RecallEvents) /\ bytes \in Nat
      /\ Len(queue) <= QueueSize /\ Len(recalls) <= QueueSize /\ Increasing(queue)
      /\ bytes = Total(queue) + Held /\ bytes <= MaxBytes
  BY <1>1 DEF GoodLanes
<1>3. MessageEvents \subseteq Event /\ RecallEvents \subseteq Event BY DEF MessageEvents, RecallEvents
<1>4. queue \in Seq(Event) /\ recalls \in Seq(Event) BY <1>2, <1>3
<1> QED BY <1>2, <1>4, Bounds

\* And the other way round, in the next state too.
LEMMA QueuedIf ==
  /\ /\ queue \in Seq(MessageEvents) /\ Len(queue) <= QueueSize
     /\ recalls \in Seq(RecallEvents) /\ Len(recalls) <= QueueSize
     /\ Increasing(queue) /\ bytes \in 0..MaxBytes /\ bytes = Total(queue) + Held
     => GoodLanes(Lanes, <<>>)
  /\ /\ queue' \in Seq(MessageEvents) /\ Len(queue') <= QueueSize
     /\ recalls' \in Seq(RecallEvents) /\ Len(recalls') <= QueueSize
     /\ Increasing(queue') /\ bytes' \in 0..MaxBytes /\ bytes' = Total(queue') + Held'
     => GoodLanes(Lanes, <<>>)'
<1>1. ASSUME /\ queue \in Seq(MessageEvents) /\ Len(queue) <= QueueSize
             /\ recalls \in Seq(RecallEvents) /\ Len(recalls) <= QueueSize
             /\ Increasing(queue) /\ bytes \in 0..MaxBytes /\ bytes = Total(queue) + Held
      PROVE  GoodLanes(Lanes, <<>>)
  <2>1. bytes \in Nat /\ bytes <= MaxBytes BY <1>1, Bounds
  <2>2. /\ ToSet(queue) \subseteq ToSet(queue) /\ ToSet(queue) \subseteq ToSet(queue) \cup ToSet(<<>>)
        /\ ToSet(recalls) \subseteq ToSet(recalls) \cup ToSet(<<>>)
    OBVIOUS
  <2> QED BY <1>1, <2>1, <2>2 DEF GoodLanes, Lanes
<1>2. ASSUME /\ queue' \in Seq(MessageEvents) /\ Len(queue') <= QueueSize
             /\ recalls' \in Seq(RecallEvents) /\ Len(recalls') <= QueueSize
             /\ Increasing(queue') /\ bytes' \in 0..MaxBytes /\ bytes' = Total(queue') + Held'
      PROVE  GoodLanes(Lanes, <<>>)'
  <2>1. bytes' \in Nat /\ bytes' <= MaxBytes BY <1>2, Bounds
  <2>2. /\ ToSet(queue') \subseteq ToSet(queue') /\ ToSet(queue') \subseteq ToSet(queue') \cup ToSet(<<>>)
        /\ ToSet(recalls') \subseteq ToSet(recalls') \cup ToSet(<<>>)
    OBVIOUS
  <2> QED BY <1>2, <2>1, <2>2 DEF GoodLanes, Lanes
<1> QED BY <1>1, <1>2

\* Consistent, BytesExact and InOrderPerChat follow.
LEMMA Implied == LanesInv => Consistent /\ BytesExact /\ InOrderPerChat
<1> SUFFICES ASSUME LanesInv PROVE Consistent /\ BytesExact /\ InOrderPerChat OBVIOUS
<1> USE DEF LanesInv
<1>1. /\ queue \in Seq(MessageEvents) /\ queue \in Seq(Event) /\ Len(queue) <= QueueSize
      /\ recalls \in Seq(Event) /\ Len(recalls) <= QueueSize
      /\ bytes \in 0..MaxBytes /\ bytes = Total(queue) + Held
      /\ DOMAIN queue = 1..Len(queue) /\ DOMAIN recalls = 1..Len(recalls)
  BY QueuedTypes DEF Queued
<1>2. TypeOK
  <2>1. preauth \in Seq(Event) BY EventType DEF Reader
  <2>2. Limited(preauth, QueueSize) /\ Limited(queue, QueueSize) /\ Limited(recalls, QueueSize)
    BY <1>1, <2>1 DEF Reader, Limited
  <2>3. /\ link \in {"off", "preauth", "on"} /\ session \in 0..MaxSessions
        /\ authed \subseteq 1..session /\ arrived \in 0..MaxEvents /\ preBytes \in 0..MaxBytes
    BY DEF Reader
  <2>4. item \in [Workers -> Event \cup {None}] /\ handling \subseteq Workers BY DEF Items
  <2> QED BY <1>1, <2>2, <2>3, <2>4 DEF TypeOK, LifeTypes, LockInv, LockTypes
<1>3. LocksInUse BY DEF LockInv, LockTypes
<1>4. OnlyAuthenticated BY <1>1 DEF OnlyAuthenticated, Items, Queued
<1>5. BytesExact BY <1>1 DEF BytesExact, Held, Load
<1>6. InOrderPerChat
  <2> SUFFICES ASSUME NEW chat \in Chats, NEW w \in Taken(chat) \cap handling
               PROVE  /\ \A v \in Taken(chat) \ {w} : item[w].id < item[v].id
                      /\ \A i \in DOMAIN queue : queue[i].chat = chat => item[w].id < queue[i].id
    BY DEF InOrderPerChat
  <2>1. w \in Workers /\ w[2] > 0 /\ item[w] # None BY DEF Taken
  <2>2. \A v \in Taken(chat) \ {w} : v \in Workers \ {w} /\ lockOf[v] = lockOf[w]
    BY DEF LockInv, LockTypes, LocksInUse, Taken
  <2>3. \A v \in Taken(chat) \ {w} : item[w].id < item[v].id
    BY <2>1, <2>2 DEF LockInv, Lines
  <2>4. Below(item[w].id)
    <3>1. w[2] # 0 BY <2>1
    <3> QED BY <2>1, <3>1 DEF Items
  <2> QED BY <1>1, <2>3, <2>4 DEF Below
<1> QED BY <1>2, <1>3, <1>4, <1>5, <1>6 DEF Consistent

-----------------------------------------------------------------------------
(* The reader *)

Present == {queue[i] : i \in 1..Len(queue)} \cup {preauth[i] : i \in 1..Len(preauth)}

\* What is older than everything queued stays older, since events only arrive.
LEMMA BelowStays ==
  ASSUME arrived \in Nat, arrived' \in Nat, arrived <= arrived',
         \A i \in 1..Len(queue') : queue'[i].id \in Nat /\ (queue'[i] \in Present \/ queue'[i].id > arrived),
         \A i \in 1..Len(preauth') : preauth'[i].id \in Nat /\ (preauth'[i] \in Present \/ preauth'[i].id > arrived),
         NEW n \in Nat, Below(n)
  PROVE  Below(n)'
<1>1. \A e \in Present : n < e.id BY DEF Below, Present
<1>2. n <= arrived' BY DEF Below
<1>3. n <= arrived BY DEF Below
<1>4. \A i \in 1..Len(queue') : n < queue'[i].id BY <1>1, <1>3
<1>5. \A i \in 1..Len(preauth') : n < preauth'[i].id BY <1>1, <1>3
<1> QED BY <1>2, <1>4, <1>5 DEF Below

\* The workers do nothing.
LEMMA WorkSame ==
  ASSUME Items, LockInv, UNCHANGED workVars, authed \subseteq authed',
         \A n \in Nat : Below(n) => Below(n)'
  PROVE  Items' /\ LockInv'
<1>1. Items'
  <2>1. \A w \in Workers : item[w] # None => item[w].id \in Nat BY EventType DEF Items
  <2> QED BY <2>1 DEF Items
<1>2. LockTypes' BY DEF LockInv, LockTypes, LocksInUse, Taken
<1>3. LockNames'
  <2>1. \A l \in Locks : l \in Nat BY Bounds DEF Locks
  <2> QED BY <2>1 DEF LockInv, LockNames
<1>4. Lines' BY DEF LockInv, Lines
<1> QED BY <1>1, <1>2, <1>3, <1>4 DEF LockInv

\* Events that came after what is queued are admitted behind it.
LEMMA EnqueueGrows ==
  ASSUME Queued, item \in [Workers -> Event \cup {None}], UNCHANGED item,
         NEW es \in Seq(Arrivals), Increasing(es), Enqueue(es),
         \A i \in 1..Len(queue), j \in 1..Len(es) : queue[i].id < es[j].id
  PROVE  /\ queue' \in Seq(MessageEvents) /\ Len(queue') <= QueueSize
         /\ recalls' \in Seq(RecallEvents) /\ Len(recalls') <= QueueSize
         /\ Increasing(queue') /\ bytes' \in 0..MaxBytes /\ bytes' = Total(queue') + Held'
         /\ ToSet(queue) \subseteq ToSet(queue') /\ ToSet(queue') \subseteq ToSet(queue) \cup ToSet(es)
         /\ ToSet(recalls') \subseteq ToSet(recalls) \cup ToSet(es)
<1>1. /\ queue \in Seq(MessageEvents) /\ recalls \in Seq(RecallEvents)
      /\ Len(queue) <= QueueSize /\ Len(recalls) <= QueueSize /\ Increasing(queue)
      /\ bytes \in 0..MaxBytes /\ bytes = Total(queue) + Held /\ Len(queue) \in Nat
      /\ Len(recalls) \in Nat
  BY QueuedTypes DEF Queued
<1>2. GoodLanes(Lanes, es)
  <2>1. /\ ToSet(queue) \subseteq ToSet(queue) /\ ToSet(queue) \subseteq ToSet(queue) \cup ToSet(es)
        /\ ToSet(recalls) \subseteq ToSet(recalls) \cup ToSet(es)
    OBVIOUS
  <2>2. Lanes = [queue |-> queue, recalls |-> recalls, bytes |-> bytes] /\ bytes \in Nat /\ bytes <= MaxBytes
    BY <1>1, Bounds DEF Lanes
  <2> QED BY <1>1, <2>1, <2>2 DEF GoodLanes
<1>3. Ahead(Lanes, es, 0)
  <2>1. 0 + 1..Len(es) = 1..Len(es) OBVIOUS
  <2> QED BY <2>1 DEF Ahead, Lanes
<1> DEFINE l == Admitted(es)
<1>4. GoodLanes(l, es) BY <1>2, <1>3, AdmittedGood
<1>5. queue' = l.queue /\ recalls' = l.recalls /\ bytes' = l.bytes BY DEF Enqueue
<1> HIDE DEF l
<1>6. Held' = Held BY DEF Held, Load
<1> QED BY <1>4, <1>5, <1>6, Bounds DEF GoodLanes

\* The admission of events that came after what is queued.
LEMMA EnqueueKeeps ==
  ASSUME Reader, Queued, Items, NEW es \in Seq(Arrivals), Increasing(es), Enqueue(es),
         UNCHANGED item, authed \subseteq authed', arrived' \in Nat, arrived <= arrived', preauth' = <<>>,
         \A i \in 1..Len(queue), j \in 1..Len(es) : queue[i].id < es[j].id,
         \A i \in 1..Len(es) : es[i].session \in authed' /\ es[i].id <= arrived' /\ es[i] \in Event
                               /\ (es[i] \in Present \/ es[i].id > arrived)
  PROVE  Queued' /\ \A n \in Nat : Below(n) => Below(n)'
<1>1. queue \in Seq(MessageEvents) /\ recalls \in Seq(RecallEvents) /\ Increasing(queue)
  BY QueuedTypes DEF Queued
<1>2. item \in [Workers -> Event \cup {None}] BY DEF Items
<1>3. /\ queue' \in Seq(MessageEvents) /\ Len(queue') <= QueueSize
      /\ recalls' \in Seq(RecallEvents) /\ Len(recalls') <= QueueSize
      /\ Increasing(queue') /\ bytes' \in 0..MaxBytes /\ bytes' = Total(queue') + Held'
      /\ ToSet(queue') \subseteq ToSet(queue) \cup ToSet(es)
      /\ ToSet(recalls') \subseteq ToSet(recalls) \cup ToSet(es)
  BY <1>2, EnqueueGrows
<1>4. GoodLanes(Lanes, <<>>)' BY <1>3, QueuedIf
<1>5. \A i \in 1..Len(queue') : \/ \E j \in 1..Len(queue) : queue'[i] = queue[j]
                                \/ \E j \in 1..Len(es) : queue'[i] = es[j]
  <2>1. /\ ToSet(queue') = {queue'[i] : i \in 1..Len(queue')}
        /\ ToSet(queue) = {queue[i] : i \in 1..Len(queue)} /\ ToSet(es) = {es[i] : i \in 1..Len(es)}
    BY <1>1, <1>3, PlacesOf
  <2> QED BY <1>3, <2>1
<1>6. \A i \in 1..Len(recalls') : \/ \E j \in 1..Len(recalls) : recalls'[i] = recalls[j]
                                  \/ \E j \in 1..Len(es) : recalls'[i] = es[j]
  <2>1. /\ ToSet(recalls') = {recalls'[i] : i \in 1..Len(recalls')}
        /\ ToSet(recalls) = {recalls[i] : i \in 1..Len(recalls)} /\ ToSet(es) = {es[i] : i \in 1..Len(es)}
    BY <1>1, <1>3, PlacesOf
  <2> QED BY <1>3, <2>1
<1>7. \A i \in 1..Len(queue') : queue'[i].id \in Nat BY <1>3, EventType DEF MessageEvents
<1>8. \A i \in 1..Len(queue') : queue'[i].session \in authed' /\ queue'[i].id <= arrived'
  <2> TAKE i \in 1..Len(queue')
  <2>1. ASSUME NEW j \in 1..Len(queue), queue'[i] = queue[j]
        PROVE queue'[i].session \in authed' /\ queue'[i].id <= arrived'
    <3>1. queue[j].session \in authed /\ queue[j].id <= arrived /\ queue[j].id \in Nat /\ arrived \in Nat
      BY <1>7, <2>1, Bounds DEF Queued, Reader
    <3> QED BY <2>1, <3>1
  <2> QED BY <1>5, <2>1
<1>9. \A i \in 1..Len(recalls') : recalls'[i].session \in authed' BY <1>6 DEF Queued
<1>10. \A i \in 1..Len(preauth') : FALSE OBVIOUS
<1>11. Queued' BY <1>4, <1>8, <1>9, <1>10 DEF Queued
<1>12. ASSUME NEW n \in Nat, Below(n) PROVE Below(n)'
  <2>1. arrived \in Nat BY Bounds DEF Reader
  <2>2. \A i \in 1..Len(queue') : queue'[i] \in Present \/ queue'[i].id > arrived
    BY <1>5 DEF Present
  <2> QED BY <1>7, <1>10, <1>12, <2>1, <2>2, BelowStays
<1> QED BY <1>11, <1>12

\* The lanes stay as they are, and the buffer loses its events or gets a new one.
LEMMA LanesSame ==
  ASSUME Reader, Queued, UNCHANGED <<laneVars, item>>, authed' = authed,
         arrived' \in Nat, arrived <= arrived',
         \A j \in 1..Len(preauth') : /\ preauth'[j].id \in Nat
                                     /\ preauth'[j] \in {preauth[i] : i \in 1..Len(preauth)}
                                        \/ preauth'[j].id > arrived
  PROVE  Queued' /\ \A n \in Nat : Below(n) => Below(n)'
<1>1. /\ queue \in Seq(MessageEvents) /\ arrived \in Nat
      /\ \A i \in 1..Len(queue) : queue[i].id \in Nat /\ queue[i] \in Present
  BY QueuedTypes, EventType, Bounds DEF Queued, Reader, MessageEvents, Present
<1>2. Held' = Held BY DEF Held, Load
<1>3. GoodLanes(Lanes, <<>>)'
  <2>1. GoodLanes(Lanes, <<>>) BY DEF Queued
  <2> QED BY <1>2, <2>1, QueuedTypes, QueuedIf
<1>4. \A i \in 1..Len(queue) : queue[i].session \in authed /\ queue[i].id <= arrived BY DEF Queued
<1>5. \A i \in 1..Len(queue) : queue[i].id <= arrived' BY <1>1, <1>4
<1>6. \A i \in 1..Len(queue), j \in 1..Len(preauth') : queue[i].id < preauth'[j].id
  <2> TAKE i \in 1..Len(queue), j \in 1..Len(preauth')
  <2>1. CASE preauth'[j].id > arrived BY <1>1, <1>4, <2>1
  <2>2. CASE preauth'[j] \in {preauth[k] : k \in 1..Len(preauth)} BY <2>2 DEF Queued
  <2> QED BY <2>1, <2>2
<1>7. Queued' BY <1>3, <1>4, <1>5, <1>6 DEF Queued
<1>8. \A j \in 1..Len(preauth') : preauth'[j] \in Present \/ preauth'[j].id > arrived
  BY DEF Present
<1>9. ASSUME NEW n \in Nat, Below(n) PROVE Below(n)' BY <1>1, <1>8, <1>9, BelowStays
<1> QED BY <1>7, <1>9

\* An event arrives: _enqueue when the account is known, else the buffer.
LEMMA ArriveKeeps ==
  ASSUME LanesInv, NEW e \in Arrivals, e.id = arrived + 1, e.session = session,
         NEW wire \in Nat, Arrive(e, wire)
  PROVE  LanesInv'
<1> USE DEF LanesInv
<1>1. /\ arrived' = arrived + 1 /\ arrived \in Nat /\ arrived' \in 0..MaxEvents /\ arrived' \in Nat
      /\ arrived <= arrived' /\ link # "off" /\ session # 0
      /\ UNCHANGED <<lifeVars, link, session, authed, workVars>>
  BY Bounds DEF Arrive, Reader
<1>2. e \in Event /\ e.id \in Nat /\ e.id > arrived BY <1>1, EventType
<1>3. CASE link = "on" /\ Enqueue(<<e>>) /\ UNCHANGED <<preauth, preBytes>>
  <2> DEFINE es == <<e>>
  <2>1. es \in Seq(Arrivals) /\ Len(es) = 1 /\ es[1] = e OBVIOUS
  <2> HIDE DEF es
  <2>2. Increasing(es) BY <2>1 DEF Increasing
  <2>3. preauth' = <<>> /\ session \in authed BY <1>3 DEF Reader
  <2>4. \A i \in 1..Len(queue), j \in 1..Len(es) : queue[i].id < es[j].id
    <3>1. \A i \in 1..Len(queue) : queue[i].id <= arrived /\ queue[i].id \in Nat
      BY QueuedTypes, EventType DEF Queued, MessageEvents
    <3> QED BY <1>1, <1>2, <2>1, <3>1
  <2>5. \A i \in 1..Len(es) : /\ es[i].session \in authed' /\ es[i].id <= arrived' /\ es[i] \in Event
                              /\ (es[i] \in Present \/ es[i].id > arrived)
    BY <1>1, <1>2, <2>1, <2>3
  <2>6. Enqueue(es) BY <1>3 DEF es
  <2>7. Queued' /\ \A n \in Nat : Below(n) => Below(n)'
    BY <1>1, <2>1, <2>2, <2>3, <2>4, <2>5, <2>6, EnqueueKeeps
  <2>8. Items' /\ LockInv' BY <1>1, <2>7, WorkSame
  <2>9. Reader' BY <1>1, <1>3, <2>3, Bounds DEF Reader
  <2>10. LifeTypes' BY <1>1 DEF LifeTypes
  <2> QED BY <2>7, <2>8, <2>9, <2>10
<1>4. CASE \/ /\ link = "preauth" /\ Len(preauth) < QueueSize /\ preBytes + wire <= MaxBytes
              /\ preauth' = Append(preauth, e) /\ preBytes' = preBytes + wire
              /\ UNCHANGED laneVars
           \/ link = "preauth" /\ UNCHANGED <<preauth, preBytes, laneVars>>
  <2>1. /\ preauth \in Seq(Arrivals) /\ Len(preauth) \in Nat /\ Len(preauth) <= QueueSize
        /\ preBytes \in 0..MaxBytes /\ Increasing(preauth)
        /\ \A i \in 1..Len(preauth) : preauth[i] \in Event /\ preauth[i].id \in Nat
    BY EventType DEF Reader
  <2>2. /\ preauth' \in Seq(Arrivals) /\ Len(preauth') <= QueueSize /\ preBytes' \in 0..MaxBytes
        /\ \A j \in 1..Len(preauth') :
             \/ j \in 1..Len(preauth) /\ preauth'[j] = preauth[j]
             \/ preauth'[j] = e
    <3>1. CASE UNCHANGED <<preauth, preBytes>> BY <2>1, <3>1
    <3>2. CASE /\ Len(preauth) < QueueSize /\ preBytes + wire <= MaxBytes
               /\ preauth' = Append(preauth, e) /\ preBytes' = preBytes + wire
      <4>1. /\ preauth' \in Seq(Arrivals) /\ Len(preauth') = Len(preauth) + 1
            /\ \A j \in 1..Len(preauth') :
                 \/ j \in 1..Len(preauth) /\ preauth'[j] = preauth[j]
                 \/ preauth'[j] = e
        BY <2>1, <3>2
      <4> QED BY <2>1, <3>2, <4>1, Bounds
    <3> QED BY <1>4, <3>1, <3>2
  <2>3. Increasing(preauth')
    <3>1. \A i \in 1..Len(preauth) : preauth[i].id < e.id
      BY <1>1, <1>2, <2>1 DEF Reader
    <3>2. preauth \in Seq(Event) BY <2>1, EventType
    <3> QED BY <1>2, <1>4, <2>1, <3>1, <3>2, IncreasingAppend
  <2>4. \A j \in 1..Len(preauth') : /\ preauth'[j].id \in Nat
                                    /\ preauth'[j] \in {preauth[i] : i \in 1..Len(preauth)}
                                       \/ preauth'[j].id > arrived
    BY <1>2, <2>1, <2>2
  <2>5. Queued' /\ \A n \in Nat : Below(n) => Below(n)'
    BY <1>1, <1>4, <2>4, LanesSame
  <2>6. Items' /\ LockInv' BY <1>1, <2>5, WorkSame
  <2>7. \A j \in 1..Len(preauth') : preauth'[j].session = session /\ preauth'[j].id <= arrived'
    BY <1>1, <1>2, <2>1, <2>2 DEF Reader
  <2>8. Reader' BY <1>1, <1>4, <2>2, <2>3, <2>7 DEF Reader
  <2>9. LifeTypes' BY <1>1 DEF LifeTypes
  <2> QED BY <2>5, <2>6, <2>8, <2>9
<1> QED BY <1>3, <1>4 DEF Arrive, Receive

\* The buffer goes, the lanes and the workers stay.
LEMMA BufferDropped ==
  ASSUME LanesInv, UNCHANGED <<authed, arrived, laneVars, workVars>>, LifeTypes',
         preauth' = <<>>, preBytes' = 0, link' \in {"off", "preauth"},
         session' \in 0..MaxSessions, session <= session', link' # "off" => session' # 0
  PROVE  LanesInv'
<1> USE DEF LanesInv
<1>1. \A j \in 1..Len(preauth') : FALSE OBVIOUS
<1>2. arrived' = arrived /\ arrived \in Nat /\ arrived <= arrived' BY Bounds DEF Reader
<1>3. Queued' /\ \A n \in Nat : Below(n) => Below(n)' BY <1>1, <1>2, LanesSame
<1>4. Items' /\ LockInv' BY <1>3, WorkSame
<1>5. Reader'
  <2>1. preauth' \in Seq(Arrivals) /\ Len(preauth') <= QueueSize /\ preBytes' \in 0..MaxBytes
    BY Bounds
  <2>2. authed' \subseteq 1..session' BY Bounds DEF Reader
  <2>3. Increasing(preauth') BY <1>1 DEF Increasing
  <2> QED BY <1>1, <2>1, <2>2, <2>3 DEF Reader
<1> QED BY <1>3, <1>4, <1>5

\* The account is the configured one.
LEMMA LoginKeeps == ASSUME LanesInv, LoginAccepted PROVE LanesInv'
<1> USE DEF LanesInv
<1>1. /\ link = "preauth" /\ link' = "on" /\ authed' = authed \cup {session} /\ first' = TRUE
      /\ Enqueue(preauth) /\ preauth' = <<>>
      /\ UNCHANGED <<phase, running, starts, alive, session, arrived, preBytes, workVars>>
  BY DEF LoginAccepted
<1>2. /\ preauth \in Seq(Arrivals) /\ Increasing(preauth) /\ arrived \in Nat /\ session # 0
      /\ session \in 1..session /\ authed \subseteq 1..session
  BY <1>1, Bounds DEF Reader
<1>3. \A i \in 1..Len(preauth) : /\ preauth[i].session \in authed' /\ preauth[i].id <= arrived'
                                 /\ preauth[i] \in Event
                                 /\ (preauth[i] \in Present \/ preauth[i].id > arrived)
  BY <1>1, <1>2, EventType DEF Reader, Present
<1>4. \A i \in 1..Len(queue), j \in 1..Len(preauth) : queue[i].id < preauth[j].id
  BY DEF Queued
<1>5. arrived' \in Nat /\ arrived <= arrived' /\ authed \subseteq authed' BY <1>1, <1>2
<1>6. Queued' /\ \A n \in Nat : Below(n) => Below(n)'
  BY <1>1, <1>2, <1>3, <1>4, <1>5, EnqueueKeeps
<1>7. Items' /\ LockInv' BY <1>1, <1>5, <1>6, WorkSame
<1>8. Reader'
  <2>1. \A j \in 1..Len(preauth') : FALSE BY <1>1
  <2>2. preauth' \in Seq(Arrivals) /\ Len(preauth') <= QueueSize BY <1>1, Bounds
  <2>3. Increasing(preauth') BY <2>1 DEF Increasing
  <2> QED BY <1>1, <1>2, <2>1, <2>2, <2>3 DEF Reader
<1>9. LifeTypes' BY <1>1 DEF LifeTypes
<1> QED BY <1>6, <1>7, <1>8, <1>9

-----------------------------------------------------------------------------
(* The workers *)

\* The workers that have a message of a chat are counted.
LEMMA TakenFinite ==
  ASSUME NEW T \in SUBSET Workers
  PROVE  IsFiniteSet(T) /\ Cardinality(T) \in 0..Cardinality(Workers)
<1>1. IsFiniteSet(T) /\ Cardinality(T) <= Cardinality(Workers) BY Bounds, FS_Subset
<1>2. Cardinality(T) \in Nat BY <1>1, FS_CardinalityType
<1> QED BY <1>1, <1>2, Bounds

\* The head of the queue leaves it.
LEMMA HeadTaken ==
  ASSUME Reader, Queued, queue # <<>>, queue' = Tail(queue), UNCHANGED linkVars, NEW e, e = Head(queue)
  PROVE  /\ e = queue[1] /\ 1 \in 1..Len(queue) /\ e \in MessageEvents /\ e \in Event
         /\ e.session \in authed /\ e.id \in Nat /\ Later(e.id)
         /\ \A n \in Nat : Below(n) => Later(n)
         /\ queue' \in Seq(MessageEvents) /\ Len(queue') <= QueueSize /\ Increasing(queue')
         /\ Total(queue) = e.size + Total(queue')
         /\ \A i \in 1..Len(queue') :
              /\ queue'[i].session \in authed /\ queue'[i].id <= arrived
              /\ \A j \in 1..Len(preauth) : queue'[i].id < preauth[j].id
<1>1. /\ queue \in Seq(MessageEvents) /\ queue \in Seq(Event) /\ Len(queue) <= QueueSize
      /\ Increasing(queue) /\ Len(queue) \in Nat
  BY QueuedTypes DEF Queued
<1>2. /\ e = queue[1] /\ 1 \in 1..Len(queue) /\ e \in MessageEvents /\ e \in Event
      /\ queue' \in Seq(MessageEvents) /\ Len(queue') = Len(queue) - 1
      /\ \A i \in 1..Len(queue') : queue'[i] = queue[i + 1] /\ i + 1 \in 1..Len(queue) /\ 1 < i + 1
  BY <1>1
<1>3. e.id \in Nat /\ e.session \in authed /\ e.id <= arrived
      /\ \A j \in 1..Len(preauth) : e.id < preauth[j].id
  BY <1>2, EventType DEF Queued
<1>4. \A i \in 1..Len(queue') : e.id < queue'[i].id BY <1>1, <1>2 DEF Increasing
<1>5. Total(queue) = e.size + Total(queue') BY <1>1, TotalTail
<1>6. Later(e.id) BY <1>3, <1>4 DEF Later
<1>7. ASSUME NEW n \in Nat, Below(n) PROVE Later(n)
  <2>1. \A i \in 1..Len(queue') : n < queue'[i].id BY <1>2, <1>7 DEF Below
  <2> QED BY <1>7, <2>1 DEF Below, Later
<1>8. Increasing(queue')
  <2> SUFFICES ASSUME NEW i \in 1..Len(queue'), NEW j \in 1..Len(queue'), i < j
               PROVE  queue'[i].id < queue'[j].id
    BY DEF Increasing
  <2>1. i + 1 < j + 1 BY <1>1, <1>2
  <2> QED BY <1>1, <1>2, <2>1 DEF Increasing
<1>9. Len(queue') <= QueueSize BY <1>1, <1>2, Bounds
<1>10. \A i \in 1..Len(queue') :
         /\ queue'[i].session \in authed /\ queue'[i].id <= arrived
         /\ \A j \in 1..Len(preauth) : queue'[i].id < preauth[j].id
  BY <1>2 DEF Queued
<1> QED BY <1>2, <1>3, <1>5, <1>6, <1>7, <1>8, <1>9, <1>10

\* An event worker takes a message and asks for the lock of its chat.
LEMMA TakeKeeps == ASSUME LanesInv, NEW w \in Workers, Take(w) PROVE LanesInv'
<1> USE DEF LanesInv
<1>a. PICK e : e = Head(queue) OBVIOUS
<1>b. PICK c : c = e.chat OBVIOUS
<1>c. PICK l : l = IF table[c].count > 0 THEN table[c].lock ELSE e.id OBVIOUS
<1>1. /\ w[2] > 0 /\ item[w] = None /\ queue # <<>> /\ queue' = Tail(queue)
      /\ item' = [item EXCEPT ![w] = e]
      /\ table' = [table EXCEPT ![c] = [lock |-> l, count |-> @.count + 1]]
      /\ lockOf' = [lockOf EXCEPT ![w] = l]
      /\ line' = [line EXCEPT ![l] = Append(@, w)]
      /\ UNCHANGED <<lifeVars, linkVars, recalls, bytes, handling>>
  BY <1>a, <1>b, <1>c DEF Take, Acquire
<1>2. /\ e = queue[1] /\ 1 \in 1..Len(queue) /\ e \in MessageEvents /\ e \in Event
      /\ e.session \in authed /\ e.id \in Nat /\ Later(e.id)
      /\ \A n \in Nat : Below(n) => Later(n)
      /\ queue' \in Seq(MessageEvents) /\ Len(queue') <= QueueSize /\ Increasing(queue')
      /\ Total(queue) = e.size + Total(queue')
      /\ \A i \in 1..Len(queue') :
           /\ queue'[i].session \in authed /\ queue'[i].id <= arrived
           /\ \A j \in 1..Len(preauth) : queue'[i].id < preauth[j].id
  BY <1>a, <1>1, HeadTaken
<1>3. c \in Chats /\ e # None /\ e.size \in Nat /\ e.id \in Locks BY <1>b, <1>2, EventType DEF Locks
<1>4. \A n : Below(n) => n < e.id BY <1>2 DEF Below
<1>5. /\ item \in [Workers -> Event \cup {None}] /\ handling \subseteq Workers /\ w \notin handling
      /\ table \in [Chats -> [lock : Locks \cup {0}, count : 0..Cardinality(Workers)]]
      /\ lockOf \in [Workers -> Locks \cup {0}] /\ line \in [Locks -> Seq(Workers)]
      /\ lockOf[w] = 0 /\ 0 \notin Locks
  BY <1>1 DEF Items, LockInv, LockTypes, LockNames, Locks
<1>6. /\ item' \in [Workers -> Event \cup {None}] /\ item'[w] = e
      /\ \A v \in Workers \ {w} : item'[v] = item[v]
  BY <1>1, <1>2, <1>5
<1>7. l \in Locks /\ Later(l) /\ l \in Nat
  <2>1. CASE table[c].count > 0
    <3>1. table[c].lock \in Locks /\ Below(table[c].lock) BY <1>3, <2>1 DEF LockInv, LockNames
    <3>2. table[c].lock \in Nat BY <3>1, Bounds DEF Locks
    <3> QED BY <1>c, <1>2, <2>1, <3>1, <3>2
  <2>2. CASE ~(table[c].count > 0) BY <1>c, <1>2, <1>3, <2>2
  <2> QED BY <2>1, <2>2
<1>8. \A d \in Chats \ {c} : table[d].count > 0 => table[d].lock # l
  <2> TAKE d \in Chats \ {c}
  <2>1. CASE table[c].count > 0 BY <1>c, <1>3, <2>1 DEF LockInv, LockNames
  <2>2. CASE ~(table[c].count > 0)
    <3>1. table[d].count > 0 => table[d].lock < e.id BY <1>4 DEF LockInv, LockNames
    <3>2. l = e.id BY <1>c, <2>2
    <3> QED BY <1>2, <3>1, <3>2
  <2> QED BY <2>1, <2>2
<1>9. \A v \in Taken(c) : lockOf[v] = l
  <2>1. \A v \in Taken(c) : lockOf[v] = table[c].lock /\ table[c].count = Cardinality(Taken(c))
    BY <1>3 DEF LockInv, LockTypes, LocksInUse
  <2>2. Taken(c) \subseteq Workers BY DEF Taken
  <2>3. \A v \in Taken(c) : table[c].count > 0
    <3>1. IsFiniteSet(Taken(c)) /\ Cardinality(Taken(c)) \in Nat BY <2>2, TakenFinite, Bounds
    <3>2. Taken(c) # {} => Cardinality(Taken(c)) # 0 BY <3>1, FS_EmptySet
    <3> QED BY <2>1, <3>1, <3>2
  <2> QED BY <1>c, <2>1, <2>3
<1>10. /\ table'[c].lock = l /\ table'[c].count = table[c].count + 1
       /\ \A d \in Chats \ {c} : table'[d] = table[d]
       /\ lockOf'[w] = l /\ \A v \in Workers \ {w} : lockOf'[v] = lockOf[v]
       /\ lockOf' \in [Workers -> Locks \cup {0}]
       /\ line' \in [Locks -> Seq(Workers)]
       /\ line'[l] = Append(line[l], w) /\ \A k \in Locks \ {l} : line'[k] = line[k]
  BY <1>1, <1>3, <1>5, <1>7
<1>11. Taken(c)' = Taken(c) \cup {w} /\ w \notin Taken(c)
       /\ \A d \in Chats \ {c} : Taken(d)' = Taken(d)
  <2>1. \A v \in Workers : item'[v] = IF v = w THEN e ELSE item[v] BY <1>6
  <2> QED BY <1>b, <1>1, <1>3, <2>1 DEF Taken
<1>12. LockTypes'
  <2>1. table'[c].count = Cardinality(Taken(c)')
    <3>1. Taken(c) \in SUBSET Workers BY DEF Taken
    <3>2. IsFiniteSet(Taken(c)) BY <3>1, TakenFinite
    <3>3. Cardinality(Taken(c) \cup {w}) = Cardinality(Taken(c)) + 1 BY <1>11, <3>2, FS_AddElement
    <3>4. table[c].count = Cardinality(Taken(c)) BY <1>3 DEF LockInv, LockTypes, LocksInUse
    <3> QED BY <1>10, <1>11, <3>3, <3>4
  <2>2. \A d \in Chats : table'[d].count = Cardinality(Taken(d)')
    <3> TAKE d \in Chats
    <3>1. CASE d = c BY <2>1, <3>1
    <3>2. CASE d # c
      <4>1. Taken(d)' = Taken(d) /\ table'[d] = table[d] BY <1>10, <1>11, <3>2
      <4>2. table[d].count = Cardinality(Taken(d)) BY DEF LockInv, LockTypes, LocksInUse
      <4> QED BY <4>1, <4>2
    <3> QED BY <3>1, <3>2
  <2>3. \A d \in Chats : \A v \in Taken(d)' : lockOf'[v] = table'[d].lock
    <3> TAKE d \in Chats
    <3>1. CASE d = c BY <1>9, <1>10, <1>11, <3>1 DEF Taken
    <3>2. CASE d # c
      <4>1. w \notin Taken(d) BY <1>1 DEF Taken
      <4>2. \A v \in Taken(d) : v \in Workers \ {w} BY <4>1 DEF Taken
      <4> QED BY <1>10, <1>11, <3>2, <4>2 DEF LockInv, LockTypes, LocksInUse
    <3> QED BY <3>1, <3>2
  <2>4. table' \in [Chats -> [lock : Locks \cup {0}, count : 0..Cardinality(Workers)]]
    <3>1. Taken(c)' \in SUBSET Workers BY DEF Taken
    <3>2. table'[c].count \in 0..Cardinality(Workers) BY <2>1, <3>1, TakenFinite
    <3>3. [lock |-> l, count |-> table[c].count + 1] \in [lock : Locks \cup {0}, count : 0..Cardinality(Workers)]
      BY <1>7, <1>10, <3>2
    <3> QED BY <1>1, <1>3, <1>5, <3>3
  <2> QED BY <1>10, <2>2, <2>3, <2>4 DEF LockTypes, LocksInUse
<1>13. LockNames'
  <2>1. \A d \in Chats : table'[d].count > 0 => table'[d].lock \in Locks /\ Later(table'[d].lock)
    <3> TAKE d \in Chats
    <3>1. CASE d = c BY <1>7, <1>10, <3>1
    <3>2. CASE d # c
      <4>1. table[d].count > 0 => table[d].lock \in Locks /\ Below(table[d].lock)
        BY DEF LockInv, LockNames
      <4>2. \A k \in Locks : k \in Nat BY Bounds DEF Locks
      <4> QED BY <1>2, <1>10, <3>2, <4>1, <4>2
    <3> QED BY <3>1, <3>2
  <2>2. \A d, b \in Chats : d # b /\ table'[d].count > 0 /\ table'[b].count > 0 =>
          table'[d].lock # table'[b].lock
    BY <1>8, <1>10 DEF LockInv, LockNames
  <2>3. \A v \in Workers : lockOf'[v] # 0 <=> item'[v] # None /\ v[2] > 0
    <3> TAKE v \in Workers
    <3>1. CASE v = w BY <1>1, <1>3, <1>5, <1>6, <1>7, <1>10, <3>1
    <3>2. CASE v # w BY <1>6, <1>10, <3>2 DEF LockInv, LockNames
    <3> QED BY <3>1, <3>2
  <2> QED BY <2>1, <2>2, <2>3 DEF LockNames, Later, Below
<1>14. \A v \in Workers : lockOf[v] # 0 => item[v].id < e.id
  <2> SUFFICES ASSUME NEW v \in Workers, lockOf[v] # 0 PROVE item[v].id < e.id OBVIOUS
  <2>1. item[v] # None /\ v[2] > 0 BY DEF LockInv, LockNames
  <2>2. v[2] # 0 BY <2>1
  <2> QED BY <1>4, <2>1, <2>2 DEF Items
<1>15. Lines'
  <2>1. ASSUME NEW k \in Locks PROVE ToSet(line'[k]) = {v \in Workers : lockOf'[v] = k}
    <3>1. ToSet(line[k]) = {v \in Workers : lockOf[v] = k} BY DEF LockInv, Lines
    <3>2. CASE k = l
      <4>1. ToSet(line'[k]) = ToSet(line[k]) \cup {w}
        <5>1. line[k] \in Seq(Workers) BY <1>5
        <5>2. ToSet(Append(line[k], w)) = ToSet(line[k]) \cup {w} BY <5>1, AppendSet
        <5>3. line'[k] = Append(line[k], w) BY <1>10, <3>2
        <5> QED BY <5>2, <5>3
      <4> QED BY <1>10, <3>1, <3>2, <4>1
    <3>3. CASE k # l
      <4>1. lockOf[w] # k /\ lockOf'[w] # k BY <1>5, <1>10, <3>3
      <4> QED BY <1>10, <3>1, <3>3, <4>1
    <3> QED BY <3>2, <3>3
  <2>2. ASSUME NEW k \in Locks, NEW i \in 1..Len(line'[k]), NEW j \in 1..Len(line'[k]), i < j
        PROVE  item'[line'[k][i]].id < item'[line'[k][j]].id
    <3>1. /\ line[k] \in Seq(Workers) /\ Len(line[k]) \in Nat
          /\ \A b \in 1..Len(line[k]) : line[k][b] \in Workers /\ lockOf[line[k][b]] = k
      <4>1. ToSet(line[k]) = {v \in Workers : lockOf[v] = k} BY DEF LockInv, Lines
      <4>2. line[k] \in Seq(Workers) BY <1>5
      <4>3. ToSet(line[k]) = {line[k][b] : b \in 1..Len(line[k])} BY <4>2, PlacesOf
      <4> QED BY <4>1, <4>2, <4>3
    <3>2. \A b \in 1..Len(line[k]) : item'[line[k][b]] = item[line[k][b]]
                                     /\ item[line[k][b]].id < e.id
      <4>1. k # 0 BY <1>5
      <4> QED BY <1>5, <1>6, <1>14, <3>1, <4>1
    <3>3. \A a, b \in 1..Len(line[k]) : a < b => item[line[k][a]].id < item[line[k][b]].id
      BY DEF LockInv, Lines
    <3>4. CASE k = l
      <4>1. /\ Len(line'[k]) = Len(line[k]) + 1 /\ line'[k][Len(line[k]) + 1] = w
            /\ \A b \in 1..Len(line[k]) : line'[k][b] = line[k][b]
        BY <1>10, <3>1, <3>4
      <4>2. i \in 1..Len(line[k]) BY <2>2, <3>1, <4>1
      <4>3. CASE j = Len(line[k]) + 1 BY <1>6, <3>2, <4>1, <4>2, <4>3
      <4>4. CASE j \in 1..Len(line[k]) BY <2>2, <3>2, <3>3, <4>1, <4>2, <4>4
      <4> QED BY <3>1, <4>1, <4>3, <4>4
    <3>5. CASE k # l BY <1>10, <2>2, <3>2, <3>3, <3>5
    <3> QED BY <3>4, <3>5
  <2>3. ASSUME NEW u \in handling, u[2] > 0, NEW v \in Workers \ {u}, lockOf'[v] = lockOf'[u]
        PROVE  item'[u].id < item'[v].id
    <3>1. u \in Workers \ {w} /\ item'[u] = item[u] /\ lockOf'[u] = lockOf[u] BY <1>5, <1>6, <1>10
    <3>2. CASE v = w
      <4>1. lockOf[u] # 0 BY <2>3, <3>1 DEF Items, LockInv, LockNames
      <4> QED BY <1>6, <1>14, <3>1, <3>2, <4>1
    <3>3. CASE v # w
      <4>1. lockOf[v] = lockOf[u] /\ item'[v] = item[v] BY <1>6, <1>10, <2>3, <3>1, <3>3
      <4> QED BY <2>3, <3>1, <4>1 DEF LockInv, Lines
    <3> QED BY <3>2, <3>3
  <2>4. handling' = handling BY <1>1
  <2> QED BY <2>1, <2>2, <2>3, <2>4 DEF Lines
<1>16. Items'
  <2>1. authed' = authed /\ handling' = handling BY <1>1
  <2>2. \A v \in Workers : item[v] # None => item[v].id \in Nat BY <1>5, EventType
  <2>3. ASSUME NEW v \in Workers, item'[v] # None
        PROVE  /\ item'[v].session \in authed
               /\ v[2] = 0 => item'[v] \in RecallEvents
               /\ v[2] # 0 => item'[v] \in MessageEvents /\ Later(item'[v].id)
    <3>1. CASE v = w
      <4>1. v[2] # 0 BY <1>1, <3>1
      <4> QED BY <1>2, <1>6, <3>1, <4>1
    <3>2. CASE v # w BY <1>2, <1>6, <2>2, <2>3, <3>2 DEF Items
    <3> QED BY <3>1, <3>2
  <2>4. \A v \in handling : item'[v] # None BY <1>5, <1>6 DEF Items
  <2> QED BY <1>5, <1>6, <2>1, <2>3, <2>4 DEF Items, Later, Below
<1>17. Queued'
  <2>1. /\ recalls \in Seq(RecallEvents) /\ Len(recalls) <= QueueSize
        /\ bytes \in 0..MaxBytes /\ bytes = Total(queue) + Held
    BY QueuedTypes DEF Queued
  <2>2. Held' + 0 = Held + e.size
    <3>1. Held' + Load(w) = Held + Load(w)' BY <1>5, <1>6, HeldUpdate
    <3>2. Load(w) = 0 /\ Load(w)' = e.size BY <1>1, <1>3, <1>6 DEF Load
    <3> QED BY <3>1, <3>2
  <2>3. Held \in Nat /\ Held' \in Nat /\ Total(queue') \in Nat
    <3>1. queue' \in Seq(Event) BY <1>2 DEF MessageEvents
    <3>2. Held \in Nat BY <1>5, HeldType
    <3>3. Held' \in Nat BY <1>5, <1>6, HeldUpdate
    <3> QED BY <3>1, <3>2, <3>3, TotalType
  <2>4. bytes' = Total(queue') + Held' BY <1>1, <1>2, <1>3, <2>1, <2>2, <2>3
  <2>5. GoodLanes(Lanes, <<>>)' BY <1>1, <1>2, <2>1, <2>4, QueuedIf
  <2> QED BY <1>1, <1>2, <2>5 DEF Queued
<1>18. LifeTypes' /\ Reader' BY <1>1 DEF LifeTypes, Reader
<1> QED BY <1>12, <1>13, <1>15, <1>16, <1>17, <1>18 DEF LockInv

\* Two elements of what is kept stand in the order of the line they come from.
LEMMA KeptPair ==
  ASSUME NEW X, NEW s \in Seq(X), NEW S,
         NEW i \in 1..Len(Kept(s, S)), NEW j \in 1..Len(Kept(s, S)), i < j
  PROVE  \E a, b \in 1..Len(s) : a < b /\ Kept(s, S)[i] = s[a] /\ Kept(s, S)[j] = s[b]
BY KeptFacts

\* The same of a line that has a name.
LEMMA KeptOrder ==
  ASSUME NEW X, NEW s \in Seq(X), NEW S, NEW t, t = Kept(s, S),
         NEW i \in 1..Len(t), NEW j \in 1..Len(t), i < j
  PROVE  \E a, b \in 1..Len(s) : a < b /\ t[i] = s[a] /\ t[j] = s[b]
<1>1. i \in 1..Len(Kept(s, S)) /\ j \in 1..Len(Kept(s, S)) OBVIOUS
<1> QED BY <1>1, KeptPair

\* A worker is done with its message, or is cancelled in its hands.
LEMMA ReleaseKeeps ==
  ASSUME LanesInv, NEW w \in Workers, w[2] > 0, item[w] # None, Release(w),
         UNCHANGED <<linkVars, queue, recalls>>, LifeTypes'
  PROVE  LanesInv'
<1> USE DEF LanesInv
<1>a. PICK e : e = item[w] OBVIOUS
<1>b. PICK c : c = e.chat OBVIOUS
<1>c. PICK l : l = lockOf[w] OBVIOUS
<1>1. /\ table' = [table EXCEPT ![c] = IF @.count = 1 THEN [lock |-> 0, count |-> 0]
                                                      ELSE [lock |-> @.lock, count |-> @.count - 1]]
      /\ line' = [line EXCEPT ![l] = Kept(@, Workers \ {w})]
      /\ item' = [item EXCEPT ![w] = None] /\ handling' = handling \ {w}
      /\ lockOf' = [lockOf EXCEPT ![w] = 0] /\ bytes' = bytes - e.size
  BY <1>a, <1>b, <1>c DEF Release
<1>2. /\ item \in [Workers -> Event \cup {None}] /\ handling \subseteq Workers
      /\ table \in [Chats -> [lock : Locks \cup {0}, count : 0..Cardinality(Workers)]]
      /\ lockOf \in [Workers -> Locks \cup {0}] /\ line \in [Locks -> Seq(Workers)]
      /\ 0 \notin Locks /\ w[2] # 0
  BY DEF Items, LockInv, LockTypes, Locks
<1>3. e \in MessageEvents /\ e \in Event /\ e.size \in Nat /\ c \in Chats
  BY <1>a, <1>b, <1>2, EventType DEF Items
<1>4. l \in Locks BY <1>c, <1>2 DEF LockInv, LockNames
<1>5. /\ item' \in [Workers -> Event \cup {None}] /\ item'[w] = None
      /\ \A v \in Workers \ {w} : item'[v] = item[v]
      /\ lockOf' \in [Workers -> Locks \cup {0}] /\ lockOf'[w] = 0
      /\ \A v \in Workers \ {w} : lockOf'[v] = lockOf[v]
      /\ \A d \in Chats \ {c} : table'[d] = table[d]
      /\ \A k \in Locks \ {l} : line'[k] = line[k]
      /\ line'[l] = Kept(line[l], Workers \ {w})
  BY <1>1, <1>2, <1>3, <1>4
<1>6. w \in Taken(c) /\ Taken(c)' = Taken(c) \ {w}
      /\ \A d \in Chats \ {c} : Taken(d)' = Taken(d) /\ w \notin Taken(d)
  <2>1. w \in Taken(c) BY <1>a, <1>b DEF Taken
  <2>2. \A v \in Workers : item'[v] = IF v = w THEN None ELSE item[v] BY <1>5
  <2>3. \A d \in Chats \ {c} : w \notin Taken(d) BY <1>a, <1>b DEF Taken
  <2>4. \A d \in Chats : Taken(d)' = Taken(d) \ {w} BY <2>2 DEF Taken
  <2> QED BY <1>3, <2>1, <2>3, <2>4
<1>7. /\ table[c].count = Cardinality(Taken(c)) /\ table[c].count \in Nat \ {0}
      /\ Cardinality(Taken(c) \ {w}) = table[c].count - 1
      /\ (table[c].count = 1 => Taken(c) \ {w} = {})
  <2>1. Taken(c) \in SUBSET Workers /\ Taken(c) \ {w} \in SUBSET Workers BY DEF Taken
  <2>2. IsFiniteSet(Taken(c)) /\ IsFiniteSet(Taken(c) \ {w}) BY <2>1, TakenFinite
  <2>3. table[c].count = Cardinality(Taken(c)) BY <1>3 DEF LockInv, LockTypes, LocksInUse
  <2>4. Cardinality(Taken(c) \ {w}) = Cardinality(Taken(c)) - 1
    BY <1>6, <2>2, FS_RemoveElement
  <2>5. Cardinality(Taken(c)) \in Nat /\ Cardinality(Taken(c)) # 0
    BY <1>6, <2>2, FS_CardinalityType, FS_EmptySet
  <2>6. Cardinality(Taken(c)) = 1 => Cardinality(Taken(c) \ {w}) = 0 BY <2>4
  <2> QED BY <2>2, <2>3, <2>4, <2>5, <2>6, FS_EmptySet
<1>8. /\ table'[c].count = table[c].count - 1
      /\ table'[c].count > 0 => table'[c].lock = table[c].lock
      /\ table'[c].lock \in Locks \cup {0}
      /\ table' \in [Chats -> [lock : Locks \cup {0}, count : 0..Cardinality(Workers)]]
  <2>1. table[c] \in [lock : Locks \cup {0}, count : 0..Cardinality(Workers)] BY <1>2, <1>3
  <2>2. CASE table[c].count = 1
    <3>1. table'[c] = [lock |-> 0, count |-> 0] BY <1>1, <1>2, <1>3, <2>2
    <3>2. [lock |-> 0, count |-> 0] \in [lock : Locks \cup {0}, count : 0..Cardinality(Workers)]
      BY Bounds
    <3> QED BY <1>1, <1>2, <1>3, <2>2, <3>1, <3>2
  <2>3. CASE table[c].count # 1
    <3>1. table'[c] = [lock |-> table[c].lock, count |-> table[c].count - 1]
      BY <1>1, <1>2, <1>3, <2>3
    <3>2. table'[c].count = table[c].count - 1 /\ table'[c].lock = table[c].lock BY <2>1, <3>1
    <3>3. table[c].count - 1 \in 0..Cardinality(Workers)
      <4>1. table[c].count \in 0..Cardinality(Workers) BY <2>1
      <4> QED BY <1>7, <4>1, Bounds
    <3>4. table'[c] \in [lock : Locks \cup {0}, count : 0..Cardinality(Workers)]
      BY <2>1, <3>1, <3>3
    <3> QED BY <1>1, <1>2, <1>3, <2>1, <3>2, <3>4
  <2> QED BY <2>2, <2>3
<1>9. /\ line'[l] \in Seq(Workers) /\ line' \in [Locks -> Seq(Workers)]
      /\ ToSet(line'[l]) = ToSet(line[l]) \ {w}
      /\ \A i, j \in 1..Len(line'[l]) : i < j =>
           \E a, b \in 1..Len(line[l]) : a < b /\ line'[l][i] = line[l][a] /\ line'[l][j] = line[l][b]
  <2>a. PICK s : s = line[l] OBVIOUS
  <2>b. PICK t : t = Kept(s, Workers \ {w}) OBVIOUS
  <2>1. s \in Seq(Workers) BY <1>2, <1>4, <2>a
  <2>2. t \in Seq(Workers) /\ ToSet(t) = ToSet(s) \cap (Workers \ {w}) BY <2>1, <2>b, KeptFacts
  <2>8. ASSUME NEW i \in 1..Len(t), NEW j \in 1..Len(t), i < j
        PROVE  \E a, b \in 1..Len(s) : a < b /\ t[i] = s[a] /\ t[j] = s[b]
    BY <2>1, <2>8, <2>b, KeptOrder
  <2>3. ToSet(s) \subseteq Workers BY <2>1, PlacesOf
  <2>4. ToSet(t) = ToSet(s) \ {w} BY <2>2, <2>3
  <2>5. line'[l] = t BY <1>5, <2>a, <2>b
  <2>6. line' = [line EXCEPT ![l] = t] BY <1>1, <2>a, <2>b
  <2>7. line' \in [Locks -> Seq(Workers)] BY <1>2, <2>2, <2>6
  <2> QED BY <2>2, <2>4, <2>5, <2>7, <2>8, <2>a
<1>10. LockTypes'
  <2>1. \A d \in Chats : table'[d].count = Cardinality(Taken(d)')
    <3> TAKE d \in Chats
    <3>1. CASE d = c
      <4>1. Cardinality(Taken(c)') = Cardinality(Taken(c) \ {w}) BY <1>6
      <4> QED BY <1>7, <1>8, <3>1, <4>1
    <3>2. CASE d # c
      <4>1. Taken(d)' = Taken(d) /\ table'[d] = table[d] BY <1>5, <1>6, <3>2
      <4>2. table[d].count = Cardinality(Taken(d)) BY DEF LockInv, LockTypes, LocksInUse
      <4> QED BY <4>1, <4>2
    <3> QED BY <3>1, <3>2
  <2>2. \A d \in Chats : \A v \in Taken(d)' : lockOf'[v] = table'[d].lock
    <3> TAKE d \in Chats
    <3>1. \A v \in Taken(d) : lockOf[v] = table[d].lock /\ v \in Workers
      BY DEF LockInv, LockTypes, LocksInUse, Taken
    <3>2. CASE d = c
      <4>1. \A v \in Taken(c)' : v \in Taken(c) /\ v # w /\ table'[c].count > 0
        BY <1>6, <1>7, <1>8
      <4> QED BY <1>5, <1>8, <3>1, <3>2, <4>1
    <3>3. CASE d # c BY <1>5, <1>6, <3>1, <3>3
    <3> QED BY <3>2, <3>3
  <2> QED BY <1>5, <1>8, <1>9, <2>1, <2>2 DEF LockTypes, LocksInUse
<1>11. \A n : Below(n) => Later(n)
  BY DEF Below, Later
<1>12. LockNames'
  <2>1. \A d \in Chats : table'[d].count > 0 => table[d].count > 0 /\ table'[d].lock = table[d].lock
    BY <1>5, <1>7, <1>8
  <2>2. \A d \in Chats : table'[d].count > 0 => table'[d].lock \in Locks /\ Later(table'[d].lock)
    BY <1>11, <2>1 DEF LockInv, LockNames
  <2>3. \A d, b \in Chats : d # b /\ table'[d].count > 0 /\ table'[b].count > 0 =>
          table'[d].lock # table'[b].lock
    BY <2>1 DEF LockInv, LockNames
  <2>4. \A v \in Workers : lockOf'[v] # 0 <=> item'[v] # None /\ v[2] > 0
    BY <1>5 DEF LockInv, LockNames
  <2> QED BY <2>2, <2>3, <2>4 DEF LockNames, Later, Below
<1>13. Lines'
  <2>1. ASSUME NEW k \in Locks PROVE ToSet(line'[k]) = {v \in Workers : lockOf'[v] = k}
    <3>1. ToSet(line[k]) = {v \in Workers : lockOf[v] = k} BY DEF LockInv, Lines
    <3>2. {v \in Workers : lockOf'[v] = k} = {v \in Workers : lockOf[v] = k} \ {w}
      <4>1. \A v \in Workers : lockOf'[v] = k <=> lockOf[v] = k /\ v # w BY <1>2, <1>5
      <4> QED BY <4>1
    <3>3. CASE k = l BY <1>9, <3>1, <3>2, <3>3
    <3>4. CASE k # l BY <1>c, <1>5, <3>1, <3>2, <3>4
    <3> QED BY <3>3, <3>4
  <2>2. \A k \in Locks : \A b \in 1..Len(line'[k]) : line'[k][b] \in Workers \ {w}
    <3> TAKE k \in Locks
    <3>1. line'[k] \in Seq(Workers) BY <1>9
    <3>2. \A b \in 1..Len(line'[k]) : line'[k][b] \in {v \in Workers : lockOf'[v] = k}
      BY <2>1, <3>1, PlacesOf
    <3> QED BY <1>2, <1>5, <3>2
  <2>3. ASSUME NEW k \in Locks, NEW i \in 1..Len(line'[k]), NEW j \in 1..Len(line'[k]), i < j
        PROVE  item'[line'[k][i]].id < item'[line'[k][j]].id
    <3>1. /\ item'[line'[k][i]] = item[line'[k][i]] /\ item'[line'[k][j]] = item[line'[k][j]]
      BY <1>5, <2>2
    <3>2. CASE k = l
      <4>1. PICK a, b \in 1..Len(line[l]) : a < b /\ line'[l][i] = line[l][a] /\ line'[l][j] = line[l][b]
        BY <1>9, <2>3, <3>2
      <4>2. item[line[l][a]].id < item[line[l][b]].id BY <1>4, <4>1 DEF LockInv, Lines
      <4> QED BY <3>1, <3>2, <4>1, <4>2
    <3>3. CASE k # l BY <1>5, <2>3, <3>1, <3>3 DEF LockInv, Lines
    <3> QED BY <3>2, <3>3
  <2>4. ASSUME NEW u \in handling', u[2] > 0, NEW v \in Workers \ {u}, lockOf'[v] = lockOf'[u]
        PROVE  item'[u].id < item'[v].id
    <3>1. u \in handling /\ u \in Workers \ {w} BY <1>1, <1>2
    <3>2. lockOf'[u] # 0 /\ lockOf'[u] = lockOf[u] /\ item'[u] = item[u]
      BY <1>5, <2>4, <3>1 DEF Items, LockInv, LockNames
    <3>3. v # w /\ lockOf[v] = lockOf[u] /\ item'[v] = item[v] BY <1>5, <2>4, <3>2
    <3> QED BY <2>4, <3>1, <3>2, <3>3 DEF LockInv, Lines
  <2> QED BY <2>1, <2>3, <2>4 DEF Lines
<1>14. Items'
  <2>1. authed' = authed /\ handling' = handling \ {w} BY <1>1
  <2>2. ASSUME NEW v \in Workers, item'[v] # None
        PROVE  /\ item'[v].session \in authed
               /\ v[2] = 0 => item'[v] \in RecallEvents
               /\ v[2] # 0 => item'[v] \in MessageEvents /\ Later(item'[v].id)
    <3>1. v # w /\ item'[v] = item[v] BY <1>5, <2>2
    <3> QED BY <1>11, <2>2, <3>1 DEF Items
  <2>3. \A v \in handling' : item'[v] # None BY <1>2, <1>5, <2>1 DEF Items
  <2> QED BY <1>2, <1>5, <2>1, <2>2, <2>3 DEF Items, Later, Below
<1>15. Queued'
  <2>1. /\ queue \in Seq(MessageEvents) /\ queue \in Seq(Event) /\ Len(queue) <= QueueSize
        /\ recalls \in Seq(RecallEvents) /\ Len(recalls) <= QueueSize /\ Increasing(queue)
        /\ bytes \in 0..MaxBytes /\ bytes = Total(queue) + Held
    BY QueuedTypes DEF Queued
  <2>2. Held' + Load(w) = Held + Load(w)' /\ Held' \in Nat BY <1>2, <1>5, HeldUpdate
  <2>3. Load(w) = e.size /\ Load(w)' = 0 BY <1>a, <1>5 DEF Load
  <2>4. Held \in Nat /\ Total(queue) \in Nat BY <1>2, <2>1, HeldType, TotalType
  <2>5. bytes' = Total(queue) + Held' BY <1>1, <1>3, <2>1, <2>2, <2>3, <2>4
  <2>6. bytes' \in 0..MaxBytes BY <1>1, <1>3, <2>1, <2>2, <2>4, <2>5, Bounds
  <2>7. queue' = queue /\ recalls' = recalls OBVIOUS
  <2>8. GoodLanes(Lanes, <<>>)' BY <2>1, <2>5, <2>6, <2>7, QueuedIf
  <2> QED BY <2>7, <2>8 DEF Queued
<1>16. Reader' BY DEF Reader
<1> QED BY <1>10, <1>12, <1>13, <1>14, <1>15, <1>16 DEF LockInv
\* Start, stop and the end of an idle worker touch neither events nor locks.
LEMMA QuietKeeps ==
  ASSUME LanesInv, LifeTypes', UNCHANGED <<linkVars, laneVars, workVars>>
  PROVE  LanesInv'
<1> USE DEF LanesInv
<1>1. Reader' BY DEF Reader
<1>2. \A n \in Nat : Below(n) => Below(n)' BY DEF Below
<1>3. Held' = Held BY DEF Held, Load
<1>4. GoodLanes(Lanes, <<>>)' BY <1>3, QueuedTypes, QueuedIf DEF Queued
<1>5. Queued' BY <1>4 DEF Queued
<1>6. Items' /\ LockInv' BY <1>2, WorkSame
<1> QED BY <1>1, <1>5, <1>6

\* A worker enters the handler of its message.
LEMMA BeginKeeps == ASSUME LanesInv, NEW w \in Workers, Begin(w) PROVE LanesInv'
<1> USE DEF LanesInv
<1>1. /\ w[2] > 0 /\ item[w] # None /\ w \notin handling /\ Head(line[lockOf[w]]) = w
      /\ handling' = handling \cup {w}
      /\ UNCHANGED <<lifeVars, linkVars, laneVars, item, table, lockOf, line>>
  BY DEF Begin
<1>2. LifeTypes' /\ Reader' BY <1>1 DEF LifeTypes, Reader
<1>3. Queued' /\ \A n \in Nat : Below(n) => Below(n)'
  <2>1. Held' = Held BY <1>1 DEF Held, Load
  <2>2. GoodLanes(Lanes, <<>>)' BY <1>1, <2>1, QueuedTypes, QueuedIf DEF Queued
  <2> QED BY <1>1, <2>2 DEF Queued, Below
<1>4. Items'
  <2>1. \A v \in Workers : item[v] # None => item[v].id \in Nat BY EventType DEF Items
  <2> QED BY <1>1, <1>3, <2>1 DEF Items
<1>5. LockTypes' BY <1>1 DEF LockInv, LockTypes, LocksInUse, Taken
<1>6. LockNames'
  <2>1. \A l \in Locks : l \in Nat BY Bounds DEF Locks
  <2> QED BY <1>1, <1>3, <2>1 DEF LockInv, LockNames
<1>7. PICK l \in Locks : l = lockOf[w]
  BY <1>1 DEF LockInv, LockTypes, LockNames
<1>8. ASSUME NEW v \in Workers \ {w}, lockOf[v] = l PROVE item[w].id < item[v].id
  <2>1. line[l] \in Seq(Workers) /\ ToSet(line[l]) = {u \in Workers : lockOf[u] = l}
    BY DEF LockInv, LockTypes, Lines
  <2>2. ToSet(line[l]) = {line[l][i] : i \in 1..Len(line[l])} BY <2>1, PlacesOf
  <2>3. PICK j \in 1..Len(line[l]) : line[l][j] = v BY <1>8, <2>1, <2>2
  <2>4. line[l][1] = w /\ 1 \in 1..Len(line[l]) /\ 1 < j
    <3>1. Len(line[l]) \in Nat /\ line[l] # <<>> BY <2>1, <2>3
    <3>2. Head(line[l]) = line[l][1] /\ 1 \in 1..Len(line[l]) BY <2>1, <2>3, <3>1
    <3>3. line[l][1] = w BY <1>1, <1>7, <3>2
    <3>4. j # 1 BY <1>8, <2>3, <3>3
    <3> QED BY <3>1, <3>2, <3>3, <3>4
  <2> QED BY <2>3, <2>4 DEF LockInv, Lines
<1>9. Lines'
  <2>1. ASSUME NEW u \in handling', u[2] > 0, NEW v \in Workers \ {u}, lockOf[v] = lockOf[u]
        PROVE  item[u].id < item[v].id
    <3>1. CASE u = w BY <1>7, <1>8, <2>1, <3>1
    <3>2. CASE u # w BY <1>1, <2>1, <3>2 DEF LockInv, Lines
    <3> QED BY <3>1, <3>2
  <2> QED BY <1>1, <2>1 DEF LockInv, Lines
<1> QED BY <1>2, <1>3, <1>4, <1>5, <1>6, <1>9 DEF LockInv

\* The recall worker takes a recall, is done with it or is cancelled.
LEMMA RecallKeeps ==
  ASSUME LanesInv, NEW w \in Workers, w[2] = 0, LifeTypes',
         NEW x, x = None \/ (x \in RecallEvents /\ x.session \in authed),
         item' = [item EXCEPT ![w] = x],
         handling' \in SUBSET Workers, handling' \ {w} = handling \ {w}, w \in handling' => x # None,
         recalls' \in Seq(RecallEvents), Len(recalls') <= QueueSize,
         \A i \in 1..Len(recalls') : recalls'[i].session \in authed,
         UNCHANGED <<linkVars, queue, bytes, table, lockOf, line>>
  PROVE  LanesInv'
<1> USE DEF LanesInv
<1>1. /\ item \in [Workers -> Event \cup {None}] /\ handling \subseteq Workers
      /\ (x = None \/ (x \in Event /\ x.size = 0)) /\ lockOf[w] = 0 /\ ~(w[2] > 0)
      /\ lockOf \in [Workers -> Locks \cup {0}] /\ 0 \notin Locks
  <2>1. lockOf[w] = 0 BY DEF LockInv, LockNames
  <2> QED BY <2>1, EventType DEF Items, LockInv, LockTypes, Locks, Arrivals
<1>2. /\ item' \in [Workers -> Event \cup {None}] /\ item'[w] = x
      /\ \A v \in Workers \ {w} : item'[v] = item[v]
  BY <1>1
<1>3. Reader' BY DEF Reader
<1>4. Held' = Held
  <2>1. Held' + Load(w) = Held + Load(w)' /\ Held' \in Nat BY <1>1, <1>2, HeldUpdate
  <2>2. Load(w) = 0 BY EventType DEF Items, Load
  <2>3. Load(w)' = 0 BY <1>1, <1>2 DEF Load
  <2>4. Held \in Nat BY <1>1, HeldType
  <2> QED BY <2>1, <2>2, <2>3, <2>4
<1>5. Queued'
  <2>1. GoodLanes(Lanes, <<>>)' BY <1>4, QueuedTypes, QueuedIf DEF Queued
  <2> QED BY <2>1 DEF Queued
<1>6. \A n : Below(n) => Later(n) BY DEF Below, Later
<1>7. Items'
  <2>1. ASSUME NEW v \in Workers, item'[v] # None
        PROVE  /\ item'[v].session \in authed
               /\ v[2] = 0 => item'[v] \in RecallEvents
               /\ v[2] # 0 => item'[v] \in MessageEvents /\ Later(item'[v].id)
    <3>1. CASE v = w BY <1>2, <2>1, <3>1
    <3>2. CASE v # w BY <1>2, <1>6, <2>1, <3>2 DEF Items
    <3> QED BY <3>1, <3>2
  <2>2. \A v \in handling' : item'[v] # None
    <3> TAKE v \in handling'
    <3>1. CASE v = w BY <1>2, <3>1
    <3>2. CASE v # w BY <1>2, <3>2 DEF Items
    <3> QED BY <3>1, <3>2
  <2> QED BY <1>2, <2>1, <2>2 DEF Items, Later, Below
<1>8. LockTypes'
  <2>1. \A d \in Chats : Taken(d)' = Taken(d) BY <1>1, <1>2 DEF Taken
  <2> QED BY <2>1 DEF LockInv, LockTypes, LocksInUse
<1>9. LockNames'
  <2>1. \A v \in Workers : lockOf'[v] # 0 <=> item'[v] # None /\ v[2] > 0
    BY <1>1, <1>2 DEF LockInv, LockNames
  <2>2. \A c \in Chats : table'[c].count > 0 => table'[c].lock \in Locks /\ Later(table'[c].lock)
    BY <1>6 DEF LockInv, LockNames
  <2> QED BY <2>1, <2>2 DEF LockInv, LockNames, Later, Below
<1>10. Lines'
  <2>1. ASSUME NEW k \in Locks, NEW i \in 1..Len(line[k]), NEW j \in 1..Len(line[k]), i < j
        PROVE  item'[line[k][i]].id < item'[line[k][j]].id
    <3>1. line[k] \in Seq(Workers) /\ ToSet(line[k]) = {v \in Workers : lockOf[v] = k}
      BY DEF LockInv, LockTypes, Lines
    <3>2. ToSet(line[k]) = {line[k][b] : b \in 1..Len(line[k])} BY <3>1, PlacesOf
    <3>3. \A b \in 1..Len(line[k]) : line[k][b] \in Workers \ {w} BY <1>1, <3>1, <3>2
    <3> QED BY <1>2, <2>1, <3>3 DEF LockInv, Lines
  <2>2. ASSUME NEW u \in handling', u[2] > 0, NEW v \in Workers \ {u}, lockOf[v] = lockOf[u]
        PROVE  item'[u].id < item'[v].id
    <3>1. u # w /\ u \in handling BY <1>1, <2>2
    <3>2. lockOf[u] # 0 BY <2>2, <3>1 DEF Items, LockInv, LockNames
    <3>3. v # w BY <1>1, <2>2, <3>2
    <3> QED BY <1>1, <1>2, <2>2, <3>1, <3>3 DEF LockInv, Lines
  <2> QED BY <2>1, <2>2 DEF LockInv, Lines
<1> QED BY <1>3, <1>5, <1>7, <1>8, <1>9, <1>10 DEF LockInv

\* A step of one worker.
LEMMA WorkerKeeps == ASSUME LanesInv, NEW w \in Workers, WorkerStep(w) PROVE LanesInv'
<1> USE DEF LanesInv
<1>0. w[2] \in Nat
  <2>1. w[2] \in 0..EventWorkers BY DEF Workers
  <2> QED BY <2>1, Bounds
<1>1. CASE Take(w) BY <1>1, TakeKeeps
<1>2. CASE Begin(w) BY <1>2, BeginKeeps
<1>3. CASE Done(w)
  <2>1. /\ w[2] > 0 /\ w \in handling /\ Release(w) /\ UNCHANGED <<lifeVars, linkVars, queue, recalls>>
    BY <1>3 DEF Done
  <2>2. item[w] # None BY <2>1 DEF Items
  <2>3. LifeTypes' BY <2>1 DEF LifeTypes
  <2> QED BY <2>1, <2>2, <2>3, ReleaseKeeps
<1>4. CASE TakeRecall(w)
  <2>a. PICK x : x = Head(recalls) OBVIOUS
  <2>1. /\ w[2] = 0 /\ recalls # <<>> /\ item' = [item EXCEPT ![w] = x]
        /\ handling' = handling \cup {w} /\ recalls' = Tail(recalls)
        /\ UNCHANGED <<lifeVars, linkVars, queue, bytes, table, lockOf, line>>
    BY <1>4, <2>a DEF TakeRecall
  <2>2. /\ recalls \in Seq(RecallEvents) /\ Len(recalls) <= QueueSize /\ Len(recalls) \in Nat
        /\ \A i \in 1..Len(recalls) : recalls[i].session \in authed
    BY QueuedTypes DEF Queued
  <2>3. /\ x = recalls[1] /\ 1 \in 1..Len(recalls) /\ x \in RecallEvents
        /\ recalls' \in Seq(RecallEvents) /\ Len(recalls') = Len(recalls) - 1
        /\ \A i \in 1..Len(recalls') : recalls'[i] = recalls[i + 1] /\ i + 1 \in 1..Len(recalls)
    BY <2>1, <2>2, <2>a
  <2>4. x \in Event /\ x # None BY <2>3, EventType DEF Arrivals
  <2>5. handling' \in SUBSET Workers /\ handling' \ {w} = handling \ {w} BY <2>1 DEF Items
  <2>6. Len(recalls') <= QueueSize BY <2>2, <2>3, Bounds
  <2>7. \A i \in 1..Len(recalls') : recalls'[i].session \in authed BY <2>2, <2>3
  <2>8. LifeTypes' BY <2>1 DEF LifeTypes
  <2> QED BY <2>1, <2>2, <2>3, <2>4, <2>5, <2>6, <2>7, <2>8, RecallKeeps
<1>5. ASSUME w[2] = 0, LifeTypes', item' = [item EXCEPT ![w] = None], handling' = handling \ {w},
             UNCHANGED <<linkVars, queue, recalls, bytes, table, lockOf, line>>
      PROVE  LanesInv'
  <2>1. /\ recalls \in Seq(RecallEvents) /\ Len(recalls) <= QueueSize
        /\ \A i \in 1..Len(recalls) : recalls[i].session \in authed
    BY QueuedTypes DEF Queued
  <2>2. handling' \in SUBSET Workers /\ handling' \ {w} = handling \ {w} /\ w \notin handling'
    BY <1>5 DEF Items
  <2>3. PICK x : x = None OBVIOUS
  <2> QED BY <1>5, <2>1, <2>2, <2>3, RecallKeeps
<1>6. CASE RecallDone(w)
  <2>1. LifeTypes' BY <1>6 DEF LifeTypes, RecallDone
  <2> QED BY <1>5, <1>6, <2>1 DEF RecallDone
<1>7. CASE WorkerEnds(w)
  <2>1. alive' = alive \ {w} /\ UNCHANGED <<phase, running, first, starts, linkVars, queue, recalls>>
    BY <1>7 DEF WorkerEnds
  <2>2. LifeTypes' BY <2>1 DEF LifeTypes
  <2>3. CASE item[w] = None /\ UNCHANGED <<bytes, workVars>>
    BY <2>1, <2>2, <2>3, QuietKeeps
  <2>4. CASE item[w] # None /\ w[2] > 0 /\ Release(w) BY <2>1, <2>2, <2>4, ReleaseKeeps
  <2>5. CASE /\ item[w] # None /\ w[2] = 0
             /\ item' = [item EXCEPT ![w] = None] /\ handling' = handling \ {w}
             /\ UNCHANGED <<bytes, table, lockOf, line>>
    BY <1>5, <2>1, <2>2, <2>5
  <2> QED BY <1>7, <2>3, <2>4, <2>5 DEF WorkerEnds
<1> QED BY <1>1, <1>2, <1>3, <1>4, <1>6, <1>7 DEF WorkerStep
-----------------------------------------------------------------------------
(* Lifecycle *)

\* stop() gives back the bytes of what was never taken.
LEMMA StopEndsKeeps == ASSUME LanesInv, StopEnds PROVE LanesInv'
<1> USE DEF LanesInv
<1>1. /\ queue' = <<>> /\ recalls' = <<>> /\ bytes' = bytes - Total(queue) /\ phase' = "down"
      /\ UNCHANGED <<running, first, starts, alive, linkVars, workVars>>
  BY DEF StopEnds, Drain
<1>2. LifeTypes' /\ Reader' BY <1>1 DEF LifeTypes, Reader
<1>3. Len(queue') = 0 /\ Len(recalls') = 0 /\ \A i \in 1..0 : FALSE BY <1>1
<1>4. \A n \in Nat : Below(n) => Below(n)' BY <1>1, <1>3 DEF Below
<1>5. /\ queue \in Seq(Event) /\ bytes \in 0..MaxBytes /\ bytes = Total(queue) + Held
      /\ item \in [Workers -> Event \cup {None}]
  BY QueuedTypes DEF Queued, Items
<1>6. Held' = Held /\ Held \in Nat /\ Total(queue) \in Nat
  <2>1. Held' = Held BY <1>1 DEF Held, Load
  <2> QED BY <1>5, <2>1, HeldType, TotalType
<1>7. bytes' = Total(queue') + Held' /\ bytes' \in 0..MaxBytes
  <2>1. Total(queue') = 0 BY <1>1, TotalEmpty
  <2> QED BY <1>1, <1>5, <1>6, <2>1, Bounds
<1>8. Increasing(queue') BY <1>3 DEF Increasing
<1>9. GoodLanes(Lanes, <<>>)'
  <2>1. queue' \in Seq(MessageEvents) /\ recalls' \in Seq(RecallEvents) BY <1>1
  <2>2. Len(queue') <= QueueSize /\ Len(recalls') <= QueueSize BY <1>3, Bounds
  <2> QED BY <1>7, <1>8, <2>1, <2>2, QueuedIf
<1>10. Queued' BY <1>3, <1>9 DEF Queued
<1>11. Items' /\ LockInv' BY <1>1, <1>4, WorkSame
<1> QED BY <1>2, <1>10, <1>11

\* The events of the reader.
LEMMA ReaderKeeps == ASSUME LanesInv, ReaderStep PROVE LanesInv'
<1> USE DEF LanesInv
<1>0. /\ Sizes \subseteq Nat /\ arrived \in Nat /\ session \in 0..MaxSessions
      /\ MaxEvents \in Nat /\ MaxSessions \in Nat
  BY LanesAssumption, Bounds DEF Reader
<1>1. ASSUME NEW chat \in Chats, NEW size \in Sizes, NEW wire \in Sizes,
             ArriveMessage(chat, size, wire)
      PROVE  LanesInv'
  <2>a. PICK e : e = NextEvent("message", chat, size) OBVIOUS
  <2>1. Arrive(e, wire) BY <1>1, <2>a DEF ArriveMessage
  <2>2. e = [id |-> arrived + 1, session |-> session, lane |-> "message", chat |-> chat, size |-> size]
    BY <2>a DEF NextEvent
  <2>3. arrived + 1 \in 1..MaxEvents /\ session \in 1..MaxSessions
    BY <1>0, <2>1 DEF Arrive, Reader
  <2>4. e \in Arrivals /\ e.id = arrived + 1 /\ e.session = session
    BY <2>2, <2>3 DEF Arrivals, MessageEvents, Event
  <2>5. wire \in Nat BY <1>0
  <2> QED BY <2>1, <2>4, <2>5, ArriveKeeps
<1>2. ASSUME NEW wire \in Sizes, ArriveRecall(wire) PROVE LanesInv'
  <2>a. PICK e : e = NextEvent("recall", None, 0) OBVIOUS
  <2>1. Arrive(e, wire) BY <1>2, <2>a DEF ArriveRecall
  <2>2. e = [id |-> arrived + 1, session |-> session, lane |-> "recall", chat |-> None, size |-> 0]
    BY <2>a DEF NextEvent
  <2>3. arrived + 1 \in 1..MaxEvents /\ session \in 1..MaxSessions
    BY <1>0, <2>1 DEF Arrive, Reader
  <2>4. e \in Arrivals /\ e.id = arrived + 1 /\ e.session = session
    BY <2>2, <2>3 DEF Arrivals, RecallEvents, Event
  <2>5. wire \in Nat BY <1>0
  <2> QED BY <2>1, <2>4, <2>5, ArriveKeeps
<1>3. CASE Attach
  <2>1. /\ session < MaxSessions /\ link' = "preauth" /\ session' = session + 1
        /\ preauth' = <<>> /\ preBytes' = 0
        /\ UNCHANGED <<lifeVars, authed, arrived, laneVars, workVars>>
    BY <1>3 DEF Attach
  <2>2. LifeTypes' BY <2>1 DEF LifeTypes
  <2>3. session' \in 0..MaxSessions /\ session <= session' /\ session' # 0 BY <1>0, <2>1
  <2> QED BY <2>1, <2>2, <2>3, BufferDropped
<1>4. CASE LoginAccepted BY <1>4, LoginKeeps
<1>5. CASE Detach
  <2>1. /\ link' = "off" /\ preauth' = <<>> /\ preBytes' = 0
        /\ UNCHANGED <<lifeVars, session, authed, arrived, laneVars, workVars>>
    BY <1>5 DEF Detach
  <2>2. LifeTypes' BY <2>1 DEF LifeTypes
  <2>3. session' \in 0..MaxSessions /\ session <= session' BY <1>0, <2>1
  <2> QED BY <2>1, <2>2, <2>3, BufferDropped
<1>6. CASE IdentityMismatch
  <2>1. /\ link' = "off" /\ preauth' = <<>> /\ preBytes' = 0 /\ running' = (running /\ ~Forward)
        /\ UNCHANGED <<phase, first, starts, alive, session, authed, arrived, laneVars, workVars>>
    BY <1>6 DEF IdentityMismatch
  <2>2. running' \in BOOLEAN BY <2>1
  <2>3. LifeTypes' BY <2>1, <2>2 DEF LifeTypes
  <2>4. session' \in 0..MaxSessions /\ session <= session' BY <1>0, <2>1
  <2> QED BY <2>1, <2>3, <2>4, BufferDropped
<1> QED BY <1>1, <1>2, <1>3, <1>4, <1>5, <1>6 DEF ReaderStep

\* Nothing is queued, taken or locked at first.
LEMMA LanesInit == Init => LanesInv
<1> SUFFICES ASSUME Init PROVE LanesInv OBVIOUS
<1> USE DEF Init
<1>1. LifeTypes
  <2>1. 0 \in 0..MaxStarts BY Bounds
  <2>2. {running, first} \subseteq BOOLEAN /\ alive \subseteq Workers OBVIOUS
  <2> QED BY <2>1, <2>2 DEF LifeTypes
<1>2. \A i \in 1..Len(<<>>) : FALSE OBVIOUS
<1>3. Reader
  <2>1. preauth \in Seq(Arrivals) /\ Len(preauth) = 0 OBVIOUS
  <2>2. Increasing(preauth) BY <1>2 DEF Increasing
  <2>3. authed \subseteq 1..session OBVIOUS
  <2> QED BY <1>2, <2>1, <2>2, <2>3, Bounds DEF Reader
<1>4. item \in [Workers -> Event \cup {None}] /\ \A w \in Workers : item[w] = None OBVIOUS
<1>5. Held = 0
  <2> DEFINE f == [w \in Workers |-> Load(w)]
  <2>1. \A w \in Workers : f[w] = 0 BY <1>4 DEF Load
  <2>2. Held = SumFunctionOnSet(f, Workers) BY DEF Held, SumFunction
  <2> HIDE DEF f
  <2> QED BY <2>1, <2>2, Bounds, SumZero
<1>6. Queued
  <2>1. queue \in Seq(MessageEvents) /\ recalls \in Seq(RecallEvents) /\ Len(queue) = 0 /\ Len(recalls) = 0
    OBVIOUS
  <2>2. bytes = Total(queue) + Held /\ bytes \in 0..MaxBytes BY <1>5, TotalEmpty, Bounds
  <2>3. Increasing(queue) BY <1>2 DEF Increasing
  <2>4. GoodLanes(Lanes, <<>>)
    <3>1. Len(queue) <= QueueSize /\ Len(recalls) <= QueueSize BY <2>1, Bounds
    <3> QED BY <2>1, <2>2, <2>3, <3>1, QueuedIf
  <2> QED BY <1>2, <2>4 DEF Queued
<1>7. Items BY <1>4 DEF Items
<1>8. LockTypes
  <2>1. \A c \in Chats : table[c].lock = 0 /\ table[c].count = 0 OBVIOUS
  <2>2. \A c \in Chats : Taken(c) = {} BY <1>4 DEF Taken
  <2>3. LocksInUse BY <2>1, <2>2, FS_EmptySet DEF LocksInUse
  <2>4. [lock |-> 0, count |-> 0] \in [lock : Locks \cup {0}, count : 0..Cardinality(Workers)]
    BY Bounds
  <2>5. lockOf \in [Workers -> Locks \cup {0}] /\ line \in [Locks -> Seq(Workers)] OBVIOUS
  <2> QED BY <2>3, <2>4, <2>5 DEF LockTypes
<1>9. LockNames BY <1>4 DEF LockNames
<1>10. Lines
  <2>1. \A l \in Locks : line[l] = <<>> OBVIOUS
  <2>2. ToSet(<<>>) = {} BY DEF ToSet
  <2>3. \A l \in Locks : \A w \in Workers : lockOf[w] # l BY DEF Locks
  <2> QED BY <1>2, <2>1, <2>2, <2>3 DEF Lines
<1> QED BY <1>1, <1>3, <1>6, <1>7, <1>8, <1>9, <1>10 DEF LanesInv, LockInv

\* Every step keeps the invariant.
LEMMA LanesKept == LanesInv /\ [Next]_vars => LanesInv'
<1> SUFFICES ASSUME LanesInv, [Next]_vars PROVE LanesInv' OBVIOUS
<1>0. LifeTypes BY DEF LanesInv
<1>1. CASE ReaderStep BY <1>1, ReaderKeeps
<1>2. ASSUME NEW w \in Workers, WorkerStep(w) PROVE LanesInv' BY <1>2, WorkerKeeps
<1>3. CASE Start
  <2>1. /\ starts < MaxStarts /\ phase' = "up" /\ running' = TRUE /\ first' = ~Forward
        /\ starts' = starts + 1 /\ alive' = alive \cup ({starts + 1} \X (0..EventWorkers))
        /\ UNCHANGED <<linkVars, laneVars, workVars>>
    BY <1>3 DEF Start
  <2>2. starts' \in 0..MaxStarts /\ starts + 1 \in 1..MaxStarts BY <1>0, <2>1, Bounds DEF LifeTypes
  <2>3. alive' \subseteq Workers BY <1>0, <2>1, <2>2 DEF LifeTypes, Workers
  <2>4. {running', first'} \subseteq BOOLEAN BY <2>1
  <2>5. LifeTypes' BY <2>1, <2>2, <2>3, <2>4 DEF LifeTypes
  <2> QED BY <2>1, <2>5, QuietKeeps
<1>4. CASE StopBegins
  <2>1. LifeTypes' BY <1>0, <1>4 DEF LifeTypes, StopBegins
  <2> QED BY <1>4, <2>1, QuietKeeps DEF StopBegins
<1>5. CASE StopCancels
  <2>1. LifeTypes' BY <1>0, <1>5 DEF LifeTypes, StopCancels
  <2> QED BY <1>5, <2>1, QuietKeeps DEF StopCancels
<1>6. CASE StopEnds BY <1>6, StopEndsKeeps
<1>7. CASE UNCHANGED vars
  <2>1. LifeTypes' BY <1>0, <1>7 DEF LifeTypes, vars
  <2> QED BY <1>7, <2>1, QuietKeeps DEF vars
<1> QED BY <1>1, <1>2, <1>3, <1>4, <1>5, <1>6, <1>7 DEF Next

\* The invariant holds always.
LEMMA LanesAlways == Spec => []LanesInv
BY LanesInit, LanesKept, PTL DEF Spec

-----------------------------------------------------------------------------
(* Each chat is a queue *)

\* What waits and what is in the handler, as ChatFifo sees it.
Waiting == ToSet(queue) \cup Messages(Workers \ handling)
HandledNow == Messages(handling)

FifoStep == [Fifo!Next]_(Fifo!vars)

\* What the order of the events says of them: what is queued is decided, what is
\* buffered is not, and a message in the handler is the first of its chat.
InOrder ==
  /\ Decided \in Nat /\ Decided <= arrived /\ arrived \in Nat
  /\ \A e \in ToSet(queue) : e \in MessageEvents /\ e.id <= Decided
  /\ \A e, f \in ToSet(queue) : e.id = f.id => e = f
  /\ \A i \in 1..Len(preauth) : Decided < preauth[i].id /\ preauth[i].id <= arrived
  /\ \A w \in Workers : item[w] # None /\ w[2] > 0 => item[w] \in MessageEvents
  /\ \A e \in MessageEvents : e.id \in Nat
  /\ \A w \in handling : w \in Workers /\ item[w] # None
  /\ \A w \in handling : w[2] > 0 =>
       /\ \A v \in Workers \ {w} : v[2] > 0 /\ item[v] # None /\ item[v].chat = item[w].chat =>
            item[w].id < item[v].id
       /\ \A e \in ToSet(queue) : e.chat = item[w].chat => item[w].id < e.id

\* The invariant implies it.
LEMMA InvInOrder == LanesInv => InOrder
<1> SUFFICES ASSUME LanesInv PROVE InOrder OBVIOUS
<1> USE DEF LanesInv
<1>1. /\ arrived \in Nat /\ preauth \in Seq(Arrivals) /\ Len(preauth) \in Nat
      /\ \A i \in 1..Len(preauth) : preauth[i].id \in Nat /\ preauth[i].id <= arrived
  BY Bounds, EventType DEF Reader
<1>2. /\ queue \in Seq(MessageEvents) /\ Increasing(queue)
      /\ ToSet(queue) = {queue[i] : i \in 1..Len(queue)} /\ DOMAIN queue = 1..Len(queue)
      /\ Len(queue) \in Nat
  BY QueuedTypes, PlacesOf DEF Queued
<1>3. \A e \in MessageEvents : e.id \in 1..MaxEvents /\ e.id \in Nat /\ e.chat \in Chats
  BY EventType DEF MessageEvents
<1>4. /\ Decided \in Nat /\ Decided <= arrived
      /\ \A i \in 1..Len(preauth) : Decided < preauth[i].id
      /\ \A i \in 1..Len(queue) : queue[i].id <= Decided
  <2>0. \A i \in 1..Len(queue) : queue[i].id \in Nat /\ queue[i].id <= arrived BY <1>2, <1>3 DEF Queued
  <2>1. CASE preauth = <<>> BY <1>1, <2>0, <2>1 DEF Decided
  <2>2. CASE preauth # <<>>
    <3>1. 1 \in 1..Len(preauth) BY <1>1, <2>2
    <3>2. preauth[1].id \in Nat \ {0} /\ preauth[1].id <= arrived
      <4>1. preauth[1] \in Event BY <1>1, <3>1, EventType
      <4> QED BY <1>1, <3>1, <4>1, EventType
    <3>3. Decided = preauth[1].id - 1 BY <2>2 DEF Decided
    <3>4. \A i \in 1..Len(preauth) : preauth[1].id <= preauth[i].id
      BY <1>1, <3>1 DEF Reader, Increasing
    <3>5. \A i \in 1..Len(queue) : queue[i].id < preauth[1].id BY <3>1 DEF Queued
    <3> QED BY <1>1, <2>0, <3>2, <3>3, <3>4, <3>5
  <2> QED BY <2>1, <2>2
<1>5. \A e, f \in ToSet(queue) : e.id = f.id => e = f
  <2> SUFFICES ASSUME NEW i \in 1..Len(queue), NEW j \in 1..Len(queue), queue[i].id = queue[j].id
               PROVE  queue[i] = queue[j]
    BY <1>2
  <2>1. queue[i].id \in Nat BY <1>2, <1>3
  <2>2. ~(i < j) /\ ~(j < i) BY <1>2, <2>1 DEF Increasing
  <2> QED BY <1>2, <2>2
<1>6. \A w \in Workers : item[w] # None /\ w[2] > 0 => item[w] \in MessageEvents
  <2>1. \A w \in Workers : w[2] > 0 => w[2] # 0 OBVIOUS
  <2> QED BY <2>1 DEF Items
<1>7. \A w \in handling : w \in Workers /\ item[w] # None BY DEF Items
<1>8. ASSUME NEW w \in handling, w[2] > 0
      PROVE  /\ \A v \in Workers \ {w} : v[2] > 0 /\ item[v] # None /\ item[v].chat = item[w].chat =>
                  item[w].id < item[v].id
             /\ \A e \in ToSet(queue) : e.chat = item[w].chat => item[w].id < e.id
  <2>1. PICK chat \in Chats : chat = item[w].chat BY <1>3, <1>6, <1>7, <1>8
  <2>2. w \in Taken(chat) \cap handling BY <1>7, <1>8, <2>1 DEF Taken
  <2>3. InOrderPerChat BY Implied
  <2>4. /\ \A v \in Taken(chat) \ {w} : item[w].id < item[v].id
        /\ \A i \in DOMAIN queue : queue[i].chat = chat => item[w].id < queue[i].id
    BY <2>2, <2>3 DEF InOrderPerChat
  <2> QED BY <1>2, <2>1, <2>4 DEF Taken
<1>9. \A e \in ToSet(queue) : e \in MessageEvents /\ e.id <= Decided BY <1>2, <1>4
<1> QED BY <1>1, <1>3, <1>4, <1>5, <1>6, <1>7, <1>8, <1>9 DEF InOrder

\* Nothing that ChatFifo sees has changed.
LEMMA FifoStutters ==
  ASSUME Decided' = Decided, Waiting' = Waiting, HandledNow' = HandledNow
  PROVE  FifoStep
BY DEF FifoStep, Fifo!vars, Waiting, HandledNow

\* Events are decided, and those that are admitted are among them.
LEMMA FifoAccepts ==
  ASSUME InOrder, InOrder', UNCHANGED <<item, handling>>, Decided <= Decided',
         ToSet(queue) \subseteq ToSet(queue'),
         \A e \in ToSet(queue') \ ToSet(queue) : Decided < e.id
  PROVE  FifoStep
<1>1. Messages(Workers \ handling)' = Messages(Workers \ handling) /\ HandledNow' = HandledNow
  BY DEF Messages, HandledNow
<1>2. Waiting \subseteq Waiting' /\ Waiting' \ Waiting \subseteq ToSet(queue') \ ToSet(queue)
  BY <1>1 DEF Waiting
<1>3. \A e \in Waiting' \ Waiting : Decided < e.id /\ e.id <= Decided' BY <1>2 DEF InOrder
<1>4. \A e, f \in Waiting' \ Waiting : e.id = f.id => e = f BY <1>2 DEF InOrder
<1>5. Decided' \in Nat BY DEF InOrder
<1>6. Fifo!Accept BY <1>1, <1>2, <1>3, <1>4, <1>5 DEF Fifo!Accept, Waiting, HandledNow
<1> QED BY <1>6 DEF FifoStep, Fifo!Next

\* Messages that wait are lost.
LEMMA FifoLoses ==
  ASSUME Decided' = Decided, HandledNow' = HandledNow, Waiting' \subseteq Waiting
  PROVE  FifoStep
<1>1. Fifo!Lose BY DEF Fifo!Lose, Waiting, HandledNow
<1> QED BY <1>1 DEF FifoStep, Fifo!Next

\* A worker calls the handler.
LEMMA FifoBegins ==
  ASSUME InOrder', NEW w \in Workers, w[2] > 0, item[w] # None, w \notin handling,
         handling' = handling \cup {w}, UNCHANGED <<item, queue, preauth, arrived>>
  PROVE  FifoStep
<1>a. PICK e : e = item[w] OBVIOUS
<1>1. /\ e \in MessageEvents /\ e.id \in Nat /\ w \in handling'
      /\ \A v \in Workers \ {w} : v[2] > 0 /\ item[v] # None /\ item[v].chat = e.chat => e.id < item[v].id
      /\ \A f \in ToSet(queue) : f.chat = e.chat => e.id < f.id
      /\ \A v \in handling : v \in Workers \ {w} /\ item[v] # None
      /\ \A v \in Workers : v[2] > 0 /\ item[v] # None => item[v].id \in Nat
      /\ \A v \in handling : v[2] > 0 /\ item[v].chat = e.chat => item[v].id < e.id
  BY <1>a DEF InOrder
<1>2. Decided' = Decided BY DEF Decided
<1>3. HandledNow' = HandledNow \cup {e} BY <1>a, <1>1 DEF HandledNow, Messages
<1>4. e \in Messages(Workers \ handling) BY <1>a DEF Messages
<1>5. e \notin ToSet(queue) BY <1>1
<1>6. Messages(Workers \ handling)' = Messages(Workers \ handling) \ {e}
  <2>1. \A v \in Workers \ {w} : v[2] > 0 /\ item[v] # None => item[v] # e BY <1>1
  <2> QED BY <1>a, <2>1 DEF Messages
<1>7. e \in Waiting /\ Waiting' = Waiting \ {e} BY <1>4, <1>5, <1>6 DEF Waiting
<1>8. \A f \in Waiting : f.chat = e.chat => e.id <= f.id
  <2>1. ASSUME NEW v \in Workers \ handling, v[2] > 0, item[v] # None, item[v].chat = e.chat
        PROVE  e.id <= item[v].id
    BY <1>a, <1>1, <2>1
  <2>2. ASSUME NEW f \in ToSet(queue), f.chat = e.chat PROVE e.id <= f.id
    BY <1>1, <2>2 DEF InOrder
  <2> QED BY <2>1, <2>2 DEF Waiting, Messages
<1>9. \A f \in HandledNow : f.chat # e.chat
  <2>1. ASSUME NEW v \in handling, v[2] > 0, item[v].chat = e.chat PROVE FALSE BY <1>1, <2>1
  <2> QED BY <2>1 DEF HandledNow, Messages
<1>10. Fifo!Begin(e) BY <1>2, <1>3, <1>7, <1>8, <1>9 DEF Fifo!Begin, Waiting, HandledNow
<1> QED BY <1>7, <1>10 DEF FifoStep, Fifo!Next, Waiting

\* A worker leaves the handler, or gives up a message it has not begun.
LEMMA FifoEnds ==
  ASSUME InOrder, NEW w \in Workers, w[2] > 0, item[w] # None,
         item' = [item EXCEPT ![w] = None], handling' = handling \ {w},
         item \in [Workers -> Event \cup {None}], UNCHANGED <<queue, preauth, arrived>>
  PROVE  FifoStep
<1>a. PICK e : e = item[w] OBVIOUS
<1>1. Decided' = Decided BY DEF Decided
<1>2. item'[w] = None /\ \A v \in Workers \ {w} : item'[v] = item[v] OBVIOUS
<1>3. handling \subseteq Workers /\ e \in MessageEvents /\ e.id \in Nat BY <1>a DEF InOrder
<1>4. HandledNow' = Messages(handling \ {w})
  BY <1>2, <1>3 DEF HandledNow, Messages
<1>5. Messages(Workers \ handling)' = Messages((Workers \ handling) \ {w})
  BY <1>2, <1>3 DEF Messages
<1>6. CASE w \in handling
  <2>1. \A v \in handling \ {w} : v \in Workers \ {w} /\ (v[2] > 0 /\ item[v] # None => item[v] # e)
    <3> TAKE v \in handling \ {w}
    <3>1. v \in Workers \ {w} BY <1>3
    <3>2. v[2] > 0 /\ item[v] # None /\ item[v].chat = e.chat => e.id < item[v].id
      BY <1>a, <1>6, <3>1 DEF InOrder
    <3> QED BY <1>3, <3>1, <3>2
  <2>2. HandledNow' = HandledNow \ {e} BY <1>a, <1>4, <2>1 DEF HandledNow, Messages
  <2>3. e \in HandledNow BY <1>a, <1>6 DEF HandledNow, Messages
  <2>4. (Workers \ handling) \ {w} = Workers \ handling BY <1>6
  <2>5. Waiting' = Waiting BY <1>5, <2>4 DEF Waiting
  <2>6. Fifo!Finish(e) BY <1>1, <2>2, <2>5 DEF Fifo!Finish, Waiting, HandledNow
  <2> QED BY <2>3, <2>6 DEF FifoStep, Fifo!Next, HandledNow
<1>7. CASE w \notin handling
  <2>1. handling \ {w} = handling BY <1>7
  <2>2. HandledNow' = HandledNow BY <1>4, <2>1 DEF HandledNow
  <2>3. Messages((Workers \ handling) \ {w}) \subseteq Messages(Workers \ handling) BY DEF Messages
  <2>4. Waiting' \subseteq Waiting BY <1>5, <2>3 DEF Waiting
  <2> QED BY <1>1, <2>2, <2>4, FifoLoses
<1> QED BY <1>6, <1>7

\* A recall is taken or done with: the recall worker has no message.
LEMMA FifoRecalls ==
  ASSUME NEW w \in Workers, w[2] = 0, NEW x, item' = [item EXCEPT ![w] = x],
         item \in [Workers -> Event \cup {None}], handling \subseteq Workers,
         handling' \ {w} = handling \ {w}, UNCHANGED <<queue, preauth, arrived>>
  PROVE  FifoStep
<1>1. Decided' = Decided BY DEF Decided
<1>2. \A v \in Workers \ {w} : item'[v] = item[v] OBVIOUS
<1>3. ~(w[2] > 0) /\ \A v \in Workers \ {w} : v \in handling' <=> v \in handling OBVIOUS
<1>4. \A v \in handling' : v = w \/ v \in Workers \ {w} OBVIOUS
<1>5. HandledNow' = HandledNow BY <1>2, <1>3, <1>4 DEF HandledNow, Messages
<1>6. Messages(Workers \ handling)' = Messages(Workers \ handling) BY <1>2, <1>3 DEF Messages
<1> QED BY <1>1, <1>5, <1>6, FifoStutters DEF Waiting

\* Every step of the reader is one of ChatFifo.
LEMMA ReaderRefines == ASSUME LanesInv, LanesInv', ReaderStep PROVE FifoStep
<1>0. InOrder /\ InOrder'
  <2>1. InOrder BY InvInOrder
  <2>2. InOrder' BY InvInOrder, PTL
  <2> QED BY <2>1, <2>2
<1>1. ASSUME NEW e, e.id = arrived + 1, NEW wire, Arrive(e, wire), e \in Arrivals PROVE FifoStep
  <2>1. arrived' = arrived + 1 /\ UNCHANGED <<link, workVars>> BY <1>1 DEF Arrive
  <2>2. CASE link = "on" /\ Enqueue(<<e>>) /\ UNCHANGED <<preauth, preBytes>>
    <3> DEFINE es == <<e>>
    <3>1. es \in Seq(Arrivals) /\ Len(es) = 1 /\ es[1] = e /\ Enqueue(es) /\ ToSet(es) = {e}
      <4>1. es \in Seq(Arrivals) /\ Len(es) = 1 /\ es[1] = e BY <1>1
      <4>2. ToSet(es) = {es[i] : i \in 1..Len(es)} BY <4>1, PlacesOf
      <4> QED BY <2>2, <4>1, <4>2
    <3> HIDE DEF es
    <3>2. Increasing(es) BY <3>1 DEF Increasing
    <3>3. preauth = <<>> BY <2>2 DEF LanesInv, Reader
    <3>4. Decided = arrived /\ Decided' = arrived + 1 /\ arrived \in Nat
      BY <1>0, <2>1, <2>2, <3>3 DEF Decided, InOrder
    <3>5. \A i \in 1..Len(queue), j \in 1..Len(es) : queue[i].id < es[j].id
      <4>1. \A i \in 1..Len(queue) : queue[i].id <= arrived /\ queue[i].id \in Nat
        BY QueuedTypes, EventType DEF LanesInv, Queued, MessageEvents
      <4> QED BY <1>1, <3>1, <3>4, <4>1
    <3>6. ToSet(queue) \subseteq ToSet(queue') /\ ToSet(queue') \subseteq ToSet(queue) \cup ToSet(es)
      BY <2>1, <3>1, <3>2, <3>5, EnqueueGrows DEF LanesInv, Items
    <3>7. \A f \in ToSet(queue') \ ToSet(queue) : Decided < f.id BY <1>1, <3>1, <3>4, <3>6
    <3> QED BY <1>0, <2>1, <3>4, <3>6, <3>7, FifoAccepts
  <2>3. CASE UNCHANGED laneVars /\ link = "preauth"
    <3>0. preauth \in Seq(Arrivals) /\ preauth' \in Seq(Arrivals) BY DEF LanesInv, Reader
    <3>1. Decided <= Decided'
      <4>1. CASE preauth' = preauth BY <1>0, <2>1, <4>1 DEF Decided, InOrder
      <4>2. CASE preauth' = Append(preauth, e)
        <5>1. preauth' # <<>> /\ preauth'[1] = IF preauth = <<>> THEN e ELSE preauth[1] BY <3>0, <4>2
        <5> QED BY <1>0, <1>1, <5>1 DEF Decided, InOrder
      <4> QED BY <1>1, <2>3, <4>1, <4>2 DEF Arrive, Receive
    <3> QED BY <1>0, <2>1, <2>3, <3>1, FifoAccepts
  <2> QED BY <1>1, <2>2, <2>3 DEF Arrive, Receive
<1>2. ASSUME preauth' = <<>>, UNCHANGED <<arrived, laneVars, workVars>> PROVE FifoStep
  <2>1. Decided <= Decided' BY <1>0, <1>2 DEF Decided, InOrder
  <2> QED BY <1>0, <1>2, <2>1, FifoAccepts
<1>3. CASE LoginAccepted
  <2>1. /\ Enqueue(preauth) /\ preauth' = <<>> /\ UNCHANGED <<arrived, workVars>>
        /\ preauth \in Seq(Arrivals) /\ Increasing(preauth)
    BY <1>3 DEF LoginAccepted, LanesInv, Reader
  <2>2. ToSet(queue) \subseteq ToSet(queue') /\ ToSet(queue') \subseteq ToSet(queue) \cup ToSet(preauth)
    <3>1. \A i \in 1..Len(queue), j \in 1..Len(preauth) : queue[i].id < preauth[j].id
      BY DEF LanesInv, Queued
    <3> QED BY <2>1, <3>1, EnqueueGrows DEF LanesInv, Items
  <2>3. \A f \in ToSet(preauth) : Decided < f.id
    <3>1. ToSet(preauth) = {preauth[i] : i \in 1..Len(preauth)} BY <2>1, PlacesOf
    <3> QED BY <1>0, <3>1 DEF InOrder
  <2>4. Decided <= Decided' BY <1>0, <2>1 DEF Decided, InOrder
  <2>5. \A f \in ToSet(queue') \ ToSet(queue) : Decided < f.id BY <2>2, <2>3
  <2> QED BY <1>0, <2>1, <2>2, <2>4, <2>5, FifoAccepts
<1>4. ASSUME NEW chat \in Chats, NEW size \in Sizes, NEW wire \in Sizes,
             ArriveMessage(chat, size, wire)
      PROVE  FifoStep
  <2>a. PICK e : e = NextEvent("message", chat, size) OBVIOUS
  <2>1. Arrive(e, wire) BY <1>4, <2>a DEF ArriveMessage
  <2>2. e = [id |-> arrived + 1, session |-> session, lane |-> "message", chat |-> chat, size |-> size]
    BY <2>a DEF NextEvent
  <2>3. arrived + 1 \in 1..MaxEvents /\ session \in 1..MaxSessions
    BY <1>0, <2>1, Bounds DEF Arrive, LanesInv, Reader
  <2>4. e \in Arrivals /\ e.id = arrived + 1 BY <2>2, <2>3 DEF Arrivals, MessageEvents, Event
  <2> QED BY <1>1, <2>1, <2>4
<1>5. ASSUME NEW wire \in Sizes, ArriveRecall(wire) PROVE FifoStep
  <2>a. PICK e : e = NextEvent("recall", None, 0) OBVIOUS
  <2>1. Arrive(e, wire) BY <1>5, <2>a DEF ArriveRecall
  <2>2. e = [id |-> arrived + 1, session |-> session, lane |-> "recall", chat |-> None, size |-> 0]
    BY <2>a DEF NextEvent
  <2>3. arrived + 1 \in 1..MaxEvents /\ session \in 1..MaxSessions
    BY <1>0, <2>1, Bounds DEF Arrive, LanesInv, Reader
  <2>4. e \in Arrivals /\ e.id = arrived + 1 BY <2>2, <2>3 DEF Arrivals, RecallEvents, Event
  <2> QED BY <1>1, <2>1, <2>4
<1>6. CASE Attach BY <1>2, <1>6 DEF Attach
<1>7. CASE Detach BY <1>2, <1>7 DEF Detach
<1>8. CASE IdentityMismatch BY <1>2, <1>8 DEF IdentityMismatch
<1> QED BY <1>3, <1>4, <1>5, <1>6, <1>7, <1>8 DEF ReaderStep

\* A queue is its head and the rest.
LEMMA HeadSet ==
  ASSUME NEW X, NEW q \in Seq(X), q # <<>>
  PROVE  ToSet(q) = {Head(q)} \cup ToSet(Tail(q))
<1> DEFINE r == Tail(q)
<1>1. /\ r \in Seq(X) /\ Len(q) \in Nat \ {0} /\ Len(r) = Len(q) - 1 /\ Head(q) = q[1]
      /\ \A i \in 1..Len(q) - 1 : r[i] = q[i + 1]
  OBVIOUS
<1>2. ToSet(q) = {q[i] : i \in 1..Len(q)} /\ ToSet(r) = {r[i] : i \in 1..Len(r)} BY <1>1, PlacesOf
<1> HIDE DEF r
<1>3. \A x \in ToSet(q) : x = q[1] \/ x \in ToSet(r)
  <2> SUFFICES ASSUME NEW i \in 1..Len(q), i # 1 PROVE q[i] \in ToSet(r) BY <1>2
  <2>1. i - 1 \in 1..Len(q) - 1 /\ (i - 1) + 1 = i BY <1>1
  <2> QED BY <1>1, <1>2, <2>1
<1>4. \A x \in ToSet(r) : x \in ToSet(q)
  <2>1. \A i \in 1..Len(q) - 1 : i + 1 \in 1..Len(q) BY <1>1
  <2> QED BY <1>1, <1>2, <2>1
<1>5. q[1] \in ToSet(q)
  <2>1. 1 \in 1..Len(q) BY <1>1
  <2> QED BY <1>2, <2>1
<1> QED BY <1>1, <1>3, <1>4, <1>5 DEF r

\* So is every step of a worker.
LEMMA WorkerRefines ==
  ASSUME LanesInv, LanesInv', NEW w \in Workers, WorkerStep(w) PROVE FifoStep
<1>0. /\ InOrder /\ InOrder' /\ handling \subseteq Workers /\ w[2] \in Nat
      /\ item \in [Workers -> Event \cup {None}]
  <2>1. InOrder BY InvInOrder
  <2>2. InOrder' BY InvInOrder, PTL
  <2>3. w[2] \in 0..EventWorkers BY DEF Workers
  <2>4. w[2] \in Nat BY <2>3, Bounds
  <2> QED BY <2>1, <2>2, <2>4 DEF LanesInv, Items
<1>1. CASE Take(w)
  <2>a. PICK e : e = Head(queue) OBVIOUS
  <2>1. /\ w[2] > 0 /\ item[w] = None /\ queue # <<>> /\ queue' = Tail(queue)
        /\ item' = [item EXCEPT ![w] = e] /\ UNCHANGED <<linkVars, handling>>
    BY <1>1, <2>a DEF Take
  <2>2. ToSet(queue) = {e} \cup ToSet(queue') /\ e # None
    <3>1. queue \in Seq(Event) BY QueuedTypes DEF LanesInv, Queued
    <3>2. e \in Event BY <2>1, <2>a, <3>1
    <3> QED BY <2>1, <2>a, <3>1, <3>2, HeadSet, EventType
  <2>3. item'[w] = e /\ (\A v \in Workers \ {w} : item'[v] = item[v]) /\ w \notin handling
    BY <1>0, <2>1 DEF InOrder
  <2>4. HandledNow' = HandledNow
    <3>1. \A v \in handling : v \in Workers \ {w} BY <1>0, <2>3
    <3> QED BY <2>1, <2>3, <3>1 DEF HandledNow, Messages
  <2>5. Messages(Workers \ handling)' = Messages(Workers \ handling) \cup {e}
    BY <2>1, <2>2, <2>3 DEF Messages
  <2>6. Decided' = Decided /\ Waiting' = Waiting BY <2>1, <2>2, <2>5 DEF Decided, Waiting
  <2> QED BY <2>4, <2>6, FifoStutters
<1>2. CASE Begin(w) BY <1>0, <1>2, FifoBegins DEF Begin
<1>3. ASSUME w[2] > 0, item[w] # None, Release(w), UNCHANGED <<linkVars, queue>> PROVE FifoStep
  BY <1>0, <1>3, FifoEnds DEF Release
<1>4. CASE Done(w)
  <2>1. item[w] # None BY <1>0, <1>4 DEF Done, InOrder
  <2> QED BY <1>3, <1>4, <2>1 DEF Done
<1>5. ASSUME w[2] = 0, NEW x, item' = [item EXCEPT ![w] = x], handling' \ {w} = handling \ {w},
             UNCHANGED <<linkVars, queue>>
      PROVE  FifoStep
  BY <1>0, <1>5, FifoRecalls
<1>6. CASE TakeRecall(w)
  <2>a. PICK x : x = Head(recalls) OBVIOUS
  <2>1. /\ w[2] = 0 /\ item' = [item EXCEPT ![w] = x] /\ handling' = handling \cup {w}
        /\ UNCHANGED <<linkVars, queue>>
    BY <1>6, <2>a DEF TakeRecall
  <2> QED BY <1>5, <2>1
<1>7. CASE RecallDone(w)
  <2>1. /\ w[2] = 0 /\ item' = [item EXCEPT ![w] = None] /\ handling' = handling \ {w}
        /\ UNCHANGED <<linkVars, queue>>
    BY <1>7 DEF RecallDone
  <2> QED BY <1>5, <2>1
<1>8. CASE WorkerEnds(w)
  <2>0. UNCHANGED <<linkVars, queue>> BY <1>8 DEF WorkerEnds
  <2>1. CASE item[w] = None /\ UNCHANGED <<bytes, workVars>>
    BY <2>0, <2>1, FifoStutters DEF Decided, Waiting, HandledNow, Messages
  <2>2. CASE item[w] # None /\ w[2] > 0 /\ Release(w) BY <1>3, <2>0, <2>2
  <2>3. CASE /\ item[w] # None /\ w[2] = 0
             /\ item' = [item EXCEPT ![w] = None] /\ handling' = handling \ {w}
             /\ UNCHANGED <<bytes, table, lockOf, line>>
    BY <1>5, <2>0, <2>3
  <2> QED BY <1>8, <2>1, <2>2, <2>3 DEF WorkerEnds
<1> QED BY <1>1, <1>2, <1>4, <1>6, <1>7, <1>8 DEF WorkerStep

\* And every other step.
LEMMA StepsRefine == LanesInv /\ LanesInv' /\ [Next]_vars => FifoStep
<1> SUFFICES ASSUME LanesInv, LanesInv', [Next]_vars PROVE FifoStep OBVIOUS
<1>1. ASSUME UNCHANGED <<linkVars, queue, item, handling>> PROVE FifoStep
  BY <1>1, FifoStutters DEF Decided, Waiting, HandledNow, Messages
<1>2. CASE StopEnds
  <2>1. queue' = <<>> /\ UNCHANGED <<linkVars, workVars>> BY <1>2 DEF StopEnds, Drain
  <2>2. ToSet(queue') = {} BY <2>1 DEF ToSet
  <2>3. Decided' = Decided /\ HandledNow' = HandledNow /\ Waiting' \subseteq Waiting
    BY <2>1, <2>2 DEF Decided, Waiting, HandledNow, Messages
  <2> QED BY <2>3, FifoLoses
<1> QED
  BY <1>1, <1>2, ReaderRefines, WorkerRefines DEF Next, Start, StopBegins, StopCancels, vars

-----------------------------------------------------------------------------
(* The theorems *)

\* The state of the transport's event half is well-formed, whatever arrives, is cancelled
\* or is restarted: the queues and the buffer keep their limits, the lock table of
\* _worker counts exactly the workers that use a lock and forgets it with the last,
\* and no worker holds an event of a session whose account was not verified.
THEOREM LanesConsistent == Spec => []Consistent
<1>1. LanesInv => Consistent BY Implied
<1> QED BY <1>1, LanesAlways, PTL

\* The byte budget of _enqueue is exact: it is the size of what is queued and of what the
\* workers have taken, through the finally clause of _worker and the drain of stop().
THEOREM BudgetExact == Spec => []BytesExact
<1>1. LanesInv => BytesExact BY Implied
<1> QED BY <1>1, LanesAlways, PTL

\* Messages of one chat are handled one at a time in the order of their arrival, for any
\* number of event workers.
THEOREM ChatsInOrder == Spec => []InOrderPerChat
<1>1. LanesInv => InOrderPerChat BY Implied
<1> QED BY <1>1, LanesAlways, PTL

\* Seen from outside, each chat is a queue with losses: EventLanes implements ChatFifo,
\* through buffering, the lanes, the locks of _worker, cancellation, reconnection and
\* restart.  A message is handled at most once and never overtaken in its chat.
THEOREM ChatsAreFifo == Spec => ChatsAreQueues
<1>1. Init => Fifo!Init
  <2> SUFFICES ASSUME Init PROVE Fifo!Init OBVIOUS
  <2>1. ToSet(<<>>) = {} BY DEF ToSet
  <2>2. \A w \in Workers : item[w] = None BY DEF Init
  <2>3. Messages(Workers \ handling) = {} /\ Messages(handling) = {} BY <2>2 DEF Messages, Init
  <2> QED BY <2>1, <2>3 DEF Init, Fifo!Init, Decided
<1>2. LanesInv /\ LanesInv' /\ [Next]_vars => [Fifo!Next]_(Fifo!vars) BY StepsRefine DEF FifoStep
<1> QED BY <1>1, <1>2, LanesAlways, PTL DEF Spec, ChatsAreQueues, Fifo!Spec
=============================================================================
