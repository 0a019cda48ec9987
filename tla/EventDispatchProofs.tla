------------------------ MODULE EventDispatchProofs ------------------------
(***************************************************************************)
(* Proofs about EventDispatch for every number of events and closers and   *)
(* every capacity of queue and sink.  The inductive invariant is IInv of   *)
(* EventDispatch; each of its conjuncts has a lemma with one step per      *)
(* action, and the theorems are at the end.                                *)
(***************************************************************************)
EXTENDS EventDispatch, TLAPS

-----------------------------------------------------------------------------
(* What putting an event in a sequence does to its elements.               *)
LEMMA AppendElements ==
    ASSUME NEW S, NEW s \in Seq(S), NEW x \in S
    PROVE  Elements(Append(s, x)) = Elements(s) \cup {x}
  <1>1. /\ Len(Append(s, x)) = Len(s) + 1
        /\ \A i \in 1..Len(s) : Append(s, x)[i] = s[i]
        /\ Append(s, x)[Len(s) + 1] = x
        /\ Len(s) \in Nat
    OBVIOUS
  <1> QED
    BY <1>1 DEF Elements

(* What taking the first event out does.                                   *)
LEMMA TailElements ==
    ASSUME NEW S, NEW s \in Seq(S), s # <<>>
    PROVE  Elements(s) = Elements(Tail(s)) \cup {Head(s)}
  <1>1. /\ Len(s) \in Nat \ {0} /\ Len(Tail(s)) = Len(s) - 1
        /\ \A i \in 1..(Len(s) - 1) : Tail(s)[i] = s[i + 1]
        /\ Head(s) = s[1]
    OBVIOUS
  <1>2. ASSUME NEW i \in 1..Len(s), i # 1
        PROVE  s[i] \in Elements(Tail(s))
    <2>1. i - 1 \in 1..(Len(s) - 1) /\ Tail(s)[i - 1] = s[i]
      BY <1>1, <1>2
    <2> QED
      BY <1>1, <2>1 DEF Elements
  <1>3. Elements(Tail(s)) \subseteq Elements(s)
    BY <1>1 DEF Elements
  <1> QED
    BY <1>1, <1>2, <1>3 DEF Elements

-----------------------------------------------------------------------------
(* The number of the next event is that of an event.                       *)
LEMMA NextEvent ==
    ASSUME TypeOK, emitted < MaxEvents
    PROVE  /\ emitted \in Nat
           /\ emitted + 1 \in Events /\ emitted + 1 \in 0..MaxEvents
           /\ emitted + 1 # Stop
  BY BoundsAssumption, StopAssumption DEF TypeOK, Events

(* Everything that is compared is a number.                                *)
LEMMA Numbers ==
    ASSUME TypeOK
    PROVE  /\ emitted \in Nat /\ current \in Nat
           /\ Len(sink) \in Nat /\ Len(queue) \in Nat
           /\ \A e \in raised : e \in Nat
           /\ \A i \in 1..Len(sink) : sink[i] \in Nat
           /\ \A i \in 1..Len(queue) : queue[i] # Stop => queue[i] \in Nat \ {0}
  <1>1. \A i \in 1..Len(sink) : sink[i] \in Events
    BY DEF TypeOK
  <1>2. \A i \in 1..Len(queue) : queue[i] \in Events \cup {Stop}
    BY DEF TypeOK
  <1> QED
    BY <1>1, <1>2, BoundsAssumption DEF TypeOK, Events

(* A diagnostic adds one to the count of its event.                        *)
LEMMA ReportType ==
    ASSUME TypeOK, NEW e \in Events, Report(e)
    PROVE  /\ reports' \in [Events -> Nat]
           /\ reports'[e] = reports[e] + 1
           /\ \A d \in Events \ {e} : reports'[d] = reports[d]
  BY DEF TypeOK, Report

(* A sequence after an event was put in.                                   *)
LEMMA PutFacts ==
    ASSUME NEW S, NEW s \in Seq(S), NEW x \in S
    PROVE  /\ Append(s, x) \in Seq(S)
           /\ Len(s) \in Nat /\ Len(Append(s, x)) = Len(s) + 1
           /\ \A i \in 1..Len(s) : Append(s, x)[i] = s[i]
           /\ Append(s, x)[Len(s) + 1] = x
  OBVIOUS

(* A sequence after its first event was taken.                             *)
LEMMA TakeFacts ==
    ASSUME NEW S, NEW s \in Seq(S), s # <<>>
    PROVE  /\ Tail(s) \in Seq(S) /\ Head(s) \in S
           /\ Len(s) \in Nat \ {0} /\ Len(Tail(s)) = Len(s) - 1
           /\ \A i \in 1..(Len(s) - 1) : Tail(s)[i] = s[i + 1]
           /\ Head(s) = s[1]
  OBVIOUS

-----------------------------------------------------------------------------
(* Every step keeps the types; the counter is never taken below zero, and  *)
(* the stop marker finds room in the queue.                                *)
LEMMA TypeStep ==
    ASSUME TypeOK, QueueInv, [Next]_vars
    PROVE  TypeOK'
  <1> USE BoundsAssumption, StopAssumption DEF TypeOK, QueueInv
  <1>1. CASE EmitRequired
    <2>1. emitted + 1 \in Events /\ emitted + 1 \in 0..MaxEvents
      BY <1>1, NextEvent DEF EmitRequired
    <2> QED
      BY <1>1, <2>1 DEF EmitRequired
  <1>2. CASE EmitBestEffort
    <2>1. emitted + 1 \in Events /\ emitted + 1 \in 0..MaxEvents
      BY <1>2, NextEvent DEF EmitBestEffort
    <2>2. queue' \in Seq(Events \cup {Stop}) /\ Len(queue') <= Capacity /\ unfinished' \in Nat
      <3>1. CASE /\ Len(queue) < Capacity
                 /\ queue' = Append(queue, emitted + 1)
                 /\ unfinished' = unfinished + 1
        BY <2>1, <3>1, PutFacts
      <3>2. CASE UNCHANGED <<queue, unfinished>>
        BY <3>2
      <3> QED
        BY <1>2, <3>1, <3>2 DEF EmitBestEffort
    <2>3. reports' \in [Events -> Nat]
      BY <1>2, <2>1, ReportType DEF EmitBestEffort
    <2> QED
      BY <1>2, <2>1, <2>2, <2>3 DEF EmitBestEffort
  <1>3. CASE WorkerGets
    BY <1>3 DEF WorkerGets
  <1>4. CASE SinkStores
    BY <1>4 DEF SinkStores
  <1>5. CASE SinkRefuses
    BY <1>5 DEF SinkRefuses
  <1>6. CASE CallEnds
    <2>1. current \in Events
      BY <1>6 DEF CallEnds
    <2>2. reports' \in [Events -> Nat]
      BY <1>6, <2>1, ReportType DEF CallEnds
    <2>3. unfinished' \in Nat
      BY <1>6 DEF CallEnds
    <2>4. raised' \subseteq Events
      BY <1>6, <2>1 DEF CallEnds
    <2> QED
      BY <1>6, <2>2, <2>3, <2>4 DEF CallEnds
  <1>7. CASE CloseJoins
    BY <1>7 DEF CloseJoins
  <1>8. CASE CloseEnds
    BY <1>8 DEF CloseEnds, delivery
  <1>9. ASSUME NEW c \in Closers, Close(c)
        PROVE  TypeOK'
    BY <1>9 DEF Close, delivery
  <1>10. ASSUME NEW c \in Closers, CloserReturns(c)
        PROVE  TypeOK'
    BY <1>10 DEF CloserReturns, delivery
  <1>11. ASSUME NEW c \in Closers, CloserCancelled(c)
        PROVE  TypeOK'
    BY <1>11 DEF CloserCancelled, delivery
  <1>12. CASE UNCHANGED vars
    BY <1>12 DEF vars, delivery
  <1> QED
    BY <1>1, <1>2, <1>3, <1>4, <1>5, <1>6, <1>7, <1>8, <1>9, <1>10, <1>11, <1>12 DEF Next

(* Whatever is put or taken is counted.                                    *)
LEMMA QueueStep ==
    ASSUME TypeOK, QueueInv, CloseInv, [Next]_vars
    PROVE  QueueInv'
  <1> USE BoundsAssumption, StopAssumption DEF TypeOK, QueueInv, CloseInv
  <1>1. CASE EmitRequired
    <2>1. emitted + 1 # 0
      BY <1>1, NextEvent DEF EmitRequired
    <2> QED
      BY <1>1, <2>1 DEF EmitRequired
  <1>2. CASE EmitBestEffort
    <2>1. emitted \in Nat /\ emitted + 1 \in Events /\ emitted + 1 # Stop
      BY <1>2, NextEvent DEF EmitBestEffort
    <2>2. CASE /\ queue' = Append(queue, emitted + 1)
               /\ unfinished' = unfinished + 1
               /\ UNCHANGED reports
      BY <1>2, <2>1, <2>2, PutFacts DEF EmitBestEffort
    <2>3. CASE Report(emitted + 1) /\ UNCHANGED <<queue, unfinished>>
      BY <1>2, <2>3 DEF EmitBestEffort
    <2> QED
      BY <1>2, <2>2, <2>3 DEF EmitBestEffort
  <1>3. CASE WorkerGets
    <2>1. /\ Len(queue') = Len(queue) - 1
          /\ \A i \in 1..Len(queue') : queue'[i] = queue[i + 1]
      BY <1>3, TakeFacts DEF WorkerGets
    <2>2. Head(queue) # Stop => Head(queue) # 0
      BY <1>3, TakeFacts DEF WorkerGets, Events
    <2> QED
      BY <1>3, <2>1, <2>2 DEF WorkerGets
  <1>4. CASE SinkStores
    BY <1>4 DEF SinkStores
  <1>5. CASE SinkRefuses
    BY <1>5 DEF SinkRefuses
  <1>6. CASE CallEnds
    BY <1>6 DEF CallEnds
  <1>7. CASE CloseJoins
    BY <1>7 DEF CloseJoins
  <1>8. CASE CloseEnds
    BY <1>8 DEF CloseEnds, delivery
  <1>9. ASSUME NEW c \in Closers, Close(c)
        PROVE  QueueInv'
    BY <1>9 DEF Close, delivery
  <1>10. ASSUME NEW c \in Closers, CloserReturns(c)
        PROVE  QueueInv'
    BY <1>10 DEF CloserReturns, delivery
  <1>11. ASSUME NEW c \in Closers, CloserCancelled(c)
        PROVE  QueueInv'
    BY <1>11 DEF CloserCancelled, delivery
  <1>12. CASE UNCHANGED vars
    BY <1>12 DEF vars, delivery
  <1> QED
    BY <1>1, <1>2, <1>3, <1>4, <1>5, <1>6, <1>7, <1>8, <1>9, <1>10, <1>11, <1>12 DEF Next

(* After admission has stopped the queue only drains.                      *)
LEMMA CloseStep ==
    ASSUME TypeOK, QueueInv, CloseInv, [Next]_vars
    PROVE  CloseInv'
  <1> USE BoundsAssumption, StopAssumption DEF TypeOK, QueueInv, CloseInv
  <1>1. CASE EmitRequired
    BY <1>1 DEF EmitRequired
  <1>2. CASE EmitBestEffort
    BY <1>2 DEF EmitBestEffort, Report
  <1>3. CASE WorkerGets
    <2>1. queue = <<Stop>> => Head(queue) = Stop /\ Tail(queue) = <<>>
      OBVIOUS
    <2>2. Head(queue) = Stop => close = "stop"
      BY <1>3, TakeFacts DEF WorkerGets
    <2> QED
      BY <1>3, <2>1, <2>2 DEF WorkerGets
  <1>4. CASE SinkStores
    BY <1>4 DEF SinkStores
  <1>5. CASE SinkRefuses
    BY <1>5 DEF SinkRefuses
  <1>6. CASE CallEnds
    BY <1>6 DEF CallEnds, Report
  <1>7. CASE CloseJoins
    <2>1. CASE worker = "none" /\ close' = "done" /\ UNCHANGED <<queue, unfinished>>
      BY <1>7, <2>1 DEF CloseJoins
    <2>2. CASE /\ worker # "none" /\ unfinished = 0
               /\ close' = "stop" /\ queue' = Append(queue, Stop)
      <3>1. queue = <<>> /\ worker # "busy"
        BY <2>2
      <3>2. queue' = <<Stop>>
        BY <2>2, <3>1
      <3> QED
        BY <1>7, <2>2, <3>1, <3>2 DEF CloseJoins
    <2> QED
      BY <1>7, <2>1, <2>2 DEF CloseJoins
  <1>8. CASE CloseEnds
    BY <1>8 DEF CloseEnds, delivery
  <1>9. ASSUME NEW c \in Closers, Close(c)
        PROVE  CloseInv'
    BY <1>9 DEF Close, delivery
  <1>10. ASSUME NEW c \in Closers, CloserReturns(c)
        PROVE  CloseInv'
    BY <1>10 DEF CloserReturns, delivery
  <1>11. ASSUME NEW c \in Closers, CloserCancelled(c)
        PROVE  CloseInv'
    BY <1>11 DEF CloserCancelled, delivery
  <1>12. CASE UNCHANGED vars
    BY <1>12 DEF vars, delivery
  <1> QED
    BY <1>1, <1>2, <1>3, <1>4, <1>5, <1>6, <1>7, <1>8, <1>9, <1>10, <1>11, <1>12 DEF Next

(* Events keep their order on the way to the sink.                         *)
LEMMA OrderStep ==
    ASSUME TypeOK, QueueInv, OrderInv, DeliveredInOrder, [Next]_vars
    PROVE  OrderInv' /\ DeliveredInOrder'
  <1> USE DEF OrderInv, DeliveredInOrder
  <1>0. /\ emitted \in Nat /\ current \in Nat
        /\ Len(sink) \in Nat /\ Len(queue) \in Nat
        /\ \A e \in raised : e \in Nat
        /\ \A i \in 1..Len(sink) : sink[i] \in Nat
        /\ \A i \in 1..Len(queue) : queue[i] # Stop => queue[i] \in Nat \ {0}
    BY Numbers
  <1>1. CASE EmitRequired
    <2>1. queue = <<>> /\ queue' = queue /\ Len(queue) = 0
      BY <1>1, <1>0 DEF EmitRequired, QueueInv
    <2> QED
      BY <1>1, <1>0, <2>1 DEF EmitRequired
  <1>2. CASE EmitBestEffort
    <2>1. emitted \in Nat /\ emitted + 1 \in Events /\ emitted + 1 # Stop
      BY <1>2, <1>0, NextEvent DEF EmitBestEffort
    <2>2. CASE /\ queue' = Append(queue, emitted + 1)
               /\ unfinished' = unfinished + 1
               /\ UNCHANGED reports
      <3>1. /\ Len(queue') = Len(queue) + 1
            /\ \A i \in 1..Len(queue) : queue'[i] = queue[i]
            /\ queue'[Len(queue) + 1] = emitted + 1
        BY <2>1, <2>2, PutFacts DEF TypeOK
      <3>2. \A i \in 1..Len(queue') : i \in 1..Len(queue) \/ i = Len(queue) + 1
        BY <1>0, <3>1
      <3>3. UNCHANGED <<sink, current, call, raised>> /\ emitted' = emitted + 1
        BY <1>2, <1>0 DEF EmitBestEffort
      <3>4. OrderInv'
        BY <1>0, <3>1, <3>2, <3>3
      <3>5. DeliveredInOrder'
        BY <1>0, <3>1, <3>2, <3>3
      <3> QED
        BY <3>4, <3>5
    <2>3. CASE Report(emitted + 1) /\ UNCHANGED <<queue, unfinished>>
      BY <1>2, <1>0, <2>3 DEF EmitBestEffort
    <2> QED
      BY <1>2, <1>0, <2>2, <2>3 DEF EmitBestEffort
  <1>3. CASE WorkerGets
    <2>1. /\ Len(queue') = Len(queue) - 1
          /\ \A i \in 1..Len(queue') : queue'[i] = queue[i + 1] /\ i + 1 \in 1..Len(queue)
          /\ Head(queue) = queue[1] /\ 1 \in 1..Len(queue)
      BY <1>3, <1>0, TakeFacts DEF WorkerGets, TypeOK
    <2>2. UNCHANGED <<emitted, sink, raised>>
      BY <1>3, <1>0 DEF WorkerGets
    <2>3. \A i, j \in 1..Len(queue') :
            i < j /\ queue'[i] # Stop /\ queue'[j] # Stop => queue'[i] < queue'[j]
      <3>1. \A i, j \in 1..Len(queue') : i < j => i + 1 < j + 1
        BY <1>0, <2>1
      <3> QED
        BY <2>1, <3>1
    <2>4. CASE Head(queue) = Stop /\ UNCHANGED <<current, call>>
      <3>1. OrderInv'
        BY <1>0, <2>1, <2>2, <2>4
      <3> QED
        BY <2>2, <2>4, <2>3, <3>1
    <2>5. CASE Head(queue) # Stop /\ current' = Head(queue) /\ call' = "calling"
      <3>1. \A i \in 1..Len(sink) : sink[i] < current'
        BY <2>1, <2>5
      <3>2. current' <= emitted /\ current' \in Nat
        BY <1>0, <2>1, <2>5
      <3>3. \A i \in 1..Len(queue') : queue'[i] # Stop => current' < queue'[i]
        BY <1>0, <2>1, <2>5
      <3>4. \A i \in 1..Len(sink) : sink[i] <= current'
        BY <1>0, <3>1, <3>2
      <3>5. \A j \in 1..Len(queue') : queue'[j] # Stop =>
              queue'[j] <= emitted /\ \A i \in 1..Len(sink) : sink[i] < queue'[j]
        BY <2>1
      <3>6. OrderInv'
        BY <2>2, <2>5, <3>2, <3>3, <3>4, <3>5
      <3> QED
        BY <2>2, <2>3, <2>5, <3>1, <3>6
    <2> QED
      BY <1>3, <1>0, <2>4, <2>5 DEF WorkerGets
  <1>4. CASE SinkStores
    <2>1. current \in Events
      BY <1>4, <1>0 DEF SinkStores, TypeOK, QueueInv
    <2>2. /\ Len(sink') = Len(sink) + 1
          /\ \A i \in 1..Len(sink) : sink'[i] = sink[i]
          /\ sink'[Len(sink) + 1] = current
      BY <1>4, <1>0, <2>1, PutFacts DEF SinkStores, TypeOK
    <2>3. \A i \in 1..Len(sink') : sink'[i] = current \/ (i \in 1..Len(sink) /\ sink'[i] = sink[i])
      BY <1>0, <2>2
    <2>4. UNCHANGED <<queue, current, emitted, raised>> /\ call' = "stored" /\ call = "calling"
      BY <1>4, <1>0 DEF SinkStores
    <2>5. current \in Elements(sink')
      BY <1>0, <2>2 DEF Elements
    <2>6. \A i \in 1..Len(sink') : sink'[i] <= current
      BY <1>0, <2>3, <2>4
    <2>7. \A i \in 1..Len(sink'), j \in 1..Len(queue) : queue[j] # Stop => sink'[i] < queue[j]
      BY <2>3
    <2>8. \A i \in 1..Len(sink') : sink'[i] <= emitted
      BY <2>3
    <2> QED
      BY <2>4, <2>5, <2>6, <2>7, <2>8
  <1>5. CASE SinkRefuses
    BY <1>5, <1>0 DEF SinkRefuses
  <1>6. CASE CallEnds
    <2>1. current' = 0 /\ call' = "none"
      BY <1>6, <1>0 DEF CallEnds
    <2>2. UNCHANGED <<queue, emitted, sink>> /\ raised' \subseteq raised \cup {current}
      BY <1>6, <1>0 DEF CallEnds, Report
    <2> QED
      BY <1>0, <2>1, <2>2
  <1>7. CASE CloseJoins
    <2>1. UNCHANGED <<current, call, emitted, sink, raised>>
      BY <1>7, <1>0 DEF CloseJoins
    <2>2. \A i \in 1..Len(queue') : queue'[i] = Stop \/ (i \in 1..Len(queue) /\ queue'[i] = queue[i])
      BY <1>7, <1>0, PutFacts DEF CloseJoins, TypeOK
    <2> QED
      BY <2>1, <2>2
  <1>8. CASE CloseEnds
    BY <1>8, <1>0 DEF CloseEnds, delivery
  <1>9. ASSUME NEW c \in Closers, Close(c)
        PROVE  OrderInv' /\ DeliveredInOrder'
    BY <1>9, <1>0 DEF Close, delivery
  <1>10. ASSUME NEW c \in Closers, CloserReturns(c)
        PROVE  OrderInv' /\ DeliveredInOrder'
    BY <1>10, <1>0 DEF CloserReturns, delivery
  <1>11. ASSUME NEW c \in Closers, CloserCancelled(c)
        PROVE  OrderInv' /\ DeliveredInOrder'
    BY <1>11, <1>0 DEF CloserCancelled, delivery
  <1>12. CASE UNCHANGED vars
    BY <1>12, <1>0 DEF vars, delivery
  <1> QED
    BY <1>1, <1>2, <1>3, <1>4, <1>5, <1>6, <1>7, <1>8, <1>9, <1>10, <1>11, <1>12 DEF Next

(* Every emitted event stays accounted for.                                *)
LEMMA AccountStep ==
    ASSUME TypeOK, QueueInv, OrderInv, AccountedOnce, [Next]_vars
    PROVE  AccountedOnce'
  <1> USE BoundsAssumption, StopAssumption DEF TypeOK, QueueInv, OrderInv, AccountedOnce
  <1>1. CASE EmitRequired
    <2>1. emitted \in Nat /\ emitted + 1 \in Events
      BY <1>1, NextEvent DEF EmitRequired
    <2>2. \A e \in Events : e \in Nat /\ (e <= emitted + 1 <=> e <= emitted \/ e = emitted + 1)
      BY <2>1 DEF Events
    <2>3. emitted + 1 \notin Elements(queue)
      BY <2>1, <2>2
    <2> QED
      BY <1>1, <2>1, <2>2, <2>3 DEF EmitRequired
  <1>2. CASE EmitBestEffort
    <2>1. emitted \in Nat /\ emitted + 1 \in Events /\ emitted + 1 # Stop
      BY <1>2, NextEvent DEF EmitBestEffort
    <2>2. \A e \in Events : e \in Nat /\ (e <= emitted + 1 <=> e <= emitted \/ e = emitted + 1)
      BY <2>1 DEF Events
    <2>3. reports[emitted + 1] = 0 /\ emitted + 1 \notin raised
      BY <2>1, <2>2
    <2>4. CASE /\ queue' = Append(queue, emitted + 1)
               /\ unfinished' = unfinished + 1
               /\ UNCHANGED reports
      <3>1. Elements(queue') = Elements(queue) \cup {emitted + 1}
        <4>1. queue \in Seq(Events \cup {Stop}) /\ emitted + 1 \in Events \cup {Stop}
          BY <2>1
        <4>2. Elements(Append(queue, emitted + 1)) = Elements(queue) \cup {emitted + 1}
          BY <4>1, AppendElements
        <4> QED
          BY <2>4, <4>2
      <3> QED
        BY <1>2, <2>1, <2>2, <2>3, <2>4, <3>1 DEF EmitBestEffort
    <2>5. CASE Report(emitted + 1) /\ UNCHANGED <<queue, unfinished>>
      <3>1. /\ reports'[emitted + 1] = 1
            /\ \A d \in Events \ {emitted + 1} : reports'[d] = reports[d]
        BY <2>1, <2>3, <2>5, ReportType
      <3> QED
        BY <1>2, <2>1, <2>2, <2>5, <3>1 DEF EmitBestEffort
    <2> QED
      BY <1>2, <2>4, <2>5 DEF EmitBestEffort
  <1>3. CASE WorkerGets
    <2>1. Elements(queue) = Elements(queue') \cup {Head(queue)} /\ current = 0
      <3>1. Elements(queue) = Elements(queue') \cup {Head(queue)}
        BY <1>3, TailElements DEF WorkerGets
      <3> QED
        BY <1>3, <3>1 DEF WorkerGets
    <2>2. UNCHANGED <<emitted, sink, raised, reports>>
      BY <1>3 DEF WorkerGets
    <2>3. \A e \in Events :
            (e \in Elements(queue') \/ e = current') <=> (e \in Elements(queue) \/ e = current)
      <3>1. CASE Head(queue) = Stop /\ UNCHANGED current
        BY <2>1, <3>1
      <3>2. CASE current' = Head(queue)
        BY <2>1, <3>2 DEF Events
      <3> QED
        BY <1>3, <3>1, <3>2 DEF WorkerGets
    <2> QED
      BY <2>2, <2>3
  <1>4. CASE SinkStores
    <2>1. current \in Events
      BY <1>4 DEF SinkStores
    <2>2. Elements(sink') = Elements(sink) \cup {current}
      BY <1>4, <2>1, AppendElements DEF SinkStores
    <2> QED
      BY <1>4, <2>2 DEF SinkStores
  <1>5. CASE SinkRefuses
    BY <1>5 DEF SinkRefuses
  <1>6. CASE CallEnds
    <2>1. /\ current \in Events /\ current <= emitted
          /\ current' = 0 /\ 0 \notin Events
          /\ UNCHANGED <<queue, emitted, sink>>
      BY <1>6 DEF CallEnds, Events
    <2>2. current \notin Elements(queue)
      BY <2>1 DEF Elements, Events
    <2>3. reports[current] = 0 /\ current \notin raised
      BY <2>1
    <2>4. CASE call = "stored" /\ UNCHANGED <<raised, reports>>
      BY <2>1, <2>4
    <2>5. CASE raised' = raised \cup {current} /\ UNCHANGED reports
      BY <2>1, <2>2, <2>5
    <2>6. CASE Report(current) /\ UNCHANGED raised
      <3>1. reports'[current] = 1 /\ \A d \in Events \ {current} : reports'[d] = reports[d]
        BY <2>1, <2>3, <2>6, ReportType
      <3> QED
        BY <2>1, <2>2, <2>6, <3>1 DEF Events
    <2> QED
      BY <1>6, <2>4, <2>5, <2>6 DEF CallEnds
  <1>7. CASE CloseJoins
    <2>1. \A e \in Events : e \in Elements(queue') <=> e \in Elements(queue)
      <3>1. CASE UNCHANGED queue
        BY <3>1
      <3>2. CASE queue' = Append(queue, Stop)
        BY <3>2, AppendElements
      <3> QED
        BY <1>7, <3>1, <3>2 DEF CloseJoins
    <2> QED
      BY <1>7, <2>1 DEF CloseJoins
  <1>8. CASE CloseEnds
    BY <1>8 DEF CloseEnds, delivery
  <1>9. ASSUME NEW c \in Closers, Close(c)
        PROVE  AccountedOnce'
    BY <1>9 DEF Close, delivery
  <1>10. ASSUME NEW c \in Closers, CloserReturns(c)
        PROVE  AccountedOnce'
    BY <1>10 DEF CloserReturns, delivery
  <1>11. ASSUME NEW c \in Closers, CloserCancelled(c)
        PROVE  AccountedOnce'
    BY <1>11 DEF CloserCancelled, delivery
  <1>12. CASE UNCHANGED vars
    BY <1>12 DEF vars, delivery
  <1> QED
    BY <1>1, <1>2, <1>3, <1>4, <1>5, <1>6, <1>7, <1>8, <1>9, <1>10, <1>11, <1>12 DEF Next

-----------------------------------------------------------------------------
(* The invariant holds at first.                                           *)
LEMMA InitInv == Init => IInv
  BY BoundsAssumption DEF Init, IInv, TypeOK, QueueInv, CloseInv, OrderInv,
     DeliveredInOrder, AccountedOnce, Elements, Events

(* Every reachable state satisfies the invariant.                          *)
THEOREM DispatchInvariant == Spec => []IInv
  <1>1. IInv /\ [Next]_vars => IInv'
    BY TypeStep, QueueStep, CloseStep, OrderStep, AccountStep DEF IInv
  <1> QED
    BY InitInv, <1>1, PTL DEF Spec

(* Every variable keeps its type and the queue its bound.                  *)
THEOREM TypeCorrect == Spec => []TypeOK
  BY DispatchInvariant, PTL DEF IInv

(* No event is lost in silence, reported twice, or delivered after it was  *)
(* reported or raised.                                                     *)
THEOREM EventsAccounted == Spec => []AccountedOnce
  BY DispatchInvariant, PTL DEF IInv

(* Events reach the sink in the order of their numbers.                    *)
THEOREM EventsOrdered == Spec => []DeliveredInOrder
  BY DispatchInvariant, PTL DEF IInv

(* A finished close() leaves an empty queue and no worker.                 *)
THEOREM CloseDrains == Spec => []DrainedAtClose
  <1>1. IInv => DrainedAtClose
    BY DEF IInv, TypeOK, QueueInv, CloseInv, DrainedAtClose
  <1> QED
    BY DispatchInvariant, <1>1, PTL
=============================================================================
