--------------------------- MODULE ActQueueProofs ---------------------------
(***************************************************************************)
(* The safety invariants of ActQueue, for any records, any queue size and  *)
(* any range of priorities, when ssm_reset finds the queue empty.           *)
(***************************************************************************)
EXTENDS ActQueue, Lemmas, FiniteSetTheorems

Percolating == pc \in {"up", "down"}

\* A record is in the queue: it is marked, or percolate_up is placing it.
Queued(a) == scheduled[a] \/ (pc = "up" /\ a = act)

-----------------------------------------------------------------------------
(***************************************************************************)
(* The inductive invariant: the heap order with the loop invariants of the *)
(* percolations, and the membership of the array with the record in the    *)
(* hole.                                                                   *)
(***************************************************************************)
Loop == Percolating => /\ hole \in 1..act_queue_len
                       /\ act \in Act
                       /\ ret \in {"idle", "running"}
                       /\ pc = "down" => ret = "running"

Members ==
  /\ \A i \in 1..act_queue_len : Queue[i] \in Act /\ Queued(Queue[i])
  /\ \A i, j \in 1..act_queue_len : Queue[i] = Queue[j] => i = j
  /\ \A a \in Act : Queued(a) => \E i \in 1..act_queue_len : Queue[i] = a

Shape ==
  /\ pc \in Callers => HeapOrdered(act_queue, act_queue_len, priority)
  /\ pc = "up" => UpReady(Queue, act_queue_len, priority, hole)
  /\ pc = "down" => DownReady(Queue, act_queue_len, priority, hole)

Sound == act_queue_len <= QueueSize /\ Loop /\ Members /\ Shape

IInv == TypeOK /\ (error = "none" => Sound)

\* In a loop, every slot of the filled array has a priority.
LEMMA LoopTypes ==
  ASSUME IInv, error = "none", Percolating
  PROVE  /\ QueueSize \in Nat /\ act_queue_len \in 0..QueueSize
         /\ hole \in 1..act_queue_len /\ act \in Act
         /\ act_queue \in [1..QueueSize -> Act \cup {NULL}]
         /\ Queue = Filled(act_queue, hole, act)
         /\ \A i \in 1..act_queue_len : priority[Queue[i]] \in Nat
         /\ ret \in {"idle", "running"}
<1> USE ActQueueAssumption
<1>1. /\ act_queue_len \in 0..QueueSize /\ hole \in 1..act_queue_len
      /\ act \in Act /\ ret \in {"idle", "running"}
      /\ act_queue \in [1..QueueSize -> Act \cup {NULL}]
      /\ priority \in [Act -> Priorities]
  BY DEF IInv, Sound, Loop, TypeOK, Slots
<1>2. Queue = Filled(act_queue, hole, act)
  BY DEF Queue, Percolating
<1>3. \A i \in 1..act_queue_len : Queue[i] \in Act
  BY DEF IInv, Sound, Members
<1> QED BY <1>1, <1>2, <1>3 DEF Priorities

-----------------------------------------------------------------------------
LEMMA EnterKeeps ==
  ASSUME IInv, error = "none", NEW a \in Act, NEW p \in Priorities, Enter(a, p)
  PROVE  IInv'
<1> USE ActQueueAssumption
<1> DEFINE n == act_queue_len
<1>1. /\ pc \in {"idle", "running"} /\ ~scheduled[a]
      /\ priority' = [priority EXCEPT ![a] = p]
      /\ scheduled' = [scheduled EXCEPT ![a] = FALSE]
      /\ act_queue' = act_queue /\ act_queue_len' = n /\ pc' = pc /\ ret' = ret
      /\ hole' = hole /\ act' = act /\ running' = running /\ error' = error
  BY DEF Enter, queueVars, loopVars
<1>2. /\ n \in Nat /\ priority \in [Act -> Priorities]
      /\ scheduled \in [Act -> BOOLEAN] /\ scheduled' = scheduled
  BY <1>1 DEF IInv, TypeOK
<1>3. TypeOK'
  BY <1>1, <1>2 DEF IInv, TypeOK
<1>4. Queue = act_queue /\ Queue' = act_queue
  BY <1>1 DEF Queue
<1>5. Members' /\ Loop'
  BY <1>1, <1>2, <1>4 DEF IInv, Sound, Members, Loop, Percolating, Queued
<1>6. \A i \in 1..n : act_queue[i] \in Act /\ act_queue[i] # a
  BY <1>1, <1>4 DEF IInv, Sound, Members, Queued
<1>7. \A i \in 1..n : priority'[act_queue[i]] = priority[act_queue[i]]
  BY <1>1, <1>2, <1>6
<1>8. HeapOrdered(act_queue, n, priority')
  <2>1. HeapOrdered(act_queue, n, priority)
    BY <1>1 DEF IInv, Sound, Shape, Callers
  <2>2. ASSUME NEW i \in 2..n
        PROVE  priority'[act_queue[Parent(i)]] <= priority'[act_queue[i]]
    <3>1. Parent(i) \in 1..n /\ i \in 1..n
      BY <1>2, ParentBelow
    <3>2. priority[act_queue[Parent(i)]] <= priority[act_queue[i]]
      BY <2>1 DEF HeapOrdered
    <3> HIDE DEF n
    <3> QED BY <1>7, <3>1, <3>2
  <2> QED BY <2>2 DEF HeapOrdered
<1>9. Shape'
  BY <1>1, <1>8 DEF Shape
<1> QED BY <1>1, <1>3, <1>5, <1>9 DEF IInv, Sound

LEMMA ActivateKeeps ==
  ASSUME IInv, error = "none", NEW a \in Act, Activate(a)
  PROVE  IInv'
<1> USE ActQueueAssumption
<1> DEFINE n == act_queue_len
<1>1. /\ pc \in {"idle", "running"} /\ ~scheduled[a] /\ n < QueueSize
      /\ act_queue_len' = n + 1 /\ act_queue' = act_queue
      /\ priority' = priority /\ scheduled' = scheduled /\ running' = running
      /\ error' = error /\ pc' = "up" /\ hole' = n + 1 /\ act' = a /\ ret' = pc
  BY DEF Activate, HasRoom, Percolate
<1>2. /\ n \in Nat /\ n + 1 \in 1..QueueSize
      /\ act_queue \in [1..QueueSize -> Act \cup {NULL}]
  BY <1>1 DEF IInv, TypeOK, Slots
<1>3. TypeOK'
  BY <1>1, <1>2 DEF IInv, TypeOK, Slots, Phases, Callers
<1>4. Queue = act_queue /\ Queue' = Filled(act_queue, n + 1, a)
  BY <1>1 DEF Queue
<1>5. \A i \in 1..(n + 1) : Queue'[i] = IF i = n + 1 THEN a ELSE act_queue[i]
  BY <1>2, <1>4 DEF Filled
<1>6. /\ \A i \in 1..n : act_queue[i] \in Act /\ scheduled[act_queue[i]]
      /\ \A i, j \in 1..n : act_queue[i] = act_queue[j] => i = j
      /\ \A b \in Act : scheduled[b] => \E i \in 1..n : act_queue[i] = b
  BY <1>1, <1>4 DEF IInv, Sound, Members, Queued
<1>7. Members'
  <2>1. \A i \in 1..(n + 1) : Queue'[i] \in Act /\ (scheduled[Queue'[i]] \/ Queue'[i] = a)
    BY <1>2, <1>5, <1>6
  <2>2. \A i, j \in 1..(n + 1) : Queue'[i] = Queue'[j] => i = j
    BY <1>1, <1>2, <1>5, <1>6
  <2>3. ASSUME NEW b \in Act, scheduled[b] \/ b = a
        PROVE  \E i \in 1..(n + 1) : Queue'[i] = b
    <3>1. CASE b = a
      BY <1>2, <1>5, <3>1
    <3>2. CASE scheduled[b]
      <4>1. PICK i \in 1..n : act_queue[i] = b
        BY <1>6, <3>2
      <4> QED BY <1>2, <1>5, <4>1
    <3> QED BY <2>3, <3>1, <3>2
  <2> QED BY <1>1, <2>1, <2>2, <2>3 DEF Members, Queued
<1>8. Shape'
  <2>1. HeapOrdered(act_queue, n, priority)
    BY <1>1 DEF IInv, Sound, Shape, Callers
  <2>2. UpReady(Filled(act_queue, n + 1, a), n + 1, priority, n + 1)
    <3>1. QueueSize \in Nat /\ n + 1 <= QueueSize /\ a \in Act \cup {NULL}
      BY <1>1, <1>2
    <3> HIDE DEF n
    <3> QED BY <1>2, <2>1, <3>1, LeafOpens
  <2> QED BY <1>1, <1>4, <2>2 DEF Shape, Callers
<1>9. Loop' /\ (act_queue_len <= QueueSize)'
  BY <1>1, <1>2 DEF Loop, Percolating
<1> QED BY <1>3, <1>7, <1>8, <1>9 DEF IInv, Sound

LEMMA ActivateExhaustedKeeps ==
  ASSUME IInv, error = "none", NEW a \in Act, ActivateExhausted(a)
  PROVE  IInv'
<1>1. act_queue_len' \in 0..(QueueSize + 1)
  BY ActQueueAssumption DEF ActivateExhausted, IInv, Sound, TypeOK
<1> QED BY <1>1 DEF ActivateExhausted, IInv, TypeOK, loopVars

-----------------------------------------------------------------------------
\* The loop ends: the record is put in the hole, and marked by percolate_up.
LEMMA PlaceKeeps ==
  ASSUME IInv, error = "none", Percolating, Place,
         HeapOrdered(Queue, act_queue_len, priority),
         pc = "up" => scheduled' = [scheduled EXCEPT ![act] = TRUE],
         pc = "down" => scheduled' = scheduled
  PROVE  IInv'
<1> USE ActQueueAssumption
<1>1. /\ hole \in 1..act_queue_len /\ act_queue_len \in 0..QueueSize
      /\ act_queue \in [1..QueueSize -> Act \cup {NULL}]
      /\ Queue = Filled(act_queue, hole, act) /\ act \in Act
      /\ ret \in {"idle", "running"}
  BY LoopTypes
<1>2. /\ act_queue' = Queue /\ pc' = ret /\ hole' = 1 /\ act' = NULL /\ ret' = "idle"
      /\ act_queue_len' = act_queue_len /\ priority' = priority
      /\ running' = running /\ error' = error
  BY <1>1 DEF Place, Percolate, SSM_QUEUE_HEAD
<1>3. Queue' = Queue
  BY <1>1, <1>2 DEF Queue
<1>4. act_queue' \in [1..QueueSize -> Act \cup {NULL}]
  BY <1>1, <1>2 DEF Filled
<1>5. scheduled \in [Act -> BOOLEAN] /\ scheduled' \in [Act -> BOOLEAN]
  BY DEF IInv, TypeOK, Percolating
<1>6. TypeOK'
  BY <1>1, <1>2, <1>4, <1>5 DEF IInv, TypeOK, Slots, Phases, Callers
<1>7. \A a \in Act : Queued(a)' <=> Queued(a)
  BY <1>1, <1>2, <1>5 DEF Queued, Percolating
<1>8. Members' /\ Shape' /\ Loop'
  BY <1>1, <1>2, <1>3, <1>7
     DEF IInv, Sound, Members, Shape, Loop, Percolating, Callers
<1> QED BY <1>1, <1>2, <1>6, <1>8 DEF IInv, Sound

\* The hole moves to slot j, in either direction.
LEMMA CopyKeeps ==
  ASSUME IInv, error = "none", Percolating,
         NEW j \in 1..act_queue_len, j # hole, CopyFrom(j),
         pc = "up" => UpReady(Filled(act_queue', j, act), act_queue_len, priority, j),
         pc = "down" => DownReady(Filled(act_queue', j, act), act_queue_len, priority, j)
  PROVE  IInv'
<1> USE ActQueueAssumption
<1> DEFINE n == act_queue_len
<1>1. /\ hole \in 1..n /\ n \in 0..QueueSize /\ QueueSize \in Nat
      /\ act_queue \in [1..QueueSize -> Act \cup {NULL}]
      /\ Queue = Filled(act_queue, hole, act) /\ act \in Act
  BY LoopTypes
<1>2. /\ act_queue' = [act_queue EXCEPT ![hole] = act_queue[j]]
      /\ hole' = j /\ pc' = pc /\ ret' = ret /\ act' = act
      /\ act_queue_len' = n /\ priority' = priority /\ scheduled' = scheduled
      /\ running' = running /\ error' = error
  BY DEF CopyFrom
<1>3. Queue' = Filled(act_queue', j, act)
  BY <1>2 DEF Queue, Percolating
<1>4. hole \in 1..QueueSize /\ j \in 1..QueueSize
  BY <1>1
<1>5. \A i \in 1..QueueSize : Queue'[i] = IF i = j THEN Queue[hole]
                                          ELSE IF i = hole THEN Queue[j] ELSE Queue[i]
  BY <1>1, <1>2, <1>3, <1>4 DEF Filled
<1>6. act_queue' \in [1..QueueSize -> Act \cup {NULL}]
  BY <1>1, <1>2, <1>4
<1>7. TypeOK'
  BY <1>1, <1>2, <1>4, <1>6 DEF IInv, TypeOK, Slots
<1>8. Members'
  <2>1. /\ \A i \in 1..n : Queue[i] \in Act /\ Queued(Queue[i])
        /\ \A i, k \in 1..n : Queue[i] = Queue[k] => i = k
        /\ \A a \in Act : Queued(a) => \E i \in 1..n : Queue[i] = a
    BY DEF IInv, Sound, Members
  <2>2. \A i \in 1..n : Queue'[i] = IF i = j THEN Queue[hole]
                                    ELSE IF i = hole THEN Queue[j] ELSE Queue[i]
    BY <1>1, <1>5
  <2>3. \A a \in Act : Queued(a)' <=> Queued(a)
    BY <1>2 DEF Queued
  <2> HIDE DEF n
  <2>4. \A i \in 1..n : Queue'[i] \in Act /\ Queued(Queue[i])
    BY <1>1, <2>1, <2>2 DEF n
  <2>5. ASSUME NEW i \in 1..n PROVE Queue'[i] \in {Queue[k] : k \in 1..n}
    BY <1>1, <2>2 DEF n
  <2>6. \A i, k \in 1..n : Queue'[i] = Queue'[k] => i = k
    BY <1>1, <2>1, <2>2 DEF n
  <2>7. ASSUME NEW a \in Act, Queued(a)
        PROVE  \E i \in 1..n : Queue'[i] = a
    <3>1. PICK i \in 1..n : Queue[i] = a
      BY <2>1, <2>7
    <3> QED BY <1>1, <2>2, <3>1 DEF n
  <2>8. \A i \in 1..n : scheduled'[Queue'[i]] \/ (pc' = "up" /\ Queue'[i] = act')
    BY <1>2, <2>1, <2>5 DEF Queued
  <2> QED BY <1>2, <2>3, <2>4, <2>6, <2>7, <2>8 DEF Members, Queued
<1>9. Shape' /\ Loop'
  BY <1>2, <1>3 DEF Shape, Loop, Percolating, IInv, Sound, Callers
<1> QED BY <1>2, <1>7, <1>8, <1>9 DEF IInv, Sound

LEMMA PercolateUpKeeps ==
  ASSUME IInv, error = "none", PercolateUp
  PROVE  IInv'
<1>1. pc = "up" /\ Percolating
  BY DEF PercolateUp, Percolating
<1>2. /\ hole \in 1..act_queue_len /\ act_queue_len \in 0..QueueSize
      /\ act_queue \in [1..QueueSize -> Act \cup {NULL}]
      /\ Queue = Filled(act_queue, hole, act) /\ QueueSize \in Nat
      /\ \A i \in 1..act_queue_len : priority[Queue[i]] \in Nat
      /\ act \in Act \cup {NULL}
  BY <1>1, LoopTypes
<1>3. UpReady(Filled(act_queue, hole, act), act_queue_len, priority, hole)
  BY <1>1, <1>2 DEF IInv, Sound, Shape
<1>4. CASE GoesUp(act_queue, priority, hole, act)
  <2> DEFINE p == Parent(hole)
  <2>1. CopyFrom(p)
    BY <1>4 DEF PercolateUp
  <2>2. p \in 1..act_queue_len /\ p # hole
    BY <1>2, <1>4, ParentBelow DEF GoesUp, SSM_QUEUE_HEAD
  <2>3. UpReady(Filled([act_queue EXCEPT ![hole] = act_queue[p]], p, act),
                act_queue_len, priority, p)
    BY <1>2, <1>3, <1>4, UpStep
  <2>4. UpReady(Filled(act_queue', p, act), act_queue_len, priority, p)
    BY <2>1, <2>3 DEF CopyFrom
  <2>5. pc # "down"
    BY <1>1
  <2> HIDE DEF p
  <2> QED BY <1>1, <2>1, <2>2, <2>4, <2>5, CopyKeeps
<1>5. CASE ~GoesUp(act_queue, priority, hole, act)
  <2>1. HeapOrdered(Queue, act_queue_len, priority)
    BY <1>2, <1>3, <1>5, UpDone
  <2>2. Place /\ scheduled' = [scheduled EXCEPT ![act] = TRUE] /\ pc # "down"
    BY <1>1, <1>5 DEF PercolateUp
  <2> QED BY <1>1, <2>1, <2>2, PlaceKeeps
<1> QED BY <1>4, <1>5

LEMMA PercolateDownKeeps ==
  ASSUME IInv, error = "none", PercolateDown
  PROVE  IInv'
<1> DEFINE n == act_queue_len
<1>1. pc = "down" /\ Percolating
  BY DEF PercolateDown, Percolating
<1>2. /\ hole \in 1..n /\ n \in 0..QueueSize
      /\ act_queue \in [1..QueueSize -> Act \cup {NULL}]
      /\ Queue = Filled(act_queue, hole, act) /\ QueueSize \in Nat
      /\ \A i \in 1..n : priority[Queue[i]] \in Nat
      /\ act \in Act \cup {NULL}
  BY <1>1, LoopTypes
<1>3. DownReady(Filled(act_queue, hole, act), n, priority, hole)
  BY <1>1, <1>2 DEF IInv, Sound, Shape
<1>4. CASE GoesDown(act_queue, n, priority, hole, act)
  <2> DEFINE c == EarlierChild(act_queue, n, priority, hole)
  <2>1. CopyFrom(c)
    BY <1>4 DEF PercolateDown
  <2>2. /\ c \in 1..n /\ Parent(c) = hole /\ c # hole
        /\ DownReady(Filled([act_queue EXCEPT ![hole] = act_queue[c]], c, act),
                     n, priority, c)
    BY <1>2, <1>3, <1>4, ActQueueAssumption, DownStep
  <2>3. DownReady(Filled(act_queue', c, act), n, priority, c)
    BY <2>1, <2>2 DEF CopyFrom
  <2>4. pc # "up"
    BY <1>1
  <2> HIDE DEF c
  <2> QED BY <1>1, <2>1, <2>2, <2>3, <2>4, CopyKeeps
<1>5. CASE ~GoesDown(act_queue, n, priority, hole, act)
  <2>1. HeapOrdered(Queue, n, priority)
    BY <1>2, <1>3, <1>5, ActQueueAssumption, DownDone
  <2>2. Place /\ scheduled' = scheduled /\ pc # "up"
    BY <1>1, <1>5 DEF PercolateDown
  <2> QED BY <1>1, <2>1, <2>2, PlaceKeeps
<1> QED BY <1>4, <1>5

-----------------------------------------------------------------------------
LEMMA RunHeadKeeps ==
  ASSUME IInv, error = "none", RunHead
  PROVE  IInv'
<1> USE ActQueueAssumption
<1> DEFINE n == act_queue_len
           head == act_queue[1]
           last == act_queue[n]
<1>1. /\ pc = "looping" /\ n > 0 /\ n' = n - 1
      /\ running' = head /\ scheduled' = [scheduled EXCEPT ![head] = FALSE]
      /\ act_queue' = act_queue /\ priority' = priority /\ error' = error
      /\ IF n - 1 > 0
         THEN Percolate("down", 1, last, "running")
         ELSE pc' = "running" /\ ret' = ret /\ hole' = hole /\ act' = act
  BY DEF RunHead, loopVars, SSM_QUEUE_HEAD
<1>2. /\ n \in 1..QueueSize /\ scheduled \in [Act -> BOOLEAN]
      /\ priority \in [Act -> Priorities]
      /\ act_queue \in [1..QueueSize -> Act \cup {NULL}]
      /\ Queue = act_queue
  BY <1>1 DEF IInv, Sound, TypeOK, Slots, Queue
<1>3. /\ \A i \in 1..n : act_queue[i] \in Act /\ scheduled[act_queue[i]]
      /\ \A i, j \in 1..n : act_queue[i] = act_queue[j] => i = j
      /\ \A a \in Act : scheduled[a] => \E i \in 1..n : act_queue[i] = a
  BY <1>1, <1>2 DEF IInv, Sound, Members, Queued
<1>4. head \in Act /\ scheduled' \in [Act -> BOOLEAN]
  BY <1>1, <1>2, <1>3
<1>5. \A a \in Act : scheduled'[a] <=> scheduled[a] /\ a # head
  BY <1>1, <1>2, <1>4
<1>6. \A i \in 1..n : i # 1 => act_queue[i] # head
  BY <1>2, <1>3
<1>7. HeapOrdered(act_queue, n - 1, priority)
  <2>1. HeapOrdered(act_queue, n, priority)
    BY <1>1 DEF IInv, Sound, Shape, Callers
  <2> QED BY <1>2, <2>1 DEF HeapOrdered
<1>8. CASE n - 1 > 0
  <2>1. last \in Act /\ last # head /\ 1 \in 1..(n - 1) /\ n - 1 \in 1..QueueSize
    BY <1>2, <1>3, <1>6, <1>8
  <2>2. /\ pc' = "down" /\ hole' = 1 /\ act' = last /\ ret' = "running"
        /\ Queue' = Filled(act_queue, 1, last)
    BY <1>1, <1>8 DEF Percolate, Queue
  <2>3. \A i \in 1..(n - 1) : Queue'[i] = IF i = 1 THEN last ELSE act_queue[i]
    BY <1>2, <2>2 DEF Filled
  <2>4. TypeOK'
    BY <1>1, <1>2, <1>4, <2>1, <2>2 DEF IInv, TypeOK, Slots, Phases, Callers
  <2>5. Loop' /\ (act_queue_len <= QueueSize)'
    BY <1>1, <1>2, <2>1, <2>2 DEF Loop, Percolating
  <2>6. Members'
    <3>1. \A i \in 1..(n - 1) : Queue'[i] \in Act /\ scheduled'[Queue'[i]]
      BY <1>2, <1>3, <1>5, <1>6, <2>1, <2>3
    <3>2. \A i, j \in 1..(n - 1) : Queue'[i] = Queue'[j] => i = j
      BY <1>2, <1>3, <2>3
    <3>3. ASSUME NEW a \in Act, scheduled'[a]
          PROVE  \E i \in 1..(n - 1) : Queue'[i] = a
      <4>1. PICK i \in 1..n : act_queue[i] = a
        BY <1>3, <1>5, <3>3
      <4>2. i # 1
        BY <1>5, <3>3, <4>1
      <4>3. CASE i = n
        BY <2>1, <2>3, <4>1, <4>3
      <4>4. CASE i # n
        BY <1>2, <2>3, <4>1, <4>2, <4>4
      <4> QED BY <4>3, <4>4
    <3> QED BY <1>1, <2>2, <3>1, <3>2, <3>3 DEF Members, Queued
  <2>7. Shape'
    <3>1. \A i \in 1..(n - 1) : priority[act_queue[i]] \in Nat
      BY <1>2, <1>3 DEF Priorities
    <3>2. n - 1 \in Nat /\ priority[last] \in Nat
      BY <1>2, <2>1 DEF Priorities
    <3>3. HoleReady(act_queue, n - 1, priority, 1)
      <4>1. \A i \in 1..(n - 1) : i # 1 => priority[act_queue[i]] = priority[act_queue[i]]
        OBVIOUS
      <4> HIDE DEF n, last
      <4> QED BY <1>7, <2>1, <3>1, <3>2, <4>1, HoleOpens
    <3>4. DownReady(Filled(act_queue, 1, last), n - 1, priority, 1)
      <4>1. SinksFrom(act_queue, priority, 1, last)
        BY DEF SinksFrom, SSM_QUEUE_HEAD
      <4>2. \A i \in 1..(n - 1) : priority[Filled(act_queue, 1, last)[i]] \in Nat
        BY <2>2, <2>3, <3>1, <3>2
      <4>3. QueueSize \in Nat /\ n - 1 \in 0..QueueSize /\ last \in Act \cup {NULL}
        BY <1>2, <2>1
      <4> HIDE DEF n, last
      <4> QED BY <1>2, <2>1, <3>3, <4>1, <4>2, <4>3, HoleFills
    <3> QED BY <1>1, <2>2, <3>4 DEF Shape, Callers
  <2> QED BY <2>4, <2>5, <2>6, <2>7 DEF IInv, Sound
<1>9. CASE ~(n - 1 > 0)
  <2>1. n = 1 /\ n' = 0
    BY <1>1, <1>2, <1>9
  <2>2. pc' = "running" /\ ret' = ret /\ hole' = hole /\ act' = act
    BY <1>1, <1>9
  <2>3. TypeOK'
    BY <1>1, <1>2, <1>4, <2>1, <2>2 DEF IInv, TypeOK, Phases, Callers
  <2>4. Members'
    BY <1>3, <1>5, <2>1, <2>2 DEF Members, Queued
  <2>5. Shape' /\ Loop' /\ (act_queue_len <= QueueSize)'
    BY <1>2, <2>1, <2>2 DEF Shape, Loop, Percolating, HeapOrdered, Callers
  <2> QED BY <2>3, <2>4, <2>5 DEF IInv, Sound
<1> QED BY <1>8, <1>9

\* The steps that leave the queue alone, and a reset of an empty queue.
LEMMA ControlKeeps ==
  ASSUME ~ResetQueued, IInv, error = "none",
         BeginRuns \/ StepReturns \/ EndRuns \/ Reset
  PROVE  IInv'
<1> USE ActQueueAssumption
<1>1. /\ act_queue' = act_queue /\ act_queue_len' = act_queue_len
      /\ priority' = priority /\ scheduled' = scheduled
      /\ ret' = ret /\ hole' = hole /\ act' = act /\ error' = error
      /\ running' \in {running, NULL}
      /\ pc \in Callers /\ pc' \in Callers
  BY DEF BeginRuns, StepReturns, EndRuns, Reset, queueVars, loopVars, Callers
<1>2. Queue' = Queue /\ ~Percolating /\ ~Percolating'
  BY <1>1 DEF Queue, Percolating, Callers
<1>3. TypeOK'
  BY <1>1 DEF IInv, TypeOK, Phases
<1>4. pc # "up" /\ pc' # "up" /\ pc' # "down"
  BY <1>1 DEF Callers
<1>5. Members' /\ Loop' /\ (act_queue_len <= QueueSize)'
  BY <1>1, <1>2, <1>4 DEF IInv, Sound, Members, Loop, Queued
<1>6. Shape'
  BY <1>1, <1>4 DEF IInv, Sound, Shape
<1> QED BY <1>1, <1>3, <1>5, <1>6 DEF IInv, Sound

-----------------------------------------------------------------------------
(***************************************************************************)
(* The theorems.                                                           *)
(***************************************************************************)
\* The queue starts empty and sound.
LEMMA InitSound == Init => IInv
<1> USE ActQueueAssumption
<1> SUFFICES ASSUME Init PROVE IInv
  OBVIOUS
<1>1. TypeOK
  BY DEF Init, TypeOK, Slots, Phases, Callers, SSM_QUEUE_HEAD
<1>2. Sound
  BY DEF Init, Sound, Loop, Members, Shape, HeapOrdered, Percolating, Queued
<1> QED BY <1>1, <1>2 DEF IInv

\* Every step, percolation steps included, keeps the invariant.
LEMMA StepKeeps ==
  ASSUME ~ResetQueued, IInv, [Next]_vars
  PROVE  IInv'
<1>1. CASE UNCHANGED vars
  <2>1. Queue' = Queue
    BY <1>1 DEF vars, queueVars, loopVars, Queue
  <2> QED BY <1>1, <2>1
          DEF vars, queueVars, loopVars, IInv, TypeOK, Sound, Loop, Members,
              Shape, Percolating, Queued
<1>2. CASE Next
  <2>1. error = "none"
    BY <1>2 DEF Next
  <2> QED BY <1>2, <2>1, EnterKeeps, ActivateKeeps, ActivateExhaustedKeeps,
             PercolateUpKeeps, PercolateDownKeeps, RunHeadKeeps, ControlKeeps
          DEF Next, Loops
<1> QED BY <1>1, <1>2

THEOREM Invariance == ASSUME ~ResetQueued PROVE Spec => []IInv
<1>1. Init => IInv
  BY InitSound
<1>2. IInv /\ [Next]_vars => IInv'
  BY StepKeeps
<1> QED BY <1>1, <1>2, PTL DEF Spec

\* Type correctness.
THEOREM TypeCorrect == ASSUME ~ResetQueued PROVE Spec => []TypeOK
<1>1. IInv => TypeOK
  BY DEF IInv
<1> QED BY <1>1, Invariance, PTL

\* The flag `scheduled` and the array agree, so a record is queued once however
\* often it is activated.
THEOREM QueuedOnce == ASSUME ~ResetQueued PROVE Spec => []ScheduledIffQueued
<1>1. IInv => ScheduledIffQueued
  BY DEF IInv, Sound, Members, Queued, ScheduledIffQueued
<1> QED BY <1>1, Invariance, PTL

\* act_queue_consistency_check passes whenever it may be called.
THEOREM HeapOrderKept ==
  ASSUME ~ResetQueued PROVE Spec => []HeapOrderedBetweenCalls
<1>1. IInv => HeapOrderedBetweenCalls
  BY DEF IInv, Sound, Shape, HeapOrderedBetweenCalls
<1> QED BY <1>1, Invariance, PTL

\* The head of the array has the least priority of all that are scheduled.
LEMMA HeadRunsFirst == ASSUME IInv PROVE LeastRunsFirst
<1> USE ActQueueAssumption
<1> SUFFICES ASSUME error = "none", pc = "looping", NEW a \in Act, scheduled[a]
             PROVE  /\ act_queue_len > 0
                    /\ priority[act_queue[SSM_QUEUE_HEAD]] <= priority[a]
  BY DEF LeastRunsFirst
<1>1. /\ act_queue_len \in Nat /\ Queue = act_queue
      /\ HeapOrdered(act_queue, act_queue_len, priority)
      /\ priority \in [Act -> Priorities]
  BY DEF IInv, Sound, Shape, TypeOK, Queue, Callers
<1>2. PICK i \in 1..act_queue_len : act_queue[i] = a
  BY <1>1 DEF IInv, Sound, Members, Queued
<1>3. \A j \in 1..act_queue_len : priority[act_queue[j]] \in Nat
  BY <1>1 DEF IInv, Sound, Members, Priorities
<1>4. priority[act_queue[1]] <= priority[act_queue[i]]
  BY <1>1, <1>3, HeadIsLeast
<1> QED BY <1>1, <1>2, <1>4 DEF SSM_QUEUE_HEAD

\* ssm_tick runs the records in order of priority.
THEOREM PriorityOrder == ASSUME ~ResetQueued PROVE Spec => []LeastRunsFirst
<1>1. IInv => LeastRunsFirst
  BY HeadRunsFirst
<1> QED BY <1>1, Invariance, PTL

-----------------------------------------------------------------------------
(***************************************************************************)
(* No percolation runs for ever: while the code is in one, whatever it     *)
(* does brings the hole nearer to an end of the array, or is its return.   *)
(***************************************************************************)
\* Iterations left to a percolate loop, at most, and none outside of one.
ToGo == IF pc = "up" THEN hole ELSE IF pc = "down" THEN QueueSize + 1 - hole ELSE 0

Nears == error = "none" /\ Percolating => ToGo \in Nat /\ ToGo' \in Nat /\ ToGo' < ToGo

LEMMA PercolationNears ==
  ASSUME IInv, error = "none", Percolating, Next
  PROVE  Nears
<1>1. PercolateUp \/ PercolateDown
  BY DEF Next, Loops, Percolating, Enter, Activate, ActivateExhausted, BeginRuns,
         RunHead, StepReturns, EndRuns, Reset
<1>2. /\ QueueSize \in Nat /\ act_queue_len \in 0..QueueSize
      /\ hole \in 1..act_queue_len
      /\ ret \in {"idle", "running"}
  BY LoopTypes
<1>3. ToGo \in Nat /\ ToGo > 0
  BY <1>2 DEF ToGo, Percolating
<1>4. CASE Place
  <2>1. pc' = ret
    BY <1>4 DEF Place, Percolate
  <2>2. ToGo' = 0
    BY <1>2, <2>1 DEF ToGo
  <2> QED BY <1>3, <2>2 DEF Nears
<1>5. ASSUME NEW i \in 1..QueueSize, CopyFrom(i),
             (pc = "up" /\ i < hole) \/ (pc = "down" /\ i > hole)
      PROVE  Nears
  <2>1. pc' = pc /\ hole' = i
    BY <1>5 DEF CopyFrom
  <2>2. ToGo' \in Nat /\ ToGo' < ToGo
    BY <1>2, <1>5, <2>1 DEF ToGo
  <2> QED BY <1>3, <2>2 DEF Nears
<1>6. CASE pc = "up" /\ GoesUp(act_queue, priority, hole, act)
  <2>1. CopyFrom(Parent(hole))
    BY <1>1, <1>6 DEF PercolateUp, PercolateDown
  <2>2. Parent(hole) \in 1..QueueSize /\ Parent(hole) < hole
    BY <1>2, <1>6, ParentBelow DEF GoesUp, SSM_QUEUE_HEAD
  <2> QED BY <1>5, <1>6, <2>1, <2>2
<1>7. CASE pc = "down" /\ GoesDown(act_queue, act_queue_len, priority, hole, act)
  <2> DEFINE c == EarlierChild(act_queue, act_queue_len, priority, hole)
  <2>1. CopyFrom(c)
    BY <1>1, <1>7 DEF PercolateUp, PercolateDown
  <2>2. LeftOf(hole) = 2 * hole
    BY <1>2, <1>7, ActQueueAssumption, LeftOfIs
  <2>3. /\ c = 2 * hole \/ (c = 2 * hole + 1 /\ 2 * hole + 1 <= act_queue_len)
        /\ 2 * hole <= act_queue_len
    BY <1>7, <2>2 DEF EarlierChild, GoesDown
  <2> HIDE DEF c
  <2>4. c \in 1..QueueSize /\ c > hole
    BY <1>2, <2>3
  <2> QED BY <1>5, <1>7, <2>1, <2>4
<1> QED BY <1>1, <1>4, <1>6, <1>7 DEF PercolateUp, PercolateDown

\* Every step within act_queue_percolate_up or act_queue_percolate_down lowers a
\* natural number, so each call of them returns.
THEOREM PercolationsGetOn == ASSUME ~ResetQueued PROVE Spec => [][Nears]_vars
<1>1. IInv /\ [Next]_vars => [Nears]_vars
  BY PercolationNears DEF Nears
<1> QED BY <1>1, Invariance, PTL DEF Spec

-----------------------------------------------------------------------------
(***************************************************************************)
(* The queue as a set.                                                     *)
(***************************************************************************)
InQueue == {a \in Act : scheduled[a] \/ (pc = "up" /\ a = act)}

\* There are as many records in the set as there are slots in use.
LEMMA LengthCounts ==
  ASSUME IInv, error = "none"
  PROVE  Cardinality(InQueue) = act_queue_len
<1> DEFINE f == [i \in 1..act_queue_len |-> Queue[i]]
<1>1. act_queue_len \in Nat
  BY ActQueueAssumption DEF IInv, TypeOK
<1>2. f \in Bijection(1..act_queue_len, InQueue)
  <2>1. \A i \in 1..act_queue_len : f[i] \in InQueue
    BY DEF IInv, Sound, Members, Queued, InQueue
  <2>2. \A i, j \in 1..act_queue_len : f[i] = f[j] => i = j
    BY DEF IInv, Sound, Members
  <2>3. \A a \in InQueue : \E i \in 1..act_queue_len : f[i] = a
    BY DEF IInv, Sound, Members, Queued, InQueue
  <2> QED BY <2>1, <2>2, <2>3 DEF Bijection, Injection, Surjection, IsInjective
<1>3. ExistsBijection(1..act_queue_len, InQueue)
  BY <1>2 DEF ExistsBijection
<1> QED BY <1>1, <1>3, FS_CountingElements

\* The cardinality ActSet speaks of is the one of finite sets.
LEMMA SameCardinality == \A S : Records!Cardinality(S) = Cardinality(S)
BY DEF Records!Cardinality, Cardinality

LEMMA EnterImplements ==
  ASSUME IInv, error = "none", NEW a \in Act, NEW p \in Priorities, Enter(a, p)
  PROVE  Records!Next
<1>1. scheduled' = scheduled
  BY DEF Enter, IInv, TypeOK
<1>2. Records!Enter(a, p)
  BY <1>1 DEF Enter, loopVars, Records!Enter
<1> QED BY <1>2 DEF Records!Next

LEMMA ActivateImplements ==
  ASSUME IInv, error = "none", NEW a \in Act, Activate(a)
  PROVE  Records!Next
<1>1. Cardinality(InQueue) < QueueSize
  BY LengthCounts DEF Activate, HasRoom
<1>2. Records!Activate(a)
  BY <1>1, SameCardinality DEF Activate, Percolate, InQueue, Records!Activate
<1> QED BY <1>2 DEF Records!Next

LEMMA ActivateExhaustedImplements ==
  ASSUME IInv, error = "none", NEW a \in Act, ActivateExhausted(a)
  PROVE  Records!Next
<1>1. Cardinality(InQueue) = QueueSize
  BY LengthCounts, ActQueueAssumption DEF ActivateExhausted, HasRoom, IInv, Sound, TypeOK
<1>2. Records!Refuse
  BY <1>1, SameCardinality DEF ActivateExhausted, loopVars, InQueue, Records!Refuse
<1> QED BY <1>2 DEF Records!Next

\* An iteration of a percolate loop is nothing to the set; the last one of
\* percolate_up marks the record that has been in it since the first.
LEMMA PercolateStutters ==
  ASSUME IInv, error = "none", PercolateUp \/ PercolateDown
  PROVE  UNCHANGED Records!vars
<1>1. /\ pc \in {"up", "down"} /\ act \in Act /\ ret \in {"idle", "running"}
      /\ scheduled \in [Act -> BOOLEAN]
  BY LoopTypes DEF PercolateUp, PercolateDown, Percolating, IInv, TypeOK
<1>2. CASE \E i : CopyFrom(i)
  BY <1>1, <1>2 DEF CopyFrom, Records!vars
<1>3. CASE Place /\ pc = "up" /\ scheduled' = [scheduled EXCEPT ![act] = TRUE]
  BY <1>1, <1>3 DEF Place, Percolate, Records!vars
<1>4. CASE Place /\ pc = "down" /\ UNCHANGED scheduled
  BY <1>1, <1>4 DEF Place, Percolate, Records!vars
<1> QED BY <1>2, <1>3, <1>4 DEF PercolateUp, PercolateDown

\* The head of the array is a record of least priority, and leaves the set.
LEMMA RunHeadImplements ==
  ASSUME IInv, error = "none", RunHead
  PROVE  Records!Next
<1>1. PICK head \in Act : head = act_queue[1] /\ scheduled[head]
  <2>1. act_queue_len \in Nat
    BY ActQueueAssumption DEF IInv, TypeOK
  <2>2. 1 \in 1..act_queue_len
    BY <2>1 DEF RunHead
  <2>3. Queue = act_queue
    BY DEF Queue, RunHead
  <2>4. act_queue[1] \in Act /\ Queued(act_queue[1])
    BY <2>2, <2>3 DEF IInv, Sound, Members
  <2> QED BY <2>4 DEF Queued, RunHead
<1>2. /\ pc = "looping"
      /\ pc' \in {"down", "running"}
      /\ pc' = "down" => ret' = "running"
      /\ running' = head
      /\ scheduled' = [scheduled EXCEPT ![head] = FALSE]
      /\ UNCHANGED <<priority, error>>
  BY <1>1 DEF RunHead, Percolate, SSM_QUEUE_HEAD
<1>3. \A a \in Act : scheduled[a] => priority[head] <= priority[a]
  BY <1>1, <1>2, HeadRunsFirst DEF LeastRunsFirst, SSM_QUEUE_HEAD
<1>4. scheduled \in [Act -> BOOLEAN]
  BY DEF IInv, TypeOK
<1>5. \A a \in Act : scheduled'[a] <=> scheduled[a] /\ a # head
  BY <1>2, <1>4
<1>6. {a \in Act : scheduled'[a] \/ (pc' = "up" /\ a = act')} =
        {a \in Act : scheduled[a] \/ (pc = "up" /\ a = act)} \ {head}
  BY <1>2, <1>5
<1>7. (IF pc' \in {"up", "down"} THEN ret' ELSE pc') = "running"
  BY <1>2
<1>8. Records!Run(head)
  BY <1>1, <1>2, <1>3, <1>6, <1>7 DEF Records!Run
<1> QED BY <1>8 DEF Records!Next

LEMMA ControlImplements ==
  ASSUME ~ResetQueued, IInv, error = "none",
         BeginRuns \/ StepReturns \/ EndRuns \/ Reset
  PROVE  [Records!Next]_(Records!vars)
<1>1. CASE BeginRuns
  BY <1>1 DEF BeginRuns, queueVars, loopVars, Records!BeginRuns, Records!Next
<1>2. CASE StepReturns
  BY <1>2 DEF StepReturns, queueVars, loopVars, Records!StepReturns, Records!Next
<1>3. CASE EndRuns
  <2>1. \A a \in Act : ~scheduled[a]
    BY <1>3 DEF EndRuns, IInv, Sound, Members, Queued
  <2> QED BY <1>3, <2>1 DEF EndRuns, queueVars, loopVars, Records!EndRuns, Records!Next
<1>4. CASE Reset
  BY <1>4 DEF Reset, loopVars, Records!vars
<1> QED BY <1>1, <1>2, <1>3, <1>4

LEMMA InitImplements == Init => Records!Init
BY DEF Init, Records!Init

LEMMA StepImplements ==
  ASSUME ~ResetQueued, IInv, [Next]_vars
  PROVE  [Records!Next]_(Records!vars)
<1>1. CASE UNCHANGED vars
  BY <1>1 DEF vars, queueVars, loopVars, Records!vars
<1>2. CASE Next
  <2>1. error = "none"
    BY <1>2 DEF Next
  <2> QED BY <1>2, <2>1, EnterImplements, ActivateImplements, ActivateExhaustedImplements,
             PercolateStutters, RunHeadImplements, ControlImplements
          DEF Next, Loops
<1> QED BY <1>1, <1>2

\* The activation queue behaves as a set: no activation gets lost in the array and
\* none comes twice, the run loop takes the least and goes on until the set is empty, and
\* activations are refused only when it has QueueSize records.
THEOREM Implementation == ASSUME ~ResetQueued PROVE Spec => ImplementsActSet
<1>1. Init => Records!Init
  BY InitImplements
<1>2. IInv /\ [Next]_vars => [Records!Next]_(Records!vars)
  BY StepImplements
<1> QED BY <1>1, <1>2, Invariance, PTL DEF Spec, ImplementsActSet, Records!Spec
=============================================================================
