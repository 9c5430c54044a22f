-------------------------- MODULE EventQueueProofs --------------------------
(***************************************************************************)
(* The safety invariants of EventQueue, for any variables, any queue size  *)
(* and any SSM_NEVER, when callers keep to Disciplined; and from them that *)
(* it implements EventSet.                                                 *)
(***************************************************************************)
EXTENDS EventQueue, Lemmas, FiniteSetTheorems

\* No value replaced by ssm_sv_later_unsafe owns a pending variable, ssm_reset
\* finds the queue empty, and nobody schedules an event for SSM_NEVER.
Disciplined == ~DropInLater /\ ~ResetPending /\ MaxWhen < Never

Percolating == pc \in {"up", "down"}
Phase == IF Percolating THEN ret ELSE pc

-----------------------------------------------------------------------------
(***************************************************************************)
(* The inductive invariant.  HeapOrderedBetweenCalls says nothing of the    *)
(* states in a loop, so it is strengthened with the loop invariants; that  *)
(* the loops move entries without losing any is Members, stated of the     *)
(* array with the entry in the hole; HeadIsTarget must be kept by the      *)
(* percolations of a nested ssm_unschedule, which therefore stay below the *)
(* root (Updating).                                                        *)
(***************************************************************************)
Loop == Percolating => /\ hole \in 1..event_queue_len
                       /\ var \in SV
                       /\ ret \in {"idle", "ticking", "updating"}

Members ==
  /\ \A i \in 1..event_queue_len : Queue[i] \in SV /\ later_time[Queue[i]] # Never
  /\ \A i, j \in 1..event_queue_len : Queue[i] = Queue[j] => i = j
  /\ \A v \in SV : later_time[v] # Never => \E i \in 1..event_queue_len : Queue[i] = v

Shape ==
  /\ pc \in {"idle", "ticking", "updating"} =>
       HeapOrdered(event_queue, event_queue_len, later_time)
  /\ pc = "up" => UpReady(Queue, event_queue_len, later_time, hole)
  /\ pc = "down" => DownReady(Queue, event_queue_len, later_time, hole)
  /\ pc = "dropping" =>
       /\ target \in SV
       /\ later_time[target] # Never
       /\ \A i \in 1..event_queue_len : event_queue[i] = target =>
            HoleReady(event_queue, event_queue_len, later_time, i)

NotPast == \A v \in SV : later_time[v] >= now

Updating == Phase = "updating" => /\ target \in SV
                                  /\ event_queue_len > 0
                                  /\ event_queue[1] = target
                                  /\ later_time[target] = now
                                  /\ Percolating => hole # 1

Quiet == MinDelay >= 1 /\ Phase \in {"idle", "dropping"} =>
           \A v \in SV : later_time[v] # now

Sound == /\ event_queue_len <= QueueSize
         /\ Loop
         /\ Members
         /\ Shape
         /\ NotPast
         /\ Updating
         /\ Quiet

NoFault == /\ error \notin {"event_not_found", "tick_stale"}
           /\ MinDelay >= 1 => error # "tick_in_past"

IInv == /\ TypeOK
        /\ now < Never
        /\ NoFault
        /\ error = "none" => Sound

-----------------------------------------------------------------------------
\* Between calls every slot in use has a time, and the least one at the head.
LEMMA HeadTime ==
  ASSUME IInv, error = "none", pc \in {"idle", "ticking", "updating"}
  PROVE  /\ \A i \in 1..event_queue_len :
              /\ event_queue[i] \in SV
              /\ later_time[event_queue[i]] \in Nat
              /\ later_time[event_queue[1]] <= later_time[event_queue[i]]
         /\ \A v \in SV : later_time[v] # Never =>
              event_queue_len > 0 /\ NextEventTime <= later_time[v]
         /\ event_queue_len > 0 =>
              /\ NextEventTime = later_time[event_queue[1]]
              /\ NextEventTime \in Nat /\ NextEventTime < Never
              /\ NextEventTime >= now
<1> USE EventQueueAssumption
<1>1. Queue = event_queue
  BY DEF Queue
<1>2. \A i \in 1..event_queue_len :
        event_queue[i] \in SV /\ later_time[event_queue[i]] \in Nat
                              /\ later_time[event_queue[i]] < Never
  BY <1>1 DEF IInv, Sound, Members, TypeOK, Times
<1>3. event_queue_len \in Nat /\ HeapOrdered(event_queue, event_queue_len, later_time)
  BY DEF IInv, Sound, Shape, TypeOK
<1>4. \A i \in 1..event_queue_len :
        later_time[event_queue[1]] <= later_time[event_queue[i]]
  BY <1>2, <1>3, HeadIsLeast
<1>5. event_queue_len > 0 => NextEventTime = later_time[event_queue[1]]
  BY <1>3 DEF NextEventTime, SSM_QUEUE_HEAD
<1>6. ASSUME NEW v \in SV, later_time[v] # Never
      PROVE  event_queue_len > 0 /\ NextEventTime <= later_time[v]
  <2>1. PICK i \in 1..event_queue_len : event_queue[i] = v
    BY <1>1, <1>6 DEF IInv, Sound, Members
  <2> QED BY <1>3, <1>4, <1>5, <2>1
<1>7. event_queue_len > 0 => later_time[event_queue[1]] >= now
  BY <1>2, <1>3 DEF IInv, Sound, NotPast
<1> QED BY <1>2, <1>3, <1>4, <1>5, <1>6, <1>7

\* A variable with a pending event is found, in the one slot that holds it.
LEMMA Found ==
  ASSUME IInv, error = "none", ~Percolating,
         NEW v \in SV, later_time[v] # Never
  PROVE  /\ SlotsOf(v) # {}
         /\ Find(v) \in 1..event_queue_len
         /\ event_queue[Find(v)] = v
         /\ \A i \in 1..event_queue_len : event_queue[i] = v => i = Find(v)
<1>1. Queue = event_queue
  BY DEF Queue, Percolating
<1>2. PICK h \in 1..event_queue_len : event_queue[h] = v
  BY <1>1 DEF IInv, Sound, Members
<1>3. \A i \in 1..event_queue_len : event_queue[i] = v => i = h
  BY <1>1, <1>2 DEF IInv, Sound, Members
<1>4. SlotsOf(v) = {h}
  BY <1>2, <1>3 DEF SlotsOf
<1>5. Find(v) \in SlotsOf(v) /\ \A j \in SlotsOf(v) : Find(v) <= j
  BY <1>4 DEF Find
<1> QED BY <1>2, <1>3, <1>4, <1>5

\* A throw changes nothing else.
LEMMA ThrowKeeps ==
  ASSUME IInv, NEW e \in Errors, Throw(e),
         e \notin {"none", "event_not_found", "tick_stale", "tick_in_past"}
  PROVE  IInv'
BY DEF IInv, Throw, NoFault, TypeOK, queueVars, loopVars

LEMMA LaterNewKeeps ==
  ASSUME Disciplined, IInv, error = "none", pc = "idle",
         NEW v \in SV, NEW when \in Whens, LaterNew(v, when)
  PROVE  IInv'
<1> USE EventQueueAssumption
<1> DEFINE n == event_queue_len
<1>1. when \in Nat /\ when < Never /\ when >= now /\ when \in Times
      /\ (MinDelay >= 1 => when # now)
  BY DEF LaterNew, Whens, Disciplined, IInv, TypeOK, Times
<1>2. /\ n \in Nat /\ n + 1 \in 1..QueueSize /\ event_queue_len' = n + 1
      /\ event_queue' = event_queue /\ hole' = n + 1 /\ var' = v /\ ret' = "idle"
      /\ pc' = "up" /\ later_time' = [later_time EXCEPT ![v] = when]
      /\ now' = now /\ target' = target /\ error' = error
  BY DEF LaterNew, Percolate, IInv, TypeOK
<1>3. /\ event_queue \in [1..QueueSize -> SV \cup {NULL}]
      /\ later_time \in [SV -> Times] /\ later_time' \in [SV -> Times]
  BY <1>1, <1>2 DEF IInv, TypeOK, Slots
<1>4. TypeOK' /\ (now < Never)' /\ NoFault'
  BY <1>2, <1>3 DEF IInv, TypeOK, NoFault, Slots, Phases, Callers
<1>5. Queue = event_queue /\ Queue' = Filled(event_queue, n + 1, v)
  BY <1>2 DEF Queue
<1>6. \A i \in 1..(n + 1) : Queue'[i] = IF i = n + 1 THEN v ELSE event_queue[i]
  BY <1>2, <1>3, <1>5 DEF Filled
<1>7. \A i \in 1..n : event_queue[i] \in SV /\ event_queue[i] # v
                      /\ later_time'[event_queue[i]] = later_time[event_queue[i]]
  BY <1>2, <1>3, <1>5 DEF IInv, Sound, Members, LaterNew
<1>8. Members'
  <2>1. \A i \in 1..(n + 1) : Queue'[i] \in SV /\ later_time'[Queue'[i]] # Never
    BY <1>1, <1>2, <1>3, <1>5, <1>6, <1>7 DEF IInv, Sound, Members
  <2>2. \A i, j \in 1..(n + 1) : Queue'[i] = Queue'[j] => i = j
    BY <1>2, <1>5, <1>6, <1>7 DEF IInv, Sound, Members
  <2>3. ASSUME NEW u \in SV, later_time'[u] # Never
        PROVE  \E i \in 1..(n + 1) : Queue'[i] = u
    <3>1. CASE u = v
      BY <1>2, <1>6, <3>1
    <3>2. CASE u # v
      <4>1. later_time[u] # Never
        BY <1>2, <1>3, <2>3, <3>2
      <4>2. PICK i \in 1..n : event_queue[i] = u
        BY <1>5, <4>1 DEF IInv, Sound, Members
      <4> QED BY <1>2, <1>6, <4>2
    <3> QED BY <3>1, <3>2
  <2> QED BY <1>2, <2>1, <2>2, <2>3 DEF Members
<1>9. Shape'
  <2>1. HeapOrdered(event_queue, n, later_time)
    BY DEF IInv, Sound, Shape
  <2>2. UpReady(Filled(event_queue, n + 1, v), n + 1, later_time', n + 1)
    <3>1. /\ QueueSize \in Nat /\ n + 1 <= QueueSize /\ v \in SV \cup {NULL}
          /\ \A i \in 1..n : later_time'[event_queue[i]] = later_time[event_queue[i]]
      BY <1>2, <1>7
    <3> HIDE DEF n
    <3> QED BY <1>2, <1>3, <2>1, <3>1, LeafOpens
  <2> QED BY <1>2, <1>5, <2>2 DEF Shape
<1>10. Loop' /\ NotPast' /\ Updating' /\ Quiet' /\ (event_queue_len <= QueueSize)'
  BY <1>1, <1>2, <1>3
     DEF Loop, NotPast, Updating, Quiet, Percolating, Phase, IInv, Sound
<1> QED BY <1>4, <1>8, <1>9, <1>10 DEF IInv, Sound

LEMMA LaterExhaustedKeeps ==
  ASSUME Disciplined, IInv, error = "none",
         NEW v \in SV, NEW when \in Whens, LaterExhausted(v, when)
  PROVE  IInv'
<1> USE EventQueueAssumption
<1>1. later_time' \in [SV -> Times]
  BY DEF LaterExhausted, Whens, IInv, TypeOK, Times
<1>2. event_queue_len' \in 0..(QueueSize + 1)
  BY DEF LaterExhausted, IInv, TypeOK
<1> QED BY <1>1, <1>2
        DEF LaterExhausted, IInv, TypeOK, NoFault, Errors, loopVars

LEMMA LaterPendingKeeps ==
  ASSUME Disciplined, IInv, error = "none", pc = "idle",
         NEW v \in SV, NEW when \in Whens, LaterPending(v, when)
  PROVE  IInv'
<1> USE EventQueueAssumption
<1> DEFINE n == event_queue_len
<1>1. when \in Nat /\ when < Never /\ when >= now /\ when \in Times
      /\ (MinDelay >= 1 => when # now)
  BY DEF LaterPending, Whens, Disciplined, IInv, TypeOK, Times
<1>2. /\ event_queue_len' = n /\ event_queue' = event_queue
      /\ hole' = hole /\ var' = var /\ ret' = ret /\ pc' = "dropping"
      /\ later_time' = [later_time EXCEPT ![v] = when]
      /\ now' = now /\ target' = v /\ error' = error
      /\ later_time[v] # Never
  BY DEF LaterPending, loopVars
<1>3. /\ n \in Nat /\ later_time \in [SV -> Times] /\ later_time' \in [SV -> Times]
  BY <1>1, <1>2 DEF IInv, TypeOK
<1>4. TypeOK' /\ (now < Never)' /\ NoFault'
  BY <1>2, <1>3 DEF IInv, TypeOK, NoFault, Phases, Callers
<1>5. Queue = event_queue /\ Queue' = event_queue
  BY <1>2 DEF Queue
<1>6. \A u \in SV : later_time'[u] = IF u = v THEN when ELSE later_time[u]
  BY <1>2, <1>3
<1>7. Members'
  BY <1>1, <1>2, <1>5, <1>6 DEF IInv, Sound, Members
<1>8. Shape'
  <2>1. HeapOrdered(event_queue, n, later_time)
    BY DEF IInv, Sound, Shape
  <2>2. \A i \in 1..n : later_time[event_queue[i]] \in Nat /\ event_queue[i] \in SV
    BY HeadTime
  <2>3. ASSUME NEW i \in 1..n, event_queue[i] = v
        PROVE  HoleReady(event_queue, n, later_time', i)
    <3>1. \A j \in 1..n : j # i => event_queue[j] # v
      BY <1>5, <2>3 DEF IInv, Sound, Members
    <3>2. \A j \in 1..n : j # i =>
            later_time'[event_queue[j]] = later_time[event_queue[j]]
      BY <1>6, <2>2, <3>1
    <3> QED BY <1>3, <2>1, <2>2, <3>2, HoleOpens
  <2>4. later_time'[v] # Never
    BY <1>1, <1>6
  <2> QED BY <1>2, <2>3, <2>4 DEF Shape
<1>9. Loop' /\ NotPast' /\ Updating' /\ Quiet' /\ (event_queue_len <= QueueSize)'
  BY <1>1, <1>2, <1>6
     DEF Loop, NotPast, Updating, Quiet, Percolating, Phase, IInv, Sound
<1> QED BY <1>4, <1>7, <1>8, <1>9 DEF IInv, Sound

-----------------------------------------------------------------------------
\* Putting an entry x in a hole of a queue of n slots, in the direction the
\* code chooses: what ssm_sv_later_unsafe, ssm_unschedule and ssm_tick share.
LEMMA HolePercolates ==
  ASSUME IInv, NEW n \in 1..QueueSize, NEW h \in 1..n, NEW x \in SV,
         NEW r \in {"idle", "ticking", "updating"},
         event_queue' = event_queue, event_queue_len' = n,
         \A i \in 1..n : later_time'[Filled(event_queue, h, x)[i]] \in Nat,
         HoleReady(event_queue, n, later_time', h),
         Percolate(IF SinksFrom(event_queue, later_time', h, x)
                   THEN "down" ELSE "up", h, x, r)
  PROVE  /\ Queue' = Filled(event_queue, h, x)
         /\ pc' \in {"up", "down"} /\ hole' = h /\ var' = x /\ ret' = r
         /\ Shape' /\ Loop'
<1> USE EventQueueAssumption
<1>1. pc' \in {"up", "down"} /\ hole' = h /\ var' = x /\ ret' = r
      /\ (pc' = "down" <=> SinksFrom(event_queue, later_time', h, x))
  BY DEF Percolate
<1>2. Queue' = Filled(event_queue, h, x)
  BY <1>1 DEF Queue
<1>3. /\ QueueSize \in Nat /\ n \in 0..QueueSize /\ x \in SV \cup {NULL}
      /\ event_queue \in [1..QueueSize -> SV \cup {NULL}]
  BY DEF IInv, TypeOK, Slots
<1>4. /\ SinksFrom(event_queue, later_time', h, x) =>
           DownReady(Filled(event_queue, h, x), n, later_time', h)
      /\ ~SinksFrom(event_queue, later_time', h, x) =>
           UpReady(Filled(event_queue, h, x), n, later_time', h)
  BY <1>3, HoleFills
<1>5. Shape'
  BY <1>1, <1>2, <1>4 DEF Shape
<1>6. Loop'
  BY <1>1 DEF Loop, Percolating
<1> QED BY <1>1, <1>2, <1>5, <1>6

LEMMA LaterRepositionKeeps ==
  ASSUME Disciplined, IInv, error = "none", LaterReposition
  PROVE  IInv'
<1> USE EventQueueAssumption
<1> DEFINE n == event_queue_len
           h == Find(target)
<1>1. pc = "dropping" /\ target \in SV /\ later_time[target] # Never
  BY DEF LaterReposition, IInv, Sound, Shape
<1>2. /\ SlotsOf(target) # {} /\ h \in 1..n /\ event_queue[h] = target
      /\ \A i \in 1..n : event_queue[i] = target => i = h
  BY <1>1, Found DEF Percolating
<1>3. /\ event_queue_len' = n /\ event_queue' = event_queue /\ later_time' = later_time
      /\ now' = now /\ target' = NULL /\ error' = error
      /\ Percolate(IF SinksFrom(event_queue, later_time, h, target)
                   THEN "down" ELSE "up", h, target, "idle")
  BY <1>1, <1>2 DEF LaterReposition, queueVars
<1>4. /\ n \in 1..QueueSize /\ later_time \in [SV -> Times]
      /\ event_queue \in [1..QueueSize -> SV \cup {NULL}]
      /\ Queue = event_queue
  BY <1>1, <1>2 DEF IInv, Sound, TypeOK, Slots, Queue
<1>5. \A i \in 1..QueueSize : Filled(event_queue, h, target)[i] = event_queue[i]
  BY <1>2, <1>4 DEF Filled
<1>6. \A i \in 1..n : event_queue[i] \in SV /\ later_time[event_queue[i]] \in Nat
  BY <1>4 DEF IInv, Sound, Members, Times
<1>7. HoleReady(event_queue, n, later_time, h)
  BY <1>1, <1>2 DEF IInv, Sound, Shape
<1>8. /\ Queue' = Filled(event_queue, h, target)
      /\ pc' \in {"up", "down"} /\ hole' = h /\ var' = target /\ ret' = "idle"
      /\ Shape' /\ Loop'
  <2>1. \A i \in 1..n : later_time'[Filled(event_queue, h, target)[i]] \in Nat
    BY <1>3, <1>4, <1>5, <1>6
  <2> HIDE DEF n, h
  <2> QED BY <1>1, <1>2, <1>3, <1>4, <1>7, <2>1, HolePercolates
<1>9. TypeOK' /\ (now < Never)' /\ NoFault'
  BY <1>1, <1>2, <1>3, <1>4, <1>8 DEF IInv, TypeOK, NoFault, Slots, Phases, Callers
<1>10. Members'
  <2>1. \A i \in 1..n : Queue'[i] = Queue[i]
    BY <1>4, <1>5, <1>8
  <2> HIDE DEF n
  <2> QED BY <1>3, <2>1 DEF Members, IInv, Sound, n
<1>11. NotPast' /\ Updating' /\ Quiet' /\ (event_queue_len <= QueueSize)'
  BY <1>1, <1>3, <1>8
     DEF NotPast, Updating, Quiet, Percolating, Phase, IInv, Sound
<1> QED BY <1>8, <1>9, <1>10, <1>11 DEF IInv, Sound

\* ssm_unschedule, between calls and within ssm_update.
LEMMA UnscheduleKeeps ==
  ASSUME Disciplined, IInv, error = "none",
         NEW r \in {"idle", "updating"}, NEW v \in SV,
         r = "updating" => v # target,
         Unschedule(v, r)
  PROVE  IInv'
<1> USE EventQueueAssumption
<1> DEFINE n == event_queue_len
           h == Find(v)
           moved == event_queue[n]
<1>1. pc = r /\ later_time[v] # Never
  BY DEF Unschedule, LeavesHole
<1>2. /\ SlotsOf(v) # {} /\ h \in 1..n /\ event_queue[h] = v
      /\ \A i \in 1..n : event_queue[i] = v => i = h
  BY <1>1, Found DEF Percolating
<1>3. /\ event_queue_len' = n - 1 /\ event_queue' = event_queue
      /\ later_time' = [later_time EXCEPT ![v] = Never]
      /\ now' = now /\ target' = target /\ error' = error
      /\ IF h <= n - 1
         THEN Percolate(IF SinksFrom(event_queue, later_time', h, moved)
                        THEN "down" ELSE "up", h, moved, r)
         ELSE pc' = pc /\ ret' = ret /\ hole' = hole /\ var' = var
  BY <1>1, <1>2 DEF Unschedule, LeavesHole, loopVars
<1>4. /\ n \in 1..QueueSize /\ later_time \in [SV -> Times]
      /\ later_time' \in [SV -> Times]
      /\ event_queue \in [1..QueueSize -> SV \cup {NULL}]
      /\ Queue = event_queue
  BY <1>1, <1>2, <1>3 DEF IInv, Sound, TypeOK, Slots, Queue, Times
<1>5. \A u \in SV : later_time'[u] = IF u = v THEN Never ELSE later_time[u]
  BY <1>3, <1>4
<1>6. /\ \A i \in 1..n : event_queue[i] \in SV /\ later_time[event_queue[i]] # Never
      /\ \A i, j \in 1..n : event_queue[i] = event_queue[j] => i = j
      /\ \A u \in SV : later_time[u] # Never => \E i \in 1..n : event_queue[i] = u
  BY <1>4 DEF IInv, Sound, Members
<1>7. \A i \in 1..n : i # h => /\ event_queue[i] # v
                               /\ later_time'[event_queue[i]] = later_time[event_queue[i]]
  BY <1>2, <1>5, <1>6
<1>8. HeapOrdered(event_queue, n, later_time)
  BY <1>1 DEF IInv, Sound, Shape
<1>9. HeapOrdered(event_queue, n - 1, later_time)
  BY <1>4, <1>8 DEF HeapOrdered
<1>10. CASE h <= n - 1
  <2>1. moved \in SV /\ moved # v /\ h \in 1..(n - 1) /\ n - 1 \in 1..QueueSize
    BY <1>2, <1>4, <1>6, <1>7, <1>10
  <2>2. \A i \in 1..QueueSize :
          Filled(event_queue, h, moved)[i] = IF i = h THEN moved ELSE event_queue[i]
    BY <1>4 DEF Filled
  <2>3. ASSUME NEW i \in 1..(n - 1)
        PROVE  later_time'[Filled(event_queue, h, moved)[i]] \in Nat
    <3>1. i \in 1..QueueSize /\ i \in 1..n
      BY <1>4
    <3>2. Filled(event_queue, h, moved)[i] \in SV
      BY <1>6, <2>1, <2>2, <3>1
    <3> QED BY <1>4, <3>2 DEF Times
  <2>4. HoleReady(event_queue, n - 1, later_time', h)
    <3>1. \A i \in 1..(n - 1) : later_time[event_queue[i]] \in Nat
      BY <1>4, <1>6 DEF Times
    <3>2. \A i \in 1..(n - 1) : i # h =>
            later_time'[event_queue[i]] = later_time[event_queue[i]]
      BY <1>4, <1>7
    <3>3. n - 1 \in Nat
      BY <1>4
    <3> HIDE DEF n, h, moved
    <3> QED BY <1>9, <2>1, <3>1, <3>2, <3>3, HoleOpens
  <2>5. /\ Queue' = Filled(event_queue, h, moved)
        /\ pc' \in {"up", "down"} /\ hole' = h /\ var' = moved /\ ret' = r
        /\ Shape' /\ Loop'
    <3> HIDE DEF n, h, moved
    <3> QED BY <1>3, <1>10, <2>1, <2>3, <2>4, HolePercolates
  <2>6. TypeOK' /\ (now < Never)' /\ NoFault'
    BY <1>3, <1>4, <2>1, <2>5 DEF IInv, TypeOK, NoFault, Slots, Phases, Callers
  <2>7. Members'
    <3>1. \A i \in 1..(n - 1) : Queue'[i] = IF i = h THEN event_queue[n] ELSE event_queue[i]
      BY <1>4, <2>2, <2>5
    <3>2. \A i \in 1..(n - 1) : Queue'[i] \in SV /\ later_time'[Queue'[i]] # Never
      BY <1>4, <1>5, <1>6, <1>7, <2>1, <3>1
    <3>3. \A i, j \in 1..(n - 1) : Queue'[i] = Queue'[j] => i = j
      BY <1>4, <1>6, <3>1
    <3>4. ASSUME NEW u \in SV, later_time'[u] # Never
          PROVE  \E i \in 1..(n - 1) : Queue'[i] = u
      <4>1. u # v /\ later_time[u] # Never
        BY <1>5, <3>4
      <4>2. PICK i \in 1..n : event_queue[i] = u
        BY <1>6, <4>1
      <4>3. i # h
        BY <1>2, <4>1, <4>2
      <4>4. CASE i = n
        BY <2>1, <3>1, <4>2, <4>4
      <4>5. CASE i # n
        BY <1>4, <3>1, <4>2, <4>3, <4>5
      <4> QED BY <4>4, <4>5
    <3> QED BY <1>3, <3>2, <3>3, <3>4 DEF Members
  <2>8. NotPast' /\ Quiet' /\ (event_queue_len <= QueueSize)'
    BY <1>1, <1>3, <1>4, <1>5, <2>5
       DEF NotPast, Quiet, Percolating, Phase, IInv, Sound, TypeOK, Times
  <2>9. Updating'
    <3>1. CASE r = "updating"
      <4>1. target \in SV /\ n > 0 /\ event_queue[1] = target /\ later_time[target] = now
        BY <1>1, <3>1 DEF Updating, Phase, Percolating, IInv, Sound
      <4>2. h # 1
        BY <1>2, <3>1, <4>1
      <4> QED BY <1>3, <1>5, <2>1, <2>5, <3>1, <4>1, <4>2 DEF Updating, Percolating, Phase
    <3>2. CASE r # "updating"
      BY <2>5, <3>2 DEF Updating, Phase, Percolating
    <3> QED BY <3>1, <3>2
  <2> QED BY <2>5, <2>6, <2>7, <2>8, <2>9 DEF IInv, Sound
<1>11. CASE ~(h <= n - 1)
  <2>1. h = n
    BY <1>2, <1>4, <1>11
  <2>2. pc' = pc /\ ret' = ret /\ hole' = hole /\ var' = var
    BY <1>3, <1>11
  <2>3. TypeOK' /\ (now < Never)' /\ NoFault'
    BY <1>3, <1>4, <2>2 DEF IInv, TypeOK, NoFault
  <2>4. Queue' = event_queue
    BY <1>1, <1>3, <2>2 DEF Queue
  <2>5. Members'
    <3>1. \A i \in 1..(n - 1) : Queue'[i] \in SV /\ later_time'[Queue'[i]] # Never
      BY <1>4, <1>6, <1>7, <2>1, <2>4
    <3>2. \A i, j \in 1..(n - 1) : Queue'[i] = Queue'[j] => i = j
      BY <1>4, <1>6, <2>4
    <3>3. ASSUME NEW u \in SV, later_time'[u] # Never
          PROVE  \E i \in 1..(n - 1) : Queue'[i] = u
      <4>1. u # v /\ later_time[u] # Never
        BY <1>5, <3>3
      <4>2. PICK i \in 1..n : event_queue[i] = u
        BY <1>6, <4>1
      <4>3. i \in 1..(n - 1)
        BY <1>2, <1>4, <2>1, <4>1, <4>2
      <4> QED BY <2>4, <4>2, <4>3
    <3> QED BY <1>3, <3>1, <3>2, <3>3 DEF Members
  <2>6. HeapOrdered(event_queue, n - 1, later_time')
    <3>1. \A i \in 2..(n - 1) : Parent(i) \in 1..(n - 1)
      BY <1>4, ParentBelow
    <3>2. \A i \in 1..(n - 1) : later_time'[event_queue[i]] = later_time[event_queue[i]]
      BY <1>4, <1>7, <2>1
    <3> HIDE DEF n
    <3>3. ASSUME NEW i \in 2..(n - 1)
          PROVE  later_time'[event_queue[Parent(i)]] <= later_time'[event_queue[i]]
      <4>1. i \in 1..(n - 1)
        BY <1>4
      <4> QED BY <1>9, <3>1, <3>2, <4>1 DEF HeapOrdered
    <3> QED BY <3>3 DEF HeapOrdered
  <2>7. Shape' /\ Loop'
    BY <1>1, <1>3, <2>2, <2>6 DEF Shape, Loop, Percolating
  <2>8. NotPast' /\ Quiet' /\ (event_queue_len <= QueueSize)'
    BY <1>1, <1>3, <1>4, <1>5, <2>2
       DEF NotPast, Quiet, Percolating, Phase, IInv, Sound, TypeOK, Times
  <2>9. Updating'
    <3>1. CASE r = "updating"
      <4>1. target \in SV /\ n > 0 /\ event_queue[1] = target /\ later_time[target] = now
        BY <1>1, <3>1 DEF Updating, Phase, Percolating, IInv, Sound
      <4>2. h # 1
        BY <1>2, <3>1, <4>1
      <4> QED BY <1>1, <1>2, <1>3, <1>4, <1>5, <2>1, <2>2, <3>1, <4>1, <4>2
              DEF Updating, Percolating, Phase
    <3>2. CASE r # "updating"
      BY <1>1, <2>2, <3>2 DEF Updating, Phase, Percolating
    <3> QED BY <3>1, <3>2
  <2> QED BY <2>3, <2>5, <2>7, <2>8, <2>9 DEF IInv, Sound
<1> QED BY <1>10, <1>11

-----------------------------------------------------------------------------
(***************************************************************************)
(* The percolate loops.                                                    *)
(***************************************************************************)
\* In a loop, every slot of the filled array has a time.
LEMMA LoopTypes ==
  ASSUME IInv, error = "none", Percolating
  PROVE  /\ QueueSize \in Nat /\ event_queue_len \in 0..QueueSize
         /\ hole \in 1..event_queue_len /\ var \in SV \cup {NULL}
         /\ event_queue \in [1..QueueSize -> SV \cup {NULL}]
         /\ Queue = Filled(event_queue, hole, var)
         /\ \A i \in 1..event_queue_len : later_time[Queue[i]] \in Nat
         /\ ret \in {"idle", "ticking", "updating"}
<1> USE EventQueueAssumption
<1>1. /\ event_queue_len \in 0..QueueSize /\ hole \in 1..event_queue_len
      /\ var \in SV \cup {NULL} /\ ret \in {"idle", "ticking", "updating"}
      /\ event_queue \in [1..QueueSize -> SV \cup {NULL}]
      /\ later_time \in [SV -> Times]
  BY DEF IInv, Sound, Loop, TypeOK, Slots
<1>2. Queue = Filled(event_queue, hole, var)
  BY DEF Queue, Percolating
<1>3. \A i \in 1..event_queue_len : Queue[i] \in SV
  BY DEF IInv, Sound, Members
<1> QED BY <1>1, <1>2, <1>3 DEF Times

\* The loop ends: the entry is put in the hole.
LEMMA PlaceKeeps ==
  ASSUME IInv, error = "none", Percolating, Place,
         HeapOrdered(Queue, event_queue_len, later_time)
  PROVE  IInv'
<1> USE EventQueueAssumption
<1>1. /\ hole \in 1..event_queue_len /\ event_queue_len \in 0..QueueSize
      /\ event_queue \in [1..QueueSize -> SV \cup {NULL}]
      /\ Queue = Filled(event_queue, hole, var)
      /\ ret \in {"idle", "ticking", "updating"} /\ var \in SV \cup {NULL}
  BY LoopTypes
<1>2. /\ event_queue' = Queue /\ pc' = ret /\ hole' = 1 /\ var' = NULL /\ ret' = "idle"
      /\ event_queue_len' = event_queue_len /\ later_time' = later_time
      /\ now' = now /\ target' = target /\ error' = error
  BY <1>1 DEF Place, Percolate, SSM_QUEUE_HEAD
<1>3. Queue' = Queue
  BY <1>1, <1>2 DEF Queue
<1>4. event_queue' \in [1..QueueSize -> SV \cup {NULL}]
  BY <1>1, <1>2 DEF Filled
<1>5. TypeOK' /\ (now < Never)' /\ NoFault'
  BY <1>1, <1>2, <1>4 DEF IInv, TypeOK, NoFault, Slots, Phases, Callers
<1>6. Members' /\ Shape' /\ Loop'
  BY <1>1, <1>2, <1>3 DEF IInv, Sound, Members, Shape, Loop, Percolating
<1>7. Updating'
  <2>1. ASSUME ret = "updating" PROVE event_queue'[1] = event_queue[1]
    BY <1>1, <1>2, <2>1 DEF IInv, Sound, Updating, Phase, Filled
  <2> QED BY <1>1, <1>2, <2>1 DEF IInv, Sound, Updating, Phase, Percolating
<1>8. NotPast' /\ Quiet' /\ (event_queue_len <= QueueSize)'
  BY <1>1, <1>2 DEF NotPast, Quiet, Percolating, Phase, IInv, Sound
<1> QED BY <1>2, <1>5, <1>6, <1>7, <1>8 DEF IInv, Sound

\* The hole moves to slot j, in either direction.
LEMMA CopyKeeps ==
  ASSUME IInv, error = "none", Percolating,
         NEW j \in 1..event_queue_len, j # hole, CopyFrom(j),
         Phase = "updating" => j # 1,
         pc = "up" => UpReady(Filled(event_queue', j, var),
                              event_queue_len, later_time, j),
         pc = "down" => DownReady(Filled(event_queue', j, var),
                                  event_queue_len, later_time, j)
  PROVE  IInv'
<1> USE EventQueueAssumption
<1> DEFINE n == event_queue_len
<1>1. /\ hole \in 1..n /\ n \in 0..QueueSize /\ QueueSize \in Nat
      /\ event_queue \in [1..QueueSize -> SV \cup {NULL}]
      /\ Queue = Filled(event_queue, hole, var)
      /\ ret \in {"idle", "ticking", "updating"} /\ var \in SV \cup {NULL}
  BY LoopTypes
<1>2. /\ event_queue' = [event_queue EXCEPT ![hole] = event_queue[j]]
      /\ hole' = j /\ pc' = pc /\ ret' = ret /\ var' = var
      /\ event_queue_len' = n /\ later_time' = later_time
      /\ now' = now /\ target' = target /\ error' = error
  BY DEF CopyFrom
<1>3. Queue' = Filled(event_queue', j, var)
  BY <1>2 DEF Queue, Percolating
<1>4. hole \in 1..QueueSize /\ j \in 1..QueueSize
  BY <1>1
<1>5. \A i \in 1..QueueSize : Queue'[i] = IF i = j THEN Queue[hole]
                                          ELSE IF i = hole THEN Queue[j] ELSE Queue[i]
  BY <1>1, <1>2, <1>3, <1>4 DEF Filled
<1>6. event_queue' \in [1..QueueSize -> SV \cup {NULL}]
  BY <1>1, <1>2, <1>4
<1>7. TypeOK' /\ (now < Never)' /\ NoFault'
  BY <1>1, <1>2, <1>4, <1>6 DEF IInv, TypeOK, NoFault, Slots
<1>8. Members'
  <2>1. /\ \A i \in 1..n : Queue[i] \in SV /\ later_time[Queue[i]] # Never
        /\ \A i, k \in 1..n : Queue[i] = Queue[k] => i = k
        /\ \A v \in SV : later_time[v] # Never => \E i \in 1..n : Queue[i] = v
    BY DEF IInv, Sound, Members
  <2>2. \A i \in 1..n : Queue'[i] = IF i = j THEN Queue[hole]
                                    ELSE IF i = hole THEN Queue[j] ELSE Queue[i]
    BY <1>1, <1>5
  <2> HIDE DEF n
  <2>3. \A i \in 1..n : Queue'[i] \in SV /\ later_time'[Queue'[i]] # Never
    BY <1>1, <1>2, <2>1, <2>2 DEF n
  <2>4. \A i, k \in 1..n : Queue'[i] = Queue'[k] => i = k
    BY <1>1, <2>1, <2>2 DEF n
  <2>5. ASSUME NEW v \in SV, later_time'[v] # Never
        PROVE  \E i \in 1..n : Queue'[i] = v
    <3>1. PICK i \in 1..n : Queue[i] = v
      BY <1>2, <2>1, <2>5
    <3> QED BY <1>1, <2>2, <3>1 DEF n
  <2> QED BY <1>2, <2>3, <2>4, <2>5 DEF Members
<1>9. Shape' /\ Loop'
  BY <1>2, <1>3 DEF Shape, Loop, Percolating, IInv, Sound
<1>10. Updating'
  <2>1. ASSUME ret = "updating" PROVE event_queue'[1] = event_queue[1]
    BY <1>1, <1>2, <1>4, <2>1 DEF IInv, Sound, Updating, Phase
  <2> QED BY <1>2, <2>1 DEF IInv, Sound, Updating, Phase, Percolating
<1>11. NotPast' /\ Quiet' /\ (event_queue_len <= QueueSize)'
  BY <1>2 DEF NotPast, Quiet, Percolating, Phase, IInv, Sound
<1> QED BY <1>2, <1>7, <1>8, <1>9, <1>10, <1>11 DEF IInv, Sound

LEMMA PercolateUpKeeps ==
  ASSUME IInv, error = "none", PercolateUp
  PROVE  IInv'
<1> USE EventQueueAssumption
<1>1. pc = "up" /\ Percolating
  BY DEF PercolateUp, Percolating
<1>2. /\ hole \in 1..event_queue_len /\ event_queue_len \in 0..QueueSize
      /\ event_queue \in [1..QueueSize -> SV \cup {NULL}]
      /\ Queue = Filled(event_queue, hole, var) /\ QueueSize \in Nat
      /\ \A i \in 1..event_queue_len : later_time[Queue[i]] \in Nat
      /\ var \in SV \cup {NULL}
  BY <1>1, LoopTypes
<1>3. UpReady(Filled(event_queue, hole, var), event_queue_len, later_time, hole)
  BY <1>1, <1>2 DEF IInv, Sound, Shape
<1>4. CASE GoesUp(event_queue, later_time, hole, var)
  <2> DEFINE p == Parent(hole)
  <2>1. CopyFrom(p)
    BY <1>4 DEF PercolateUp
  <2>2. p \in 1..event_queue_len /\ p # hole
    BY <1>2, <1>4, ParentBelow DEF GoesUp, SSM_QUEUE_HEAD
  <2>3. UpReady(Filled([event_queue EXCEPT ![hole] = event_queue[p]], p, var),
                event_queue_len, later_time, p)
    BY <1>2, <1>3, <1>4, UpStep
  <2>4. event_queue' = [event_queue EXCEPT ![hole] = event_queue[p]]
    BY <2>1 DEF CopyFrom
  <2>5. Phase = "updating" => p # 1
    <3> SUFFICES ASSUME Phase = "updating" PROVE p # 1
      OBVIOUS
    <3>1. event_queue[1] = target /\ later_time[target] = now /\ hole # 1
      BY <1>1 DEF IInv, Sound, Updating
    <3>2. var \in SV /\ later_time[var] >= now /\ later_time[var] \in Nat /\ now \in Nat
      <4>1. var \in SV
        BY <1>1 DEF IInv, Sound, Loop
      <4> QED BY <4>1 DEF IInv, Sound, NotPast, TypeOK, Times
    <3>3. later_time[var] < later_time[event_queue[p]]
      BY <1>4 DEF GoesUp
    <3> HIDE DEF p
    <3> QED BY <3>1, <3>2, <3>3
  <2>6. UpReady(Filled(event_queue', p, var), event_queue_len, later_time, p)
    BY <2>3, <2>4
  <2>7. pc # "down"
    BY <1>1
  <2> HIDE DEF p
  <2> QED BY <1>1, <2>1, <2>2, <2>5, <2>6, <2>7, CopyKeeps
<1>5. CASE ~GoesUp(event_queue, later_time, hole, var)
  <2>1. HeapOrdered(Queue, event_queue_len, later_time)
    BY <1>2, <1>3, <1>5, UpDone
  <2> QED BY <1>1, <1>5, <2>1, PlaceKeeps DEF PercolateUp
<1> QED BY <1>4, <1>5

LEMMA PercolateDownKeeps ==
  ASSUME IInv, error = "none", PercolateDown
  PROVE  IInv'
<1> USE EventQueueAssumption
<1> DEFINE n == event_queue_len
<1>1. pc = "down" /\ Percolating
  BY DEF PercolateDown, Percolating
<1>2. /\ hole \in 1..n /\ n \in 0..QueueSize
      /\ event_queue \in [1..QueueSize -> SV \cup {NULL}]
      /\ Queue = Filled(event_queue, hole, var) /\ QueueSize \in Nat
      /\ \A i \in 1..n : later_time[Queue[i]] \in Nat
      /\ var \in SV \cup {NULL}
  BY <1>1, LoopTypes
<1>3. DownReady(Filled(event_queue, hole, var), n, later_time, hole)
  BY <1>1, <1>2 DEF IInv, Sound, Shape
<1>4. CASE GoesDown(event_queue, n, later_time, hole, var)
  <2> DEFINE c == EarlierChild(event_queue, n, later_time, hole)
  <2>1. CopyFrom(c)
    BY <1>4 DEF PercolateDown
  <2>2. /\ c \in 1..n /\ Parent(c) = hole /\ c # hole
        /\ DownReady(Filled([event_queue EXCEPT ![hole] = event_queue[c]], c, var),
                     n, later_time, c)
    BY <1>2, <1>3, <1>4, DownStep
  <2>3. event_queue' = [event_queue EXCEPT ![hole] = event_queue[c]]
    BY <2>1 DEF CopyFrom
  <2>4. c # 1
    BY <1>2, <2>2 DEF Parent
  <2> HIDE DEF c
  <2> QED BY <1>1, <2>1, <2>2, <2>3, <2>4, CopyKeeps
<1>5. CASE ~GoesDown(event_queue, n, later_time, hole, var)
  <2>1. HeapOrdered(Queue, n, later_time)
    BY <1>2, <1>3, <1>5, DownDone
  <2> QED BY <1>1, <1>5, <2>1, PlaceKeeps DEF PercolateDown
<1> QED BY <1>4, <1>5

-----------------------------------------------------------------------------
(***************************************************************************)
(* ssm_set_now, ssm_tick and ssm_reset.                                    *)
(***************************************************************************)
LEMMA SetNowKeeps ==
  ASSUME IInv, error = "none", pc = "idle",
         NEW next \in HandSetTimes, SetNow(next)
  PROVE  IInv'
<1> USE EventQueueAssumption
<1>1. CASE next <= now /\ Throw("set_now_in_past")
  BY <1>1, ThrowKeeps DEF Errors
<1>2. CASE Throw("set_now_skips")
  BY <1>2, ThrowKeeps DEF Errors
<1>3. CASE /\ next > now
           /\ event_queue_len # 0 => next <= NextEventTime
           /\ now' = next
           /\ UNCHANGED <<queueVars, pc, loopVars, target, error>>
  <2>1. next \in 1..(Never - 1) /\ (event_queue_len # 0 => next # NextEventTime)
    BY DEF HandSetTimes
  <2>2. /\ now' = next /\ event_queue' = event_queue /\ later_time' = later_time
        /\ event_queue_len' = event_queue_len /\ pc' = pc /\ ret' = ret
        /\ hole' = hole /\ var' = var /\ target' = target /\ error' = error
    BY <1>3 DEF queueVars, loopVars
  <2>3. ASSUME NEW v \in SV
        PROVE  later_time[v] \in Nat /\ later_time[v] > next
    <3>1. later_time[v] \in 0..Never
      BY DEF IInv, TypeOK, Times
    <3>2. CASE later_time[v] = Never
      BY <2>1, <3>2
    <3>3. CASE later_time[v] # Never
      <4>1. event_queue_len > 0 /\ NextEventTime <= later_time[v]
            /\ NextEventTime \in Nat
        BY <3>3, HeadTime
      <4>2. next <= NextEventTime /\ next # NextEventTime
        BY <1>3, <2>1, <4>1
      <4> QED BY <2>1, <3>1, <4>1, <4>2
    <3> QED BY <3>2, <3>3
  <2>4. Queue' = Queue
    BY <2>2 DEF Queue
  <2>5. TypeOK' /\ (now < Never)' /\ NoFault'
    BY <2>1, <2>2 DEF IInv, TypeOK, NoFault, Times
  <2>6. Members' /\ Shape' /\ Loop' /\ (event_queue_len <= QueueSize)'
    BY <2>2, <2>4 DEF IInv, Sound, Members, Shape, Loop, Percolating
  <2>7. NotPast' /\ Quiet' /\ Updating'
    BY <2>1, <2>2, <2>3 DEF NotPast, Quiet, Updating, Phase, Percolating
  <2> QED BY <2>2, <2>5, <2>6, <2>7 DEF IInv, Sound
<1> QED BY <1>1, <1>2, <1>3 DEF SetNow

\* A step that leaves the queue alone and goes to the head of the update loop
\* or out of it.
LEMMA GotoKeeps ==
  ASSUME IInv, error = "none", pc \in {"idle", "ticking"},
         NEW at \in {"idle", "ticking"}, Goto(at), target' = target,
         now' \in Times, now' < Never,
         \A v \in SV : later_time[v] >= now',
         at = "idle" /\ MinDelay >= 1 => \A v \in SV : later_time[v] # now'
  PROVE  IInv'
<1> USE EventQueueAssumption
<1>1. /\ event_queue' = event_queue /\ later_time' = later_time
      /\ event_queue_len' = event_queue_len /\ pc' = at /\ ret' = ret
      /\ hole' = hole /\ var' = var /\ target' = target /\ error' = error
  BY DEF Goto, queueVars, loopVars
<1>2. Queue' = Queue
  BY <1>1 DEF Queue
<1>3. TypeOK' /\ (now < Never)' /\ NoFault'
  BY <1>1 DEF IInv, TypeOK, NoFault, Phases, Callers
<1>4. Members' /\ Shape' /\ Loop' /\ (event_queue_len <= QueueSize)'
  BY <1>1, <1>2 DEF IInv, Sound, Members, Shape, Loop, Percolating
<1>5. NotPast' /\ Quiet' /\ Updating'
  BY <1>1 DEF NotPast, Quiet, Updating, Phase, Percolating
<1> QED BY <1>1, <1>3, <1>4, <1>5 DEF IInv, Sound

LEMMA TickKeeps ==
  ASSUME IInv, error = "none", pc = "idle", NEW acts \in BOOLEAN, Tick(acts)
  PROVE  IInv'
<1> USE EventQueueAssumption
<1>1. /\ now \in Times /\ now \in Nat /\ now < Never /\ event_queue_len \in Nat
      /\ \A v \in SV : later_time[v] >= now
  BY DEF IInv, Sound, NotPast, TypeOK, Times
<1>2. event_queue_len > 0 => /\ NextEventTime = later_time[event_queue[1]]
                             /\ event_queue[1] \in SV
                             /\ NextEventTime \in Nat /\ NextEventTime < Never
                             /\ NextEventTime >= now
  BY <1>1, HeadTime
<1>3. event_queue_len = 0 => NextEventTime = Never
  BY DEF NextEventTime
<1>4. CASE acts /\ NextEventTime # Never /\ now > NextEventTime
  BY <1>1, <1>2, <1>3, <1>4
<1>5. CASE Goto("ticking") /\ UNCHANGED <<now, target>>
  BY <1>1, <1>5, GotoKeeps
<1>6. CASE event_queue_len > 0 /\ NextEventTime <= now /\ Throw("tick_in_past")
  <2>1. MinDelay < 1
    <3>1. later_time[event_queue[1]] = now /\ event_queue[1] \in SV
      BY <1>1, <1>2, <1>6
    <3>2. Phase = "idle"
      BY DEF Phase, Percolating
    <3> QED BY <3>1, <3>2 DEF IInv, Sound, Quiet
  <2> QED BY <1>6, <2>1
          DEF Throw, IInv, TypeOK, NoFault, Errors, queueVars, loopVars
<1>7. CASE /\ event_queue_len > 0 /\ NextEventTime > now
           /\ now' = NextEventTime /\ Goto("ticking") /\ UNCHANGED target
  <2>1. ASSUME NEW v \in SV
        PROVE  later_time[v] >= NextEventTime
    <3>1. later_time[v] \in 0..Never
      BY DEF IInv, TypeOK, Times
    <3>2. CASE later_time[v] = Never
      BY <1>2, <1>7, <3>2
    <3>3. CASE later_time[v] # Never
      BY <1>2, <1>7, <3>1, <3>3, HeadTime
    <3> QED BY <3>2, <3>3
  <2>2. now' \in Times /\ now' < Never
    BY <1>2, <1>7 DEF Times
  <2> QED BY <1>7, <2>1, <2>2, GotoKeeps
<1> QED BY <1>4, <1>5, <1>6, <1>7 DEF Tick

LEMMA TickDoneKeeps ==
  ASSUME IInv, error = "none", TickDone
  PROVE  IInv'
<1> USE EventQueueAssumption
<1>1. pc = "ticking" /\ ~HeadIsDue /\ Goto("idle") /\ now' = now /\ target' = target
  BY DEF TickDone
<1>2. /\ now \in Times /\ now \in Nat /\ now < Never
      /\ \A v \in SV : later_time[v] >= now
  BY DEF IInv, Sound, NotPast, TypeOK, Times
<1>3. ASSUME NEW v \in SV
      PROVE  later_time[v] # now
  <2>1. CASE later_time[v] = Never
    BY <1>2, <2>1
  <2>2. CASE later_time[v] # Never
    <3>1. event_queue_len > 0 /\ NextEventTime <= later_time[v]
          /\ NextEventTime \in Nat /\ NextEventTime >= now
      BY <1>1, <2>2, HeadTime
    <3>2. NextEventTime # now
      BY <1>1, <3>1 DEF HeadIsDue
    <3> QED BY <1>2, <3>1, <3>2
  <2> QED BY <2>1, <2>2
<1> QED BY <1>1, <1>2, <1>3, GotoKeeps

LEMMA UpdateHeadKeeps ==
  ASSUME IInv, error = "none", UpdateHead
  PROVE  IInv'
<1> USE EventQueueAssumption
<1>1. /\ pc = "ticking" /\ event_queue_len > 0 /\ NextEventTime = now
      /\ target' = event_queue[1] /\ pc' = "updating" /\ now' = now
      /\ event_queue' = event_queue /\ later_time' = later_time
      /\ event_queue_len' = event_queue_len /\ ret' = ret
      /\ hole' = hole /\ var' = var /\ error' = error
  BY DEF UpdateHead, HeadIsDue, Goto, queueVars, loopVars, SSM_QUEUE_HEAD
<1>2. event_queue[1] \in SV /\ later_time[event_queue[1]] = now
  <2>1. 1 \in 1..event_queue_len
    BY <1>1 DEF IInv, TypeOK
  <2> QED BY <1>1, <2>1, HeadTime
<1>3. Queue' = Queue
  BY <1>1 DEF Queue
<1>4. TypeOK' /\ (now < Never)' /\ NoFault'
  BY <1>1, <1>2 DEF IInv, TypeOK, NoFault, Phases, Callers
<1>5. Members' /\ Shape' /\ Loop' /\ (event_queue_len <= QueueSize)'
  BY <1>1, <1>3 DEF IInv, Sound, Members, Shape, Loop, Percolating
<1>6. NotPast' /\ Quiet' /\ Updating'
  BY <1>1, <1>2 DEF NotPast, Quiet, Updating, Phase, Percolating, IInv, Sound
<1> QED BY <1>1, <1>4, <1>5, <1>6 DEF IInv, Sound

LEMMA PopHeadKeeps ==
  ASSUME IInv, error = "none", PopHead
  PROVE  IInv'
<1> USE EventQueueAssumption
<1> DEFINE n == event_queue_len
           last == event_queue[n]
<1>1. /\ pc = "updating" /\ target \in SV /\ n > 0 /\ event_queue[1] = target
  BY DEF PopHead, IInv, Sound, Updating, Phase, Percolating
<1>2. /\ later_time' = [later_time EXCEPT ![target] = Never]
      /\ n' = n - 1 /\ event_queue' = event_queue /\ now' = now
      /\ target' = NULL /\ error' = error
      /\ IF n - 1 > 0
         THEN Percolate("down", 1, last, "ticking")
         ELSE pc' = "ticking" /\ ret' = ret /\ hole' = hole /\ var' = var
  BY DEF PopHead, loopVars, SSM_QUEUE_HEAD
<1>3. /\ n \in 1..QueueSize /\ later_time \in [SV -> Times]
      /\ later_time' \in [SV -> Times]
      /\ event_queue \in [1..QueueSize -> SV \cup {NULL}]
      /\ Queue = event_queue
  BY <1>1, <1>2 DEF IInv, Sound, TypeOK, Slots, Queue, Times
<1>4. \A u \in SV : later_time'[u] = IF u = target THEN Never ELSE later_time[u]
  BY <1>2, <1>3
<1>5. /\ \A i \in 1..n : event_queue[i] \in SV /\ later_time[event_queue[i]] # Never
      /\ \A i, j \in 1..n : event_queue[i] = event_queue[j] => i = j
      /\ \A u \in SV : later_time[u] # Never => \E i \in 1..n : event_queue[i] = u
  BY <1>3 DEF IInv, Sound, Members
<1>6. \A i \in 1..n : i # 1 => /\ event_queue[i] # target
                               /\ later_time'[event_queue[i]] = later_time[event_queue[i]]
  BY <1>1, <1>3, <1>4, <1>5
<1>7. HeapOrdered(event_queue, n - 1, later_time)
  <2>1. HeapOrdered(event_queue, n, later_time)
    BY <1>1 DEF IInv, Sound, Shape
  <2> QED BY <1>3, <2>1 DEF HeapOrdered
<1>8. CASE n - 1 > 0
  <2>1. last \in SV /\ last # target /\ 1 \in 1..(n - 1) /\ n - 1 \in 1..QueueSize
    BY <1>3, <1>5, <1>6, <1>8
  <2>2. \A i \in 1..QueueSize :
          Filled(event_queue, 1, last)[i] = IF i = 1 THEN last ELSE event_queue[i]
    BY <1>3 DEF Filled
  <2>3. ASSUME NEW i \in 1..(n - 1)
        PROVE  later_time'[Filled(event_queue, 1, last)[i]] \in Nat
    <3>1. i \in 1..QueueSize /\ i \in 1..n
      BY <1>3
    <3>2. Filled(event_queue, 1, last)[i] \in SV
      BY <1>5, <2>1, <2>2, <3>1
    <3> QED BY <1>3, <3>2 DEF Times
  <2>4. HoleReady(event_queue, n - 1, later_time', 1)
    <3>1. \A i \in 1..(n - 1) : later_time[event_queue[i]] \in Nat
      BY <1>3, <1>5 DEF Times
    <3>2. \A i \in 1..(n - 1) : i # 1 =>
            later_time'[event_queue[i]] = later_time[event_queue[i]]
      BY <1>3, <1>6
    <3>3. n - 1 \in Nat
      BY <1>3
    <3> HIDE DEF n, last
    <3> QED BY <1>7, <2>1, <3>1, <3>2, <3>3, HoleOpens
  <2>5. /\ Queue' = Filled(event_queue, 1, last)
        /\ pc' \in {"up", "down"} /\ hole' = 1 /\ var' = last /\ ret' = "ticking"
        /\ Shape' /\ Loop'
    <3>1. SinksFrom(event_queue, later_time', 1, last)
      BY DEF SinksFrom, SSM_QUEUE_HEAD
    <3>2. Percolate(IF SinksFrom(event_queue, later_time', 1, last)
                    THEN "down" ELSE "up", 1, last, "ticking")
      BY <1>2, <1>8, <3>1
    <3>3. event_queue_len' = n - 1
      BY <1>2
    <3> HIDE DEF n, last
    <3> QED BY <1>2, <2>1, <2>3, <2>4, <3>2, <3>3, HolePercolates
  <2>6. TypeOK' /\ (now < Never)' /\ NoFault'
    BY <1>2, <1>3, <2>1, <2>5 DEF IInv, TypeOK, NoFault, Slots, Phases, Callers
  <2>7. Members'
    <3>1. \A i \in 1..(n - 1) : Queue'[i] = IF i = 1 THEN event_queue[n] ELSE event_queue[i]
      BY <1>3, <2>2, <2>5
    <3>2. \A i \in 1..(n - 1) : Queue'[i] \in SV /\ later_time'[Queue'[i]] # Never
      BY <1>3, <1>4, <1>5, <1>6, <2>1, <3>1
    <3>3. \A i, j \in 1..(n - 1) : Queue'[i] = Queue'[j] => i = j
      BY <1>3, <1>5, <3>1
    <3>4. ASSUME NEW u \in SV, later_time'[u] # Never
          PROVE  \E i \in 1..(n - 1) : Queue'[i] = u
      <4>1. u # target /\ later_time[u] # Never
        BY <1>4, <3>4
      <4>2. PICK i \in 1..n : event_queue[i] = u
        BY <1>5, <4>1
      <4>3. i # 1
        BY <1>1, <4>1, <4>2
      <4>4. CASE i = n
        BY <2>1, <3>1, <4>2, <4>4
      <4>5. CASE i # n
        BY <1>3, <3>1, <4>2, <4>3, <4>5
      <4> QED BY <4>4, <4>5
    <3> QED BY <1>2, <3>2, <3>3, <3>4 DEF Members
  <2>8. NotPast' /\ Quiet' /\ Updating' /\ (event_queue_len <= QueueSize)'
    BY <1>2, <1>3, <1>4, <2>5
       DEF NotPast, Quiet, Updating, Percolating, Phase, IInv, Sound, TypeOK, Times
  <2> QED BY <2>5, <2>6, <2>7, <2>8 DEF IInv, Sound
<1>9. CASE ~(n - 1 > 0)
  <2>1. n = 1 /\ n' = 0
    BY <1>2, <1>3, <1>9
  <2>2. pc' = "ticking" /\ ret' = ret /\ hole' = hole /\ var' = var
    BY <1>2, <1>9
  <2>3. TypeOK' /\ (now < Never)' /\ NoFault'
    BY <1>2, <1>3, <2>1, <2>2 DEF IInv, TypeOK, NoFault, Phases, Callers
  <2>4. Members'
    BY <1>1, <1>4, <1>5, <2>1 DEF Members
  <2>5. Shape' /\ Loop'
    BY <2>1, <2>2 DEF Shape, Loop, Percolating, HeapOrdered
  <2>6. NotPast' /\ Quiet' /\ Updating' /\ (event_queue_len <= QueueSize)'
    BY <1>2, <1>3, <1>4, <2>2, <2>1
       DEF NotPast, Quiet, Updating, Percolating, Phase, IInv, Sound, TypeOK, Times
  <2> QED BY <2>3, <2>4, <2>5, <2>6 DEF IInv, Sound
<1> QED BY <1>8, <1>9

LEMMA ResetKeeps ==
  ASSUME Disciplined, IInv, error = "none", pc = "idle", Reset
  PROVE  IInv'
<1> USE EventQueueAssumption
<1>1. /\ event_queue_len = 0 /\ event_queue_len' = 0 /\ now' = 0
      /\ event_queue' = event_queue /\ later_time' = later_time
      /\ pc' = pc /\ ret' = ret /\ hole' = hole /\ var' = var
      /\ target' = target /\ error' = error
  BY DEF Reset, Disciplined, loopVars
<1>2. \A v \in SV : later_time[v] = Never
  BY <1>1 DEF IInv, Sound, Members
<1>3. TypeOK' /\ (now < Never)' /\ NoFault'
  BY <1>1 DEF IInv, TypeOK, NoFault, Times
<1>4. Members' /\ Shape' /\ Loop' /\ (event_queue_len <= QueueSize)'
  BY <1>1, <1>2 DEF Members, Shape, Loop, Percolating, HeapOrdered
<1>5. NotPast' /\ Quiet' /\ Updating'
  BY <1>1, <1>2 DEF NotPast, Quiet, Updating, Phase, Percolating
<1> QED BY <1>1, <1>3, <1>4, <1>5 DEF IInv, Sound

-----------------------------------------------------------------------------
(***************************************************************************)
(* The theorems.                                                           *)
(***************************************************************************)
\* The queue starts empty and sound.
LEMMA InitSound == Init => IInv
<1> USE EventQueueAssumption
<1> SUFFICES ASSUME Init PROVE IInv
  OBVIOUS
<1>1. TypeOK /\ now < Never /\ NoFault
  BY DEF Init, TypeOK, NoFault, Slots, Times, Phases, Callers, Errors, SSM_QUEUE_HEAD
<1>2. Sound
  BY DEF Init, Sound, Loop, Members, Shape, HeapOrdered, NotPast, Updating,
         Quiet, Phase, Percolating
<1> QED BY <1>1, <1>2 DEF IInv

\* Every step of the code, percolation steps included, keeps the invariant.
LEMMA StepKeeps ==
  ASSUME Disciplined, IInv, [Next]_vars
  PROVE  IInv'
<1>1. CASE UNCHANGED vars
  <2>1. Queue' = Queue
    BY <1>1 DEF vars, queueVars, loopVars, Queue
  <2> QED BY <1>1, <2>1
          DEF vars, queueVars, loopVars, IInv, TypeOK, NoFault, Sound, Loop,
              Members, Shape, NotPast, Updating, Quiet, Phase, Percolating
<1>2. CASE error = "none" /\ Call
  <2>1. CASE \E v \in SV, when \in Whens : LaterInPast(v, when)
    BY <2>1, ThrowKeeps DEF LaterInPast, Errors
  <2>2. CASE \E v \in SV, when \in Whens : LaterNew(v, when)
    BY <1>2, <2>2, LaterNewKeeps DEF Call
  <2>3. CASE \E v \in SV, when \in Whens : LaterExhausted(v, when)
    BY <1>2, <2>3, LaterExhaustedKeeps
  <2>4. CASE \E v \in SV, when \in Whens : LaterPending(v, when)
    BY <1>2, <2>4, LaterPendingKeeps DEF Call
  <2>5. CASE \E v \in SV : Unschedule(v, "idle")
    BY <1>2, <2>5, UnscheduleKeeps
  <2>6. CASE \E next \in HandSetTimes : SetNow(next)
    BY <1>2, <2>6, SetNowKeeps DEF Call
  <2>7. CASE \E acts \in BOOLEAN : Tick(acts)
    BY <1>2, <2>7, TickKeeps DEF Call
  <2>8. CASE Reset
    BY <1>2, <2>8, ResetKeeps DEF Call
  <2> QED BY <1>2, <2>1, <2>2, <2>3, <2>4, <2>5, <2>6, <2>7, <2>8 DEF Call
<1>3. CASE error = "none" /\ Internal
  BY <1>3, LaterRepositionKeeps, PercolateUpKeeps, PercolateDownKeeps,
     UpdateHeadKeeps, PopHeadKeeps, TickDoneKeeps DEF Internal
<1>4. CASE error = "none" /\ \E o \in SV : DropFinal(o)
  <2>1. PICK o \in SV : DropFinal(o)
    BY <1>4
  <2>2. pc = "updating" /\ o # target /\ Unschedule(o, "updating")
    BY <2>1 DEF DropFinal, Disciplined
  <2> QED BY <1>4, <2>1, <2>2, UnscheduleKeeps
<1> QED BY <1>1, <1>2, <1>3, <1>4 DEF Next

THEOREM Invariance == ASSUME Disciplined PROVE Spec => []IInv
<1>1. Init => IInv
  BY InitSound
<1>2. IInv /\ [Next]_vars => IInv'
  BY StepKeeps
<1> QED BY <1>1, <1>2, PTL DEF Spec

\* Type correctness.
THEOREM TypeCorrect == ASSUME Disciplined PROVE Spec => []TypeOK
<1>1. IInv => TypeOK
  BY DEF IInv
<1> QED BY <1>1, Invariance, PTL

\* The invariant of ssm_sv_t: a variable is in the event queue, once, exactly
\* when its later_time is not SSM_NEVER.
THEOREM PendingQueuedOnce == ASSUME Disciplined PROVE Spec => []QueuedIffPending
<1>1. IInv => QueuedIffPending
  BY DEF IInv, Sound, Members, QueuedIffPending
<1> QED BY <1>1, Invariance, PTL

\* event_queue_consistency_check passes whenever it may be called.
THEOREM HeapOrderKept ==
  ASSUME Disciplined PROVE Spec => []HeapOrderedBetweenCalls
<1>1. IInv => HeapOrderedBetweenCalls
  BY DEF IInv, Sound, Shape, HeapOrderedBetweenCalls
<1> QED BY <1>1, Invariance, PTL

\* The time never passes a pending event.
THEOREM NoEventPassed == ASSUME Disciplined PROVE Spec => []PendingNotPast
<1>1. IInv => PendingNotPast
  BY DEF IInv, Sound, NotPast, PendingNotPast
<1> QED BY <1>1, Invariance, PTL

\* ssm_tick pops the variable it updated, whatever the drop of its old value
\* unscheduled.
THEOREM PopsWhatItUpdated == ASSUME Disciplined PROVE Spec => []HeadIsTarget
<1>1. IInv => HeadIsTarget
  BY DEF IInv, Sound, Updating, Phase, Percolating, HeadIsTarget, SSM_QUEUE_HEAD
<1> QED BY <1>1, Invariance, PTL

\* A tick leaves nothing due, if callers schedule strictly ahead.
THEOREM TickLeavesNothingDue ==
  ASSUME Disciplined, MinDelay >= 1
  PROVE  Spec => []NothingDueBetweenTicks
<1>1. IInv => NothingDueBetweenTicks
  BY DEF IInv, Sound, Quiet, Phase, Percolating, NothingDueBetweenTicks
<1> QED BY <1>1, Invariance, PTL

\* find_queued_event and ssm_tick never throw, if callers schedule strictly
\* ahead.
THEOREM NeverFaults ==
  ASSUME Disciplined, MinDelay >= 1
  PROVE  Spec => []NoInternalFault
<1>1. IInv => NoInternalFault
  BY DEF IInv, NoFault, NoInternalFault
<1> QED BY <1>1, Invariance, PTL

-----------------------------------------------------------------------------
(***************************************************************************)
(* No call runs for ever.  Once a call has begun, the loops of the heap    *)
(* and of ssm_tick come nearer to their end with every step: an event has  *)
(* left the queue, or the queue is as long as before and the Weight of what *)
(* is left to do for its head is less.  Both are natural numbers, so a     *)
(* call is finitely many steps.                                            *)
(***************************************************************************)
\* Iterations left to a percolate loop, at most: the hole moves strictly
\* towards the root, or strictly away from it.
ToGo == IF pc = "up" THEN hole ELSE IF pc = "down" THEN QueueSize + 1 - hole ELSE 0

\* What is left after it, a percolation being at most QueueSize + 1: to update
\* an event, the drop in ssm_update and what it may unschedule; to reposition
\* one, a percolation.
Left == IF Phase = "ticking" THEN 2 * (QueueSize + 1)
        ELSE IF Phase \in {"updating", "dropping"} THEN QueueSize + 1
        ELSE 0

Weight == Left + ToGo

\* The first term may stay, the second must fall.
LEMMA SumIsLess ==
  ASSUME NEW a \in Int, NEW b \in Int, NEW c \in Int, NEW d \in Int, a <= c, b < d
  PROVE  a + b < c + d
OBVIOUS

\* Either term alone may pay for the other.
LEMMA Repaid ==
  ASSUME NEW a \in Int, NEW b \in Int, a < b
  PROVE  0 + a < b + 0 /\ a + 0 < b + 0
OBVIOUS

Nears ==
  error = "none" /\ pc # "idle" =>
    \/ error' # "none"
    \/ event_queue_len' < event_queue_len
    \/ event_queue_len' = event_queue_len /\ Weight' < Weight

\* There is no end to come nearer to below zero, and it is reached only between
\* calls.
LEMMA WeightIsNatural ==
  ASSUME IInv
  PROVE  /\ event_queue_len \in Nat /\ Weight \in Nat
         /\ Weight = 0 => pc = "idle"
<1> USE EventQueueAssumption
<1>1. /\ QueueSize \in Nat /\ hole \in 1..QueueSize /\ event_queue_len \in Nat
      /\ pc \in {"idle", "dropping", "ticking", "updating", "up", "down"}
  BY DEF IInv, TypeOK, Slots, Phases, Callers
<1>2. ToGo \in Nat /\ (ToGo = 0 => pc \notin {"up", "down"})
  BY <1>1 DEF ToGo
<1>3. Left \in Nat /\ (Left = 0 => Phase \notin {"ticking", "updating", "dropping"})
  BY <1>1 DEF Left
<1>4. pc \notin {"up", "down"} => Phase = pc
  BY DEF Phase, Percolating
<1>5. Weight \in Nat /\ (Weight = 0 => Left = 0 /\ ToGo = 0)
  BY ONLY <1>2, <1>3 DEF Weight
<1> QED BY <1>1, <1>2, <1>3, <1>4, <1>5

\* An iteration of percolate_up or percolate_down moves the hole on, or is the
\* last one.
LEMMA PercolationNears ==
  ASSUME IInv, error = "none", PercolateUp \/ PercolateDown
  PROVE  event_queue_len' = event_queue_len /\ Weight' < Weight
<1>1. Percolating
  BY DEF PercolateUp, PercolateDown, Percolating
<1>2. /\ QueueSize \in Nat /\ event_queue_len \in 0..QueueSize
      /\ hole \in 1..event_queue_len
      /\ \A i \in 1..event_queue_len : later_time[Queue[i]] \in Nat
      /\ Queue = Filled(event_queue, hole, var)
      /\ event_queue \in [1..QueueSize -> SV \cup {NULL}] /\ var \in SV \cup {NULL}
      /\ ret \in {"idle", "ticking", "updating"}
  BY <1>1, LoopTypes
<1>3. ToGo \in Nat /\ ToGo > 0
  BY <1>1, <1>2 DEF ToGo, Percolating
<1>4. Left \in Nat
  BY <1>2 DEF Left
<1>5. CASE Place
  <2>1. /\ event_queue_len' = event_queue_len
        /\ pc' = ret /\ pc' \notin {"up", "down"}
    BY <1>2, <1>5 DEF Place, Percolate
  <2>2. ToGo' = 0
    BY <2>1 DEF ToGo
  <2>3. Phase' = Phase
    BY <1>1, <2>1 DEF Phase, Percolating
  <2>4. Left' = Left
    BY <2>3 DEF Left
  <2>5. Left' \in Int /\ ToGo' \in Int /\ ToGo' < ToGo
    BY <1>3, <1>4, <2>2, <2>4
  <2>6. Left' + ToGo' < Left + ToGo
    <3>1. Left \in Int /\ ToGo \in Int
      BY <1>3, <1>4
    <3>2. Left' \in Int /\ ToGo' \in Int
      BY <2>5
    <3>3. Left' <= Left
      BY <2>4, <3>1
    <3>4. ToGo' < ToGo
      BY <2>5
    <3> QED BY <3>1, <3>2, <3>3, <3>4, SumIsLess
  <2> QED BY <2>1, <2>6 DEF Weight
<1>6. ASSUME NEW i, CopyFrom(i), (pc = "up" /\ i < hole) \/ (pc = "down" /\ i > hole),
             i \in Nat
      PROVE  event_queue_len' = event_queue_len /\ Weight' < Weight
  <2>1. /\ event_queue_len' = event_queue_len /\ pc' = pc /\ ret' = ret /\ hole' = i
    BY <1>6 DEF CopyFrom
  <2>2. ToGo' \in Int /\ ToGo' < ToGo
    BY <1>2, <1>6, <2>1 DEF ToGo
  <2>3. Phase' = Phase
    BY <2>1 DEF Phase, Percolating
  <2>4. Left' = Left
    BY <2>3 DEF Left
  <2>5. Left' \in Int /\ ToGo' \in Int /\ ToGo' < ToGo
    BY <1>3, <1>4, <2>2, <2>4
  <2>6. Left' + ToGo' < Left + ToGo
    <3>1. Left \in Int /\ ToGo \in Int
      BY <1>3, <1>4
    <3>2. Left' \in Int /\ ToGo' \in Int
      BY <2>5
    <3>3. Left' <= Left
      BY <2>4, <3>1
    <3>4. ToGo' < ToGo
      BY <2>5
    <3> QED BY <3>1, <3>2, <3>3, <3>4, SumIsLess
  <2> QED BY <2>1, <2>6 DEF Weight
<1>7. CASE pc = "up" /\ GoesUp(event_queue, later_time, hole, var)
  <2>1. CopyFrom(Parent(hole))
    BY <1>7 DEF PercolateUp, PercolateDown
  <2>2. Parent(hole) \in Nat /\ Parent(hole) < hole
    BY <1>2, <1>7, ParentBelow DEF GoesUp, SSM_QUEUE_HEAD
  <2> QED BY <1>6, <1>7, <2>1, <2>2
<1>8. CASE pc = "down" /\ GoesDown(event_queue, event_queue_len, later_time, hole, var)
  <2> DEFINE c == EarlierChild(event_queue, event_queue_len, later_time, hole)
  <2>1. CopyFrom(c)
    BY <1>8 DEF PercolateUp, PercolateDown
  <2>2. LeftOf(hole) = 2 * hole
    BY <1>2, EventQueueAssumption, LeftOfIs
  <2>3. c \in {2 * hole, 2 * hole + 1}
    BY <2>2 DEF EarlierChild
  <2>4. c \in Nat /\ c > hole
    BY <1>2, <2>3
  <2> HIDE DEF c
  <2> QED BY <1>6, <1>8, <2>1, <2>4
<1> QED BY <1>5, <1>7, <1>8 DEF PercolateUp, PercolateDown

\* So do the other steps of a call: a percolation that begins is paid for by what
\* is left to do afterwards, which is less.
LEMMA CallNears ==
  ASSUME Disciplined, IInv, error = "none", pc # "idle", Next
  PROVE  Nears
<1> USE EventQueueAssumption
<1> DEFINE H == QueueSize + 1
<1>1. H \in Nat /\ H > 1 /\ event_queue_len \in Nat /\ event_queue_len \in 0..QueueSize
  BY DEF IInv, Sound, TypeOK
<1>2. ASSUME event_queue_len' = event_queue_len - 1
      PROVE  Nears
  BY <1>1, <1>2 DEF Nears
<1>3. ASSUME event_queue_len' = event_queue_len, Weight' < Weight
      PROVE  Nears
  BY <1>3 DEF Nears
<1>4. CASE PercolateUp \/ PercolateDown
  BY <1>3, <1>4, PercolationNears
<1>5. CASE LaterReposition
  <2> DEFINE h == Find(target)
  <2>1. /\ pc = "dropping" /\ target \in SV /\ later_time[target] # Never
    BY <1>5 DEF LaterReposition, IInv, Sound, Shape
  <2>2. SlotsOf(target) # {} /\ h \in 1..event_queue_len
    BY <2>1, Found DEF Percolating
  <2>3. /\ event_queue_len' = event_queue_len
        /\ pc' \in {"up", "down"} /\ hole' = h /\ ret' = "idle"
    BY <1>5, <2>1, <2>2 DEF LaterReposition, Percolate, queueVars
  <2> HIDE DEF h
  <2>4. ToGo' \in Int /\ ToGo' < H
    BY <1>1, <2>2, <2>3 DEF ToGo
  <2>5. ToGo = 0 /\ Phase = "dropping" /\ Phase' = "idle"
    BY <2>1, <2>3 DEF ToGo, Phase, Percolating
  <2>6. Left = H /\ Left' = 0
    BY <2>5 DEF Left
  <2>7. Left' + ToGo' < Left + ToGo
    <3> HIDE DEF H
    <3>1. H \in Int
      BY <1>1
    <3> QED BY <2>4, <2>5, <2>6, <3>1, Repaid
  <2>8. Weight' < Weight
    BY <2>7 DEF Weight
  <2> QED BY <1>3, <2>3, <2>8
<1>6. CASE UpdateHead \/ TickDone
  <2>1. /\ pc = "ticking" /\ pc' \in {"updating", "idle"}
        /\ event_queue_len' = event_queue_len
    BY <1>6 DEF UpdateHead, TickDone, Goto, queueVars
  <2>2. ToGo = 0 /\ ToGo' = 0 /\ Phase = "ticking" /\ Phase' \in {"updating", "idle"}
    BY <2>1 DEF ToGo, Phase, Percolating
  <2>3. Left = 2 * H /\ Left' \in {H, 0}
    BY <2>2 DEF Left
  <2>4. Left' + ToGo' < Left + ToGo
    <3> HIDE DEF H
    <3>1. Left \in Int /\ Left' \in Int
      BY <1>1, <2>3
    <3>2. Left' < Left
      BY <1>1, <2>3
    <3> QED BY <2>2, <3>1, <3>2, Repaid
  <2>5. Weight' < Weight
    BY <2>4 DEF Weight
  <2> QED BY <1>3, <2>1, <2>5
<1>7. CASE PopHead
  BY <1>2, <1>7 DEF PopHead
<1>8. ASSUME NEW o \in SV, DropFinal(o)
      PROVE  Nears
  <2>1. pc = "updating" /\ Unschedule(o, "updating")
    BY <1>8 DEF DropFinal, Disciplined
  <2>2. later_time[o] # Never
    BY <2>1 DEF Unschedule
  <2>3. SlotsOf(o) # {}
    BY <2>1, <2>2, Found DEF Percolating
  <2>4. event_queue_len' = event_queue_len - 1
    BY <2>1, <2>3 DEF Unschedule
  <2> QED BY <1>2, <2>4
<1> QED BY <1>4, <1>5, <1>6, <1>7, <1>8 DEF Next, Call, Internal

\* Every call comes back: each of its steps throws, or comes nearer to its end,
\* in the order of the queue's length and then of Weight.
THEOREM CallsGetOn == ASSUME Disciplined PROVE Spec => [][Nears]_vars
<1>1. IInv /\ [Next]_vars => [Nears]_vars
  BY CallNears DEF Nears
<1> QED BY <1>1, Invariance, PTL DEF Spec

-----------------------------------------------------------------------------
(***************************************************************************)
(* EventQueue implements EventSet, for any variables, any queue size and   *)
(* any SSM_NEVER, when callers keep to Disciplined.                        *)
(***************************************************************************)
Pending == {v \in SV : later_time[v] # Never}

\* There are as many pending variables as there are slots in use: the heap's
\* length tells whether there is room for one more.
LEMMA LengthCounts ==
  ASSUME IInv, error = "none"
  PROVE  Cardinality(Pending) = event_queue_len
<1> DEFINE f == [i \in 1..event_queue_len |-> Queue[i]]
<1>1. event_queue_len \in Nat
  BY EventQueueAssumption DEF IInv, TypeOK
<1>2. f \in Bijection(1..event_queue_len, Pending)
  <2>1. \A i \in 1..event_queue_len : f[i] \in Pending
    BY DEF IInv, Sound, Members, Pending
  <2>2. \A i, j \in 1..event_queue_len : f[i] = f[j] => i = j
    BY DEF IInv, Sound, Members
  <2>3. \A v \in Pending : \E i \in 1..event_queue_len : f[i] = v
    BY DEF IInv, Sound, Members, Pending
  <2> QED BY <2>1, <2>2, <2>3 DEF Bijection, Injection, Surjection, IsInjective
<1>3. ExistsBijection(1..event_queue_len, Pending)
  BY <1>2 DEF ExistsBijection
<1> QED BY <1>1, <1>3, FS_CountingElements

\* The event queue is empty exactly when nothing is pending.
LEMMA EmptyIffNonePending ==
  ASSUME IInv, error = "none"
  PROVE  event_queue_len = 0 <=> Pending = {}
<1>1. event_queue_len \in Nat
  BY EventQueueAssumption DEF IInv, TypeOK
<1>2. \A v \in Pending : \E i \in 1..event_queue_len : Queue[i] = v
  BY DEF IInv, Sound, Members, Pending
<1>3. \A i \in 1..event_queue_len : Queue[i] \in Pending
  BY DEF IInv, Sound, Members, Pending
<1> QED BY <1>1, <1>2, <1>3

\* The cardinality EventSet speaks of is the one of finite sets.
LEMMA SameCardinality == \A S : Events!Cardinality(S) = Cardinality(S)
BY DEF Events!Cardinality, Cardinality

-----------------------------------------------------------------------------
\* A throw that the set permits as well.
LEMMA ThrowRefuses ==
  ASSUME error = "none", pc = "idle", NEW e, Throw(e),
         \/ e \in {"later_in_past", "set_now_in_past"}
         \/ e = "set_now_skips" /\ Pending # {}
         \/ e = "tick_in_past" /\ Events!Due # {}
  PROVE  Events!Next
<1>1. Events!Refuse
  BY DEF Throw, queueVars, loopVars, Events!Refuse, Events!Pending, Pending
<1> QED BY <1>1 DEF Events!Next

\* ssm_sv_later_unsafe, to where it calls ssm_drop or starts to percolate.
LEMMA LaterImplements ==
  ASSUME IInv, error = "none", pc = "idle", NEW v \in SV, NEW when \in Whens,
         \/ LaterInPast(v, when) \/ LaterNew(v, when)
         \/ LaterExhausted(v, when) \/ LaterPending(v, when)
  PROVE  Events!Next
<1>1. when \in 0..Never
  BY EventQueueAssumption DEF Whens
<1>2. CASE LaterInPast(v, when)
  BY <1>2, ThrowRefuses DEF LaterInPast
<1>3. CASE LaterNew(v, when)
  <2>1. Cardinality(Pending) < QueueSize
    BY <1>3, LengthCounts DEF LaterNew
  <2>2. Events!Schedule(v, when)
    BY <1>3, <2>1, SameCardinality
       DEF LaterNew, Percolate, Events!Schedule, Events!Pending, Pending
  <2> QED BY <1>1, <2>2 DEF Events!Next
<1>4. CASE LaterExhausted(v, when)
  <2>1. Cardinality(Pending) = QueueSize
    BY <1>4, LengthCounts DEF LaterExhausted
  <2>2. when \in now..Never /\ v \in SV \ Pending
    BY <1>1, <1>4, EventQueueAssumption DEF LaterExhausted, Pending, IInv, TypeOK, Times
  <2>3. Events!Refuse
    BY <1>4, <2>1, <2>2, SameCardinality
       DEF LaterExhausted, loopVars, Events!Refuse, Events!Pending, Pending
  <2> QED BY <2>3 DEF Events!Next
<1>5. CASE LaterPending(v, when)
  <2>1. Events!Reschedule(v, when)
    BY <1>5 DEF LaterPending, Events!Reschedule, Events!Pending
  <2> QED BY <1>1, <2>1 DEF Events!Next
<1> QED BY <1>2, <1>3, <1>4, <1>5

\* The repositioned variable is found; the percolation returns to the caller.
LEMMA LaterRepositionImplements ==
  ASSUME IInv, error = "none", LaterReposition
  PROVE  Events!Next
<1>1. target \in SV /\ later_time[target] # Never /\ ~Percolating /\ pc = "dropping"
  BY DEF LaterReposition, IInv, Sound, Shape, Percolating
<1>2. SlotsOf(target) # {}
  BY <1>1, Found
<1>3. Events!Rescheduled
  BY <1>1, <1>2 DEF LaterReposition, Percolate, queueVars, Events!Rescheduled
<1> QED BY <1>3 DEF Events!Next

\* ssm_unschedule, from outside or from within ssm_update.
LEMMA UnscheduleImplements ==
  ASSUME IInv, error = "none", NEW v \in SV, NEW p \in {"idle", "updating"},
         Unschedule(v, p), p = "updating" => v # target
  PROVE  Events!Next
<1>1. SlotsOf(v) # {}
  BY Found DEF Unschedule, Percolating
<1>2. /\ later_time' = [later_time EXCEPT ![v] = Never]
      /\ UNCHANGED <<now, target, error>>
      /\ pc = p /\ v \in Events!Pending
      /\ \/ pc' = p
         \/ pc' \in {"up", "down"} /\ ret' = p
  BY <1>1 DEF Unschedule, Percolate, loopVars, Events!Pending
<1>3. Events!Cancel(v)
  BY <1>2 DEF Events!Cancel
<1> QED BY <1>3 DEF Events!Next

\* An iteration of a percolate loop is nothing to the set.
LEMMA PercolateStutters ==
  ASSUME IInv, error = "none", PercolateUp \/ PercolateDown
  PROVE  UNCHANGED Events!vars
<1>1. pc \in {"up", "down"} /\ ret \in {"idle", "ticking", "updating"}
  BY DEF PercolateUp, PercolateDown, IInv, Sound, Loop, Percolating
<1>2. CASE Place
  BY <1>1, <1>2 DEF Place, Percolate, Events!vars
<1>3. CASE \E i : CopyFrom(i)
  BY <1>1, <1>3 DEF CopyFrom, Events!vars
<1> QED BY <1>2, <1>3 DEF PercolateUp, PercolateDown

\* ssm_set_now passes no pending event, or throws.
LEMMA SetNowImplements ==
  ASSUME IInv, error = "none", pc = "idle", NEW next \in HandSetTimes, SetNow(next)
  PROVE  Events!Next
<1>1. next \in Nat /\ next < Never /\ now \in Nat
  BY EventQueueAssumption DEF HandSetTimes, IInv, TypeOK, Times
<1>2. CASE Throw("set_now_in_past")
  BY <1>2, ThrowRefuses
<1>3. CASE event_queue_len # 0 /\ Throw("set_now_skips")
  BY <1>3, ThrowRefuses, EmptyIffNonePending
<1>4. CASE /\ next > now
           /\ event_queue_len # 0 => next <= NextEventTime
           /\ now' = next
           /\ UNCHANGED <<queueVars, pc, loopVars, target, error>>
  <2>1. \A v \in Events!Pending : next <= later_time[v]
    <3> SUFFICES ASSUME NEW v \in Events!Pending PROVE next <= later_time[v]
      OBVIOUS
    <3>1. v \in SV /\ later_time[v] # Never
      BY DEF Events!Pending
    <3>2. event_queue_len > 0 /\ NextEventTime <= later_time[v] /\ NextEventTime \in Nat
      BY <3>1, HeadTime
    <3>3. later_time[v] \in Nat
      BY <3>1, EventQueueAssumption DEF IInv, TypeOK, Times
    <3> QED BY <1>1, <1>4, <3>2, <3>3
  <2>2. Events!MoveTime(next)
    BY <1>4, <2>1 DEF queueVars, Events!MoveTime
  <2>3. next \in 0..Never
    BY <1>1, EventQueueAssumption
  <2> QED BY <2>2, <2>3 DEF Events!Next
<1> QED BY <1>2, <1>3, <1>4 DEF SetNow

\* ssm_tick's prologue goes to the earliest event, or stays.
LEMMA TickImplements ==
  ASSUME IInv, error = "none", pc = "idle", NEW acts \in BOOLEAN, Tick(acts)
  PROVE  Events!Next
<1>1. now \in 0..Never /\ Never \in Nat /\ event_queue_len \in Nat
  BY EventQueueAssumption DEF IInv, TypeOK, Times
<1>2. event_queue_len > 0 =>
        /\ NextEventTime \in Nat /\ NextEventTime < Never /\ NextEventTime >= now
        /\ event_queue[1] \in SV /\ NextEventTime = later_time[event_queue[1]]
  BY <1>1, HeadTime
<1>3. event_queue_len = 0 => NextEventTime = Never
  BY DEF NextEventTime
<1>4. CASE Goto("ticking") /\ UNCHANGED <<now, target>>
  <2>1. Events!BeginTick(now)
    BY <1>4 DEF Goto, queueVars, Events!BeginTick
  <2> QED BY <1>1, <2>1 DEF Events!Next
<1>5. CASE event_queue_len > 0 /\ NextEventTime <= now /\ Throw("tick_in_past")
  <2>1. event_queue[1] \in Events!Due
    BY <1>1, <1>2, <1>5 DEF Events!Due
  <2> QED BY <1>5, <2>1, ThrowRefuses
<1>6. CASE /\ event_queue_len > 0 /\ NextEventTime > now
           /\ now' = NextEventTime
           /\ Goto("ticking") /\ UNCHANGED target
  <2> DEFINE t == NextEventTime
  <2>1. t > now /\ \A v \in Events!Pending : t <= later_time[v]
    BY <1>6, HeadTime DEF Events!Pending
  <2>2. event_queue[1] \in Events!Pending
    BY <1>1, <1>2, <1>6 DEF Events!Pending
  <2>3. t \in {later_time[v] : v \in Events!Pending}
    BY <1>2, <1>6, <2>2
  <2>4. now' = t /\ pc' = "ticking" /\ UNCHANGED <<later_time, target, error>>
    BY <1>6 DEF Goto, queueVars
  <2> HIDE DEF t
  <2>5. Events!BeginTick(t)
    BY <2>1, <2>3, <2>4 DEF Events!BeginTick
  <2>6. t \in 0..Never
    BY <1>1, <1>2, <1>6 DEF t
  <2> QED BY <2>5, <2>6 DEF Events!Next
<1>7. ~(NextEventTime # Never /\ now > NextEventTime)
  BY <1>1, <1>2, <1>3
<1> QED BY <1>4, <1>5, <1>6, <1>7 DEF Tick

\* ssm_tick's update loop picks a due variable, delivers it, and ends when
\* none is left.
LEMMA UpdatesImplement ==
  ASSUME IInv, error = "none", UpdateHead \/ PopHead \/ TickDone
  PROVE  Events!Next
<1>1. CASE UpdateHead
  <2>1. pc = "ticking" /\ event_queue_len > 0 /\ NextEventTime = now
    BY <1>1 DEF UpdateHead, HeadIsDue
  <2>2. event_queue[1] \in SV /\ later_time[event_queue[1]] = now
    <3>1. event_queue_len \in Nat
      BY EventQueueAssumption DEF IInv, TypeOK
    <3> QED BY <2>1, <3>1, HeadTime
  <2>3. Events!Pick(event_queue[1])
    BY <1>1, <2>1, <2>2
       DEF UpdateHead, Goto, queueVars, SSM_QUEUE_HEAD, Events!Pick, Events!Due
  <2> QED BY <2>2, <2>3 DEF Events!Next
<1>2. CASE PopHead
  <2>1. pc = "updating" /\ target \in Events!Due
    BY <1>2 DEF PopHead, IInv, Sound, Updating, Phase, Percolating, Events!Due
  <2>2. \/ pc' = "ticking"
        \/ pc' = "down" /\ ret' = "ticking"
    BY <1>2 DEF PopHead, Percolate
  <2>3. Events!Deliver
    BY <1>2, <2>1, <2>2 DEF PopHead, Events!Deliver
  <2> QED BY <2>3 DEF Events!Next
<1>3. CASE TickDone
  <2>1. Events!Due = {}
    <3> SUFFICES ASSUME NEW v \in Events!Due PROVE FALSE
      OBVIOUS
    <3>1. v \in SV /\ later_time[v] = now /\ now # Never /\ now \in Nat
      BY EventQueueAssumption DEF Events!Due, IInv, TypeOK, Times
    <3>2. pc = "ticking" /\ ~HeadIsDue
      BY <1>3 DEF TickDone
    <3>3. /\ event_queue_len > 0 /\ NextEventTime <= now
          /\ NextEventTime >= now /\ NextEventTime \in Nat
      BY <3>1, <3>2, HeadTime
    <3> QED BY <3>1, <3>2, <3>3 DEF HeadIsDue
  <2>2. Events!EndTick
    BY <1>3, <2>1 DEF TickDone, Goto, queueVars, Events!EndTick
  <2> QED BY <2>2 DEF Events!Next
<1> QED BY <1>1, <1>2, <1>3

\* ssm_reset of an empty queue.
LEMMA ResetImplements ==
  ASSUME Disciplined, IInv, error = "none", pc = "idle", Reset
  PROVE  Events!Next
<1>1. Events!Pending = {}
  BY EmptyIffNonePending DEF Reset, Disciplined, Events!Pending, Pending
<1>2. Events!Restart
  BY <1>1 DEF Reset, loopVars, Events!Restart
<1> QED BY <1>2 DEF Events!Next

-----------------------------------------------------------------------------
\* The empty queue is the empty set.
LEMMA InitImplements == Init => Events!Init
BY DEF Init, Events!Init

\* Every step of the code is a step of the set, or none.
LEMMA StepImplements ==
  ASSUME Disciplined, IInv, [Next]_vars
  PROVE  [Events!Next]_(Events!vars)
<1>1. CASE UNCHANGED vars
  BY <1>1 DEF vars, queueVars, loopVars, Events!vars
<1>2. CASE error = "none" /\ Call
  <2>1. CASE \E v \in SV, when \in Whens :
                \/ LaterInPast(v, when) \/ LaterNew(v, when)
                \/ LaterExhausted(v, when) \/ LaterPending(v, when)
    BY <1>2, <2>1, LaterImplements DEF Call
  <2>2. CASE \E v \in SV : Unschedule(v, "idle")
    BY <1>2, <2>2, UnscheduleImplements
  <2>3. CASE \E next \in HandSetTimes : SetNow(next)
    BY <1>2, <2>3, SetNowImplements DEF Call
  <2>4. CASE \E acts \in BOOLEAN : Tick(acts)
    BY <1>2, <2>4, TickImplements DEF Call
  <2>5. CASE Reset
    BY <1>2, <2>5, ResetImplements DEF Call
  <2> QED BY <1>2, <2>1, <2>2, <2>3, <2>4, <2>5 DEF Call
<1>3. CASE error = "none" /\ Internal
  BY <1>3, LaterRepositionImplements, PercolateStutters, UpdatesImplement
     DEF Internal
<1>4. CASE error = "none" /\ \E o \in SV : DropFinal(o)
  <2>1. PICK o \in SV : DropFinal(o)
    BY <1>4
  <2>2. o # target /\ Unschedule(o, "updating")
    BY <2>1 DEF DropFinal, Disciplined
  <2> QED BY <1>4, <2>1, <2>2, UnscheduleImplements
<1> QED BY <1>1, <1>2, <1>3, <1>4 DEF Next

\* ImplementsEventSet: the heap, its percolations and the drops in between,
\* behaves as a set of pending times.  A tick delivers all that is due, once
\* and in the order of time, and the program stops only for its callers'
\* mistakes or a full queue.
THEOREM Implementation ==
  ASSUME Disciplined PROVE Spec => ImplementsEventSet
<1>1. Init => Events!Init
  BY InitImplements
<1>2. IInv /\ [Next]_vars => [Events!Next]_(Events!vars)
  BY StepImplements
<1> QED BY <1>1, <1>2, Invariance, PTL DEF Spec, ImplementsEventSet, Events!Spec
=============================================================================
