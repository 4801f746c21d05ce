----------------------- MODULE LifeCycleTaskQueueProofs -----------------------
(***************************************************************************)
(* The life cycle task queue for any queue length and any number of posts. *)
(*                                                                         *)
(* Every started task is in one place: waiting to be handed over, a job of *)
(* the manager's thread, or on the JS main thread.  A completion takes one *)
(* task out of there and starts at most one.  The lemmas say what the      *)
(* operations on the threads' sequences do to the sets of tasks in them;   *)
(* with them the steps are arguments about sets.  The last part shows that *)
(* they are steps of TaskTurns, and that the turns are taken in order.     *)
(***************************************************************************)
EXTENDS LifeCycleTaskQueue, FiniteSetTheorems, TLAPS

TasksOf(jobs) == { jobs[i].task : i \in 1 .. Len(jobs) }
OneJobEach(jobs) ==
  \A i, k \in 1 .. Len(jobs) : jobs[i].task = jobs[k].task => i = k
OneEach(s) == \A i, k \in 1 .. Len(s) : s[i] = s[k] => i = k
ValuesOf(s) == { s[i] : i \in 1 .. Len(s) }

LEMMA TailJobs ==
  ASSUME NEW J, NEW h \in Seq(J), h # <<>>, OneJobEach(h)
  PROVE  /\ Tail(h) \in Seq(J) /\ Head(h) \in J
         /\ OneJobEach(Tail(h))
         /\ TasksOf(Tail(h)) = TasksOf(h) \ { Head(h).task }
         /\ Head(h).task \in TasksOf(h)
         /\ \A i \in 1 .. Len(Tail(h)) : i + 1 \in 1 .. Len(h) /\ Tail(h)[i] = h[i + 1]
<1>1. /\ Tail(h) \in Seq(J) /\ Len(h) \in Nat \ {0} /\ Head(h) = h[1] /\ h[1] \in J
      /\ Len(Tail(h)) = Len(h) - 1
      /\ \A i \in 1 .. Len(Tail(h)) : i + 1 \in 1 .. Len(h) /\ Tail(h)[i] = h[i + 1]
  OBVIOUS
<1>2. OneJobEach(Tail(h))
  BY <1>1 DEF OneJobEach
<1>3. TasksOf(Tail(h)) \subseteq TasksOf(h) \ { Head(h).task }
  BY <1>1 DEF OneJobEach, TasksOf
<1>4. ASSUME NEW t \in TasksOf(h), t # Head(h).task
      PROVE  t \in TasksOf(Tail(h))
  <2>1. PICK i \in 1 .. Len(h) : t = h[i].task
    BY DEF TasksOf
  <2>2. i - 1 \in 1 .. Len(Tail(h)) /\ Tail(h)[i - 1] = h[i]
    BY <1>1, <1>4, <2>1
  <2>3. QED BY <2>1, <2>2 DEF TasksOf
<1>5. Head(h).task \in TasksOf(h)
  BY <1>1 DEF TasksOf
<1>6. QED BY <1>1, <1>2, <1>3, <1>4, <1>5

LEMMA ConsJobs ==
  ASSUME NEW J, NEW h \in Seq(J), NEW j \in J
  PROVE  /\ <<j>> \o h \in Seq(J)
         /\ TasksOf(<<j>> \o h) = TasksOf(h) \cup { j.task }
         /\ OneJobEach(h) /\ j.task \notin TasksOf(h) => OneJobEach(<<j>> \o h)
         /\ \A i \in 1 .. Len(<<j>> \o h) :
              (<<j>> \o h)[i] = j \/ (i - 1 \in 1 .. Len(h) /\ (<<j>> \o h)[i] = h[i - 1])
<1> DEFINE g == <<j>> \o h
<1>1. /\ g \in Seq(J) /\ Len(h) \in Nat /\ Len(g) = Len(h) + 1 /\ g[1] = j
      /\ \A i \in 2 .. Len(g) : i - 1 \in 1 .. Len(h) /\ g[i] = h[i - 1]
      /\ \A i \in 1 .. Len(h) : i + 1 \in 2 .. Len(g) /\ g[i + 1] = h[i]
  OBVIOUS
<1> HIDE DEF g
<1>2. TasksOf(g) \subseteq TasksOf(h) \cup { j.task }
  <2> SUFFICES ASSUME NEW i \in 1 .. Len(g) PROVE g[i].task \in TasksOf(h) \cup { j.task }
    BY DEF TasksOf
  <2>1. CASE i = 1 BY <2>1, <1>1
  <2>2. CASE i \in 2 .. Len(g) BY <2>2, <1>1 DEF TasksOf
  <2>3. QED BY <2>1, <2>2, <1>1
<1>3. j.task \in TasksOf(g)
  <2>1. 1 \in 1 .. Len(g) BY <1>1
  <2>2. QED BY <2>1, <1>1 DEF TasksOf
<1>4. TasksOf(h) \subseteq TasksOf(g)
  <2> SUFFICES ASSUME NEW i \in 1 .. Len(h) PROVE h[i].task \in TasksOf(g)
    BY DEF TasksOf
  <2>1. i + 1 \in 1 .. Len(g) BY <1>1
  <2>2. QED BY <2>1, <1>1 DEF TasksOf
<1>5. ASSUME OneJobEach(h), j.task \notin TasksOf(h)
      PROVE  OneJobEach(g)
  <2> SUFFICES ASSUME NEW i \in 1 .. Len(g), NEW k \in 1 .. Len(g), g[i].task = g[k].task
               PROVE  i = k
    BY DEF OneJobEach
  <2>1. CASE i = 1 /\ k = 1 BY <2>1
  <2>2. CASE i = 1 /\ k # 1
    <3>1. k \in 2 .. Len(g) BY <2>2, <1>1
    <3>2. g[k].task \in TasksOf(h) BY <3>1, <1>1 DEF TasksOf
    <3>3. QED BY <3>2, <2>2, <1>1, <1>5
  <2>3. CASE i # 1 /\ k = 1
    <3>1. i \in 2 .. Len(g) BY <2>3, <1>1
    <3>2. g[i].task \in TasksOf(h) BY <3>1, <1>1 DEF TasksOf
    <3>3. QED BY <3>2, <2>3, <1>1, <1>5
  <2>4. CASE i # 1 /\ k # 1
    <3>1. i \in 2 .. Len(g) /\ k \in 2 .. Len(g) BY <2>4, <1>1
    <3>2. h[i - 1].task = h[k - 1].task BY <3>1, <1>1
    <3>3. i - 1 = k - 1 BY <3>1, <3>2, <1>1, <1>5 DEF OneJobEach
    <3>4. QED BY <3>3, <1>1
  <2>5. QED BY <2>1, <2>2, <2>3, <2>4
<1>6. \A i \in 1 .. Len(g) : g[i] = j \/ (i - 1 \in 1 .. Len(h) /\ g[i] = h[i - 1])
  BY <1>1
<1>7. QED BY <1>1, <1>2, <1>3, <1>4, <1>5, <1>6 DEF g

LEMMA AppendJob ==
  ASSUME NEW J, NEW h \in Seq(J), NEW j \in J
  PROVE  /\ Append(h, j) \in Seq(J)
         /\ TasksOf(Append(h, j)) = TasksOf(h) \cup { j.task }
         /\ OneJobEach(h) /\ j.task \notin TasksOf(h) => OneJobEach(Append(h, j))
         /\ \A i \in 1 .. Len(Append(h, j)) :
              Append(h, j)[i] = j \/ (i \in 1 .. Len(h) /\ Append(h, j)[i] = h[i])
<1> DEFINE g == Append(h, j)
<1>1. /\ g \in Seq(J) /\ Len(h) \in Nat /\ Len(g) = Len(h) + 1 /\ g[Len(g)] = j
      /\ \A i \in 1 .. Len(h) : i \in 1 .. Len(g) /\ g[i] = h[i]
      /\ \A i \in 1 .. Len(g) : i = Len(g) \/ i \in 1 .. Len(h)
      /\ Len(g) \in 1 .. Len(g)
  OBVIOUS
<1> HIDE DEF g
<1>2. TasksOf(g) = TasksOf(h) \cup { j.task }
  BY <1>1 DEF TasksOf
<1>3. ASSUME OneJobEach(h), j.task \notin TasksOf(h)
      PROVE  OneJobEach(g)
  <2>1. \A i \in 1 .. Len(h) : g[i].task # j.task
    BY <1>1, <1>3 DEF TasksOf
  <2>2. QED BY <2>1, <1>1, <1>3 DEF OneJobEach
<1>4. QED BY <1>1, <1>2, <1>3 DEF g

LEMMA TailValues ==
  ASSUME NEW S, NEW s \in Seq(S), s # <<>>, OneEach(s)
  PROVE  /\ Tail(s) \in Seq(S) /\ Head(s) \in S
         /\ OneEach(Tail(s))
         /\ ValuesOf(Tail(s)) = ValuesOf(s) \ { Head(s) }
         /\ Head(s) \in ValuesOf(s)
<1>1. /\ Tail(s) \in Seq(S) /\ Len(s) \in Nat \ {0} /\ Head(s) = s[1] /\ s[1] \in S
      /\ Len(Tail(s)) = Len(s) - 1
      /\ \A i \in 1 .. Len(Tail(s)) : i + 1 \in 1 .. Len(s) /\ Tail(s)[i] = s[i + 1]
  OBVIOUS
<1>2. OneEach(Tail(s))
  BY <1>1 DEF OneEach
<1>3. ValuesOf(Tail(s)) \subseteq ValuesOf(s) \ { Head(s) }
  BY <1>1 DEF OneEach, ValuesOf
<1>4. ASSUME NEW t \in ValuesOf(s), t # Head(s)
      PROVE  t \in ValuesOf(Tail(s))
  <2>1. PICK i \in 1 .. Len(s) : t = s[i]
    BY DEF ValuesOf
  <2>2. i - 1 \in 1 .. Len(Tail(s)) /\ Tail(s)[i - 1] = s[i]
    BY <1>1, <1>4, <2>1
  <2>3. QED BY <2>1, <2>2 DEF ValuesOf
<1>5. Head(s) \in ValuesOf(s)
  BY <1>1 DEF ValuesOf
<1>6. QED BY <1>1, <1>2, <1>3, <1>4, <1>5

LEMMA AppendValue ==
  ASSUME NEW S, NEW s \in Seq(S), NEW v \in S
  PROVE  /\ Append(s, v) \in Seq(S)
         /\ ValuesOf(Append(s, v)) = ValuesOf(s) \cup {v}
         /\ OneEach(s) /\ v \notin ValuesOf(s) => OneEach(Append(s, v))
<1> DEFINE g == Append(s, v)
<1>1. /\ g \in Seq(S) /\ Len(s) \in Nat /\ Len(g) = Len(s) + 1 /\ g[Len(g)] = v
      /\ \A i \in 1 .. Len(s) : i \in 1 .. Len(g) /\ g[i] = s[i]
      /\ \A i \in 1 .. Len(g) : i = Len(g) \/ i \in 1 .. Len(s)
      /\ Len(g) \in 1 .. Len(g)
  OBVIOUS
<1> HIDE DEF g
<1>2. ValuesOf(g) = ValuesOf(s) \cup {v}
  BY <1>1 DEF ValuesOf
<1>3. ASSUME OneEach(s), v \notin ValuesOf(s)
      PROVE  OneEach(g)
  <2>1. \A i \in 1 .. Len(s) : g[i] # v
    BY <1>1, <1>3 DEF ValuesOf
  <2>2. QED BY <2>1, <1>1, <1>3 DEF OneEach
<1>4. QED BY <1>1, <1>2, <1>3 DEF g

LEMMA AppendIs ==
  ASSUME NEW S, NEW s \in Seq(S), NEW v \in S
  PROVE  /\ Append(s, v) \in Seq(S) /\ Len(Append(s, v)) = Len(s) + 1
         /\ Append(s, v)[Len(s) + 1] = v /\ Append(s, v) # <<>>
         /\ Head(Append(s, v)) = Append(s, v)[1]
         /\ \A i \in 1 .. Len(s) : Append(s, v)[i] = s[i]
OBVIOUS

LEMMA SeqMonotone ==
  ASSUME NEW S, NEW T, S \subseteq T, NEW s \in Seq(S)
  PROVE  s \in Seq(T)
OBVIOUS
-----------------------------------------------------------------------------
(* The inductive invariant.  Queued tasks are in the order of their posts, *)
(* so that a task is not queued twice; every started task has its running  *)
(* flag and is in one place.                                               *)
Increasing == \A i, k \in 1 .. Len(queue) : i < k => queue[i] < queue[k]

NoneRuns(jobs, B) ==
  \A i \in 1 .. Len(jobs) : jobs[i].do = "Run" => jobs[i].task \notin B

Tasks == starting \cup TasksOf(handler) \cup ValuesOf(mainThread)

OnePlace ==
  /\ OneJobEach(handler) /\ OneEach(mainThread)
  /\ starting \cup TasksOf(handler) \cup ValuesOf(mainThread) \cup begun \subseteq running
  /\ starting \cap TasksOf(handler) = {}
  /\ starting \cap ValuesOf(mainThread) = {}
  /\ TasksOf(handler) \cap ValuesOf(mainThread) = {}
  /\ starting \cap begun = {}
  /\ NoneRuns(handler, begun)

Inv ==
  /\ TypeOK /\ Increasing /\ OnlyFrontRuns /\ OnePlace
  /\ FrontWillComplete /\ OverlapBounded

LEMMA InFlightIs ==
  ASSUME TypeOK
  PROVE  InFlight = Tasks
<1>1. DOMAIN handler = 1 .. Len(handler) /\ DOMAIN mainThread = 1 .. Len(mainThread)
  BY DEF TypeOK
<1>2. { j.task : j \in Range(handler) } = TasksOf(handler)
  BY <1>1 DEF Range, TasksOf
<1>3. Range(mainThread) = ValuesOf(mainThread)
  BY <1>1 DEF Range, ValuesOf
<1>4. QED BY <1>2, <1>3 DEF InFlight, Tasks

LEMMA InFlightIsNext ==
  ASSUME NEW J, NEW P, handler' \in Seq(J), mainThread' \in Seq(P)
  PROVE  InFlight' = Tasks'
<1>1. DOMAIN handler' = 1 .. Len(handler') /\ DOMAIN mainThread' = 1 .. Len(mainThread')
  OBVIOUS
<1>2. { j.task : j \in Range(handler') } = TasksOf(handler')
  BY <1>1 DEF Range, TasksOf
<1>3. Range(mainThread') = ValuesOf(mainThread')
  BY <1>1 DEF Range, ValuesOf
<1>4. QED BY <1>2, <1>3 DEF InFlight, Tasks

LEMMA InFlightFinite ==
  ASSUME TypeOK
  PROVE  /\ InFlight \subseteq Posted
         /\ IsFiniteSet(InFlight) /\ Cardinality(InFlight) \in Nat
<1>1. TasksOf(handler) \subseteq Posted
  BY DEF TypeOK, TasksOf, Jobs, Run, Remove
<1>2. ValuesOf(mainThread) \subseteq Posted
  BY DEF TypeOK, ValuesOf
<1>3. InFlight \subseteq Posted
  BY <1>1, <1>2, InFlightIs DEF TypeOK, Tasks
<1>4. IsFiniteSet(Posted)
  BY FS_Interval DEF TypeOK, Posted
<1>5. QED BY <1>3, <1>4, FS_Subset, FS_CardinalityType
-----------------------------------------------------------------------------
(* What an operation on the queue does that starts the tasks S, at most    *)
(* one, and that ended completions have called for.                         *)
Slack(q) == IF q = <<>> THEN 0 ELSE 1
OneIf(S) == IF S = {} THEN 0 ELSE 1

QueueStep(S, ended) ==
  /\ kind' \in Seq(Kinds) /\ Len(kind') <= MaxPosts /\ Posted \subseteq Posted'
  /\ queue' \in Seq(Posted') /\ Len(queue') <= MaxQueue
  /\ running' = running \cup S /\ S \cap running = {} /\ S \subseteq Posted'
  /\ S = {} \/ \E t : S = {t}
  /\ Increasing' /\ OnlyFrontRuns'
  /\ queue' # <<>> =>
       Head(queue') \in S \/ (queue # <<>> /\ Head(queue') = Head(queue))
  /\ takenOff' \in Nat
  /\ takenOff + Slack(queue) + OneIf(S)
       <= takenOff' + Slack(queue') + ended

LEMMA NoQueueStep ==
  ASSUME Inv, UNCHANGED <<kind, queue, running, takenOff>>, NEW ended \in Nat
  PROVE  QueueStep({}, ended)
BY DEF Inv, TypeOK, QueueStep, Increasing, OnlyFrontRuns, Posted, Slack, OneIf

(* PostLifeCycleTask's critical section.                                   *)
LEMMA EnqueueStep ==
  ASSUME Inv, NEW k \in Kinds, NEW expired \in BOOLEAN, Enqueue(k, expired)
  PROVE  QueueStep(IF Full(expired) THEN {} ELSE ToStart(queue'), 0)
<1> DEFINE new == Len(kind) + 1
           W == WithoutExpired(expired)
           q == Append(W, new)
           S == ToStart(q)
<1>1. /\ kind' \in Seq(Kinds) /\ Len(kind') = new /\ new <= MaxPosts /\ new \in Nat
      /\ Posted = 1 .. Len(kind) /\ Posted' = 1 .. new /\ Len(kind) \in Nat
      /\ new \notin Posted /\ Posted \subseteq Posted'
  BY DEF Inv, TypeOK, Enqueue, Posted
<1>2. /\ queue \in Seq(Posted) /\ Len(queue) \in Nat /\ running \subseteq Posted
      /\ Len(queue) <= MaxQueue /\ takenOff \in Nat
  BY DEF Inv, TypeOK
<1>3. W \in Seq(Posted) /\ W = (IF expired THEN Tail(queue) ELSE queue)
  BY <1>2 DEF WithoutExpired, Enqueue
<1>4. CASE Full(expired)
  <2>1. ~expired
    BY <1>2, <1>4, BoundsAssumption DEF Enqueue, WithoutExpired, Full
  <2>2. queue' = queue /\ running' = running /\ takenOff' = takenOff
    BY <1>4, <2>1 DEF Enqueue, WithoutExpired
  <2>3. queue' \in Seq(Posted')
    BY <2>2, <1>1, <1>2, SeqMonotone
  <2>4. Increasing' /\ OnlyFrontRuns'
    BY <2>2 DEF Inv, Increasing, OnlyFrontRuns
  <2>5. QED BY <1>1, <1>2, <1>4, <2>2, <2>3, <2>4 DEF QueueStep, Slack, OneIf
<1>5. CASE ~Full(expired)
  <2>1. queue' = q /\ running' = running \cup S
    BY <1>5 DEF Enqueue
  <2>2. /\ Len(W) \in Nat /\ Len(W) < MaxQueue /\ Len(q) = Len(W) + 1
        /\ q \in Seq(Posted') /\ q[Len(q)] = new /\ q # <<>> /\ Head(q) = q[1]
        /\ \A i \in 1 .. Len(W) : q[i] = W[i] /\ W[i] \in Posted
    <3>1. Len(W) <= MaxQueue /\ Len(W) \in Nat
      BY <1>2, <1>3, BoundsAssumption DEF Enqueue
    <3>2. Len(W) # MaxQueue
      BY <1>5 DEF Full
    <3>3. W \in Seq(Posted') /\ new \in Posted'
      BY <1>1, <1>3, SeqMonotone
    <3> HIDE DEF W, new
    <3>4. /\ Len(q) = Len(W) + 1 /\ q \in Seq(Posted') /\ q[Len(q)] = new
          /\ q # <<>> /\ Head(q) = q[1] /\ \A i \in 1 .. Len(W) : q[i] = W[i]
      BY <3>3, AppendIs
    <3>5. \A i \in 1 .. Len(W) : W[i] \in Posted
      BY <1>3
    <3>6. Len(W) < MaxQueue
      BY <3>1, <3>2, BoundsAssumption
    <3>7. QED BY <3>1, <3>4, <3>5, <3>6
  <2> HIDE DEF q
  <2>3. \A i, m \in 1 .. Len(W) : i < m => W[i] < W[m]
    BY <1>2, <1>3 DEF Inv, Increasing, Enqueue
  <2>4. \A i, m \in 1 .. Len(q) : i < m => q[i] < q[m]
    <3> SUFFICES ASSUME NEW i \in 1 .. Len(q), NEW m \in 1 .. Len(q), i < m
                 PROVE  q[i] < q[m]
      OBVIOUS
    <3>1. i \in 1 .. Len(W) /\ (m \in 1 .. Len(W) \/ m = Len(q))
      BY <2>2
    <3>2. CASE m \in 1 .. Len(W) BY <3>1, <3>2, <2>2, <2>3
    <3>3. CASE m = Len(q) BY <3>1, <3>3, <2>2, <1>1
    <3>4. QED BY <3>1, <3>2, <3>3
  <2>5. CASE expired
    <3>1. \A i \in 1 .. Len(W) : W[i] \notin running
      <4>1. queue # <<>> /\ W = Tail(queue)
        BY <2>5, <1>3 DEF Enqueue
      <4>2. \A i \in 1 .. Len(W) : i + 1 \in 1 .. Len(queue) /\ W[i] = queue[i + 1] /\ i + 1 # 1
        BY <4>1, <1>2
      <4>3. QED BY <4>2 DEF Inv, OnlyFrontRuns
    <3>2. \A i \in 1 .. Len(q) : q[i] \notin running
      <4> SUFFICES ASSUME NEW i \in 1 .. Len(q) PROVE q[i] \notin running
        OBVIOUS
      <4>1. i \in 1 .. Len(W) \/ i = Len(q)
        BY <2>2
      <4>2. QED BY <4>1, <3>1, <2>2, <1>1, <1>2
    <3>3. S = { q[1] }
      BY <3>2, <2>2 DEF ToStart
    <3>4. \A i \in 1 .. Len(q) : q[i] \in running \cup S <=> i = 1
      <4> SUFFICES ASSUME NEW i \in 1 .. Len(q), i # 1 PROVE q[i] # q[1]
        BY <3>2, <3>3
      <4>1. 1 \in 1 .. Len(q) /\ 1 < i /\ \A m \in 1 .. Len(q) : q[m] \in 1 .. Len(kind')
        BY <2>2 DEF Posted
      <4>2. q[1] < q[i]
        BY <4>1, <2>4
      <4>3. QED BY <4>1, <4>2, <1>1
    <3>5. takenOff' = takenOff + 1 /\ queue # <<>>
      BY <2>5 DEF Enqueue
    <3>6. Increasing' /\ OnlyFrontRuns'
      BY <2>1, <2>4, <3>4 DEF Increasing, OnlyFrontRuns
    <3>7. S \cap running = {} /\ S \subseteq Posted'
      BY <3>2, <3>3, <2>2
    <3>8. takenOff + Slack(queue) + OneIf(S)
            <= takenOff' + Slack(queue') + 0
      BY <3>5, <3>3, <2>1, <2>2, <1>2 DEF Slack, OneIf
    <3>9. Head(queue') \in S /\ takenOff' \in Nat /\ Len(queue') <= MaxQueue
      BY <3>3, <3>5, <2>1, <2>2, <1>2, BoundsAssumption
    <3>10. QED BY <1>1, <1>5, <2>1, <2>2, <3>3, <3>6, <3>7, <3>8, <3>9 DEF QueueStep
  <2>6. CASE ~expired /\ queue = <<>>
    <3>1. W = <<>> /\ Len(q) = 1 /\ q[1] = new /\ takenOff' = takenOff
      BY <2>6, <2>2, <1>3 DEF Enqueue
    <3>2. S = { q[1] }
      BY <3>1, <2>2, <1>1, <1>2 DEF ToStart
    <3>3. Increasing' /\ OnlyFrontRuns'
      BY <2>1, <2>4, <3>1, <3>2 DEF Increasing, OnlyFrontRuns
    <3>4. S \cap running = {} /\ S \subseteq Posted'
      BY <3>1, <3>2, <1>1, <1>2
    <3>5. takenOff + Slack(queue) + OneIf(S)
            <= takenOff' + Slack(queue') + 0
      BY <3>1, <3>2, <2>1, <2>2, <2>6, <1>2 DEF Slack, OneIf
    <3>6. Head(queue') \in S /\ takenOff' \in Nat /\ Len(queue') <= MaxQueue
      <4>1. Len(queue') = 1 /\ 1 <= MaxQueue
        BY <3>1, <2>1, BoundsAssumption
      <4>2. Head(queue') \in S
        BY <3>2, <2>1, <2>2
      <4>3. QED BY <4>1, <4>2, <3>1, <1>2
    <3>7. QED BY <1>1, <1>5, <2>1, <2>2, <3>2, <3>3, <3>4, <3>5, <3>6 DEF QueueStep
  <2>7. CASE ~expired /\ queue # <<>>
    <3>1. W = queue /\ takenOff' = takenOff /\ 1 \in 1 .. Len(queue) /\ Head(queue) = queue[1]
      BY <2>7, <1>2, <1>3 DEF Enqueue
    <3>2. q[1] = queue[1] /\ q[1] \in running
      BY <3>1, <2>2 DEF Inv, OnlyFrontRuns
    <3>3. S = {}
      BY <3>2, <2>2 DEF ToStart
    <3>4. \A i \in 1 .. Len(q) : q[i] \in running <=> i = 1
      <4> SUFFICES ASSUME NEW i \in 1 .. Len(q) PROVE q[i] \in running <=> i = 1
        OBVIOUS
      <4>1. CASE i \in 1 .. Len(queue)
        BY <4>1, <3>1, <2>2 DEF Inv, OnlyFrontRuns
      <4>2. CASE i = Len(q)
        <5>1. q[i] \notin running /\ i # 1
          BY <4>2, <3>1, <2>2, <1>1, <1>2
        <5>2. QED BY <5>1
      <4>3. QED BY <4>1, <4>2, <3>1, <2>2
    <3>5. Increasing' /\ OnlyFrontRuns'
      BY <2>1, <2>4, <3>3, <3>4 DEF Increasing, OnlyFrontRuns
    <3>6. takenOff + Slack(queue) + OneIf(S)
            <= takenOff' + Slack(queue') + 0
      BY <3>1, <3>3, <2>1, <2>2, <2>7, <1>2 DEF Slack, OneIf
    <3>7. Head(queue') = Head(queue) /\ takenOff' \in Nat /\ Len(queue') <= MaxQueue
      BY <3>1, <3>2, <2>1, <2>2, <1>2, BoundsAssumption
    <3>8. QED BY <1>1, <1>5, <2>1, <2>2, <2>7, <3>3, <3>5, <3>6, <3>7 DEF QueueStep
  <2>8. QED BY <2>5, <2>6, <2>7
<1>6. QED BY <1>4, <1>5

(* RemoveLifeCycleTask, for a completion (ended = 1) or without one, when   *)
(* the front it takes off is counted.                                      *)
Paid(ty, ended) ==
  takenOff' \in Nat /\ takenOff + (IF Matches(ty) THEN 1 ELSE 0) <= takenOff' + ended

LEMMA RemoveFrontStep ==
  ASSUME Inv, NEW ty, RemoveFront(ty), UNCHANGED kind, NEW ended \in Nat,
         Paid(ty, ended)
  PROVE  /\ QueueStep(Successor(ty), ended)
         /\ Matches(ty) /\ queue' # <<>> => Head(queue') \in Successor(ty)
<1> DEFINE S == Successor(ty)
<1>1. queue \in Seq(Posted) /\ running \subseteq Posted /\ Posted' = Posted
  BY DEF Inv, TypeOK, Posted
<1>n. /\ takenOff \in Nat /\ takenOff' \in Nat /\ Len(queue) \in Nat
      /\ Len(queue) <= MaxQueue /\ MaxQueue \in Nat /\ ended \in Nat
  BY BoundsAssumption DEF Inv, TypeOK, Paid
<1>a. PICK a \in Nat : a = takenOff'
  BY DEF Paid
<1>b. PICK b \in Nat : b = takenOff
  BY <1>n
<1>c. b + (IF Matches(ty) THEN 1 ELSE 0) <= a + ended
  BY <1>a, <1>b DEF Paid
<1>k. kind' \in Seq(Kinds) /\ Len(kind') <= MaxPosts
  BY DEF Inv, TypeOK
<1>2. running' = running \cup S
  BY DEF RemoveFront
<1>3. CASE ~Matches(ty)
  <2>1. S = {} /\ queue' = queue /\ running' = running
    BY <1>2, <1>3 DEF Successor, RemoveFront
  <2>2. Increasing' /\ OnlyFrontRuns'
    BY <2>1 DEF Inv, Increasing, OnlyFrontRuns
  <2>3. takenOff + Slack(queue) + OneIf(S)
          <= takenOff' + Slack(queue') + ended
    <3>1. OneIf(S) = 0 /\ Slack(queue') = Slack(queue) /\ Slack(queue) \in {0, 1}
      BY <2>1 DEF Slack, OneIf
    <3>2. b + Slack(queue) + OneIf(S) <= a + Slack(queue') + ended
      BY <3>1, <1>3, <1>c
    <3>3. QED BY <3>2, <1>a, <1>b
  <2>4. takenOff' \in Nat /\ Len(queue') <= MaxQueue /\ queue' \in Seq(Posted')
    BY <2>1, <1>1, <1>n
  <2>5. /\ QueueStep(Successor(ty), ended)
    BY <1>1, <1>k, <2>1, <2>2, <2>3, <2>4 DEF QueueStep
  <2>6. QED BY <2>5, <1>3
<1>4. CASE Matches(ty)
  <2>1. /\ queue # <<>> /\ queue' = Tail(queue) /\ Len(queue') = Len(queue) - 1
        /\ queue' \in Seq(Posted) /\ Len(queue') \in Nat
        /\ \A i \in 1 .. Len(queue') : i + 1 \in 1 .. Len(queue) /\ queue'[i] = queue[i + 1]
    BY <1>1, <1>n, <1>4 DEF Matches, RemoveFront
  <2>2. \A i \in 1 .. Len(queue') : queue'[i] \notin running
    BY <2>1, <1>1 DEF Inv, OnlyFrontRuns
  <2>3. Increasing'
    BY <2>1, <1>1 DEF Inv, Increasing
  <2>t. takenOff' \in Nat /\ Len(queue') <= MaxQueue /\ queue' \in Seq(Posted')
    <3>1. Len(queue') <= MaxQueue
      BY <2>1, <1>n
    <3>2. QED BY <3>1, <2>1, <1>1, <1>n
  <2>4. CASE queue' = <<>>
    <3>1. S = {}
      <4>1. Len(queue') = 0
        BY <2>4
      <4>2. ~ (Len(queue) > 1)
        BY <4>1, <2>1, <1>n
      <4>3. QED BY <4>2 DEF Successor
    <3>2. OnlyFrontRuns'
      BY <2>4 DEF OnlyFrontRuns
    <3>3. takenOff + Slack(queue) + OneIf(S)
            <= takenOff' + Slack(queue') + ended
      <4>1. OneIf(S) = 0 /\ Slack(queue') = 0 /\ Slack(queue) = 1
        BY <2>1, <2>4, <3>1 DEF Slack, OneIf
      <4>2. b + Slack(queue) + OneIf(S) <= a + Slack(queue') + ended
        BY <4>1, <1>4, <1>c
      <4>3. QED BY <4>2, <1>a, <1>b
    <3>4. QED BY <1>1, <1>2, <1>k, <2>t, <2>1, <2>3, <2>4, <3>1, <3>2, <3>3 DEF QueueStep
  <2>5. CASE queue' # <<>>
    <3>1. /\ S = { queue[2] } /\ queue'[1] = queue[2] /\ Head(queue') = queue[2]
          /\ 1 \in 1 .. Len(queue')
      BY <2>5, <2>1, <1>1, <1>4 DEF Successor
    <3>2. \A i \in 1 .. Len(queue') : i # 1 => queue'[i] # queue'[1]
      <4>1. \A i \in 1 .. Len(queue') : queue'[i] \in Nat
        BY <2>1, <2>t DEF Posted
      <4>2. \A i \in 1 .. Len(queue') : i # 1 => queue'[1] < queue'[i]
        <5> SUFFICES ASSUME NEW i \in 1 .. Len(queue'), i # 1 PROVE queue'[1] < queue'[i]
          OBVIOUS
        <5>1. 1 \in 1 .. Len(queue') /\ 1 < i
          BY <3>1
        <5>2. QED BY <5>1, <2>3 DEF Increasing
      <4>3. QED BY <4>1, <4>2, <3>1
    <3>3. OnlyFrontRuns'
      BY <2>2, <3>1, <3>2, <1>2 DEF OnlyFrontRuns
    <3>4. takenOff + Slack(queue) + OneIf(S)
            <= takenOff' + Slack(queue') + ended
      <4>1. OneIf(S) = 1 /\ Slack(queue') = 1 /\ Slack(queue) = 1
        BY <2>1, <2>5, <3>1 DEF Slack, OneIf
      <4>2. b + Slack(queue) + OneIf(S) <= a + Slack(queue') + ended
        BY <4>1, <1>4, <1>c
      <4>3. QED BY <4>2, <1>a, <1>b
    <3>5. S \cap running = {} /\ S \subseteq Posted
      BY <3>1, <2>1, <2>2
    <3>6. QED BY <1>1, <1>2, <1>k, <2>t, <2>1, <2>3, <3>1, <3>3, <3>4, <3>5 DEF QueueStep
  <2>6. QED BY <2>4, <2>5
<1>5. QED BY <1>3, <1>4
-----------------------------------------------------------------------------
(* What a step does to the tasks in flight: it adds S, and with ended = 1  *)
(* it takes one of them away.                                              *)
FlightStep(S, ended) ==
  \/ ended = 0 /\ InFlight' \subseteq InFlight \cup S
  \/ ended = 1 /\ \E t \in InFlight : InFlight' \subseteq (InFlight \ {t}) \cup S

LEMMA OneMore ==
  ASSUME NEW X, IsFiniteSet(X), NEW S, S = {} \/ \E t : S = {t}
  PROVE  /\ IsFiniteSet(X \cup S)
         /\ Cardinality(X \cup S) \in Nat
         /\ Cardinality(X \cup S) <= Cardinality(X) + OneIf(S)
<1>1. Cardinality(X) \in Nat
  BY FS_CardinalityType
<1>2. CASE S = {}
  <2>1. X \cup S = X /\ OneIf(S) = 0
    BY <1>2 DEF OneIf
  <2>2. QED BY <2>1, <1>1
<1>3. CASE S # {}
  <2>1. PICK t : S = {t}
    BY <1>3
  <2>2. OneIf(S) = 1
    BY <1>3 DEF OneIf
  <2>3. /\ IsFiniteSet(X \cup {t})
        /\ Cardinality(X \cup {t}) = Cardinality(X) \/ Cardinality(X \cup {t}) = Cardinality(X) + 1
    BY FS_AddElement, <1>1
  <2>4. QED BY <2>1, <2>2, <2>3, <1>1
<1>4. QED BY <1>2, <1>3

LEMMA CountStep ==
  ASSUME Inv, NEW S, NEW ended \in {0, 1}, QueueStep(S, ended), FlightStep(S, ended)
  PROVE  OverlapBounded'
<1>1. /\ IsFiniteSet(InFlight) /\ Cardinality(InFlight) \in Nat /\ takenOff \in Nat
      /\ Cardinality(InFlight) <= takenOff + Slack(queue)
      /\ Slack(queue) \in {0, 1} /\ OneIf(S) \in {0, 1}
  BY InFlightFinite DEF Inv, TypeOK, OverlapBounded, Slack, OneIf
<1>2. PICK X : /\ IsFiniteSet(X) /\ Cardinality(X) \in Nat
               /\ Cardinality(X) + ended <= Cardinality(InFlight)
               /\ InFlight' \subseteq X \cup S
  <2>1. CASE ended = 0
    <3>1. InFlight' \subseteq InFlight \cup S
      BY <2>1 DEF FlightStep
    <3>2. QED BY <2>1, <3>1, <1>1
  <2>2. CASE ended = 1
    <3>1. PICK t \in InFlight : InFlight' \subseteq (InFlight \ {t}) \cup S
      BY <2>2 DEF FlightStep
    <3>2. /\ IsFiniteSet(InFlight \ {t})
          /\ Cardinality(InFlight \ {t}) = Cardinality(InFlight) - 1
      BY <1>1, FS_RemoveElement
    <3>3. Cardinality(InFlight \ {t}) \in Nat
      BY <3>2, FS_CardinalityType
    <3>4. QED BY <2>2, <3>1, <3>2, <3>3, <1>1
  <2>3. QED BY <2>1, <2>2
<1>3. /\ IsFiniteSet(X \cup S) /\ Cardinality(X \cup S) \in Nat
      /\ Cardinality(X \cup S) <= Cardinality(X) + OneIf(S)
  BY <1>2, OneMore DEF QueueStep
<1>4. Cardinality(InFlight') <= Cardinality(X \cup S) /\ Cardinality(InFlight') \in Nat
  BY <1>2, <1>3, FS_Subset, FS_CardinalityType
<1>5. takenOff' \in Nat /\ Slack(queue') \in {0, 1}
  BY DEF QueueStep, Slack
<1>6. takenOff + Slack(queue) + OneIf(S) <= takenOff' + Slack(queue') + ended
  BY DEF QueueStep
<1>7. \A c, x, i, k, l, m, n, o \in Nat :
        /\ c <= x + o /\ x + ended <= i /\ i <= k + l /\ k + l + o <= m + n + ended
        => c <= m + n
  OBVIOUS
<1>8. Cardinality(InFlight') <= takenOff' + Slack(queue')
  <2> DEFINE c == Cardinality(InFlight')
             m == takenOff'
             n == Slack(queue')
             i == Cardinality(InFlight)
             x == Cardinality(X)
             l == Slack(queue)
             o == OneIf(S)
  <2>1. c \in Nat /\ m \in Nat /\ n \in Nat /\ i \in Nat /\ x \in Nat /\ l \in Nat /\ o \in Nat
    BY <1>1, <1>2, <1>4, <1>5
  <2>2. PICK y \in Nat : y = Cardinality(X \cup S)
    BY <1>3
  <2>3. c <= y /\ y <= x + o /\ x + ended <= i
    BY <2>2, <1>2, <1>3, <1>4
  <2>4. takenOff + l + o <= m + n + ended /\ i <= takenOff + l
    BY <1>1, <1>6
  <2> HIDE DEF c, m, n, i, x, l, o
  <2>5. c <= x + o
    BY <2>1, <2>3
  <2>6. c <= m + n
    BY <1>1, <1>7, <2>1, <2>3, <2>4, <2>5
  <2>7. QED BY <2>6 DEF c, m, n
<1>9. QED BY <1>8 DEF OverlapBounded, Slack

-----------------------------------------------------------------------------
(* What a step does to the places: it puts the tasks S in one and takes    *)
(* away those of gone, at most one.                                        *)
PlaceStep(S, gone) ==
  /\ handler' \in Seq(Jobs') /\ mainThread' \in Seq(Posted')
  /\ starting' \subseteq Posted' /\ begun' \subseteq Posted'
  /\ OnePlace'
  /\ Tasks' = (Tasks \ gone) \cup S
  /\ gone = {} \/ \E t \in Tasks : gone = {t}

LEMMA PlacesGrow ==
  ASSUME Inv, Posted \subseteq Posted'
  PROVE  /\ Jobs \subseteq Jobs' /\ handler \in Seq(Jobs') /\ mainThread \in Seq(Posted')
         /\ starting \subseteq Posted' /\ begun \subseteq Posted'
<1>1. Jobs \subseteq Jobs'
  BY DEF Jobs
<1>2. handler \in Seq(Jobs) /\ mainThread \in Seq(Posted)
  BY DEF Inv, TypeOK
<1>3. handler \in Seq(Jobs') /\ mainThread \in Seq(Posted')
  BY <1>1, <1>2, SeqMonotone
<1>4. QED BY <1>1, <1>3 DEF Inv, TypeOK

LEMMA RunAtOnceIs ==
  ASSUME NEW J, NEW h \in Seq(J), NEW S, S = {} \/ \E t : S = {t},
         \A t \in S : Run(t) \in J, NEW B
  PROVE  /\ RunAtOnce(S, h) \in Seq(J)
         /\ TasksOf(RunAtOnce(S, h)) = TasksOf(h) \cup S
         /\ OneJobEach(h) /\ S \cap TasksOf(h) = {} => OneJobEach(RunAtOnce(S, h))
         /\ NoneRuns(h, B) /\ S \cap B = {} => NoneRuns(RunAtOnce(S, h), B)
<1>1. CASE S = {}
  BY <1>1 DEF RunAtOnce
<1>2. CASE S # {}
  <2>1. PICK t : S = {t}
    BY <1>2
  <2>2. RunAtOnce(S, h) = <<Run(t)>> \o h /\ Run(t).task = t /\ Run(t) \in J
    BY <2>1 DEF RunAtOnce, Run
  <2>3. /\ <<Run(t)>> \o h \in Seq(J)
        /\ TasksOf(<<Run(t)>> \o h) = TasksOf(h) \cup {t}
        /\ OneJobEach(h) /\ t \notin TasksOf(h) => OneJobEach(<<Run(t)>> \o h)
        /\ \A i \in 1 .. Len(<<Run(t)>> \o h) :
             \/ (<<Run(t)>> \o h)[i] = Run(t)
             \/ i - 1 \in 1 .. Len(h) /\ (<<Run(t)>> \o h)[i] = h[i - 1]
    BY <2>2, ConsJobs
  <2> DEFINE r == <<Run(t)>> \o h
  <2> HIDE DEF r
  <2>4. ASSUME NoneRuns(h, B), S \cap B = {}
        PROVE  NoneRuns(r, B)
    <3> SUFFICES ASSUME NEW i \in 1 .. Len(r), r[i].do = "Run"
                 PROVE  r[i].task \notin B
      BY DEF NoneRuns
    <3>1. CASE r[i] = Run(t)
      BY <3>1, <2>1, <2>2, <2>4
    <3>2. CASE i - 1 \in 1 .. Len(h) /\ r[i] = h[i - 1]
      BY <3>2, <2>4 DEF NoneRuns
    <3>3. QED BY <3>1, <3>2, <2>3 DEF r
  <2>5. QED BY <2>1, <2>2, <2>3, <2>4 DEF r
<1>3. QED BY <1>1, <1>2

(* The tasks S wait to be handed over.                                     *)
LEMMA StartingStep ==
  ASSUME Inv, NEW S, NEW ended, QueueStep(S, ended), starting' = starting \cup S,
         UNCHANGED <<handler, mainThread, begun>>
  PROVE  PlaceStep(S, {})
<1>1. /\ handler \in Seq(Jobs') /\ mainThread \in Seq(Posted')
      /\ starting \subseteq Posted' /\ begun \subseteq Posted'
  BY PlacesGrow DEF QueueStep
<1>2. OnePlace'
  BY DEF Inv, OnePlace, QueueStep
<1>3. QED BY <1>1, <1>2 DEF PlaceStep, QueueStep, Tasks

(* The tasks S run at once.                                                *)
LEMMA RunStep ==
  ASSUME Inv, NEW S, NEW ended, QueueStep(S, ended), handler' = RunAtOnce(S, handler),
         UNCHANGED <<starting, mainThread, begun>>
  PROVE  PlaceStep(S, {})
<1>1. /\ handler \in Seq(Jobs') /\ mainThread \in Seq(Posted')
      /\ starting \subseteq Posted' /\ begun \subseteq Posted'
  BY PlacesGrow DEF QueueStep
<1>2. /\ S \cap running = {} /\ running' = running \cup S
      /\ S = {} \/ \E t : S = {t}
      /\ \A t \in S : Run(t) \in Jobs'
  BY DEF QueueStep, Jobs
<1>3. /\ OneJobEach(handler) /\ S \cap TasksOf(handler) = {}
      /\ NoneRuns(handler, begun) /\ S \cap begun = {}
  BY <1>2 DEF Inv, OnePlace
<1>4. /\ handler' \in Seq(Jobs') /\ TasksOf(handler') = TasksOf(handler) \cup S
      /\ OneJobEach(handler') /\ NoneRuns(handler', begun)
  BY <1>1, <1>2, <1>3, RunAtOnceIs
<1>5. OnePlace'
  BY <1>2, <1>4 DEF Inv, OnePlace
<1>6. QED BY <1>1, <1>4, <1>5 DEF PlaceStep, Tasks

(* The first job of the manager's thread ends its task and S run at once.  *)
LEMMA EndStep ==
  ASSUME Inv, NEW S, NEW ended, QueueStep(S, ended), handler # <<>>,
         handler' = RunAtOnce(S, Tail(handler)), UNCHANGED <<starting, mainThread>>,
         begun \subseteq begun', begun' \subseteq begun \cup { Head(handler).task }
  PROVE  PlaceStep(S, { Head(handler).task })
<1> DEFINE h == Tail(handler)
           t == Head(handler).task
<1>1. /\ handler \in Seq(Jobs') /\ mainThread \in Seq(Posted')
      /\ starting \subseteq Posted' /\ begun \subseteq Posted'
  BY PlacesGrow DEF QueueStep
<1>2. /\ S \cap running = {} /\ running' = running \cup S
      /\ S = {} \/ \E x : S = {x}
      /\ \A x \in S : Run(x) \in Jobs'
  BY DEF QueueStep, Jobs
<1>3. /\ h \in Seq(Jobs') /\ Head(handler) \in Jobs' /\ OneJobEach(h)
      /\ TasksOf(h) = TasksOf(handler) \ {t} /\ t \in TasksOf(handler)
      /\ \A i \in 1 .. Len(h) : i + 1 \in 1 .. Len(handler) /\ h[i] = handler[i + 1]
  BY <1>1, TailJobs DEF Inv, OnePlace
<1> HIDE DEF h, t
<1>4. NoneRuns(h, begun')
  <2> SUFFICES ASSUME NEW i \in 1 .. Len(h), h[i].do = "Run"
               PROVE  h[i].task \notin begun'
    BY DEF NoneRuns
  <2>1. h[i].task \notin begun
    BY <1>3 DEF Inv, OnePlace, NoneRuns
  <2>2. h[i].task # t
    BY <1>3 DEF TasksOf
  <2>3. QED BY <2>1, <2>2 DEF t
<1>5. t \in running /\ S \cap begun' = {} /\ S \cap TasksOf(h) = {}
  BY <1>2, <1>3 DEF Inv, OnePlace, t
<1>6. /\ handler' \in Seq(Jobs') /\ TasksOf(handler') = TasksOf(h) \cup S
      /\ OneJobEach(handler') /\ NoneRuns(handler', begun')
  <2>1. handler' = RunAtOnce(S, h)
    BY DEF h
  <2>2. h \in Seq(Jobs') /\ (S = {} \/ \E x : S = {x}) /\ \A x \in S : Run(x) \in Jobs'
    BY <1>2, <1>3
  <2>3. handler' \in Seq(Jobs') /\ TasksOf(handler') = TasksOf(h) \cup S
    BY <2>1, <2>2, RunAtOnceIs
  <2>4. OneJobEach(handler')
    <3>1. OneJobEach(h) /\ S \cap TasksOf(h) = {} => OneJobEach(RunAtOnce(S, h))
      BY <2>2, RunAtOnceIs
    <3>2. QED BY <3>1, <2>1, <1>3, <1>5
  <2>5. NoneRuns(handler', begun')
    <3>1. NoneRuns(h, begun') /\ S \cap begun' = {} => NoneRuns(RunAtOnce(S, h), begun')
      BY <2>2, RunAtOnceIs
    <3>2. QED BY <3>1, <2>1, <1>4, <1>5
  <2>6. QED BY <2>3, <2>4, <2>5
<1>7. OnePlace'
  <2>1. starting' \cap begun' = {}
    BY <1>3 DEF Inv, OnePlace, t
  <2>2. QED BY <2>1, <1>2, <1>3, <1>5, <1>6 DEF Inv, OnePlace, t
<1>8. t \in Posted'
  BY <1>3 DEF Jobs, Run, Remove, t
<1>9. begun' \subseteq Posted'
  BY <1>1, <1>8 DEF t
<1>10. t \notin starting /\ t \notin ValuesOf(mainThread)
  BY <1>3 DEF Inv, OnePlace
<1>11. Tasks' = (Tasks \ {t}) \cup S /\ t \in Tasks
  BY <1>3, <1>6, <1>10 DEF Tasks
<1>12. QED BY <1>1, <1>6, <1>7, <1>9, <1>11 DEF PlaceStep, t

(* A body asks SceneBoard: its task moves to the JS main thread.           *)
LEMMA AskStep ==
  ASSUME Inv, UNCHANGED <<kind, running, starting>>, handler # <<>>,
         handler' = Tail(handler), NEW t, t = Head(handler).task,
         mainThread' = Append(mainThread, t), begun' = begun \cup {t}
  PROVE  PlaceStep({}, {})
<1> DEFINE h == Tail(handler)
<1>1. /\ handler \in Seq(Jobs) /\ mainThread \in Seq(Posted) /\ Posted' = Posted
      /\ Jobs' = Jobs /\ starting \subseteq Posted /\ begun \subseteq Posted
  BY DEF Inv, TypeOK, Posted, Jobs
<1>2. /\ h \in Seq(Jobs) /\ Head(handler) \in Jobs /\ OneJobEach(h)
      /\ TasksOf(h) = TasksOf(handler) \ {t} /\ t \in TasksOf(handler)
      /\ \A i \in 1 .. Len(h) : i + 1 \in 1 .. Len(handler) /\ h[i] = handler[i + 1]
  BY <1>1, TailJobs DEF Inv, OnePlace
<1> HIDE DEF h
<1>3. t \in Posted /\ t \in running /\ t \notin ValuesOf(mainThread) /\ t \notin starting
  BY <1>2 DEF Jobs, Run, Remove, Inv, OnePlace
<1>4. NoneRuns(h, begun')
  <2> SUFFICES ASSUME NEW i \in 1 .. Len(h), h[i].do = "Run"
               PROVE  h[i].task \notin begun'
    BY DEF NoneRuns
  <2>1. h[i].task \notin begun
    BY <1>2 DEF Inv, OnePlace, NoneRuns
  <2>2. h[i].task # t
    BY <1>2 DEF TasksOf
  <2>3. QED BY <2>1, <2>2
<1>5. /\ mainThread' \in Seq(Posted) /\ ValuesOf(mainThread') = ValuesOf(mainThread) \cup {t}
      /\ OneEach(mainThread')
  BY <1>1, <1>3, AppendValue DEF Inv, OnePlace
<1>6. handler' = h
  BY DEF h
<1>7. OnePlace'
  <2>1. TasksOf(handler') = TasksOf(handler) \ {t}
    BY <1>2, <1>6
  <2>2. /\ TasksOf(handler) \cap ValuesOf(mainThread) = {}
        /\ starting \cap TasksOf(handler) = {} /\ starting \cap ValuesOf(mainThread) = {}
        /\ starting \cap begun = {}
        /\ starting \cup TasksOf(handler) \cup ValuesOf(mainThread) \cup begun \subseteq running
    BY DEF Inv, OnePlace
  <2>3. /\ starting' \cup TasksOf(handler') \cup ValuesOf(mainThread') \cup begun'
             \subseteq running'
        /\ TasksOf(handler') \cap ValuesOf(mainThread') = {}
    BY <1>3, <1>5, <2>1, <2>2
  <2>4. /\ starting' \cap TasksOf(handler') = {} /\ starting' \cap ValuesOf(mainThread') = {}
        /\ starting' \cap begun' = {}
    BY <1>3, <1>5, <2>1, <2>2
  <2>5. OneJobEach(handler') /\ OneEach(mainThread') /\ NoneRuns(handler', begun')
    BY <1>2, <1>4, <1>5, <1>6
  <2>6. QED BY <2>3, <2>4, <2>5 DEF OnePlace
<1>8. Tasks' = Tasks
  BY <1>2, <1>5, <1>6 DEF Tasks
<1>9. QED BY <1>1, <1>2, <1>3, <1>5, <1>6, <1>7, <1>8 DEF PlaceStep

LEMMA HandOverStep ==
  ASSUME Inv, NEW t, HandOver(t)
  PROVE  PlaceStep({}, {})
<1>1. /\ handler \in Seq(Jobs) /\ mainThread \in Seq(Posted) /\ Posted' = Posted
      /\ Jobs' = Jobs /\ starting \subseteq Posted /\ begun \subseteq Posted
      /\ mainThread' = mainThread /\ starting' = starting \ {t} /\ begun' = begun
      /\ running' = running /\ t \in starting
  BY DEF Inv, TypeOK, Posted, Jobs, HandOver
<1>2. Run(t) \in Jobs /\ Run(t).task = t /\ t \notin TasksOf(handler) /\ t \notin begun
  BY <1>1 DEF Jobs, Run, Inv, OnePlace
<1>3. /\ handler' \in Seq(Jobs) /\ TasksOf(handler') = TasksOf(handler) \cup {t}
      /\ OneJobEach(handler')
      /\ \A i \in 1 .. Len(handler') :
           handler'[i] = Run(t) \/ (i \in 1 .. Len(handler) /\ handler'[i] = handler[i])
  BY <1>1, <1>2, AppendJob DEF Inv, OnePlace, HandOver
<1>4. NoneRuns(handler', begun)
  BY <1>2, <1>3 DEF Inv, OnePlace, NoneRuns
<1>5. OnePlace'
  BY <1>1, <1>2, <1>3, <1>4 DEF Inv, OnePlace
<1>6. Tasks' = Tasks
  BY <1>1, <1>3 DEF Tasks
<1>7. QED BY <1>1, <1>3, <1>5, <1>6 DEF PlaceStep

LEMMA CallbackStep ==
  ASSUME Inv, JsCallback
  PROVE  PlaceStep({}, {})
<1> DEFINE t == Head(mainThread)
<1>1. /\ handler \in Seq(Jobs) /\ mainThread \in Seq(Posted) /\ Posted' = Posted
      /\ Jobs' = Jobs /\ starting \subseteq Posted /\ begun \subseteq Posted
      /\ starting' = starting /\ begun' = begun /\ running' = running
      /\ mainThread # <<>> /\ mainThread' = Tail(mainThread)
      /\ handler' = Append(handler, Remove(t))
  BY DEF Inv, TypeOK, Posted, Jobs, JsCallback
<1>2. /\ mainThread' \in Seq(Posted) /\ t \in Posted /\ OneEach(mainThread')
      /\ ValuesOf(mainThread') = ValuesOf(mainThread) \ {t} /\ t \in ValuesOf(mainThread)
  BY <1>1, TailValues DEF Inv, OnePlace
<1> HIDE DEF t
<1>3. /\ Remove(t) \in Jobs /\ Remove(t).task = t /\ Remove(t).do = "Remove"
      /\ t \notin TasksOf(handler) /\ t \notin starting
  BY <1>2 DEF Jobs, Remove, Inv, OnePlace
<1>4. /\ handler' \in Seq(Jobs) /\ TasksOf(handler') = TasksOf(handler) \cup {t}
      /\ OneJobEach(handler')
      /\ \A i \in 1 .. Len(handler') :
           handler'[i] = Remove(t) \/ (i \in 1 .. Len(handler) /\ handler'[i] = handler[i])
  BY <1>1, <1>3, AppendJob DEF Inv, OnePlace
<1>5. NoneRuns(handler', begun)
  BY <1>3, <1>4 DEF Inv, OnePlace, NoneRuns
<1>6. OnePlace'
  BY <1>1, <1>2, <1>3, <1>4, <1>5 DEF Inv, OnePlace
<1>7. Tasks' = Tasks
  BY <1>1, <1>2, <1>4 DEF Tasks
<1>8. QED BY <1>1, <1>2, <1>4, <1>6, <1>7 DEF PlaceStep
-----------------------------------------------------------------------------
(* A step that keeps its books keeps the invariant.                        *)
RestStep ==
  /\ deaf' \subseteq Posted' /\ deaf \subseteq deaf'
  /\ isTerminating' \in BOOLEAN /\ listening' \in BOOLEAN
  /\ erased' \in BOOLEAN /\ (erased => erased')
  /\ visibility' \in 0 .. MaxVisibility

(* The front a step leaves is started by it, or does not lose its          *)
(* completion, or found no listener.                                       *)
FrontKept(S, gone) ==
  queue' # <<>> /\ ~erased' =>
    Head(queue') \in S \/ Head(queue') \notin gone \/ Head(queue') \in deaf'

LEMMA InvStep ==
  ASSUME Inv, NEW S, NEW gone, QueueStep(S, OneIf(gone)), PlaceStep(S, gone),
         RestStep, FrontKept(S, gone)
  PROVE  Inv'
<1>1. TypeOK'
  BY DEF QueueStep, PlaceStep, RestStep, Inv, TypeOK
<1>2. InFlight = Tasks /\ InFlight' = Tasks'
  <2>1. InFlight' = Tasks'
    BY InFlightIsNext DEF PlaceStep
  <2>2. QED BY <2>1, InFlightIs DEF Inv
<1>3. FlightStep(S, OneIf(gone)) /\ OneIf(gone) \in {0, 1}
  BY <1>2 DEF FlightStep, PlaceStep, OneIf
<1>4. OverlapBounded'
  BY <1>3, CountStep
<1>5. FrontWillComplete'
  <2> SUFFICES ASSUME queue' # <<>>, ~erased'
               PROVE  Head(queue') \in InFlight' \cup deaf'
    BY DEF FrontWillComplete
  <2>1. CASE Head(queue') \in S
    BY <2>1, <1>2 DEF PlaceStep
  <2>2. CASE Head(queue') \notin S /\ Head(queue') \in deaf'
    BY <2>2
  <2>3. CASE Head(queue') \notin S /\ Head(queue') \notin deaf'
    <3>1. queue # <<>> /\ Head(queue') = Head(queue) /\ ~erased
      BY <2>3 DEF QueueStep, RestStep
    <3>2. Head(queue) \in InFlight \cup deaf
      BY <3>1 DEF Inv, FrontWillComplete
    <3>3. Head(queue) \in Tasks /\ Head(queue) \notin gone
      BY <3>1, <3>2, <2>3, <1>2 DEF RestStep, FrontKept
    <3>4. QED BY <3>1, <3>3, <1>2 DEF PlaceStep
  <2>4. QED BY <2>1, <2>2, <2>3
<1>6. Increasing' /\ OnlyFrontRuns' /\ OnePlace'
  BY DEF QueueStep, PlaceStep
<1>7. QED BY <1>1, <1>4, <1>5, <1>6 DEF Inv

LEMMA RestUnchanged ==
  ASSUME Inv, Posted \subseteq Posted', isTerminating' \in BOOLEAN,
         UNCHANGED <<listening, erased, visibility, deaf>>
  PROVE  RestStep
BY DEF Inv, TypeOK, RestStep

(* A completion, with the removal of the front and without it.             *)
LEMMA CompletionStep ==
  ASSUME Inv, handler # <<>>, NEW t, t = Head(handler).task,
         RemoveLifeCycleTask(Type(t), Tail(handler)), isTerminating' \in BOOLEAN,
         UNCHANGED <<kind, starting, mainThread, listening, erased, visibility,
                     deaf, takenOff>>,
         begun \subseteq begun', begun' \subseteq begun \cup {t}
  PROVE  Inv'
<1> DEFINE S == Successor(Type(t))
<1>1. RemoveFront(Type(t)) /\ handler' = RunAtOnce(S, Tail(handler))
  BY DEF RemoveLifeCycleTask
<1>2. OneIf({t}) = 1 /\ OneIf({t}) \in Nat
  BY DEF OneIf
<1>3. Paid(Type(t), 1)
  BY DEF Paid, Inv, TypeOK
<1>4. /\ QueueStep(S, 1)
      /\ Matches(Type(t)) /\ queue' # <<>> => Head(queue') \in S
  BY <1>1, <1>3, RemoveFrontStep
<1>5. PlaceStep(S, {t})
  BY <1>1, <1>4, EndStep
<1>6. FrontKept(S, {t})
  <2>1. CASE Matches(Type(t))
    BY <2>1, <1>4 DEF FrontKept
  <2>2. CASE ~Matches(Type(t))
    BY <2>2, <1>1 DEF FrontKept, RemoveFront, Matches
  <2>3. QED BY <2>1, <2>2
<1>7. RestStep
  BY RestUnchanged DEF Posted
<1>8. QED BY <1>2, <1>4, <1>5, <1>6, <1>7, InvStep

LEMMA DroppedStep ==
  ASSUME Inv, handler # <<>>, NEW t, t = Head(handler).task, handler' = Tail(handler),
         UNCHANGED <<kind, queue, running, starting, mainThread, listening, erased,
                     visibility, takenOff>>,
         isTerminating' \in BOOLEAN, begun \subseteq begun', begun' \subseteq begun \cup {t},
         deaf \subseteq deaf', deaf' \subseteq deaf \cup {t}, erased \/ t \in deaf'
  PROVE  Inv'
<1>1. OneIf({t}) = 1
  BY DEF OneIf
<1>2. QueueStep({}, 1)
  BY NoQueueStep
<1>3. handler' = RunAtOnce({}, Tail(handler))
  BY DEF RunAtOnce
<1>4. PlaceStep({}, {t})
  BY <1>2, <1>3, EndStep
<1>5. t \in Posted'
  <2>1. Head(handler) \in Jobs
    BY DEF Inv, TypeOK
  <2>2. QED BY <2>1 DEF Jobs, Run, Remove, Posted
<1>6. RestStep
  BY <1>5 DEF RestStep, Inv, TypeOK, Posted
<1>7. FrontKept({}, {t})
  BY DEF FrontKept
<1>8. QED BY <1>1, <1>2, <1>4, <1>6, <1>7, InvStep

LEMMA QuietStep ==
  ASSUME Inv, UNCHANGED <<kind, queue, running, takenOff>>, PlaceStep({}, {}), RestStep
  PROVE  Inv'
<1>1. OneIf({}) = 0
  BY DEF OneIf
<1>2. QueueStep({}, 0) /\ FrontKept({}, {})
  BY NoQueueStep DEF FrontKept
<1>3. QED BY <1>1, <1>2, InvStep
-----------------------------------------------------------------------------
LEMMA ByIdKeepsInv ==
  ASSUME Inv, handler # <<>>, NEW t, t = Head(handler).task, RemoveById(t),
         UNCHANGED <<kind, starting, mainThread, listening, erased, visibility, deaf,
                     takenOff>>,
         isTerminating' \in BOOLEAN, begun \subseteq begun', begun' \subseteq begun \cup {t}
  PROVE  Inv'
<1>1. CASE erased
  <2>1. handler' = Tail(handler) /\ UNCHANGED <<queue, running>>
    BY <1>1 DEF RemoveById
  <2>2. QED BY <1>1, <2>1, DroppedStep
<1>2. CASE ~erased
  <2>1. RemoveLifeCycleTask(Type(t), Tail(handler))
    BY <1>2 DEF RemoveById
  <2>2. QED BY <2>1, CompletionStep
<1>3. QED BY <1>1, <1>2

LEMMA AskKeepsInv ==
  ASSUME Inv, NEW t, Begin(t), Ask(t), isTerminating' \in BOOLEAN
  PROVE  Inv'
<1>1. /\ handler # <<>> /\ t = Head(handler).task /\ begun' = begun \cup {t}
      /\ UNCHANGED <<kind, starting, listening, erased, visibility, takenOff>>
  BY DEF Begin, Run
<1>2. CASE /\ handler' = Tail(handler) /\ UNCHANGED <<queue, running>>
           /\ mainThread' = Append(mainThread, t) /\ deaf' = deaf
  <2>1. PlaceStep({}, {})
    BY <1>1, <1>2, AskStep
  <2>2. RestStep
    BY <1>1, <1>2, RestUnchanged DEF Posted
  <2>3. QED BY <1>1, <1>2, <2>1, <2>2, QuietStep
<1>3. CASE /\ handler' = Tail(handler) /\ UNCHANGED <<queue, running>>
           /\ mainThread' = mainThread /\ deaf' = deaf \cup {t}
  BY <1>1, <1>3, DroppedStep
<1>4. CASE RemoveById(t) /\ UNCHANGED <<mainThread, deaf>>
  BY <1>1, <1>4, ByIdKeepsInv
<1>5. QED BY <1>2, <1>3, <1>4 DEF Ask

LEMMA EndKeepsInv ==
  ASSUME Inv, NEW t, Begin(t), EndAtOnce(t)
  PROVE  Inv'
<1>1. /\ handler # <<>> /\ t = Head(handler).task
      /\ begun' = begun \cup {t}
      /\ RemoveLifeCycleTask(Type(t), Tail(handler))
      /\ UNCHANGED <<kind, starting, mainThread, listening, erased, visibility, deaf,
                     takenOff>>
      /\ isTerminating' \in BOOLEAN
  BY DEF Begin, EndAtOnce, Run, Inv, TypeOK
<1>2. QED BY <1>1, CompletionStep

LEMMA PostKeepsInv ==
  ASSUME Inv, NEW k \in Kinds, NEW expired \in BOOLEAN,
         PostLifeCycleTask(k, expired) \/ PostFromHandler(k, expired)
  PROVE  Inv'
<1> DEFINE S == IF Full(expired) THEN {} ELSE ToStart(queue')
<1>1. Enqueue(k, expired) /\ UNCHANGED <<mainThread, isTerminating, listening, erased,
                                visibility, begun, deaf>>
  BY DEF PostLifeCycleTask, PostFromHandler
<1>2. QueueStep(S, 0)
  BY <1>1, EnqueueStep
<1> HIDE DEF S
<1>3. PlaceStep(S, {})
  <2>1. CASE PostLifeCycleTask(k, expired)
    <3>1. starting' = starting \cup S /\ handler' = handler
      BY <2>1 DEF PostLifeCycleTask, S
    <3>2. QED BY <3>1, <1>1, <1>2, StartingStep
  <2>2. CASE PostFromHandler(k, expired)
    <3>1. handler' = RunAtOnce(S, handler) /\ starting' = starting
      BY <2>2 DEF PostFromHandler, RunAtOnce, S
    <3>2. QED BY <3>1, <1>1, <1>2, RunStep
  <2>3. QED BY <2>1, <2>2
<1>4. RestStep
  <2>1. isTerminating' \in BOOLEAN
    BY <1>1 DEF Inv, TypeOK
  <2>2. QED BY <2>1, <1>1, <1>2, RestUnchanged DEF QueueStep
<1>5. FrontKept(S, {}) /\ OneIf({}) = 0
  BY DEF FrontKept, OneIf
<1>6. QED BY <1>2, <1>3, <1>4, <1>5, InvStep

LEMMA RemoveByIdKeepsInv ==
  ASSUME Inv, RemoveLifeCycleTaskByPersistentId
  PROVE  Inv'
<1> DEFINE t == Head(handler).task
<1>1. /\ handler # <<>> /\ RemoveById(t)
      /\ UNCHANGED <<kind, starting, mainThread, listening, erased, visibility, deaf,
                     takenOff, begun>>
      /\ isTerminating' \in BOOLEAN
  BY DEF RemoveLifeCycleTaskByPersistentId, Inv, TypeOK
<1>2. QED BY <1>1, ByIdKeepsInv

LEMMA VisibilityKeepsInv ==
  ASSUME Inv, ChangeUIAbilityVisibilityBySCB
  PROVE  Inv'
<1> DEFINE S == Successor("START")
<1>1. /\ RemoveFront("START") /\ starting' = starting \cup S
      /\ UNCHANGED <<kind, handler, mainThread, isTerminating, listening, erased,
                     begun, deaf>>
      /\ takenOff' = IF Matches("START") THEN takenOff + 1 ELSE takenOff
  BY DEF ChangeUIAbilityVisibilityBySCB
<1>2. Paid("START", 0)
  BY <1>1 DEF Paid, Inv, TypeOK
<1>3. QueueStep(S, 0)
  BY <1>1, <1>2, RemoveFrontStep
<1> HIDE DEF S
<1>4. PlaceStep(S, {})
  BY <1>1, <1>3, StartingStep
<1>5. RestStep
  <2>1. visibility' \in 0 .. MaxVisibility
    BY BoundsAssumption DEF ChangeUIAbilityVisibilityBySCB, Inv, TypeOK
  <2>2. QED BY <2>1, <1>1 DEF RestStep, Inv, TypeOK, Posted
<1>6. FrontKept(S, {}) /\ OneIf({}) = 0
  BY DEF FrontKept, OneIf
<1>7. QED BY <1>3, <1>4, <1>5, <1>6, InvStep

LEMMA OthersKeepInv ==
  ASSUME Inv, SetListeners \/ ResetTerminating
  PROVE  Inv'
<1>1. UNCHANGED <<kind, queue, running, starting, handler, mainThread, begun, takenOff>>
  BY DEF SetListeners, ResetTerminating
<1>2. QueueStep({}, 0)
  BY <1>1, NoQueueStep
<1>3. PlaceStep({}, {})
  BY <1>1, <1>2, StartingStep
<1>4. RestStep
  <2>1. queue # <<>> => Head(queue) \in Posted
    BY DEF Inv, TypeOK
  <2>2. QED BY <2>1, <1>1 DEF RestStep, Inv, TypeOK, Posted, SetListeners,
                              ResetTerminating
<1>5. QED BY <1>1, <1>3, <1>4, QuietStep

LEMMA EraseKeepsInv ==
  ASSUME Inv, EraseSceneSessionMapById
  PROVE  Inv'
<1>1. /\ UNCHANGED <<kind, running, starting, handler, mainThread, listening,
                     visibility, begun, deaf>>
      /\ queue' = <<>> /\ erased' = TRUE /\ isTerminating' = FALSE
      /\ takenOff' = IF queue = <<>> THEN takenOff ELSE takenOff + 1
  BY DEF EraseSceneSessionMapById
<1>2. takenOff' \in Nat /\ takenOff + Slack(queue) <= takenOff'
  BY <1>1 DEF Inv, TypeOK, Slack
<1>3. QueueStep({}, 0)
  <2>1. queue' \in Seq(Posted') /\ Len(queue') <= MaxQueue
    BY <1>1, BoundsAssumption
  <2>2. Increasing' /\ OnlyFrontRuns'
    BY <1>1 DEF Increasing, OnlyFrontRuns
  <2>3. takenOff + Slack(queue) + OneIf({}) <= takenOff' + Slack(queue') + 0
    <3>1. Slack(queue') = 0 /\ OneIf({}) = 0 /\ Slack(queue) \in Nat /\ takenOff \in Nat
      BY <1>1 DEF Slack, OneIf, Inv, TypeOK
    <3>2. PICK a \in Nat : a = takenOff'
      BY <1>2
    <3>3. QED BY <1>2, <3>1, <3>2
  <2>4. QED BY <2>1, <2>2, <2>3, <1>1, <1>2 DEF QueueStep, Inv, TypeOK, Posted
<1>4. PlaceStep({}, {})
  BY <1>1, <1>3, StartingStep
<1>5. RestStep
  BY <1>1 DEF RestStep, Inv, TypeOK, Posted
<1>6. FrontKept({}, {}) /\ OneIf({}) = 0
  BY DEF FrontKept, OneIf
<1>7. QED BY <1>3, <1>4, <1>5, <1>6, InvStep
-----------------------------------------------------------------------------
LEMMA InitInv == Init => Inv
<1> SUFFICES ASSUME Init PROVE Inv
  OBVIOUS
<1>1. /\ kind = <<>> /\ queue = <<>> /\ handler = <<>> /\ mainThread = <<>>
      /\ starting = {} /\ takenOff = 0
  BY DEF Init
<1>2. TypeOK
  <2>1. Len(kind) = 0 /\ Len(queue) = 0 /\ 0 <= MaxPosts /\ 0 <= MaxQueue
        /\ 0 \in 0 .. MaxVisibility
    BY <1>1, BoundsAssumption
  <2>2. /\ kind \in Seq(Kinds) /\ queue \in Seq(Posted) /\ handler \in Seq(Jobs)
        /\ mainThread \in Seq(Posted)
    BY <1>1
  <2>3. QED BY <2>1, <2>2 DEF Init, TypeOK
<1>3. Increasing /\ OnlyFrontRuns /\ FrontWillComplete
  BY <1>1 DEF Increasing, OnlyFrontRuns, FrontWillComplete
<1>4. OnePlace
  BY DEF Init, OnePlace, OneJobEach, OneEach, NoneRuns, TasksOf, ValuesOf
<1>5. OverlapBounded
  <2>1. Tasks = {}
    BY <1>1 DEF Tasks, TasksOf, ValuesOf
  <2>2. Cardinality(InFlight) = 0
    BY <2>1, <1>2, InFlightIs, FS_EmptySet
  <2>3. QED BY <2>2, <1>1 DEF OverlapBounded
<1>6. QED BY <1>2, <1>3, <1>4, <1>5 DEF Inv

LEMMA NextInv == Inv /\ [Next]_vars => Inv'
<1> SUFFICES ASSUME Inv, [Next]_vars PROVE Inv'
  OBVIOUS
<1>t. isTerminating \in BOOLEAN
  BY DEF Inv, TypeOK
<1>1. CASE RemoveLifeCycleTaskByPersistentId
  BY <1>1, RemoveByIdKeepsInv
<1>2. ASSUME NEW t \in Posted, PendingSessionActivation(t) PROVE Inv'
  BY <1>2, <1>t, AskKeepsInv DEF PendingSessionActivation
<1>3. ASSUME NEW t \in Posted, TerminateSession(t) PROVE Inv'
  BY <1>3, AskKeepsInv, EndKeepsInv DEF TerminateSession
<1>4. ASSUME NEW t \in Posted, TerminateSessionNew(t) PROVE Inv'
  BY <1>4, AskKeepsInv DEF TerminateSessionNew
<1>5. ASSUME NEW t \in Posted, NotifySessionException(t) PROVE Inv'
  BY <1>5, AskKeepsInv, EndKeepsInv DEF NotifySessionException
<1>6. CASE JsCallback
  <2>1. UNCHANGED <<kind, queue, running, takenOff>> /\ RestStep
    BY <1>6, <1>t, RestUnchanged DEF JsCallback, Posted
  <2>2. QED BY <2>1, <1>6, CallbackStep, QuietStep
<1>7. ASSUME NEW t \in Posted, HandOver(t) PROVE Inv'
  <2>1. UNCHANGED <<kind, queue, running, takenOff>> /\ RestStep
    BY <1>7, <1>t, RestUnchanged DEF HandOver, Posted
  <2>2. QED BY <2>1, <1>7, HandOverStep, QuietStep
<1>8. ASSUME NEW k \in Kinds, NEW expired \in BOOLEAN,
             PostLifeCycleTask(k, expired) \/ PostFromHandler(k, expired)
      PROVE  Inv'
  BY <1>8, PostKeepsInv
<1>9. CASE ChangeUIAbilityVisibilityBySCB
  BY <1>9, VisibilityKeepsInv
<1>10. CASE SetListeners \/ ResetTerminating
  BY <1>10, OthersKeepInv
<1>11. CASE EraseSceneSessionMapById
  BY <1>11, EraseKeepsInv
<1>12. CASE UNCHANGED vars
  <2>1. UNCHANGED <<kind, queue, running, takenOff>> /\ RestStep
    BY <1>12, <1>t, RestUnchanged DEF vars, Posted
  <2>2. QueueStep({}, 0)
    BY <2>1, NoQueueStep
  <2>3. PlaceStep({}, {})
    BY <1>12, <2>2, StartingStep DEF vars
  <2>4. QED BY <2>1, <2>3, QuietStep
<1>13. QED
  BY <1>1, <1>2, <1>3, <1>4, <1>5, <1>6, <1>7, <1>8, <1>9, <1>10, <1>11, <1>12
     DEF Next, HandlerStep, Environment

LEMMA SpecInv == Spec => []Inv
BY InitInv, NextInv, PTL DEF Spec

(* The queue never outgrows MAX_LIFE_CYCLE_TASK_IN_QUEUE, for any limit.   *)
THEOREM QueueTyped == Spec => []TypeOK
<1>1. Inv => TypeOK BY DEF Inv
<1>2. QED BY <1>1, SpecInv, PTL

(* Only the front of a life cycle queue runs: RemoveLifeCycleTask may hand *)
(* the next task over without looking whether it runs.                     *)
THEOREM FrontAloneRuns == Spec => []OnlyFrontRuns
<1>1. Inv => OnlyFrontRuns BY DEF Inv
<1>2. QED BY <1>1, SpecInv, PTL

(* No life cycle task is handed to PostTask twice.                         *)
THEOREM TasksRunOnce == Spec => []RunsOnce
<1>1. Inv => RunsOnce
  <2> SUFFICES ASSUME Inv PROVE RunsOnce
    OBVIOUS
  <2>1. \A i, k \in HandedOver : handler[i].task = handler[k].task => i = k
    BY DEF Inv, OnePlace, OneJobEach, HandedOver
  <2>2. \A i \in HandedOver : handler[i].task \notin begun \cup starting
    BY DEF Inv, OnePlace, NoneRuns, HandedOver, TasksOf
  <2>3. QED BY <2>1, <2>2 DEF RunsOnce, Inv, OnePlace
<1>2. QED BY <1>1, SpecInv, PTL

(* The front of the queue always has a completion on its way, or found no  *)
(* listener.                                                               *)
THEOREM FrontCompletes == Spec => []FrontWillComplete
<1>1. Inv => FrontWillComplete BY DEF Inv
<1>2. QED BY <1>1, SpecInv, PTL

(* Starts and stops overlap no more than tasks were taken off early.       *)
THEOREM OverlapIsBounded == Spec => []OverlapBounded
<1>1. Inv => OverlapBounded BY DEF Inv
<1>2. QED BY <1>1, SpecInv, PTL
-----------------------------------------------------------------------------
(* The refinement.  What the operations do to the bodies that wait to run. *)
RunsOf(jobs) == { jobs[i].task : i \in { k \in 1 .. Len(jobs) : jobs[k].do = "Run" } }

LEMMA DueIs == Due = starting \cup RunsOf(handler)
BY DEF Due, HandedOver, RunsOf

LEMMA RunsOfTail ==
  ASSUME NEW J, NEW h \in Seq(J), h # <<>>, OneJobEach(h)
  PROVE  /\ Head(h).do = "Run" => /\ Head(h).task \in RunsOf(h)
                                  /\ RunsOf(Tail(h)) = RunsOf(h) \ { Head(h).task }
         /\ Head(h).do # "Run" => RunsOf(Tail(h)) = RunsOf(h)
<1> DEFINE g == Tail(h)
<1>1. /\ Len(h) \in Nat \ {0} /\ Head(h) = h[1] /\ 1 \in 1 .. Len(h)
      /\ \A i \in 1 .. Len(g) : i + 1 \in 1 .. Len(h) /\ i + 1 # 1 /\ g[i] = h[i + 1]
      /\ \A i \in 1 .. Len(h) : i = 1 \/ (i - 1 \in 1 .. Len(g) /\ g[i - 1] = h[i])
  OBVIOUS
<1> HIDE DEF g
<1>2. RunsOf(g) \subseteq RunsOf(h)
  <2> SUFFICES ASSUME NEW i \in 1 .. Len(g), g[i].do = "Run" PROVE g[i].task \in RunsOf(h)
    BY DEF RunsOf
  <2>1. i + 1 \in 1 .. Len(h) /\ g[i] = h[i + 1]
    BY <1>1
  <2>2. QED BY <2>1 DEF RunsOf
<1>3. Head(h).task \notin RunsOf(g)
  <2> SUFFICES ASSUME NEW i \in 1 .. Len(g), g[i].task = Head(h).task PROVE FALSE
    BY DEF RunsOf
  <2>1. i + 1 \in 1 .. Len(h) /\ i + 1 # 1 /\ h[i + 1].task = h[1].task
    BY <1>1
  <2>2. QED BY <2>1, <1>1 DEF OneJobEach
<1>4. ASSUME NEW i \in 1 .. Len(h), h[i].do = "Run"
      PROVE  h[i].task \in RunsOf(g) \/ h[i] = Head(h)
  <2>1. CASE i = 1 BY <2>1, <1>1
  <2>2. CASE i - 1 \in 1 .. Len(g) /\ g[i - 1] = h[i] BY <2>2, <1>4 DEF RunsOf
  <2>3. QED BY <2>1, <2>2, <1>1
<1>5. \A t \in RunsOf(h) : t \in RunsOf(g) \/ (t = Head(h).task /\ Head(h).do = "Run")
  BY <1>4 DEF RunsOf
<1>6. Head(h).do = "Run" => Head(h).task \in RunsOf(h)
  BY <1>1 DEF RunsOf
<1>7. QED BY <1>2, <1>3, <1>5, <1>6 DEF g

LEMMA RunsOfAtOnce ==
  ASSUME NEW J, NEW h \in Seq(J), NEW S, S = {} \/ \E t : S = {t},
         \A t \in S : Run(t) \in J
  PROVE  RunsOf(RunAtOnce(S, h)) = RunsOf(h) \cup S
<1>1. CASE S = {}
  BY <1>1 DEF RunAtOnce
<1>2. CASE S # {}
  <2>1. PICK t : S = {t}
    BY <1>2
  <2> DEFINE g == <<Run(t)>> \o h
  <2>2. RunAtOnce(S, h) = g /\ Run(t) \in J /\ Run(t).task = t /\ Run(t).do = "Run"
    BY <2>1 DEF RunAtOnce, Run
  <2>3. /\ Len(h) \in Nat /\ g[1] = Run(t) /\ 1 \in 1 .. Len(g)
        /\ \A i \in 1 .. Len(g) : i = 1 \/ (i - 1 \in 1 .. Len(h) /\ g[i] = h[i - 1])
        /\ \A i \in 1 .. Len(h) : i + 1 \in 1 .. Len(g) /\ g[i + 1] = h[i]
    BY <2>2
  <2> HIDE DEF g
  <2>4. t \in RunsOf(g)
    BY <2>2, <2>3 DEF RunsOf
  <2>5. RunsOf(h) \subseteq RunsOf(g)
    BY <2>3 DEF RunsOf
  <2>6. RunsOf(g) \subseteq RunsOf(h) \cup {t}
    <3> SUFFICES ASSUME NEW i \in 1 .. Len(g), g[i].do = "Run"
                 PROVE  g[i].task \in RunsOf(h) \cup {t}
      BY DEF RunsOf
    <3>1. CASE i = 1 BY <3>1, <2>2, <2>3
    <3>2. CASE i - 1 \in 1 .. Len(h) /\ g[i] = h[i - 1] BY <3>2 DEF RunsOf
    <3>3. QED BY <3>1, <3>2, <2>3
  <2>7. QED BY <2>1, <2>2, <2>4, <2>5, <2>6
<1>3. QED BY <1>1, <1>2

LEMMA RunsOfAppend ==
  ASSUME NEW J, NEW h \in Seq(J), NEW j \in J
  PROVE  /\ j.do = "Run" => RunsOf(Append(h, j)) = RunsOf(h) \cup { j.task }
         /\ j.do # "Run" => RunsOf(Append(h, j)) = RunsOf(h)
<1> DEFINE g == Append(h, j)
<1>1. /\ Len(h) \in Nat /\ Len(g) \in 1 .. Len(g) /\ g[Len(g)] = j
      /\ \A i \in 1 .. Len(g) : i = Len(g) \/ (i \in 1 .. Len(h) /\ g[i] = h[i])
      /\ \A i \in 1 .. Len(h) : i \in 1 .. Len(g) /\ g[i] = h[i]
  OBVIOUS
<1> HIDE DEF g
<1>2. RunsOf(h) \subseteq RunsOf(g)
  BY <1>1 DEF RunsOf
<1>3. j.do = "Run" => j.task \in RunsOf(g)
  BY <1>1 DEF RunsOf
<1>4. \A t \in RunsOf(g) : t \in RunsOf(h) \/ (j.do = "Run" /\ t = j.task)
  BY <1>1 DEF RunsOf
<1>5. QED BY <1>2, <1>3, <1>4 DEF g
-----------------------------------------------------------------------------
(* What they do to the turn, of the tasks w that wait and the tasks S that *)
(* are started.                                                            *)
TurnPasses(w, S) ==
  Front' = Promise!First(w) /\ Behind' = w \ Promise!First(w) /\ S = Promise!First(w)

TurnStays(w, S) == Front' = Front /\ Behind' = w /\ S = {}

(* In a queue in the order of the posts the first is the front.            *)
LEMMA FrontIsFirst ==
  ASSUME queue' \in Seq(Nat), Increasing', NEW w, w = ValuesOf(queue')
  PROVE  Front' = Promise!First(w) /\ Behind' = w \ Promise!First(w)
<1> DEFINE q == queue'
<1>1. CASE q = <<>>
  <2>1. w = {} /\ Front' = {}
    BY <1>1 DEF ValuesOf, Front
  <2>2. Behind' = {}
    BY <1>1 DEF Behind
  <2>3. QED BY <2>1, <2>2 DEF Promise!First
<1>2. CASE q # <<>>
  <2>1. /\ Front' = { q[1] } /\ 1 \in 1 .. Len(q) /\ Len(q) \in Nat
        /\ \A i \in 1 .. Len(q) : q[i] \in Nat /\ (i = 1 \/ i \in 2 .. Len(q))
        /\ \A i \in 2 .. Len(q) : i \in 1 .. Len(q) /\ 1 < i
    BY <1>2 DEF Front
  <2>2. \A i \in 2 .. Len(q) : q[1] < q[i]
    BY <2>1 DEF Increasing
  <2>3. Behind' = { q[i] : i \in 2 .. Len(q) }
    BY DEF Behind
  <2> HIDE DEF q
  <2>4. w = { q[1] } \cup { q[i] : i \in 2 .. Len(q) }
    BY <2>1 DEF ValuesOf, q
  <2>5. q[1] \notin Behind'
    BY <2>1, <2>2, <2>3
  <2>6. q[1] \in Promise!First(w)
    BY <2>1, <2>2, <2>4 DEF Promise!First
  <2>7. \A t \in Promise!First(w) : t = q[1]
    <3> SUFFICES ASSUME NEW t \in Promise!First(w), t # q[1] PROVE FALSE
      OBVIOUS
    <3>1. t \in w /\ t <= q[1]
      BY <2>4 DEF Promise!First
    <3>2. PICK i \in 2 .. Len(q) : t = q[i]
      BY <3>1, <2>4
    <3>3. q[1] < t /\ q[1] \in Nat /\ t \in Nat
      BY <3>2, <2>1, <2>2
    <3>4. QED BY <3>1, <3>3
  <2>8. QED BY <2>1, <2>3, <2>4, <2>5, <2>6, <2>7
<1>3. QED BY <1>1, <1>2

LEMMA QueueIs ==
  ASSUME Inv
  PROVE  /\ ValuesOf(queue) = Front \cup Behind
         /\ Front = {} <=> queue = <<>>
         /\ queue # <<>> => ValuesOf(Tail(queue)) = Behind
<1>1. queue \in Seq(Posted) /\ Len(queue) \in Nat
  BY DEF Inv, TypeOK
<1>2. CASE queue = <<>>
  BY <1>2 DEF ValuesOf, Front, Behind
<1>3. CASE queue # <<>>
  <2>1. /\ Front = { queue[1] } /\ 1 \in 1 .. Len(queue)
        /\ \A i \in 1 .. Len(queue) : i = 1 \/ i \in 2 .. Len(queue)
        /\ 2 .. Len(queue) \subseteq 1 .. Len(queue)
    BY <1>1, <1>3 DEF Front
  <2>2. ValuesOf(queue) = Front \cup Behind
    BY <2>1 DEF ValuesOf, Behind
  <2>3. /\ \A i \in 1 .. Len(Tail(queue)) :
             i + 1 \in 2 .. Len(queue) /\ Tail(queue)[i] = queue[i + 1]
        /\ \A i \in 2 .. Len(queue) :
             i - 1 \in 1 .. Len(Tail(queue)) /\ Tail(queue)[i - 1] = queue[i]
    BY <1>1, <1>3
  <2>4. ValuesOf(Tail(queue)) = Behind
    BY <2>3 DEF ValuesOf, Behind
  <2>5. QED BY <1>3, <2>1, <2>2, <2>4
<1>4. QED BY <1>2, <1>3

LEMMA EnqueueTurn ==
  ASSUME Inv, Inv', NEW k \in Kinds, NEW expired \in BOOLEAN, Enqueue(k, expired),
         NEW S, S = IF Full(expired) THEN {} ELSE ToStart(queue')
  PROVE  /\ Len(kind') = Len(kind) + 1
         /\ \/ Front # {} /\ TurnStays(Behind, S)
            \/ Front # {} /\ TurnStays(Behind \cup {Len(kind) + 1}, S)
            \/ TurnPasses(Behind \cup {Len(kind) + 1}, S)
<1> DEFINE new == Len(kind) + 1
           W == WithoutExpired(expired)
<1>1. /\ queue \in Seq(Posted) /\ Len(queue) \in Nat /\ Len(queue) <= MaxQueue
      /\ running \subseteq Posted /\ queue' \in Seq(Posted') /\ Len(kind) \in Nat
      /\ MaxQueue \in Nat \ {0}
  BY BoundsAssumption DEF Inv, TypeOK
<1>2. Len(kind') = new
  BY DEF Enqueue, Inv, TypeOK
<1>3. CASE Full(expired)
  <2>1. queue # <<>> /\ queue' = queue
    <3>1. ~expired
      BY <1>1, <1>3 DEF Enqueue, WithoutExpired, Full
    <3>2. Len(queue) = MaxQueue
      BY <1>3, <3>1 DEF WithoutExpired, Full
    <3>3. QED BY <1>1, <1>3, <3>1, <3>2 DEF Enqueue, WithoutExpired
  <2>2. QED BY <1>2, <1>3, <2>1, QueueIs DEF TurnStays, Front, Behind
<1>4. CASE ~Full(expired)
  <2>1. queue' = Append(W, new) /\ S = ToStart(queue')
    BY <1>4 DEF Enqueue
  <2>2. W \in Seq(Nat) /\ new \in Nat /\ queue' \in Seq(Nat)
    <3>1. queue \in Seq(Nat) /\ queue' \in Seq(Nat)
      BY <1>1, SeqMonotone DEF Posted
    <3>2. QED BY <1>1, <3>1 DEF WithoutExpired, Enqueue
  <2>3. /\ queue' # <<>> /\ Front' = { queue'[1] } /\ Head(queue') = queue'[1]
        /\ 1 \in 1 .. Len(queue')
    <3> HIDE DEF W, new
    <3>1. queue' # <<>> /\ Head(queue') = queue'[1]
      BY <2>1, <2>2, AppendIs
    <3>2. 1 \in 1 .. Len(queue')
      BY <2>2, <3>1
    <3>3. QED BY <3>1, <3>2 DEF Front
  <2>4. ValuesOf(queue') = ValuesOf(W) \cup {new}
    <3> HIDE DEF W, new
    <3>1. QED BY <2>1, <2>2, AppendValue
  <2>5. CASE ~expired /\ queue # <<>>
    <3>1. W = queue /\ queue[1] = Head(queue) /\ 1 \in 1 .. Len(queue)
      BY <1>1, <2>5 DEF WithoutExpired
    <3>2. queue'[1] = queue[1] /\ queue[1] \in running
      <4> HIDE DEF W, new
      <4>1. queue'[1] = queue[1]
        BY <2>1, <2>2, <3>1, AppendIs
      <4>2. QED BY <3>1, <4>1 DEF Inv, OnlyFrontRuns
    <3>3. S = {} /\ Front' = Front
      BY <2>1, <2>3, <2>5, <3>1, <3>2 DEF ToStart, Front
    <3>4. Behind' = Behind \cup {new}
      <4>1. Behind' = ValuesOf(queue') \ Front' /\ Behind = ValuesOf(queue) \ Front
        <5>1. \A i \in 2 .. Len(queue) : queue[i] # queue[1]
          <6> SUFFICES ASSUME NEW i \in 2 .. Len(queue) PROVE queue[i] # queue[1]
            OBVIOUS
          <6>1. 1 \in 1 .. Len(queue) /\ i \in 1 .. Len(queue) /\ 1 < i
            BY <1>1, <3>1
          <6>2. queue[1] < queue[i] /\ queue[1] \in Nat
            BY <1>1, <6>1 DEF Inv, Increasing, Posted
          <6>3. QED BY <6>2
        <5>2. Behind = ValuesOf(queue) \ Front
          BY <3>1, <2>5, <5>1, QueueIs DEF Behind, Front
        <5>3. Behind' = ValuesOf(queue') \ Front'
          <6>1. Increasing'
            BY DEF Inv
          <6>2. QED BY <6>1, <2>2, FrontIsFirst
        <5>4. QED BY <5>2, <5>3
      <4>2. new \notin Front
        BY <1>1, <3>1, <2>5 DEF Front, Posted
      <4>3. QED BY <2>4, <3>1, <3>3, <4>1, <4>2
    <3>5. Front # {}
      BY <2>5, QueueIs
    <3>6. QED BY <1>2, <3>3, <3>4, <3>5 DEF TurnStays
  <2>6. CASE expired \/ queue = <<>>
    <3>1. ValuesOf(W) = Behind
      <4>1. CASE expired
        BY <4>1, QueueIs DEF WithoutExpired, Enqueue
      <4>2. CASE ~expired /\ queue = <<>>
        BY <4>2, QueueIs DEF WithoutExpired, ValuesOf, Behind
      <4>3. QED BY <4>1, <4>2, <2>6
    <3>2. Increasing'
      BY DEF Inv
    <3>3. /\ Front' = Promise!First(Behind \cup {new})
          /\ Behind' = (Behind \cup {new}) \ Promise!First(Behind \cup {new})
      BY <2>2, <2>4, <3>1, <3>2, FrontIsFirst
    <3>4. queue'[1] \notin running
      <4>1. CASE W = <<>>
        <5>1. queue'[1] = new
          BY <2>1, <4>1
        <5>2. QED BY <5>1, <1>1 DEF Posted
      <4>2. CASE W # <<>>
        <5>1. expired /\ W = Tail(queue) /\ queue # <<>>
          BY <2>6, <4>2 DEF WithoutExpired, Enqueue
        <5>2. 2 \in 1 .. Len(queue) /\ W[1] = queue[2] /\ 1 \in 1 .. Len(W)
          <6> DEFINE tl == Tail(queue)
          <6>1. /\ Len(tl) = Len(queue) - 1 /\ tl \in Seq(Posted)
                /\ \A i \in 1 .. Len(tl) : tl[i] = queue[i + 1]
            BY <1>1, <5>1
          <6>2. tl # <<>> /\ W = tl
            BY <4>2, <5>1
          <6> HIDE DEF tl, W
          <6>3. Len(tl) \in Nat \ {0}
            BY <6>1, <6>2
          <6>4. 2 \in 1 .. Len(queue) /\ 1 \in 1 .. Len(tl)
            BY <1>1, <6>1, <6>3
          <6>5. tl[1] = queue[1 + 1]
            BY <6>1, <6>4
          <6>6. QED BY <6>2, <6>4, <6>5
        <5>3. queue'[1] = W[1]
          <6> HIDE DEF W, new
          <6>1. QED BY <2>1, <2>2, <5>2, AppendIs
        <5>4. queue[2] \notin running
          BY <5>2 DEF Inv, OnlyFrontRuns
        <5>5. QED BY <5>2, <5>3, <5>4
      <4>3. QED BY <4>1, <4>2
    <3>5. S = Front'
      BY <2>1, <2>3, <3>4 DEF ToStart
    <3>6. QED BY <1>2, <3>3, <3>5 DEF TurnPasses
  <2>7. QED BY <2>5, <2>6
<1>5. QED BY <1>3, <1>4

LEMMA RemoveTurn ==
  ASSUME Inv, Inv', NEW ty, RemoveFront(ty), NEW S, S = Successor(ty)
  PROVE  \/ TurnStays(Behind, S)
         \/ Front # {} /\ TurnPasses(Behind, S)
<1>1. /\ queue \in Seq(Posted) /\ Len(queue) \in Nat /\ queue' \in Seq(Posted')
      /\ Increasing'
  BY DEF Inv, TypeOK
<1>2. CASE ~Matches(ty)
  BY <1>2 DEF RemoveFront, Successor, TurnStays, Front, Behind
<1>3. CASE Matches(ty)
  <2>1. queue # <<>> /\ queue' = Tail(queue)
    BY <1>3 DEF Matches, RemoveFront
  <2>2. queue' \in Seq(Nat)
    BY <1>1, SeqMonotone DEF Posted
  <2>3. Front' = Promise!First(Behind) /\ Behind' = Behind \ Promise!First(Behind)
    BY <1>1, <2>1, <2>2, QueueIs, FrontIsFirst
  <2>4. Front' = S
    <3>1. CASE Len(queue) > 1
      <4>1. Tail(queue) # <<>> /\ Head(Tail(queue)) = queue[2]
        BY <1>1, <2>1, <3>1
      <4>2. QED BY <1>3, <2>1, <3>1, <4>1 DEF Front, Successor
    <3>2. CASE ~(Len(queue) > 1)
      <4>1. Tail(queue) = <<>>
        BY <1>1, <2>1, <3>2
      <4>2. QED BY <2>1, <3>2, <4>1 DEF Front, Successor
    <3>3. QED BY <3>1, <3>2
  <2>5. QED BY <2>1, <2>3, <2>4, QueueIs DEF TurnPasses
<1>4. QED BY <1>2, <1>3
-----------------------------------------------------------------------------
Step == [Promise!Next]_(Promise!vars)

LEMMA TurnStutter ==
  ASSUME UNCHANGED <<kind, queue, begun>>, Due' = Due
  PROVE  Step
<1>1. Front' = Front /\ Behind' = Behind
  BY DEF Front, Behind
<1>2. QED BY <1>1 DEF Step, Promise!vars

LEMMA RunDue ==
  ASSUME Inv, NEW S, NEW ended, QueueStep(S, ended), handler' = RunAtOnce(S, handler),
         starting' = starting
  PROVE  Due' = Due \cup S
<1>1. handler \in Seq(Jobs')
  BY PlacesGrow DEF QueueStep
<1>2. S = {} \/ \E t : S = {t}
  BY DEF QueueStep
<1>3. \A t \in S : Run(t) \in Jobs'
  BY DEF QueueStep, Jobs
<1>4. RunsOf(RunAtOnce(S, handler)) = RunsOf(handler) \cup S
  BY <1>1, <1>2, <1>3, RunsOfAtOnce
<1>5. Due = starting \cup RunsOf(handler) /\ Due' = starting' \cup RunsOf(handler')
  BY DueIs DEF Due, HandedOver, RunsOf
<1>6. QED BY <1>4, <1>5

(* A post, wherever it comes from.                                         *)
LEMMA PostTurn ==
  ASSUME Inv, Inv', NEW k \in Kinds, NEW expired \in BOOLEAN,
         PostLifeCycleTask(k, expired) \/ PostFromHandler(k, expired)
  PROVE  Step
<1> DEFINE S == IF Full(expired) THEN {} ELSE ToStart(queue')
           new == Len(kind) + 1
<1>1. Enqueue(k, expired) /\ begun' = begun
  BY DEF PostLifeCycleTask, PostFromHandler
<1>2. QueueStep(S, 0)
  BY <1>1, EnqueueStep
<1>3. /\ Len(kind') = new
      /\ \/ Front # {} /\ TurnStays(Behind, S)
         \/ Front # {} /\ TurnStays(Behind \cup {new}, S)
         \/ TurnPasses(Behind \cup {new}, S)
  BY <1>1, EnqueueTurn
<1>4. Due' = Due \cup S
  <2>1. CASE PostLifeCycleTask(k, expired)
    <3>1. starting' = starting \cup S /\ handler' = handler
      BY <2>1 DEF PostLifeCycleTask
    <3>2. QED BY <3>1 DEF Due, HandedOver
  <2>2. CASE PostFromHandler(k, expired)
    <3>1. handler' = RunAtOnce(S, handler) /\ starting' = starting
      BY <2>2 DEF PostFromHandler, RunAtOnce
    <3> HIDE DEF S
    <3>2. QED BY <1>2, <3>1, RunDue
  <2>3. QED BY <2>1, <2>2
<1> HIDE DEF S
<1>5. CASE Front # {} /\ TurnStays(Behind, S)
  <2>1. Promise!Refuse
    BY <1>1, <1>3, <1>4, <1>5 DEF TurnStays, Promise!Refuse
  <2>2. QED BY <2>1 DEF Step, Promise!Next
<1>6. CASE Front # {} /\ TurnStays(Behind \cup {new}, S)
  <2>1. Promise!Post
    BY <1>1, <1>3, <1>4, <1>6 DEF TurnStays, Promise!Post, Promise!Keeps
  <2>2. QED BY <2>1 DEF Step, Promise!Next
<1>7. CASE TurnPasses(Behind \cup {new}, S)
  <2>1. Promise!Post
    BY <1>1, <1>3, <1>4, <1>7 DEF TurnPasses, Promise!Post, Promise!Passes
  <2>2. QED BY <2>1 DEF Step, Promise!Next
<1>8. QED BY <1>3, <1>5, <1>6, <1>7

(* The first job of the manager's thread, if it is a body, begins its      *)
(* task; the tasks S are due when the front goes.                          *)
LEMMA JobDue ==
  ASSUME Inv, handler # <<>>, NEW S, S = {} \/ \E t : S = {t}, S \subseteq Posted,
         S \cap running = {},
         handler' = RunAtOnce(S, Tail(handler)), starting' = starting,
         NEW t, t = Head(handler).task
  PROVE  /\ Head(handler).do = "Run" => t \in Due /\ Due' = (Due \ {t}) \cup S
         /\ Head(handler).do # "Run" => Due' = Due \cup S
<1> DEFINE h == Tail(handler)
<1>1. handler \in Seq(Jobs) /\ h \in Seq(Jobs) /\ OneJobEach(handler)
  BY DEF Inv, TypeOK, OnePlace
<1>2. /\ Head(handler).do = "Run" => /\ t \in RunsOf(handler)
                                     /\ RunsOf(h) = RunsOf(handler) \ {t}
      /\ Head(handler).do # "Run" => RunsOf(h) = RunsOf(handler)
  BY <1>1, RunsOfTail
<1>3. \A u \in S : Run(u) \in Jobs
  BY DEF Jobs
<1>4. t \notin starting /\ t \notin S
  <2>1. t \in TasksOf(handler)
    BY <1>1, TailJobs
  <2>2. QED BY <2>1 DEF Inv, OnePlace
<1> HIDE DEF h
<1>5. RunsOf(handler') = RunsOf(h) \cup S
  <2>1. handler' = RunAtOnce(S, h)
    BY DEF h
  <2>2. S = {} \/ \E u : S = {u}
    OBVIOUS
  <2>3. RunsOf(RunAtOnce(S, h)) = RunsOf(h) \cup S
    BY <1>1, <1>3, <2>2, RunsOfAtOnce
  <2>4. QED BY <2>1, <2>3
<1>6. Due = starting \cup RunsOf(handler) /\ Due' = starting' \cup RunsOf(handler')
  BY DueIs DEF Due, HandedOver, RunsOf
<1>7. QED BY <1>2, <1>4, <1>5, <1>6

(* What the job does to the turn with it.                                  *)
LEMMA JobTurn ==
  ASSUME Inv, handler # <<>>, NEW S, S = {} \/ \E t : S = {t}, S \subseteq Posted,
         S \cap running = {},
         handler' = RunAtOnce(S, Tail(handler)), UNCHANGED <<kind, starting>>,
         NEW t, t = Head(handler).task,
         \/ Head(handler).do = "Run" /\ begun' = begun \cup {t}
         \/ Head(handler).do # "Run" /\ begun' = begun,
         TurnStays(Behind, S) \/ (Front # {} /\ TurnPasses(Behind, S))
  PROVE  Step
<1>1. CASE Head(handler).do = "Run" /\ begun' = begun \cup {t}
  <2>1. t \in Due /\ Due' = (Due \ {t}) \cup S
    BY <1>1, JobDue
  <2>2. CASE TurnStays(Behind, S)
    <3>1. Promise!Keeps(Behind, Due \ {t})
      BY <2>1, <2>2 DEF TurnStays, Promise!Keeps
    <3>2. QED BY <1>1, <2>1, <3>1 DEF Step, Promise!Next, Promise!Begin
  <2>3. CASE Front # {} /\ TurnPasses(Behind, S)
    <3>1. Promise!Passes(Behind, Due \ {t})
      BY <2>1, <2>3 DEF TurnPasses, Promise!Passes
    <3>2. QED BY <1>1, <2>1, <2>3, <3>1 DEF Step, Promise!Next, Promise!Begin
  <2>4. QED BY <2>2, <2>3
<1>2. CASE Head(handler).do # "Run" /\ begun' = begun
  <2>1. Due' = Due \cup S
    BY <1>2, JobDue
  <2>2. CASE TurnStays(Behind, S)
    BY <1>2, <2>1, <2>2 DEF TurnStays, Step, Promise!vars
  <2>3. CASE Front # {} /\ TurnPasses(Behind, S)
    <3>1. Promise!Passes(Behind, Due)
      BY <2>1, <2>3 DEF TurnPasses, Promise!Passes
    <3>2. QED BY <1>2, <2>3, <3>1 DEF Step, Promise!Next, Promise!End
  <2>4. QED BY <2>2, <2>3
<1>3. QED BY <1>1, <1>2

(* A job that takes the front off if it is of its type.                    *)
LEMMA RemoveJobTurn ==
  ASSUME Inv, Inv', handler # <<>>, NEW t, t = Head(handler).task, NEW ty,
         RemoveLifeCycleTask(ty, Tail(handler)), UNCHANGED <<kind, starting>>,
         \/ Head(handler).do = "Run" /\ begun' = begun \cup {t}
         \/ Head(handler).do # "Run" /\ begun' = begun
  PROVE  Step
<1> DEFINE S == Successor(ty)
<1>1. RemoveFront(ty) /\ handler' = RunAtOnce(S, Tail(handler))
  BY DEF RemoveLifeCycleTask
<1>2. (S = {} \/ \E u : S = {u}) /\ S \subseteq Posted /\ S \cap running = {}
  <2>1. CASE S = {}
    BY <2>1
  <2>2. CASE S # {}
    <3>1. S = { queue[2] } /\ 2 \in 1 .. Len(queue)
      BY <2>2 DEF Successor, Inv, TypeOK
    <3>2. queue[2] \in Posted /\ queue[2] \notin running
      BY <3>1 DEF Inv, TypeOK, OnlyFrontRuns
    <3>3. QED BY <3>1, <3>2
  <2>3. QED BY <2>1, <2>2
<1>3. TurnStays(Behind, S) \/ (Front # {} /\ TurnPasses(Behind, S))
  BY <1>1, RemoveTurn
<1> HIDE DEF S
<1>4. QED BY <1>1, <1>2, <1>3, JobTurn

(* A job that leaves the queue alone.                                      *)
LEMMA QuietJobTurn ==
  ASSUME Inv, handler # <<>>, NEW t, t = Head(handler).task,
         handler' = Tail(handler), UNCHANGED <<kind, starting, queue>>,
         \/ Head(handler).do = "Run" /\ begun' = begun \cup {t}
         \/ Head(handler).do # "Run" /\ begun' = begun
  PROVE  Step
<1>1. handler' = RunAtOnce({}, Tail(handler))
  BY DEF RunAtOnce
<1>2. TurnStays(Behind, {})
  BY DEF TurnStays, Front, Behind
<1>3. QED BY <1>1, <1>2, JobTurn

LEMMA ByIdTurn ==
  ASSUME Inv, Inv', handler # <<>>, NEW t, t = Head(handler).task, RemoveById(t),
         UNCHANGED <<kind, starting>>,
         \/ Head(handler).do = "Run" /\ begun' = begun \cup {t}
         \/ Head(handler).do # "Run" /\ begun' = begun
  PROVE  Step
<1>1. CASE erased
  BY <1>1, QuietJobTurn DEF RemoveById
<1>2. CASE ~erased
  BY <1>2, RemoveJobTurn DEF RemoveById
<1>3. QED BY <1>1, <1>2

LEMMA BodyTurn ==
  ASSUME Inv, Inv', NEW t, Begin(t), Ask(t) \/ EndAtOnce(t)
  PROVE  Step
<1>1. /\ handler # <<>> /\ t = Head(handler).task /\ Head(handler).do = "Run"
      /\ begun' = begun \cup {t} /\ UNCHANGED <<kind, starting>>
  BY DEF Begin, Run
<1>2. CASE handler' = Tail(handler) /\ UNCHANGED <<queue, running>>
  BY <1>1, <1>2, QuietJobTurn
<1>3. CASE RemoveById(t)
  BY <1>1, <1>3, ByIdTurn
<1>4. CASE EndAtOnce(t)
  BY <1>1, <1>4, RemoveJobTurn DEF EndAtOnce
<1>5. QED BY <1>2, <1>3, <1>4 DEF Ask

LEMMA CompletionTurn ==
  ASSUME Inv, Inv', RemoveLifeCycleTaskByPersistentId
  PROVE  Step
<1> DEFINE t == Head(handler).task
<1>1. /\ handler # <<>> /\ Head(handler).do # "Run" /\ RemoveById(t)
      /\ begun' = begun /\ UNCHANGED <<kind, starting>>
  BY DEF RemoveLifeCycleTaskByPersistentId
<1>2. QED BY <1>1, ByIdTurn

LEMMA VisibilityTurn ==
  ASSUME Inv, Inv', ChangeUIAbilityVisibilityBySCB
  PROVE  Step
<1> DEFINE S == Successor("START")
<1>1. /\ RemoveFront("START") /\ starting' = starting \cup S
      /\ UNCHANGED <<kind, handler, begun>>
  BY DEF ChangeUIAbilityVisibilityBySCB
<1>2. TurnStays(Behind, S) \/ (Front # {} /\ TurnPasses(Behind, S))
  BY <1>1, RemoveTurn
<1> HIDE DEF S
<1>3. Due' = Due \cup S
  BY <1>1 DEF Due, HandedOver
<1>4. CASE TurnStays(Behind, S)
  BY <1>1, <1>3, <1>4 DEF TurnStays, Step, Promise!vars
<1>5. CASE Front # {} /\ TurnPasses(Behind, S)
  <2>1. Promise!Passes(Behind, Due)
    BY <1>3, <1>5 DEF TurnPasses, Promise!Passes
  <2>2. QED BY <1>1, <1>5, <2>1 DEF Step, Promise!Next, Promise!End
<1>6. QED BY <1>2, <1>4, <1>5

LEMMA EraseTurn ==
  ASSUME EraseSceneSessionMapById
  PROVE  Step
<1>1. queue' = <<>> /\ UNCHANGED <<kind, starting, handler, begun>>
  BY DEF EraseSceneSessionMapById
<1>2. Front' = {} /\ Behind' = {}
  BY <1>1 DEF Front, Behind
<1>3. Due' = Due
  BY <1>1 DEF Due, HandedOver
<1>4. Promise!Drop
  BY <1>1, <1>2, <1>3 DEF Promise!Drop
<1>5. QED BY <1>4 DEF Step, Promise!Next

(* Handing over, and a callback that posts its completion, are no steps of *)
(* the promise.                                                            *)
LEMMA PassingOnTurn ==
  ASSUME Inv, JsCallback \/ \E t \in Posted : HandOver(t)
  PROVE  Step
<1>1. Due = starting \cup RunsOf(handler) /\ Due' = starting' \cup RunsOf(handler')
  BY DueIs DEF Due, HandedOver, RunsOf
<1>2. CASE JsCallback
  <2> DEFINE j == Remove(Head(mainThread))
  <2>1. handler \in Seq(Jobs) /\ j \in Jobs /\ j.do # "Run"
    BY <1>2 DEF JsCallback, Inv, TypeOK, Jobs, Remove
  <2>2. handler' = Append(handler, j) /\ UNCHANGED <<kind, queue, starting, begun>>
    BY <1>2 DEF JsCallback
  <2> HIDE DEF j
  <2>3. RunsOf(handler') = RunsOf(handler)
    BY <2>1, <2>2, RunsOfAppend
  <2>4. QED BY <1>1, <2>2, <2>3, TurnStutter
<1>3. ASSUME NEW t \in Posted, HandOver(t) PROVE Step
  <2>1. /\ handler \in Seq(Jobs) /\ Run(t) \in Jobs /\ Run(t).do = "Run"
        /\ Run(t).task = t
    BY DEF Inv, TypeOK, Jobs, Run
  <2>2. /\ handler' = Append(handler, Run(t)) /\ starting' = starting \ {t}
        /\ t \in starting /\ UNCHANGED <<kind, queue, begun>>
    BY <1>3 DEF HandOver
  <2>3. RunsOf(handler') = RunsOf(handler) \cup {t}
    BY <2>1, <2>2, RunsOfAppend
  <2>4. QED BY <1>1, <2>2, <2>3, TurnStutter
<1>4. QED BY <1>2, <1>3

LEMMA NextTurn == Inv /\ Inv' /\ [Next]_vars => Step
<1> SUFFICES ASSUME Inv, Inv', [Next]_vars PROVE Step
  OBVIOUS
<1>1. CASE RemoveLifeCycleTaskByPersistentId
  BY <1>1, CompletionTurn
<1>2. ASSUME NEW t \in Posted,
             \/ PendingSessionActivation(t) \/ TerminateSession(t)
             \/ TerminateSessionNew(t) \/ NotifySessionException(t)
      PROVE  Step
  <2>1. Begin(t) /\ (Ask(t) \/ EndAtOnce(t))
    BY <1>2 DEF PendingSessionActivation, TerminateSession, TerminateSessionNew,
                NotifySessionException
  <2>2. QED BY <2>1, BodyTurn
<1>3. CASE JsCallback \/ \E t \in Posted : HandOver(t)
  BY <1>3, PassingOnTurn
<1>4. ASSUME NEW k \in Kinds, NEW expired \in BOOLEAN,
             PostLifeCycleTask(k, expired) \/ PostFromHandler(k, expired)
      PROVE  Step
  BY <1>4, PostTurn
<1>5. CASE ChangeUIAbilityVisibilityBySCB
  BY <1>5, VisibilityTurn
<1>6. CASE SetListeners \/ ResetTerminating \/ UNCHANGED vars
  <2>1. UNCHANGED <<kind, queue, starting, handler, begun>>
    BY <1>6 DEF SetListeners, ResetTerminating, vars
  <2>2. Due' = Due
    BY <2>1 DEF Due, HandedOver
  <2>3. QED BY <2>1, <2>2, TurnStutter
<1>7. CASE EraseSceneSessionMapById
  BY <1>7, EraseTurn
<1>8. QED
  BY <1>1, <1>2, <1>3, <1>4, <1>5, <1>6, <1>7 DEF Next, HandlerStep, Environment

(* The life cycle queue implements TaskTurns: every step of its threads is *)
(* a step of the turns or a stutter, for any limit and number of posts.    *)
THEOREM QueueTakesTurns == Spec => KeepsTurns
<1>1. Init => Promise!Init
  <2> SUFFICES ASSUME Init PROVE Promise!Init
    OBVIOUS
  <2>1. kind = <<>> /\ queue = <<>> /\ handler = <<>> /\ starting = {} /\ begun = {}
    BY DEF Init
  <2>2. Front = {} /\ Behind = {} /\ Len(kind) = 0 /\ Due = {}
    BY <2>1 DEF Front, Behind, Due, HandedOver
  <2>3. QED BY <2>1, <2>2 DEF Promise!Init
<1>2. Inv /\ Inv' /\ [Next]_vars => [Promise!Next]_(Promise!vars)
  BY NextTurn DEF Step
<1>3. QED BY <1>1, <1>2, SpecInv, PTL DEF Spec, KeepsTurns, Promise!Spec

-----------------------------------------------------------------------------
(* That nobody is overtaken is inductive for the turns alone, whose tasks  *)
(* are among those posted.                                                 *)
InOrder == Promise!InOrder
Known == Front \cup Behind \cup Due \cup begun

LEMMA KnownArePosted ==
  ASSUME Inv
  PROVE  Len(kind) \in Nat /\ Known \subseteq 1 .. Len(kind)
<1>1. Behind \subseteq Posted /\ Front \subseteq Posted
  <2>1. \A i \in 1 .. Len(queue) : queue[i] \in Posted
    BY DEF Inv, TypeOK
  <2>2. ValuesOf(queue) \subseteq Posted
    BY <2>1 DEF ValuesOf
  <2>3. QED BY <2>2, QueueIs
<1>2. Due \subseteq Posted
  <2>1. RunsOf(handler) \subseteq Posted
    BY DEF Inv, TypeOK, Jobs, Run, Remove, RunsOf
  <2>2. QED BY <2>1, DueIs DEF Inv, TypeOK
<1>3. QED BY <1>1, <1>2 DEF Inv, TypeOK, Known, Posted

LEMMA PassesInOrder ==
  ASSUME InOrder, NEW w, w \subseteq Nat, Behind \subseteq w, begun \subseteq Nat,
         NEW d, d \subseteq Due,
         \A u \in w \ Behind : \A t \in Front \cup Due \cup begun : t < u,
         Promise!Passes(w, d), begun' \subseteq begun \cup (Due \ d)
  PROVE  InOrder'
<1> DEFINE f == Promise!First(w)
<1>1. Front' = f /\ Behind' = w \ f /\ Due' = d \cup f
  BY DEF Promise!Passes
<1>2. f \subseteq w /\ \A t \in f, u \in w \ f : t < u
  BY DEF Promise!First
<1> HIDE DEF f
<1>3. \A u \in w : \A t \in Due \cup begun : t < u
  BY DEF InOrder, Promise!InOrder
<1>4. Due' \cap begun' = {}
  <2>1. d \cap begun' = {}
    BY DEF InOrder, Promise!InOrder
  <2>2. \A t \in f : t \notin Due \cup begun
    BY <1>2, <1>3
  <2>3. QED BY <1>1, <2>1, <2>2
<1>5. \A u \in Behind' : \A t \in Front' \cup Due' \cup begun' : t < u
  BY <1>1, <1>2, <1>3
<1>6. QED BY <1>4, <1>5 DEF InOrder, Promise!InOrder

LEMMA StepInOrder ==
  ASSUME Inv, InOrder, Step
  PROVE  InOrder'
<1> DEFINE new == Len(kind) + 1
<1>1. /\ Len(kind) \in Nat /\ new \in Nat /\ Known \subseteq Nat
      /\ \A t \in Known : t < new
  BY KnownArePosted
<1> HIDE DEF new
<1>2. CASE Promise!Post
  <2> DEFINE w == Behind \cup {new}
  <2>1. begun' = begun /\ (Promise!Passes(w, Due) \/ Promise!Keeps(w, Due))
    BY <1>2 DEF Promise!Post, new
  <2>2. \A u \in w \ Behind : \A t \in Front \cup Due \cup begun : t < u
    BY <1>1 DEF Known
  <2>3. CASE Promise!Passes(w, Due)
    <3>1. w \subseteq Nat /\ Behind \subseteq w /\ begun \subseteq Nat
      BY <1>1 DEF Known
    <3> HIDE DEF w
    <3>2. QED BY <2>1, <2>2, <2>3, <3>1, PassesInOrder
  <2>4. CASE Promise!Keeps(w, Due)
    BY <2>1, <2>2, <2>4 DEF Promise!Keeps, InOrder, Promise!InOrder
  <2>5. QED BY <2>1, <2>3, <2>4
<1>3. CASE Promise!Refuse
  BY <1>3 DEF Promise!Refuse, InOrder, Promise!InOrder
<1>4. CASE Promise!End
  <2>1. Promise!Passes(Behind, Due) /\ begun' = begun
    BY <1>4 DEF Promise!End
  <2>2. QED BY <1>1, <2>1, PassesInOrder DEF Known
<1>5. CASE Promise!Drop
  BY <1>5 DEF Promise!Drop, InOrder, Promise!InOrder
<1>6. ASSUME NEW t \in Due, Promise!Begin(t) PROVE InOrder'
  <2>1. begun' = begun \cup {t}
    BY <1>6 DEF Promise!Begin
  <2>2. CASE Promise!Passes(Behind, Due \ {t})
    BY <1>1, <2>1, <2>2, PassesInOrder DEF Known
  <2>3. CASE Promise!Keeps(Behind, Due \ {t})
    BY <2>1, <2>3 DEF Promise!Keeps, InOrder, Promise!InOrder
  <2>4. QED BY <1>6, <2>2, <2>3 DEF Promise!Begin
<1>7. CASE UNCHANGED Promise!vars
  BY <1>7 DEF Promise!vars, InOrder, Promise!InOrder
<1>8. QED
  BY <1>2, <1>3, <1>4, <1>5, <1>6, <1>7 DEF Step, Promise!Next

(* No task begins, or gets its turn, before one that was posted earlier    *)
(* and still waits, and none begins twice.                                 *)
THEOREM NobodyIsOvertaken == Spec => []Promise!InOrder
<1>1. Init => InOrder
  <2> SUFFICES ASSUME Init PROVE InOrder
    OBVIOUS
  <2>1. Behind = {} /\ begun = {}
    BY DEF Init, Behind
  <2>2. QED BY <2>1 DEF InOrder, Promise!InOrder
<1>2. InOrder /\ Inv /\ Inv' /\ [Next]_vars => InOrder'
  BY NextTurn, StepInOrder
<1>3. Spec => []InOrder
  BY <1>1, <1>2, SpecInv, PTL DEF Spec
<1>4. QED BY <1>3 DEF InOrder
-----------------------------------------------------------------------------
(* What QueuedTaskRuns needs besides fairness: while tasks are queued, the *)
(* thread between its lock and its PostTask, SceneBoard or the manager     *)
(* has a step to take that moves the front towards its completion, unless  *)
(* the session is gone or the front found no listener.                     *)
MayHandle ==
  \/ handler # <<>> /\ Head(handler).do = "Remove"
  \/ \E t \in Posted : /\ handler # <<>> /\ Head(handler) = Run(t)
                       /\ kind[t] \in Kinds

QueueIsServed ==
  queue # <<>> /\ ~erased /\ deaf = {} =>
    MayHandle \/ mainThread # <<>> \/ \E t \in Posted : t \in starting

(* A life cycle queue never waits for nobody, whoever posts, completes,    *)
(* expires or clears in between.                                           *)
THEOREM TheQueueIsServed == Spec => []QueueIsServed
<1>1. ASSUME TypeOK, FrontWillComplete, queue # <<>>, ~erased, deaf = {},
             mainThread = <<>>, starting = {}
      PROVE  MayHandle
  <2>1. Range(mainThread) = {}
    BY <1>1 DEF Range
  <2>2. handler # <<>>
    BY <1>1, <2>1 DEF FrontWillComplete, InFlight, Range
  <2>3. Head(handler) \in Jobs
    BY <1>1, <2>2 DEF TypeOK
  <2>4. \A t \in Posted : kind[t] \in Kinds
    BY <1>1 DEF TypeOK, Posted
  <2>5. QED BY <2>2, <2>3, <2>4 DEF MayHandle, Jobs, Remove
<1>2. TypeOK /\ FrontWillComplete => QueueIsServed
  <2>1. TypeOK /\ starting # {} => \E t \in Posted : t \in starting
    BY DEF TypeOK
  <2>2. QED BY <1>1, <2>1 DEF QueueIsServed
<1>3. QED BY <1>2, QueueTyped, FrontCompletes, PTL
=============================================================================
