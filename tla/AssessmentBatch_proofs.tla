------------------------ MODULE AssessmentBatch_proofs ------------------------
(***************************************************************************)
(* Proofs about AssessmentBatch for every batch, every pool and every      *)
(* interleaving of the threads, the caller and Ctrl-C.                     *)
(***************************************************************************)
EXTENDS AssessmentBatch, FiniteSetTheorems, SequenceTheorems, TLAPS

Inside == {"check", "go", "launch", "poll", "wait"}
Steps == {"new", "queued", "locking", "done"} \cup Inside
Places == {"new", "submit", "collect", "leaving", "aborting", "returned", "raised"}
Statuses == Final \cup {"queued", "running"}

LEMMA TasksAre == Len(Batch) \in Nat /\ Len(Batch) >= 1 /\ Tasks \subseteq Nat \ {0}
<1>1. Len(Batch) \in 1 .. 8
  BY BatchAssumption, Zenon
<1> DEFINE n == Len(Batch)
<1>2. Tasks = 1 .. n /\ n \in 1 .. 8
  BY <1>1 DEF Tasks
<1> HIDE DEF n
<1>3. n \in Nat /\ n >= 1 /\ \A t \in 1 .. n : t \in Nat /\ t # 0
  BY <1>2
<1> QED
  BY <1>2, <1>3 DEF n

Typed ==
    /\ main \in Places
    /\ submitted \in 0 .. Len(Batch)
    /\ step \in [Tasks -> Steps]
    /\ lock \in [LockKeys -> Tasks \cup {0}]
    /\ stop \in BOOLEAN
    /\ events \in Seq(Tasks \X Statuses)
    /\ result \in [Tasks -> Final \cup {None}]

\* A lock belongs to the task that is inside its locked block.
Locked ==
    \A t \in Tasks : (lock[target_lock_key(t)] = t) <=> step[t] \in Inside

\* What the main thread has done, as its place tells it.
Pooled ==
    /\ \A t \in Tasks : step[t] = "new" <=> t > submitted
    /\ main = "new" => submitted = 0
    /\ main \in {"collect", "leaving", "returned"} => submitted = Len(Batch)
    /\ main \in {"returned", "raised"} => \A t \in 1 .. submitted : step[t] = "done"
    /\ main = "leaving" => stop

\* The story of a task as its step tells it.
Story(t) ==
    /\ step[t] = "done" <=> result[t] # None
    /\ step[t] = "new" /\ main = "new" => Tells(t, <<>>)
    /\ step[t] = "new" /\ main # "new" => Tells(t, <<"queued">>)
    /\ step[t] \in {"queued", "locking", "check", "go"} => Tells(t, <<"queued">>)
    /\ step[t] \in {"launch", "poll", "wait"} => Tells(t, <<"queued", "running">>)
    /\ step[t] = "done" =>
          \/ Tells(t, <<"queued", "running", result[t]>>)
          \/ result[t] = "cancelled" /\ Tells(t, <<"queued", "cancelled">>)

BatchOK == Typed /\ Locked /\ Pooled /\ \A t \in Tasks : Story(t)

-----------------------------------------------------------------------------
(***************************************************************************)
(* The stories as the list of events grows.                                *)
(***************************************************************************)
Told(list, t) == {i \in DOMAIN list : list[i][1] = t}
TellsIn(list, t, story) ==
    /\ Cardinality(Told(list, t)) = Len(story)
    /\ \A i \in Told(list, t) :
          list[i][2] = story[Cardinality({j \in Told(list, t) : j <= i})]

LEMMA TellsIs == \A t, story : Tells(t, story) <=> TellsIn(events, t, story)
BY DEF Tells, TellsIn, Told

LEMMA TellsPrime == \A t, story : Tells(t, story)' <=> TellsIn(events', t, story)
BY DEF Tells, TellsIn, Told

LEMMA ToldFinite ==
    ASSUME NEW list \in Seq(Tasks \X Statuses), NEW t
    PROVE  /\ Told(list, t) \subseteq 1 .. Len(list)
           /\ IsFiniteSet(Told(list, t)) /\ Cardinality(Told(list, t)) \in Nat
<1>1. 1 \in Int /\ Len(list) \in Int /\ DOMAIN list = 1 .. Len(list)
  OBVIOUS
<1>2. IsFiniteSet(1 .. Len(list))
  BY <1>1, FS_Interval
<1>3. Told(list, t) \subseteq 1 .. Len(list)
  BY <1>1 DEF Told
<1> QED
  BY <1>2, <1>3, FS_Subset, FS_CardinalityType

\* An event of another task changes nothing.
LEMMA OthersEvent ==
    ASSUME NEW list \in Seq(Tasks \X Statuses), NEW t \in Tasks, NEW u \in Tasks, t # u,
           NEW status \in Statuses, NEW story, TellsIn(list, t, story)
    PROVE  TellsIn(Append(list, <<u, status>>), t, story)
<1> DEFINE longer == Append(list, <<u, status>>)
           n == Len(list)
<1>1. /\ n \in Nat /\ DOMAIN list = 1 .. n /\ DOMAIN longer = 1 .. (n + 1)
      /\ longer[n + 1] = <<u, status>> /\ \A i \in 1 .. n : longer[i] = list[i]
  OBVIOUS
<1> HIDE DEF longer
<1>2. longer[n + 1][1] # t
  BY <1>1
<1>3. Told(longer, t) = Told(list, t)
  <2>1. \A i \in 1 .. (n + 1) : i \in 1 .. n \/ i = n + 1
    BY <1>1
  <2>2. \A i \in 1 .. n : i \in 1 .. (n + 1)
    BY <1>1
  <2> QED
    BY <1>1, <1>2, <2>1, <2>2 DEF Told
<1>4. \A i \in Told(list, t) : longer[i] = list[i]
  BY <1>1 DEF Told
<1> QED
  BY <1>3, <1>4 DEF TellsIn, longer

\* An event of the task is the next one of its story.
LEMMA OwnEvent ==
    ASSUME NEW list \in Seq(Tasks \X Statuses), NEW t \in Tasks, NEW status \in Statuses,
           NEW story \in Seq(Statuses), TellsIn(list, t, story)
    PROVE  TellsIn(Append(list, <<t, status>>), t, Append(story, status))
<1> DEFINE longer == Append(list, <<t, status>>)
           n == Len(list)
           told == Told(list, t)
           more == Append(story, status)
<1>1. /\ n \in Nat /\ DOMAIN list = 1 .. n /\ DOMAIN longer = 1 .. (n + 1)
      /\ longer[n + 1] = <<t, status>> /\ \A i \in 1 .. n : longer[i] = list[i]
  OBVIOUS
<1>2. /\ Len(story) \in Nat /\ Len(more) = Len(story) + 1
      /\ more[Len(story) + 1] = status /\ \A k \in 1 .. Len(story) : more[k] = story[k]
  OBVIOUS
<1>3. told \subseteq 1 .. n /\ IsFiniteSet(told) /\ Cardinality(told) = Len(story)
  BY ToldFinite DEF TellsIn
<1> HIDE DEF longer, more
<1>4. Told(longer, t) = told \cup {n + 1} /\ n + 1 \notin told
  <2>1. \A i \in 1 .. (n + 1) : i \in 1 .. n \/ i = n + 1
    BY <1>1
  <2>2. \A i \in 1 .. n : i \in 1 .. (n + 1) /\ i # n + 1
    BY <1>1
  <2>3. longer[n + 1][1] = t /\ n + 1 \in 1 .. (n + 1)
    BY <1>1
  <2>4. ASSUME NEW i \in Told(longer, t) PROVE i \in told \cup {n + 1}
    BY <1>1, <2>1 DEF Told
  <2>5. ASSUME NEW i \in told PROVE i \in Told(longer, t)
    BY <1>1, <2>2 DEF Told
  <2>6. n + 1 \in Told(longer, t)
    BY <1>1, <2>3 DEF Told
  <2> QED
    BY <1>3, <2>2, <2>4, <2>5, <2>6
<1>5. Cardinality(Told(longer, t)) = Len(more)
  BY <1>2, <1>3, <1>4, FS_AddElement, ZenonT(60)
<1>6. ASSUME NEW i \in told
      PROVE  longer[i][2] = more[Cardinality({j \in Told(longer, t) : j <= i})]
  <2> DEFINE upto == {j \in told : j <= i}
  <2>1. {j \in Told(longer, t) : j <= i} = upto
    <3>1. i \in 1 .. n /\ ~(n + 1 <= i)
      BY <1>1, <1>3
    <3> QED
      BY <1>4, <3>1
  <2>2. Cardinality(upto) \in 1 .. Len(story)
    <3>1. IsFiniteSet(upto) /\ Cardinality(upto) <= Cardinality(told)
      BY <1>3, FS_Subset
    <3>2. i \in upto
      BY <1>1, <1>3
    <3>3. Cardinality(upto) \in Nat /\ Cardinality(upto) # 0
      BY <3>1, <3>2, FS_CardinalityType, FS_EmptySet
    <3> QED
      BY <1>2, <1>3, <3>1, <3>3
  <2>3. list[i][2] = story[Cardinality(upto)] /\ longer[i] = list[i]
    BY <1>1, <1>3 DEF TellsIn
  <2> QED
    BY <1>2, <2>1, <2>2, <2>3
<1>7. longer[n + 1][2] = more[Cardinality({j \in Told(longer, t) : j <= n + 1})]
  <2>1. {j \in Told(longer, t) : j <= n + 1} = Told(longer, t)
    <3>1. \A j \in told : j <= n + 1
      BY <1>1, <1>3
    <3> QED
      BY <1>1, <1>4, <3>1
  <2>2. Cardinality(Told(longer, t)) = Len(story) + 1
    BY <1>2, <1>5
  <2>3. longer[n + 1][2] = status
    BY <1>1
  <2>4. more[Cardinality(Told(longer, t))] = status
    BY <1>2, <2>2
  <2> QED
    BY <2>1, <2>3, <2>4
<1> QED
  BY <1>4, <1>5, <1>6, <1>7 DEF TellsIn, longer, more

\* QueueAll tells the first event of every task.
LEMMA QueuedEvents ==
    ASSUME NEW t \in Tasks
    PROVE  LET list == [u \in Tasks |-> <<u, "queued">>] IN
           list \in Seq(Tasks \X Statuses) /\ TellsIn(list, t, <<"queued">>)
<1> DEFINE list == [u \in Tasks |-> <<u, "queued">>]
<1>1. list \in Seq(Tasks \X Statuses)
  BY TasksAre DEF Tasks, Statuses
<1>2. DOMAIN list = Tasks /\ \A u \in Tasks : list[u] = <<u, "queued">>
  OBVIOUS
<1> HIDE DEF list
<1>3. Told(list, t) = {t}
  BY <1>2 DEF Told
<1>4. {j \in {t} : j <= t} = {t}
  BY TasksAre
<1>5. Cardinality({t}) = 1
  BY FS_Singleton
<1>6. list[t][2] = "queued" /\ <<"queued">>[1] = "queued" /\ Len(<<"queued">>) = 1
  BY <1>2
<1>7. TellsIn(list, t, <<"queued">>)
  BY <1>3, <1>4, <1>5, <1>6 DEF TellsIn
<1> QED
  BY <1>1, <1>7 DEF list

-----------------------------------------------------------------------------
(***************************************************************************)
(* The invariant.                                                          *)
(***************************************************************************)
LEMMA BatchInit == Init => BatchOK
<1> SUFFICES ASSUME Init PROVE BatchOK
  OBVIOUS
<1>1. Typed
  <2>1. main \in Places /\ submitted \in 0 .. Len(Batch) /\ stop \in BOOLEAN
    <3>1. main = "new" /\ submitted = 0 /\ stop = FALSE
      BY DEF Init
    <3>2. 0 \in 0 .. Len(Batch)
      BY TasksAre
    <3> QED
      BY <3>1, <3>2 DEF Places
  <2>2. step \in [Tasks -> Steps] /\ lock \in [LockKeys -> Tasks \cup {0}]
    BY DEF Init, Steps
  <2>3. events \in Seq(Tasks \X Statuses) /\ result \in [Tasks -> Final \cup {None}]
    BY DEF Init
  <2> QED
    BY <2>1, <2>2, <2>3 DEF Typed
<1>2. Locked
  <2> SUFFICES ASSUME NEW t \in Tasks
               PROVE  (lock[target_lock_key(t)] = t) <=> step[t] \in Inside
    BY DEF Locked
  <2>1. target_lock_key(t) \in LockKeys
    BY DEF LockKeys
  <2> QED
    BY <2>1, TasksAre DEF Init, Inside
<1>3. Pooled
  BY TasksAre DEF Init, Pooled
<1>4. ASSUME NEW t \in Tasks PROVE Story(t)
  <2>1. events = <<>> /\ step[t] = "new" /\ main = "new" /\ result[t] = None
    BY DEF Init
  <2>2. Told(events, t) = {} /\ Len(<<>>) = 0
    BY <2>1 DEF Told
  <2>3. Tells(t, <<>>)
    BY <2>2, FS_EmptySet, TellsIs DEF TellsIn
  <2> QED
    BY <2>1, <2>3 DEF Story
<1> QED
  BY <1>1, <1>2, <1>3, <1>4 DEF BatchOK

LEMMA Stories ==
    ASSUME NEW status \in Statuses
    PROVE  /\ <<"queued">> \in Seq(Statuses) /\ <<"queued", "running">> \in Seq(Statuses)
           /\ Append(<<"queued">>, status) = <<"queued", status>>
           /\ Append(<<"queued", "running">>, status) = <<"queued", "running", status>>
<1>1. "queued" \in Statuses /\ "running" \in Statuses
  BY DEF Statuses
<1>2. <<"queued">> \in Seq(Statuses)
  BY <1>1
<1>3. <<"queued", "running">> \in Seq(Statuses)
  BY <1>1
<1>4. Append(<<"queued">>, status) = <<"queued", status>>
  <2>1. <<"queued", status>> \in Seq(Statuses) /\ Append(<<"queued">>, status) \in Seq(Statuses)
    BY <1>1, <1>2
  <2>2. /\ Len(Append(<<"queued">>, status)) = 2 /\ Append(<<"queued">>, status)[1] = "queued"
        /\ Append(<<"queued">>, status)[2] = status
    BY <1>2
  <2>3. /\ Len(<<"queued", status>>) = 2 /\ <<"queued", status>>[1] = "queued"
        /\ <<"queued", status>>[2] = status
    OBVIOUS
  <2>4. \A i \in 1 .. 2 : i = 1 \/ i = 2
    OBVIOUS
  <2> QED
    BY <2>1, <2>2, <2>3, <2>4, SeqEqual
<1>5. Append(<<"queued", "running">>, status) = <<"queued", "running", status>>
  <2> DEFINE old == <<"queued", "running">>
             new == <<"queued", "running", status>>
  <2>1. new \in Seq(Statuses) /\ Append(old, status) \in Seq(Statuses)
    BY <1>1, <1>3
  <2>2. /\ Len(Append(old, status)) = 3 /\ Append(old, status)[1] = "queued"
        /\ Append(old, status)[2] = "running" /\ Append(old, status)[3] = status
    BY <1>3
  <2>3. /\ Len(new) = 3 /\ new[1] = "queued" /\ new[2] = "running" /\ new[3] = status
    OBVIOUS
  <2>4. \A i \in 1 .. 3 : i = 1 \/ i = 2 \/ i = 3
    OBVIOUS
  <2> QED
    BY <2>1, <2>2, <2>3, <2>4, SeqEqual
<1> QED
  BY <1>2, <1>3, <1>4, <1>5

\* A step of a task that emits nothing.
LEMMA SilentStep ==
    ASSUME BatchOK, NEW t \in Tasks, NEW where \in Steps, GoTo(t, where),
           where # "new", where # "done",
           UNCHANGED <<main, events, result>>,
           \/ step[t] \in {"new"} /\ main # "new" /\ where = "queued"
           \/ step[t] \in {"queued", "locking", "check", "go"}
              /\ where \in {"queued", "locking", "check", "go"}
           \/ step[t] \in {"launch", "poll", "wait"} /\ where \in {"launch", "poll", "wait"}
    PROVE  \A u \in Tasks : Story(u)'
<1> SUFFICES ASSUME NEW u \in Tasks PROVE Story(u)'
  OBVIOUS
<1>1. step \in [Tasks -> Steps] /\ Story(u)
  BY DEF BatchOK, Typed
<1>2. /\ u # t => step'[u] = step[u]
      /\ u = t => step'[u] = where
      /\ main' = main /\ events' = events /\ result' = result
  BY <1>1 DEF GoTo
<1>3. \A story : Tells(u, story)' <=> Tells(u, story)
  BY <1>2, TellsIs, TellsPrime
<1> QED
  BY <1>1, <1>2, <1>3, Zenon DEF Story

\* A step of a task that tells its next event.
LEMMA ToldStep ==
    ASSUME BatchOK, NEW t \in Tasks, NEW where \in Steps, NEW status \in Statuses,
           GoTo(t, where), emit(t, status), main' = main,
           result' \in [Tasks -> Final \cup {None}],
           \A u \in Tasks \ {t} : result'[u] = result[u],
           \/ /\ step[t] \in {"check", "go"} /\ where = "launch" /\ status = "running"
              /\ result'[t] = None
           \/ /\ step[t] = "check" /\ where = "done" /\ status = "cancelled"
              /\ result'[t] = status
           \/ /\ step[t] \in {"launch", "poll", "wait"} /\ where = "done"
              /\ status \in Final /\ result'[t] = status
    PROVE  /\ \A u \in Tasks : Story(u)'
           /\ events' \in Seq(Tasks \X Statuses)
<1>1. step \in [Tasks -> Steps] /\ events \in Seq(Tasks \X Statuses)
  BY DEF BatchOK, Typed
<1>2. events' = Append(events, <<t, status>>) /\ <<t, status>> \in Tasks \X Statuses
  BY DEF emit
<1>3. events' \in Seq(Tasks \X Statuses)
  BY <1>1, <1>2
<1>4. ASSUME NEW u \in Tasks, u # t PROVE Story(u)'
  <2>1. Story(u) /\ step'[u] = step[u] /\ result'[u] = result[u] /\ main' = main
    BY <1>1, <1>4 DEF BatchOK, GoTo
  <2>2. \A story : Tells(u, story) => Tells(u, story)'
    BY <1>1, <1>2, <1>4, OthersEvent, TellsIs, TellsPrime, Zenon
  <2> QED
    BY <2>1, <2>2, Zenon DEF Story
<1>5. Story(t)'
  <2>1. Story(t) /\ step'[t] = where
    BY <1>1 DEF BatchOK, GoTo
  <2>2. \A story \in Seq(Statuses) : Tells(t, story) => Tells(t, Append(story, status))'
    BY <1>1, <1>2, OwnEvent, TellsIs, TellsPrime, Zenon
  <2>3. /\ <<"queued">> \in Seq(Statuses) /\ <<"queued", "running">> \in Seq(Statuses)
        /\ Append(<<"queued">>, status) = <<"queued", status>>
        /\ Append(<<"queued", "running">>, status) = <<"queued", "running", status>>
    BY Stories
  <2>4. CASE where = "launch"
    <3>1. step[t] \in {"check", "go"} /\ status = "running" /\ result'[t] = None
      BY <2>4
    <3>2. Tells(t, <<"queued">>)
      BY <2>1, <3>1 DEF Story
    <3>3. Tells(t, <<"queued", "running">>)'
      BY <2>2, <2>3, <3>1, <3>2
    <3> QED
      BY <2>1, <2>4, <3>1, <3>3 DEF Story
  <2>5. CASE where = "done" /\ step[t] = "check"
    <3>1. status = "cancelled" /\ result'[t] = status
      BY <2>5
    <3>2. Tells(t, <<"queued">>)
      BY <2>1, <2>5 DEF Story
    <3>3. Tells(t, <<"queued", "cancelled">>)'
      BY <2>2, <2>3, <3>1, <3>2
    <3> QED
      BY <2>1, <2>5, <3>1, <3>3, BatchAssumption DEF Story, Final
  <2>6. CASE where = "done" /\ step[t] \in {"launch", "poll", "wait"}
    <3>1. status \in Final /\ result'[t] = status /\ result'[t] # None
      BY <2>6, BatchAssumption
    <3>2. Tells(t, <<"queued", "running">>)
      BY <2>1, <2>6 DEF Story
    <3>3. Tells(t, <<"queued", "running", status>>)'
      BY <2>2, <2>3, <3>2
    <3> QED
      BY <2>1, <2>6, <3>1, <3>3 DEF Story
  <2> QED
    BY <2>4, <2>5, <2>6
<1> QED
  BY <1>3, <1>4, <1>5

\* A task that moves outside or inside its locked block leaves the locks right.
LEMMA KeepsLocked ==
    ASSUME BatchOK, NEW t \in Tasks, NEW where \in Steps, GoTo(t, where),
           lock' = lock, step[t] \in Inside <=> where \in Inside
    PROVE  Locked'
BY DEF BatchOK, Typed, Locked, GoTo

\* A task that moves is one that was submitted, in a batch that is not over.
LEMMA KeepsPooled ==
    ASSUME BatchOK, NEW t \in Tasks, NEW where \in Steps, GoTo(t, where),
           where # "new", step[t] \notin {"new", "done"},
           UNCHANGED <<main, submitted, stop>>
    PROVE  Pooled'
<1>1. step \in [Tasks -> Steps] /\ Pooled /\ submitted \in 0 .. Len(Batch)
  BY DEF BatchOK, Typed
<1>2. step'[t] = where /\ \A u \in Tasks : u # t => step'[u] = step[u]
  BY <1>1 DEF GoTo
<1>3. t \in 1 .. submitted
  BY <1>1, TasksAre DEF Pooled, Tasks
<1>4. main \notin {"returned", "raised"}
  BY <1>1, <1>3 DEF Pooled
<1> QED
  BY <1>1, <1>2, <1>4 DEF Pooled

\* The end of a locked block.
LEMMA FinishOK ==
    ASSUME BatchOK, NEW t \in Tasks, NEW status \in Final, Finish(t, status),
           step[t] \in Inside \ {"go"}, step[t] = "check" => status = "cancelled",
           UNCHANGED <<main, submitted, stop>>
    PROVE  BatchOK'
<1>1. /\ Typed /\ Locked /\ target_lock_key(t) \in LockKeys
      /\ \A u \in Tasks : target_lock_key(u) \in LockKeys
  BY DEF BatchOK, LockKeys
<1>2. /\ GoTo(t, "done") /\ emit(t, status) /\ "done" \in Steps /\ status \in Statuses
      /\ lock' = [lock EXCEPT ![target_lock_key(t)] = 0]
      /\ result' = [result EXCEPT ![t] = status]
  BY DEF Finish, Steps, Statuses
<1>3. result' \in [Tasks -> Final \cup {None}] /\ result'[t] = status
      /\ \A u \in Tasks \ {t} : result'[u] = result[u]
  BY <1>1, <1>2 DEF Typed
<1>4. step[t] = "check" \/ step[t] \in {"launch", "poll", "wait"}
  BY DEF Inside
<1>5. (\A u \in Tasks : Story(u)') /\ events' \in Seq(Tasks \X Statuses)
  BY <1>2, <1>3, <1>4, ToldStep
<1>6. step' \in [Tasks -> Steps] /\ lock' \in [LockKeys -> Tasks \cup {0}]
  BY <1>1, <1>2 DEF Typed, GoTo
<1>7. Typed'
  BY <1>1, <1>3, <1>5, <1>6 DEF Typed
<1>8. Locked'
  <2> SUFFICES ASSUME NEW u \in Tasks
               PROVE  (lock'[target_lock_key(u)] = u) <=> step'[u] \in Inside
    BY DEF Locked, target_lock_key
  <2>1. step'[t] = "done" /\ \A v \in Tasks : v # t => step'[v] = step[v]
    BY <1>1, <1>2 DEF Typed, GoTo
  <2>2. lock[target_lock_key(t)] = t /\ t # 0 /\ u # 0
    BY <1>1, TasksAre DEF Locked
  <2>3. CASE target_lock_key(u) = target_lock_key(t)
    <3>1. lock'[target_lock_key(u)] = 0
      BY <1>1, <1>2, <2>3 DEF Typed
    <3>2. u # t => ~(step[u] \in Inside)
      BY <1>1, <2>2, <2>3 DEF Locked
    <3> QED
      BY <2>1, <2>2, <3>1, <3>2 DEF Inside
  <2>4. CASE target_lock_key(u) # target_lock_key(t)
    <3>1. lock'[target_lock_key(u)] = lock[target_lock_key(u)] /\ u # t
      BY <1>1, <1>2, <2>4 DEF Typed
    <3> QED
      BY <1>1, <2>1, <3>1 DEF Locked
  <2> QED
    BY <2>3, <2>4
<1>9. Pooled'
  BY <1>2, <1>4, KeepsPooled
<1> QED
  BY <1>5, <1>7, <1>8, <1>9 DEF BatchOK

-----------------------------------------------------------------------------
(***************************************************************************)
(* The steps.                                                              *)
(***************************************************************************)
\* The main thread's steps leave the tasks' stories alone, except the first one.
LEMMA MainSteps ==
    ASSUME BatchOK, QueueAll \/ Submit \/ Interrupt \/ Leave \/ CancelRequested
    PROVE  BatchOK'
<1>1. Typed /\ Locked /\ Pooled /\ \A t \in Tasks : Story(t)
  BY DEF BatchOK
<1>2. CASE QueueAll
  <2>1. /\ main = "new" /\ main' = "submit" /\ events' = [t \in Tasks |-> <<t, "queued">>]
        /\ submitted' = submitted /\ step' = step /\ lock' = lock /\ stop' = stop
        /\ result' = result
    BY <1>2 DEF QueueAll
  <2>2. \A t \in Tasks : step[t] = "new"
    BY <1>1, <2>1, TasksAre DEF Pooled
  <2>3. events' \in Seq(Tasks \X Statuses)
    <3>1. 1 \in Tasks
      BY TasksAre DEF Tasks
    <3> QED
      BY <2>1, <3>1, QueuedEvents
  <2>4. Typed'
    BY <1>1, <2>1, <2>3 DEF Typed, Places
  <2>5. Locked'
    BY <1>1, <2>1 DEF Locked, target_lock_key
  <2>6. Pooled'
    BY <1>1, <2>1 DEF Pooled
  <2>7. ASSUME NEW t \in Tasks PROVE Story(t)'
    <3>1. Tells(t, <<"queued">>)'
      BY <2>1, QueuedEvents, TellsPrime
    <3>2. step'[t] = "new" /\ main' # "new" /\ result'[t] = result[t]
          /\ (step[t] = "done" <=> result[t] # None)
      BY <1>1, <2>1, <2>2 DEF Story
    <3> QED
      BY <2>1, <2>2, <3>1, <3>2 DEF Story
  <2> QED
    BY <2>4, <2>5, <2>6, <2>7 DEF BatchOK
<1>3. CASE Submit
  <2>1. main = "submit" /\ UNCHANGED <<lock, stop, events, result>>
    BY <1>3 DEF Submit
  <2>2. CASE submitted < Len(Batch)
    <3> DEFINE t == submitted + 1
    <3>1. submitted' = t /\ GoTo(t, "queued") /\ main' = main
      BY <1>3, <2>2 DEF Submit
    <3>2. submitted \in Nat /\ t \in Tasks /\ t \in 0 .. Len(Batch) /\ t > submitted
      BY <1>1, <2>2, TasksAre DEF Typed, Tasks
    <3> HIDE DEF t
    <3>3. step[t] = "new"
      BY <1>1, <3>2 DEF Pooled
    <3>4. /\ step' \in [Tasks -> Steps] /\ step'[t] = "queued"
          /\ \A u \in Tasks : u # t => step'[u] = step[u]
      BY <1>1, <3>1, <3>2 DEF Typed, GoTo, Steps
    <3>5. Typed'
      BY <1>1, <2>1, <3>1, <3>2, <3>4 DEF Typed
    <3>6. Locked'
      BY <2>1, <3>1, <3>2, <3>3, KeepsLocked DEF Inside, Steps
    <3>7. Pooled'
      <4>1. ASSUME NEW u \in Tasks PROVE step'[u] = "new" <=> u > submitted'
        <5>1. u \in Nat /\ (step[u] = "new" <=> u > submitted)
          BY <1>1, TasksAre DEF Pooled
        <5>2. u # t => (u > submitted <=> u > t)
          BY <3>2, <5>1 DEF t
        <5> QED
          BY <3>1, <3>2, <3>4, <5>1, <5>2
      <4> QED
        BY <2>1, <3>1, <4>1 DEF Pooled
    <3>8. \A u \in Tasks : Story(u)'
      <4>1. main # "new" /\ "queued" \in Steps /\ UNCHANGED <<main, events, result>>
        BY <2>1, <3>1 DEF Steps
      <4> QED
        BY <3>1, <3>2, <3>3, <4>1, SilentStep
    <3> QED
      BY <3>5, <3>6, <3>7, <3>8 DEF BatchOK
  <2>3. CASE ~(submitted < Len(Batch))
    <3>1. main' = "collect" /\ submitted' = submitted /\ step' = step
      BY <1>3, <2>3 DEF Submit
    <3>2. submitted = Len(Batch)
      BY <1>1, <2>3, TasksAre DEF Typed
    <3>3. Typed'
      BY <1>1, <2>1, <3>1 DEF Typed, Places
    <3>4. Locked'
      BY <1>1, <2>1, <3>1 DEF Locked, target_lock_key
    <3>5. Pooled'
      BY <1>1, <2>1, <3>1, <3>2 DEF Pooled
    <3>6. \A t \in Tasks : Story(t)'
      BY <1>1, <2>1, <3>1, TellsIs, TellsPrime, Zenon DEF Story
    <3> QED
      BY <3>3, <3>4, <3>5, <3>6 DEF BatchOK
  <2> QED
    BY <2>2, <2>3
<1>4. CASE Interrupt \/ Leave \/ CancelRequested
  <2>1. /\ submitted' = submitted /\ step' = step /\ lock' = lock
        /\ events' = events /\ result' = result
    BY <1>4 DEF Interrupt, Leave, CancelRequested
  <2>2. main # "new" /\ main' # "new" /\ main' \in Places /\ stop' \in BOOLEAN
    BY <1>1, <1>4 DEF Interrupt, Leave, CancelRequested, Places, Typed
  <2>3. Pooled'
    BY <1>1, <1>4, <2>1 DEF Pooled, Interrupt, Leave, CancelRequested
  <2>4. Typed'
    BY <1>1, <2>1, <2>2 DEF Typed
  <2>5. Locked'
    BY <1>1, <2>1 DEF Locked, target_lock_key
  <2>6. \A t \in Tasks : Story(t)'
    BY <1>1, <2>1, <2>2, TellsIs, TellsPrime, Zenon DEF Story
  <2> QED
    BY <2>3, <2>4, <2>5, <2>6 DEF BatchOK
<1> QED
  BY <1>2, <1>3, <1>4

\* A move of a task that emits nothing and leaves the locks alone.
LEMMA QuietMove ==
    ASSUME BatchOK, NEW t \in Tasks, NEW where \in Steps, GoTo(t, where),
           \/ step[t] = "queued" /\ where = "locking"
           \/ step[t] = "check" /\ where = "go"
           \/ step[t] \in {"launch", "poll", "wait"} /\ where \in {"launch", "poll", "wait"},
           UNCHANGED <<main, submitted, stop, lock, events, result>>
    PROVE  BatchOK'
<1>1. Typed /\ step' \in [Tasks -> Steps]
  BY DEF BatchOK, Typed, GoTo
<1>2. Typed'
  BY <1>1 DEF Typed
<1>3. Locked'
  BY KeepsLocked DEF Inside
<1>4. Pooled'
  BY KeepsPooled
<1>5. \A u \in Tasks : Story(u)'
  BY SilentStep
<1> QED
  BY <1>2, <1>3, <1>4, <1>5 DEF BatchOK

LEMMA AcquireOK ==
    ASSUME BatchOK, NEW t \in Tasks, Acquire(t)
    PROVE  BatchOK'
<1>1. /\ Typed /\ Locked /\ target_lock_key(t) \in LockKeys
      /\ \A u \in Tasks : target_lock_key(u) \in LockKeys
  BY DEF BatchOK, LockKeys
<1>2. /\ step[t] = "locking" /\ lock[target_lock_key(t)] = 0 /\ GoTo(t, "check")
      /\ lock' = [lock EXCEPT ![target_lock_key(t)] = t] /\ "check" \in Steps
      /\ UNCHANGED <<main, submitted, stop, events, result>>
  BY DEF Acquire, Steps, Inside
<1>3. step' \in [Tasks -> Steps] /\ lock' \in [LockKeys -> Tasks \cup {0}]
  BY <1>1, <1>2 DEF Typed, GoTo
<1>4. Typed'
  BY <1>1, <1>2, <1>3 DEF Typed
<1>5. Locked'
  <2> SUFFICES ASSUME NEW u \in Tasks
               PROVE  (lock'[target_lock_key(u)] = u) <=> step'[u] \in Inside
    BY DEF Locked, target_lock_key
  <2>1. step'[t] = "check" /\ \A v \in Tasks : v # t => step'[v] = step[v]
    BY <1>1, <1>2 DEF Typed, GoTo
  <2>2. CASE target_lock_key(u) = target_lock_key(t)
    <3>1. lock'[target_lock_key(u)] = t
      BY <1>1, <1>2, <2>2 DEF Typed
    <3>2. ~(step[u] \in Inside)
      BY <1>1, <1>2, <2>2, TasksAre DEF Locked
    <3> QED
      BY <2>1, <3>1, <3>2 DEF Inside
  <2>3. CASE target_lock_key(u) # target_lock_key(t)
    <3>1. lock'[target_lock_key(u)] = lock[target_lock_key(u)] /\ u # t
      BY <1>1, <1>2, <2>3 DEF Typed
    <3> QED
      BY <1>1, <2>1, <3>1 DEF Locked
  <2> QED
    BY <2>2, <2>3
<1>6. Pooled'
  BY <1>2, KeepsPooled
<1>7. \A u \in Tasks : Story(u)'
  BY <1>2, SilentStep
<1> QED
  BY <1>4, <1>5, <1>6, <1>7 DEF BatchOK

LEMMA EmitRunningOK ==
    ASSUME BatchOK, NEW t \in Tasks, EmitRunning(t)
    PROVE  BatchOK'
<1>1. /\ Typed /\ step[t] = "go" /\ GoTo(t, "launch") /\ emit(t, "running")
      /\ main' = main /\ submitted' = submitted /\ lock' = lock /\ stop' = stop
      /\ result' = result /\ "launch" \in Steps /\ "running" \in Statuses
  BY DEF BatchOK, EmitRunning, Steps, Inside, Statuses
<1>2. result' \in [Tasks -> Final \cup {None}] /\ step' \in [Tasks -> Steps]
  BY <1>1 DEF Typed, GoTo
<1>3. result'[t] = None
  BY <1>1 DEF BatchOK, Story
<1>4. (\A u \in Tasks : Story(u)') /\ events' \in Seq(Tasks \X Statuses)
  BY <1>1, <1>2, <1>3, ToldStep
<1>5. Typed'
  BY <1>1, <1>2, <1>4 DEF Typed
<1>6. Locked'
  BY <1>1, KeepsLocked DEF Inside
<1>7. Pooled'
  BY <1>1, KeepsPooled
<1> QED
  BY <1>4, <1>5, <1>6, <1>7 DEF BatchOK

LEMMA BatchStep == BatchOK /\ [Next]_vars => BatchOK'
<1> SUFFICES ASSUME BatchOK, [Next]_vars PROVE BatchOK'
  OBVIOUS
<1>1. CASE UNCHANGED vars
  <2>1. /\ main' = main /\ submitted' = submitted /\ step' = step /\ lock' = lock
        /\ stop' = stop /\ events' = events /\ result' = result
    BY <1>1 DEF vars
  <2>2. Typed' /\ Pooled' /\ Locked'
    BY <2>1 DEF BatchOK, Typed, Pooled, Locked, target_lock_key
  <2>3. \A t \in Tasks : Story(t)'
    BY <2>1, TellsIs, TellsPrime, Zenon DEF BatchOK, Story
  <2> QED
    BY <2>2, <2>3 DEF BatchOK
<1>2. CASE QueueAll \/ Submit \/ Interrupt \/ Leave \/ CancelRequested
  BY <1>2, MainSteps
<1>3. CASE Over
  BY <1>1, <1>3 DEF Over
<1>4. ASSUME NEW t \in Tasks, ThreadStep(t) PROVE BatchOK'
  <2>1. CASE Take(t)
    BY <2>1, QuietMove DEF Take, Steps
  <2>2. CASE Acquire(t)
    BY <2>2, AcquireOK
  <2>3. CASE CheckStop(t)
    <3>1. CASE stop
      <4>1. Finish(t, "cancelled") /\ "cancelled" \in Final /\ step[t] = "check"
            /\ UNCHANGED <<main, submitted, stop>>
        BY <2>3, <3>1 DEF CheckStop, Final
      <4> QED
        BY <4>1, FinishOK DEF Inside
    <3>2. CASE ~stop
      BY <2>3, <3>2, QuietMove DEF CheckStop, Steps, Inside
    <3> QED
      BY <3>1, <3>2
  <2>4. CASE EmitRunning(t)
    BY <2>4, EmitRunningOK
  <2>5. CASE Launch(t)
    <3>1. ASSUME NEW status \in {"blocked", "failed"}, Finish(t, status) PROVE BatchOK'
      <4>1. status \in Final /\ step[t] = "launch" /\ UNCHANGED <<main, submitted, stop>>
        BY <2>5 DEF Launch, Final
      <4> QED
        BY <3>1, <4>1, FinishOK DEF Inside
    <3>2. CASE GoTo(t, "poll") /\ UNCHANGED <<lock, events, result>>
      BY <2>5, <3>2, QuietMove DEF Launch, Steps, Inside
    <3> QED
      BY <2>5, <3>1, <3>2 DEF Launch
  <2>6. CASE PollStop(t)
    <3>1. CASE stop
      <4>1. Finish(t, "cancelled") /\ "cancelled" \in Final /\ step[t] = "poll"
            /\ UNCHANGED <<main, submitted, stop>>
        BY <2>6, <3>1 DEF PollStop, Final
      <4> QED
        BY <4>1, FinishOK DEF Inside
    <3>2. CASE ~stop
      BY <2>6, <3>2, QuietMove DEF PollStop, Steps, Inside
    <3> QED
      BY <3>1, <3>2
  <2>7. CASE Wait(t)
    <3>1. ASSUME NEW status \in Final \ {"cancelled"}, Finish(t, status) PROVE BatchOK'
      <4>1. status \in Final /\ step[t] = "wait" /\ UNCHANGED <<main, submitted, stop>>
        BY <2>7 DEF Wait
      <4> QED
        BY <3>1, <4>1, FinishOK DEF Inside
    <3>2. CASE GoTo(t, "poll") /\ UNCHANGED <<lock, events, result>>
      BY <2>7, <3>2, QuietMove DEF Wait, Steps, Inside
    <3> QED
      BY <2>7, <3>1, <3>2 DEF Wait
  <2> QED
    BY <1>4, <2>1, <2>2, <2>3, <2>4, <2>5, <2>6, <2>7 DEF ThreadStep
<1> QED
  BY <1>1, <1>2, <1>3, <1>4 DEF Next

-----------------------------------------------------------------------------
(***************************************************************************)
(* What the batch promises.                                                *)
(***************************************************************************)
LEMMA Serialized == BatchOK => HostsAreSerialized
<1> SUFFICES ASSUME BatchOK PROVE HostsAreSerialized
  OBVIOUS
<1>1. TypeOK
  <2>1. Typed /\ Locked
    BY DEF BatchOK
  <2>2. \A t \in Tasks : (lock[target_lock_key(t)] = t) =
                           (step[t] \in {"check", "go", "launch", "poll", "wait"})
    BY <2>1 DEF Locked, Inside
  <2>3. step \in [Tasks -> {"new", "queued", "locking", "check", "go", "launch", "poll",
                            "wait", "done"}]
    BY <2>1 DEF Typed, Steps, Inside
  <2> QED
    BY <2>1, <2>2, <2>3 DEF TypeOK, Typed, Places, Statuses
<1>2. ASSUME NEW t \in Tasks, NEW u \in Tasks, SameHost(t, u)
      PROVE  target_lock_key(t) = target_lock_key(u)
  <2>1. \A v \in Tasks : Batch[v].target \in Origins <=> Batch[v].kind = "nuclei"
    BY BatchAssumption
  <2> QED
    BY <1>2, <2>1 DEF SameHost, target_lock_key
<1>3. ASSUME NEW t \in Running, NEW u \in Running, SameHost(t, u) PROVE t = u
  <2>1. lock[target_lock_key(t)] = t /\ lock[target_lock_key(u)] = u
    BY DEF BatchOK, Locked, Running, Inside
  <2>2. target_lock_key(t) = target_lock_key(u)
    BY <1>2, <1>3 DEF Running
  <2> QED
    BY <2>1, <2>2
<1> QED
  BY <1>1, <1>3 DEF HostsAreSerialized

LEMMA StoriesTold == BatchOK => EventsTellTheTasks
<1> SUFFICES ASSUME BatchOK, NEW t \in Tasks
             PROVE  IF result[t] = None
                    THEN /\ main # "returned"
                         /\ \E story \in {<<>>, <<"queued">>, <<"queued", "running">>} :
                               Tells(t, story)
                    ELSE \/ Tells(t, <<"queued", "running", result[t]>>)
                         \/ result[t] = "cancelled" /\ Tells(t, <<"queued", "cancelled">>)
  BY DEF EventsTellTheTasks
<1>1. Story(t) /\ step[t] \in Steps
  BY DEF BatchOK, Typed
<1>2. main = "returned" => step[t] = "done"
  <2>1. main = "returned" => t \in 1 .. submitted
    BY TasksAre DEF BatchOK, Pooled, Tasks
  <2> QED
    BY <2>1 DEF BatchOK, Pooled
<1>3. CASE step[t] = "done"
  BY <1>1, <1>3 DEF Story
<1>4. CASE step[t] # "done"
  <2>1. Tells(t, <<>>) \/ Tells(t, <<"queued">>) \/ Tells(t, <<"queued", "running">>)
    BY <1>1, <1>4, Zenon DEF Story, Steps, Inside
  <2>2. result[t] = None
    BY <1>1, <1>4 DEF Story
  <2> QED
    BY <1>2, <1>4, <2>1, <2>2
<1> QED
  BY <1>3, <1>4

\* run_governed_assessment_batch never lets two tools work on one host of an
\* engagement at once, and its events tell each task's story in order and as the
\* results have it.
THEOREM BatchOrdered == Spec => []BatchKeepsOrder
<1>1. BatchOK => BatchKeepsOrder
  BY Serialized, StoriesTold DEF BatchKeepsOrder
<1> QED
  BY <1>1, BatchInit, BatchStep, PTL DEF Spec

\* After the event is set, or Ctrl-C was caught, a task that is not in the middle
\* of a poll can no longer succeed.
THEOREM CancelledIsFinal == Spec => CancelledTaskNeverSucceeds
<1> SUFFICES ASSUME NEW t \in Tasks
             PROVE  Spec => []((stop \/ main = "leaving") /\ result[t] = None /\ step[t] # "wait"
                                 => [](result[t] # "succeeded"))
  BY DEF CancelledTaskNeverSucceeds
<1> DEFINE Doomed == stop /\ step[t] # "wait" /\ result[t] # "succeeded"
           Due == (stop \/ main = "leaving") /\ result[t] = None /\ step[t] # "wait"
           Spared == result[t] # "succeeded"
<1>1. BatchOK /\ Due => Doomed
  BY BatchAssumption DEF BatchOK, Pooled, Final
<1>2. BatchOK /\ Doomed /\ [Next]_vars => Doomed'
  <2> SUFFICES ASSUME BatchOK, Doomed, [Next]_vars PROVE Doomed'
    OBVIOUS
  <2>1. Typed
    BY DEF BatchOK
  <2>2. CASE UNCHANGED vars
    BY <2>2 DEF vars
  <2>3. CASE QueueAll \/ Interrupt \/ Leave \/ CancelRequested \/ Over
    BY <2>3 DEF QueueAll, Interrupt, Leave, CancelRequested, Over, vars
  <2>4. CASE Submit
    BY <2>1, <2>4 DEF Submit, GoTo, Typed
  <2>5. ASSUME NEW u \in Tasks, ThreadStep(u) PROVE Doomed'
    <3>1. stop' = stop
      BY <2>5 DEF ThreadStep, Take, Acquire, CheckStop, EmitRunning, Launch, PollStop, Wait
    <3>2. CASE u = t
      <4>1. step[t] # "wait" /\ stop
        OBVIOUS
      <4>2. \/ UNCHANGED result \/ \E status \in {"cancelled", "blocked", "failed"} : Finish(t, status)
        BY <2>5, <3>2, <4>1 DEF ThreadStep, Take, Acquire, CheckStop, EmitRunning, Launch,
             PollStop, Wait
      <4>3. \E where \in {"locking", "check", "go", "launch", "poll", "done"} : GoTo(t, where)
        BY <2>5, <3>2, <4>1 DEF ThreadStep, Take, Acquire, CheckStop, EmitRunning, Launch,
             PollStop, Wait, Finish
      <4>4. result'[t] # "succeeded"
        BY <2>1, <4>2 DEF Finish, Typed
      <4>5. step'[t] # "wait"
        BY <2>1, <4>3 DEF GoTo, Typed
      <4> QED
        BY <3>1, <4>4, <4>5
    <3>3. CASE u # t
      <4>1. result'[t] = result[t]
        BY <2>1, <2>5, <3>3 DEF ThreadStep, Take, Acquire, CheckStop, EmitRunning, Launch,
             PollStop, Wait, Finish, Typed
      <4>2. step'[t] = step[t]
        BY <2>1, <2>5, <3>3 DEF ThreadStep, Take, Acquire, CheckStop, EmitRunning, Launch,
             PollStop, Wait, Finish, Typed, GoTo
      <4> QED
        BY <3>1, <4>1, <4>2
    <3> QED
      BY <3>2, <3>3
  <2> QED
    BY <2>2, <2>3, <2>4, <2>5 DEF Next
<1>3. Doomed => Spared
  OBVIOUS
<1> HIDE DEF Doomed, Due, Spared
<1>4. Spec => [](Due => []Spared)
  BY <1>1, <1>2, <1>3, BatchInit, BatchStep, PTL DEF Spec
<1> QED
  BY <1>4 DEF Due, Spared

=============================================================================
