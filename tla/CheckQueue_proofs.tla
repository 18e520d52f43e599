-------------------------- MODULE CheckQueue_proofs --------------------------
(***************************************************************************)
(* Proofs about CheckQueue, for any number of workers and checks, every    *)
(* batch size and every interleaving: the queue is finished when Wait      *)
(* returns, its answer is exact, and no thread sleeps with nobody left to  *)
(* wake it.                                                                *)
(***************************************************************************)
EXTENDS CheckQueue, FiniteSetTheorems, TLAPS

\* That all checks of a sequence hold.
AllOk(checks) == \A i \in DOMAIN checks : checks[i]

\* The checks of held[t] for every thread t, one pair for each.
Pairs(held) == {p \in Threads \X Nat : p[2] \in 1..held[p[1]]}

HeldBy == [t \in Threads |-> Held(t)]
Sleepers == {t \in Threads : Where(t) \in {"wait", "woken"}}

\* The master has counted itself in nTotal.
MasterCounted ==
    \/ Where(Master) \in {"wait", "woken", "work"}
    \/ Where(Master) = "loop" /\ thread[Master].now # 0

ThreadState == [at : {"off", "control", "loop", "wait", "woken", "work"},
                batch : Seq(BOOLEAN), now : Nat, ok : BOOLEAN]

QTypeOK ==
    /\ queue \in Seq(BOOLEAN) /\ added \in Seq(BOOLEAN)
    /\ nTodo \in Int /\ nIdle \in Int /\ nTotal \in Int
    /\ fAllOk \in BOOLEAN /\ stop \in BOOLEAN
    /\ thread \in [Threads -> ThreadState]
    /\ notify \in {"none", "one", "all"}
    /\ answer \in {<<>>, <<TRUE>>, <<FALSE>>}
    /\ blocks \in Nat

\* A thread has checks and results only from the time it takes a batch to the
\* time it reports it.
Clean ==
    \A t \in Threads :
        /\ Where(t) \in {"off", "control", "wait", "woken"} =>
              thread[t].now = 0 /\ thread[t].batch = <<>> /\ thread[t].ok
        /\ Where(t) = "loop" =>
              thread[t].batch = <<>> /\ (thread[t].now = 0 => thread[t].ok)
        /\ Where(t) = "work" => thread[t].now # 0

\* nTodo counts the checks that are queued or held, nIdle those who sleep, and
\* nTotal at least the master while it is in Loop.
Counted ==
    /\ IsFiniteSet(Pairs(HeldBy))
    /\ nTodo = Len(queue) + Cardinality(Pairs(HeldBy))
    /\ nIdle = Cardinality(Sleepers)
    /\ nTotal >= IF MasterCounted THEN 1 ELSE 0

\* What the master would answer if all the work were reported now.
Good ==
    fAllOk /\ AllOk(queue) /\ \A t \in Threads : thread[t].ok /\ AllOk(thread[t].batch)

\* Between blocks nothing is left and the status is TRUE; during a block the
\* status, the queue and the threads together know whether a check has failed.
Answered ==
    /\ Where(Master) = "off" => queue = <<>> /\ nTodo = 0 /\ fAllOk
    /\ Where(Master) # "off" => answer = <<>> /\ (Good <=> AllOk(added))
    /\ answer # <<>> => (answer[1] <=> AllOk(added))

\* A waiting master leaves an empty queue to the threads that still hold checks,
\* and nobody waits once the workers are told to stop.
Awaited ==
    /\ Where(Master) = "wait" => queue = <<>> /\ nTodo # 0
    /\ stop => Where(Master) = "off" /\ \A t \in Threads : Where(t) # "wait"

QInv == QTypeOK /\ Clean /\ Counted /\ Answered /\ Awaited

-----------------------------------------------------------------------------
\* The pairs of one thread are as many as it holds.
LEMMA PairsOfOne ==
    ASSUME NEW t, NEW n \in Nat
    PROVE  LET one == {p \in {t} \X Nat : p[2] \in 1..n}
           IN  IsFiniteSet(one) /\ Cardinality(one) = n
<1> DEFINE one == {p \in {t} \X Nat : p[2] \in 1..n}
           f == [i \in 1..n |-> <<t, i>>]
<1>1. f \in Bijection(1..n, one)
  <2>1. \A i \in 1..n : f[i] = <<t, i>> /\ <<t, i>> \in one
    OBVIOUS
  <2>2. f \in Injection(1..n, one)
    <3>1. f \in [1..n -> one]
      BY <2>1
    <3>2. \A i, j \in 1..n : f[i] = f[j] => i = j
      BY <2>1
    <3> HIDE DEF f, one
    <3> QED BY <3>1, <3>2 DEF Injection, IsInjective
  <2>3. \A p \in one : p[2] \in 1..n /\ p = <<t, p[2]>>
    OBVIOUS
  <2>4. f \in Surjection(1..n, one)
    <3> HIDE DEF one
    <3> QED BY <2>1, <2>3 DEF Surjection
  <2> QED BY <2>2, <2>4 DEF Bijection
<1>2. ExistsBijection(1..n, one)
  BY <1>1 DEF ExistsBijection
<1>3. IsFiniteSet(1..n) /\ Cardinality(1..n) = n
  BY FS_Interval
<1> HIDE DEF one
<1>4. IsFiniteSet(one) /\ Cardinality(one) = n
  BY <1>2, <1>3, FS_Bijection
<1> QED BY <1>4 DEF one

\* What one thread takes or reports changes the number of held checks by as much.
LEMMA HeldChange ==
    ASSUME NEW h \in [Threads -> Nat], IsFiniteSet(Pairs(h)), NEW t \in Threads, NEW n \in Nat,
           NEW g, g = [h EXCEPT ![t] = n]
    PROVE  /\ IsFiniteSet(Pairs(g))
           /\ Cardinality(Pairs(g)) = Cardinality(Pairs(h)) - h[t] + n
           /\ Cardinality(Pairs(g)) \in Nat
<1> DEFINE old == {p \in {t} \X Nat : p[2] \in 1..h[t]}
           new == {p \in {t} \X Nat : p[2] \in 1..n}
           rest == Pairs(h) \ old
<1>1. /\ Pairs(h) = rest \cup old /\ rest \cap old = {}
      /\ Pairs(g) = rest \cup new /\ rest \cap new = {}
      /\ h[t] \in Nat
  BY DEF Pairs
<1>2. /\ IsFiniteSet(old) /\ Cardinality(old) = h[t]
      /\ IsFiniteSet(new) /\ Cardinality(new) = n
  <2>1. h[t] \in Nat
    OBVIOUS
  <2>2. IsFiniteSet(old) /\ Cardinality(old) = h[t]
    BY <2>1, PairsOfOne, Zenon
  <2>3. IsFiniteSet(new) /\ Cardinality(new) = n
    BY PairsOfOne, Zenon
  <2> QED BY <2>2, <2>3
<1>3. IsFiniteSet(rest)
  BY FS_Difference
<1> HIDE DEF old, new, rest
<1>4. Cardinality(rest) \in Nat
  BY <1>3, FS_CardinalityType
<1>5. /\ IsFiniteSet(rest \cup new)
      /\ Cardinality(rest \cup new) = Cardinality(rest) + n - Cardinality(rest \cap new)
  BY <1>2, <1>3, FS_Union
<1>6. Cardinality(rest \cup old) =
         Cardinality(rest) + h[t] - Cardinality(rest \cap old)
  BY <1>2, <1>3, FS_Union
<1>7. Cardinality({}) = 0
  BY FS_EmptySet
<1>8. /\ Cardinality(Pairs(g)) = Cardinality(rest) + n
      /\ Cardinality(Pairs(h)) = Cardinality(rest) + h[t]
  BY ONLY <1>1, <1>2, <1>4, <1>5, <1>6, <1>7, n \in Nat
<1> QED BY ONLY <1>1, <1>4, <1>5, <1>8, n \in Nat

\* Nothing is held exactly if no thread holds anything.
LEMMA NothingHeld ==
    ASSUME NEW h \in [Threads -> Nat], IsFiniteSet(Pairs(h))
    PROVE  /\ Cardinality(Pairs(h)) \in Nat
           /\ Cardinality(Pairs(h)) = 0 <=> \A t \in Threads : h[t] = 0
<1>1. Pairs(h) = {} <=> \A t \in Threads : h[t] = 0
  <2>1. ASSUME NEW t \in Threads, h[t] # 0 PROVE <<t, 1>> \in Pairs(h)
    BY <2>1 DEF Pairs
  <2>2. ASSUME NEW p \in Pairs(h) PROVE p[1] \in Threads /\ h[p[1]] # 0
    BY <2>2 DEF Pairs
  <2> QED BY <2>1, <2>2
<1> QED BY <1>1, FS_EmptySet, FS_CardinalityType

\* One thread that falls asleep or wakes up changes nIdle by one.
LEMMA SleepersChange ==
    ASSUME NEW S \in SUBSET Threads, NEW T \in SUBSET Threads, NEW t \in Threads,
           \A u \in Threads \ {t} : u \in S <=> u \in T
    PROVE  /\ Cardinality(S) \in Nat
           /\ t \in S => Cardinality(S) >= 1
           /\ Cardinality(T) = Cardinality(S) - (IF t \in S THEN 1 ELSE 0)
                                              + (IF t \in T THEN 1 ELSE 0)
<1>1. IsFiniteSet(Threads)
  BY ThreadsAssumption, FS_AddElement DEF Threads
<1>2. IsFiniteSet(S) /\ IsFiniteSet(T) /\ IsFiniteSet(S \ {t})
  BY <1>1, FS_Subset
<1>3. Cardinality(S) \in Nat /\ Cardinality(T) \in Nat /\ Cardinality(S \ {t}) \in Nat
  BY <1>2, FS_CardinalityType
<1>4. S \ {t} = T \ {t}
  OBVIOUS
<1>5. Cardinality(S \ {t}) = IF t \in S THEN Cardinality(S) - 1 ELSE Cardinality(S)
  BY <1>2, FS_RemoveElement
<1>6. Cardinality(T \ {t}) = IF t \in T THEN Cardinality(T) - 1 ELSE Cardinality(T)
  BY <1>2, FS_RemoveElement
<1> QED BY <1>3, <1>4, <1>5, <1>6

-----------------------------------------------------------------------------
\* A batch is not empty, and not larger than the queue.
LEMMA BatchRange ==
    ASSUME NEW size \in Nat \ {0}, NEW total \in Nat, NEW idle \in Nat
    PROVE  BatchOf(size, total, idle) \in 1..size
<1> DEFINE share == size \div (total + idle + 1)
<1>1. share \in Nat /\ share <= size
  BY Z3
<1> QED BY <1>1, SizesAssumption DEF BatchOf

\* Checks that are added, and a batch from the end of the queue.
LEMMA AllOkConcat ==
    ASSUME NEW s \in Seq(BOOLEAN), NEW u \in Seq(BOOLEAN)
    PROVE  s \o u \in Seq(BOOLEAN) /\ (AllOk(s \o u) <=> AllOk(s) /\ AllOk(u))
<1>1. /\ s \o u \in Seq(BOOLEAN) /\ Len(s \o u) = Len(s) + Len(u)
      /\ DOMAIN s = 1..Len(s) /\ DOMAIN u = 1..Len(u) /\ Len(s) \in Nat /\ Len(u) \in Nat
      /\ DOMAIN (s \o u) = 1..Len(s \o u)
      /\ \A i \in 1..Len(s) : (s \o u)[i] = s[i]
      /\ \A i \in 1..Len(u) : (s \o u)[Len(s) + i] = u[i]
  OBVIOUS
<1>2. \A i \in 1..Len(s) : i \in 1..Len(s \o u)
  BY <1>1
<1>3. \A i \in 1..Len(u) : Len(s) + i \in 1..Len(s \o u)
  BY <1>1
<1>4. \A i \in 1..Len(s \o u) : i \in 1..Len(s) \/ (i - Len(s) \in 1..Len(u) /\ Len(s) + (i - Len(s)) = i)
  BY <1>1
<1> QED BY <1>1, <1>2, <1>3, <1>4 DEF AllOk

LEMMA AllOkSplit ==
    ASSUME NEW s \in Seq(BOOLEAN), NEW n \in 1..Len(s)
    PROVE  LET left == Len(s) - n
               head == SubSeq(s, 1, left)
               tail == Reverse(SubSeq(s, left + 1, Len(s)))
           IN
           /\ head \in Seq(BOOLEAN) /\ Len(head) = left
           /\ tail \in Seq(BOOLEAN)
           /\ AllOk(s) <=> AllOk(head) /\ AllOk(tail)
<1> DEFINE left == Len(s) - n
<1>0. left = Len(s) - n
  OBVIOUS
<1> HIDE DEF left
<1> DEFINE head == SubSeq(s, 1, left)
           u == SubSeq(s, left + 1, Len(s))
           tail == Reverse(u)
<1>1. left \in 0..Len(s) /\ Len(s) \in Nat /\ DOMAIN s = 1..Len(s)
  BY <1>0
<1>2. /\ head \in Seq(BOOLEAN) /\ Len(head) = left /\ DOMAIN head = 1..left
      /\ \A i \in 1..left : head[i] = s[i]
  BY <1>0, <1>1
<1>3. /\ u \in Seq(BOOLEAN) /\ Len(u) = n
      /\ \A i \in 1..n : u[i] = s[left + i]
  BY <1>0, <1>1
<1>4. /\ tail \in Seq(BOOLEAN) /\ DOMAIN tail = 1..n
      /\ \A i \in 1..n : tail[i] = u[n - i + 1]
  <2> HIDE DEF u
  <2>1. tail = [i \in 1..n |-> u[(n - i) + 1]]
    BY <1>3 DEF u, Reverse
  <2>2. \A i \in 1..n : u[(n - i) + 1] \in BOOLEAN
    BY <1>3
  <2> QED BY <2>1, <2>2
<1>5. \A i \in 1..n : tail[i] = s[Len(s) - i + 1]
  <2> SUFFICES ASSUME NEW i \in 1..n PROVE tail[i] = s[Len(s) - i + 1]
    OBVIOUS
  <2>1. n - i + 1 \in 1..n /\ left + (n - i + 1) = Len(s) - i + 1
    BY <1>0, <1>1
  <2> HIDE DEF u
  <2> QED BY <1>3, <1>4, <2>1
<1>6. \A i \in 1..Len(s) : i \in 1..left \/ (Len(s) - i + 1 \in 1..n /\ Len(s) - (Len(s) - i + 1) + 1 = i)
  BY <1>0, <1>1
<1>7. \A i \in 1..n : Len(s) - i + 1 \in 1..Len(s)
  BY <1>0, <1>1
<1> HIDE DEF u, head, tail
<1>8. AllOk(s) => AllOk(head) /\ AllOk(tail)
  <2> SUFFICES ASSUME \A i \in 1..Len(s) : s[i]
               PROVE  (\A i \in 1..left : head[i]) /\ (\A i \in 1..n : tail[i])
    BY <1>1, <1>2, <1>4, Zenon DEF AllOk
  <2>1. \A i \in 1..left : i \in 1..Len(s)
    BY <1>0, <1>1
  <2> QED BY <1>2, <1>5, <1>7, <2>1
<1>9. AllOk(head) /\ AllOk(tail) => AllOk(s)
  <2> SUFFICES ASSUME \A i \in 1..left : head[i], \A i \in 1..n : tail[i], NEW i \in 1..Len(s)
               PROVE  s[i]
    BY <1>1, <1>2, <1>4, Zenon DEF AllOk
  <2> QED BY <1>2, <1>5, <1>6
<1> QED BY <1>2, <1>4, <1>8, <1>9 DEF head, tail, u, left

-----------------------------------------------------------------------------
\* What a thread that gets the lock makes of the counters: it reports what it
\* holds, and adds its result.
LEMMA EnteredIs ==
    ASSUME QTypeOK, Clean, NEW t \in Threads, AtLock(t)
    PROVE  /\ Entered(t).todo = nTodo - Held(t)
           /\ Entered(t).idle = nIdle - (IF t \in Sleepers THEN 1 ELSE 0)
           /\ Entered(t).total = nTotal + (IF Where(t) = "loop" /\ thread[t].now = 0 THEN 1 ELSE 0)
           /\ Entered(t).ok \in BOOLEAN /\ (Entered(t).ok <=> fAllOk /\ thread[t].ok)
           /\ Held(t) \in Nat
<1> DEFINE now == [todo |-> nTodo, idle |-> nIdle, total |-> nTotal, ok |-> fAllOk]
<1>0. /\ thread[t] \in ThreadState /\ nTodo \in Int /\ nIdle \in Int /\ nTotal \in Int
      /\ fAllOk \in BOOLEAN /\ thread[t].now \in Nat /\ thread[t].ok \in BOOLEAN
  BY DEF QTypeOK, ThreadState
<1>1. CASE Where(t) = "woken"
  <2>1. Entered(t) = [now EXCEPT !.idle = @ - 1]
    BY <1>1, Zenon DEF Entered
  <2>2. Held(t) = 0 /\ thread[t].ok /\ t \in Sleepers
    BY <1>1 DEF Held, Clean, Sleepers
  <2> QED BY <1>0, <1>1, <2>1, <2>2
<1>2. CASE Where(t) = "loop" /\ thread[t].now = 0
  <2>1. Entered(t) = [now EXCEPT !.total = @ + 1]
    <3>1. Where(t) # "woken"
      BY <1>2
    <3> QED BY <1>2, <3>1, Zenon DEF Entered
  <2>2. Held(t) = 0 /\ thread[t].ok /\ t \notin Sleepers
    BY <1>2 DEF Held, Clean, Sleepers
  <2> QED BY <1>0, <1>2, <2>1, <2>2
<1>3. CASE Where(t) = "loop" /\ thread[t].now # 0
  <2>1. Entered(t) = [now EXCEPT !.todo = @ - thread[t].now, !.ok = @ /\ thread[t].ok]
    <3>1. Where(t) # "woken"
      BY <1>3
    <3> QED BY <1>3, <3>1, Zenon DEF Entered
  <2>2. Held(t) = thread[t].now /\ t \notin Sleepers
    BY <1>3 DEF Held, Sleepers
  <2> QED BY <1>0, <1>3, <2>1, <2>2
<1> QED BY <1>1, <1>2, <1>3 DEF AtLock

LEMMA EnteredType ==
    ASSUME QTypeOK, Clean, NEW t \in Threads, AtLock(t)
    PROVE  Entered(t) \in [todo : Int, idle : Int, total : Int, ok : BOOLEAN]
<1> DEFINE now == [todo |-> nTodo, idle |-> nIdle, total |-> nTotal, ok |-> fAllOk]
           good == fAllOk /\ thread[t].ok
<1>0. /\ nTodo \in Int /\ nIdle \in Int /\ nTotal \in Int
      /\ fAllOk \in BOOLEAN /\ thread[t].now \in Nat
  BY DEF QTypeOK, ThreadState
<1>1. good \in BOOLEAN
  BY Zenon
<1>2. \/ Entered(t) = [now EXCEPT !.idle = @ - 1]
      \/ Entered(t) = [now EXCEPT !.total = @ + 1]
      \/ Entered(t) = [now EXCEPT !.todo = @ - thread[t].now, !.ok = good]
  BY Zenon DEF Entered
<1> HIDE DEF good
<1>3. now \in [todo : Int, idle : Int, total : Int, ok : BOOLEAN]
  BY <1>0
<1>4. CASE Entered(t) = [now EXCEPT !.idle = @ - 1]
  BY <1>0, <1>3, <1>4
<1>5. CASE Entered(t) = [now EXCEPT !.total = @ + 1]
  BY <1>0, <1>3, <1>5
<1>6. CASE Entered(t) = [now EXCEPT !.todo = @ - thread[t].now, !.ok = good]
  <2>1. Entered(t) = [todo |-> nTodo - thread[t].now, idle |-> nIdle, total |-> nTotal, ok |-> good]
    BY <1>6
  <2> QED BY <1>0, <1>1, <2>1
<1> QED BY <1>2, <1>4, <1>5, <1>6

\* A step of Loop in the critical section, after which t is in state r and holds
\* n checks: only t and a master that is notified change, and the held checks
\* and the sleepers by what t does.
Looped(t, r, n) ==
    /\ thread' \in [Threads -> ThreadState] /\ thread'[t] = r
    /\ \A u \in Threads \ {t} :
          /\ thread'[u].ok = thread[u].ok /\ thread'[u].batch = thread[u].batch
          /\ thread'[u].now = thread[u].now
          /\ \/ thread'[u].at = thread[u].at
             \/ u = Master /\ thread[u].at = "wait" /\ thread'[u].at = "woken"
    /\ IsFiniteSet(Pairs(HeldBy)')
    /\ Cardinality(Pairs(HeldBy)') = Cardinality(Pairs(HeldBy)) - Held(t) + n
    /\ Cardinality(Sleepers') = Cardinality(Sleepers)
          - (IF t \in Sleepers THEN 1 ELSE 0) + (IF r.at \in {"wait", "woken"} THEN 1 ELSE 0)
    /\ t # Master /\ thread'[Master].at = "wait" =>
          Where(Master) = "wait" /\ Entered(t).todo # 0

LEMMA LoopStep ==
    ASSUME QInv, NEW t \in Threads, AtLock(t), NEW r \in ThreadState,
           thread' = [Notified(t) EXCEPT ![t] = r],
           NEW n \in Nat, n = IF r.at \in {"work", "loop"} THEN r.now ELSE 0
    PROVE  Looped(t, r, n)
<1> USE DEF QInv
<1>0. Master \in Threads
  BY DEF Threads
<1>1. thread \in [Threads -> ThreadState]
  BY DEF QTypeOK
<1>2. /\ Notified(t) \in [Threads -> ThreadState]
      /\ \A u \in Threads \ {t} :
            /\ Notified(t)[u].ok = thread[u].ok /\ Notified(t)[u].batch = thread[u].batch
            /\ Notified(t)[u].now = thread[u].now
            /\ \/ Notified(t)[u].at = thread[u].at
               \/ u = Master /\ thread[u].at = "wait" /\ Notified(t)[u].at = "woken"
  BY <1>0, <1>1 DEF Notified, Woken, ThreadState, Where
<1>3. /\ thread' \in [Threads -> ThreadState] /\ thread'[t] = r
      /\ \A u \in Threads \ {t} : thread'[u] = Notified(t)[u]
  BY <1>2
<1>4. \A u \in Threads \ {t} :
         /\ thread'[u].ok = thread[u].ok /\ thread'[u].batch = thread[u].batch
         /\ thread'[u].now = thread[u].now
         /\ \/ thread'[u].at = thread[u].at
            \/ u = Master /\ thread[u].at = "wait" /\ thread'[u].at = "woken"
  BY <1>2, <1>3
<1>5. HeldBy' = [HeldBy EXCEPT ![t] = n]
  <2>1. \A u \in Threads \ {t} : Held(u)' = Held(u)
    BY <1>4 DEF Held, Where
  <2>2. Held(t)' = n
    BY <1>3 DEF Held, Where
  <2> QED BY <2>1, <2>2 DEF HeldBy
<1>6. HeldBy \in [Threads -> Nat] /\ HeldBy[t] = Held(t)
  BY <1>1 DEF HeldBy, Held, ThreadState
<1>7. /\ IsFiniteSet(Pairs(HeldBy'))
      /\ Cardinality(Pairs(HeldBy')) = Cardinality(Pairs(HeldBy)) - Held(t) + n
  <2>1. IsFiniteSet(Pairs(HeldBy))
    BY DEF Counted
  <2>2. /\ IsFiniteSet(Pairs(HeldBy'))
        /\ Cardinality(Pairs(HeldBy')) = Cardinality(Pairs(HeldBy)) - HeldBy[t] + n
    BY <1>5, <1>6, <2>1, HeldChange, Zenon
  <2> QED BY <1>6, <2>2
<1>8. /\ Sleepers \in SUBSET Threads /\ Sleepers' \in SUBSET Threads
      /\ \A u \in Threads \ {t} : u \in Sleepers <=> u \in Sleepers'
      /\ t \in Sleepers' <=> r.at \in {"wait", "woken"}
  BY <1>3, <1>4 DEF Sleepers, Where
<1>9. Cardinality(Sleepers') = Cardinality(Sleepers)
         - (IF t \in Sleepers THEN 1 ELSE 0) + (IF r.at \in {"wait", "woken"} THEN 1 ELSE 0)
  BY <1>8, SleepersChange
<1>10. ASSUME t # Master, thread'[Master].at = "wait"
       PROVE  Where(Master) = "wait" /\ Entered(t).todo # 0
  <2>1. Where(Master) = "wait" /\ nTodo # 0
    BY <1>0, <1>4, <1>10 DEF Where, Awaited
  <2>2. CASE Where(t) = "loop" /\ thread[t].now # 0
    <3>1. Entered(t).todo = 0 => Notified(t) = [thread EXCEPT ![Master] = Woken(Master)]
      BY <1>10, <2>1, <2>2 DEF Notified
    <3>2. Woken(Master).at = "woken"
      BY <1>0, <1>1 DEF Woken, ThreadState
    <3> QED BY <1>0, <1>1, <1>3, <1>10, <2>1, <3>1, <3>2
  <2>3. CASE Where(t) = "woken" \/ thread[t].now = 0
    <3>1. Held(t) = 0 /\ nTodo \in Int
      BY <2>3 DEF Held, QTypeOK
    <3> QED BY <2>1, <3>1, EnteredIs
  <2> QED BY <2>1, <2>2, <2>3 DEF AtLock
<1>11. Pairs(HeldBy)' = Pairs(HeldBy')
  BY DEF Pairs
<1> QED BY <1>3, <1>4, <1>7, <1>9, <1>10, <1>11 DEF Looped

-----------------------------------------------------------------------------
\* The states without a batch.
LEMMA EmptyStates ==
    LET waiting == [Off EXCEPT !.at = "wait"]
    IN  /\ Off \in ThreadState /\ Fresh \in ThreadState /\ waiting \in ThreadState
        /\ Off.at = "off" /\ Fresh.at = "loop" /\ waiting.at = "wait"
        /\ \A s \in {Off, Fresh, waiting} : s.now = 0 /\ s.batch = <<>> /\ s.ok
<1>1. <<>> \in Seq(BOOLEAN) /\ 0 \in Nat /\ TRUE \in BOOLEAN
  OBVIOUS
<1>2. Off \in ThreadState
  BY <1>1 DEF Off, ThreadState
<1> DEFINE waiting == [Off EXCEPT !.at = "wait"]
<1>3. Fresh \in ThreadState /\ waiting \in ThreadState
  BY <1>2 DEF Fresh, ThreadState
<1>4. Off.at = "off" /\ Off.now = 0 /\ Off.batch = <<>> /\ Off.ok
  BY DEF Off
<1>5. Fresh.at = "loop" /\ Fresh.now = 0 /\ Fresh.batch = <<>> /\ Fresh.ok
  BY DEF Fresh, Off
<1>6. waiting.at = "wait" /\ waiting.now = 0 /\ waiting.batch = <<>> /\ waiting.ok
  BY DEF Off
<1> HIDE DEF waiting
<1>7. \A s \in {Off, Fresh, waiting} : s.now = 0 /\ s.batch = <<>> /\ s.ok
  BY <1>4, <1>5, <1>6, Zenon
<1> QED BY <1>2, <1>3, <1>4, <1>5, <1>6, <1>7, Zenon DEF waiting

\* The initial state.
LEMMA QInvInit == Init => QInv
<1> SUFFICES ASSUME Init PROVE QInv
  OBVIOUS
<1> USE DEF Init
<1>0. Master \in Threads /\ \A t \in Threads : thread[t] = Off
  BY DEF Threads
<1>1. QTypeOK
  <2>1. <<>> \in Seq(BOOLEAN) /\ thread \in [Threads -> ThreadState]
    BY EmptyStates
  <2>2. fAllOk \in BOOLEAN /\ stop \in BOOLEAN
    BY Zenon
  <2>3. 0 \in Int /\ 0 \in Nat
    OBVIOUS
  <2> QED BY <2>1, <2>2, <2>3, Zenon DEF QTypeOK
<1>2. Clean
  BY <1>0 DEF Clean, Where, Off
<1>3. HeldBy \in [Threads -> Nat] /\ \A t \in Threads : HeldBy[t] = 0
  BY <1>0 DEF HeldBy, Held, Where, Off
<1>4. Pairs(HeldBy) = {} /\ Sleepers = {} /\ ~MasterCounted
  <2>1. Pairs(HeldBy) = {}
    BY <1>3 DEF Pairs
  <2> QED BY <1>0, <2>1 DEF Sleepers, MasterCounted, Where, Off
<1>5. Counted
  BY <1>4, FS_EmptySet DEF Counted
<1>6. Answered /\ Awaited
  BY <1>0 DEF Answered, Awaited, Where, Off
<1> QED BY <1>1, <1>2, <1>5, <1>6 DEF QInv

\* Steps that move no check and no counter: the threads hold and sleep as before.
LEMMA CountedKept ==
    ASSUME QInv, HeldBy' = HeldBy, Sleepers' = Sleepers, nTodo' = nTodo, queue' = queue,
           nIdle' = nIdle, nTotal' >= IF MasterCounted' THEN 1 ELSE 0
    PROVE  Counted'
<1>1. Pairs(HeldBy)' = Pairs(HeldBy)
  BY DEF Pairs
<1> QED BY <1>1 DEF QInv, Counted

\* Between two blocks no thread holds a check, and no result is left.
LEMMA BetweenBlocks ==
    ASSUME QInv, Where(Master) = "off"
    PROVE  /\ \A t \in Threads : Held(t) = 0 /\ thread[t].ok /\ thread[t].batch = <<>> /\ Where(t) # "work"
           /\ Good
<1>1. HeldBy \in [Threads -> Nat] /\ \A t \in Threads : HeldBy[t] = Held(t)
  BY DEF HeldBy, Held, QInv, QTypeOK, ThreadState
<1>2. Cardinality(Pairs(HeldBy)) = 0
  <2>1. /\ nTodo = 0 /\ queue = <<>> /\ nTodo = Len(queue) + Cardinality(Pairs(HeldBy))
        /\ IsFiniteSet(Pairs(HeldBy))
    BY DEF QInv, Answered, Counted
  <2>2. Cardinality(Pairs(HeldBy)) \in Nat
    BY <1>1, <2>1, NothingHeld
  <2> QED BY <2>1, <2>2
<1>3. \A t \in Threads : Held(t) = 0
  <2>1. IsFiniteSet(Pairs(HeldBy))
    BY DEF QInv, Counted
  <2> QED BY <1>1, <1>2, <2>1, NothingHeld
<1>4. \A t \in Threads : thread[t].ok /\ thread[t].batch = <<>> /\ Where(t) # "work"
  <2> SUFFICES ASSUME NEW t \in Threads
               PROVE  thread[t].ok /\ thread[t].batch = <<>> /\ Where(t) # "work"
    OBVIOUS
  <2>1. Where(t) \in {"off", "control", "loop", "wait", "woken", "work"}
    BY DEF QInv, QTypeOK, ThreadState, Where
  <2> QED BY <1>3, <2>1 DEF QInv, Clean, Held
<1> QED BY <1>3, <1>4 DEF QInv, Answered, Good, AllOk

LEMMA StartKeeps ==
    ASSUME QInv, StartWorkerThreads
    PROVE  QInv'
<1> USE DEF StartWorkerThreads
<1>0. /\ Master \in Threads /\ thread'[Master] = Off /\ Where(Master) = "off"
      /\ \A t \in Threads : thread[t] = Off
      /\ \A t \in Threads : thread'[t] \in {Off, Fresh}
  BY ThreadsAssumption DEF Threads, Where, Off
<1>1. thread' \in [Threads -> ThreadState]
  BY EmptyStates
<1>2. QTypeOK'
  <2>1. fAllOk' \in BOOLEAN
    BY Zenon
  <2>2. 0 \in Int
    OBVIOUS
  <2> QED BY <1>1, <2>1, <2>2, Zenon DEF QInv, QTypeOK, session
<1>3. Clean'
  BY <1>0 DEF Clean, Where, Off, Fresh
<1>4. HeldBy' = HeldBy /\ Sleepers' = {} /\ Sleepers = {} /\ ~MasterCounted'
  BY <1>0 DEF HeldBy, Held, Sleepers, MasterCounted, Where, Off, Fresh
<1>5. nIdle = 0
  BY <1>4, FS_EmptySet DEF QInv, Counted
<1>6. Counted'
  BY <1>4, <1>5, CountedKept
<1>7. Answered'
  BY <1>0 DEF QInv, Answered, Where, Off, session, AllOk
<1>8. Awaited'
  BY <1>0 DEF QInv, Awaited, Where, Off, Fresh
<1> QED BY <1>2, <1>3, <1>6, <1>7, <1>8 DEF QInv

LEMMA ControlKeeps ==
    ASSUME QInv, Control
    PROVE  QInv'
<1> USE DEF Control, counters
<1>0. /\ Master \in Threads /\ thread \in [Threads -> ThreadState]
  BY DEF Threads, QInv, QTypeOK
<1>1. /\ thread' \in [Threads -> ThreadState]
      /\ thread'[Master] = [thread[Master] EXCEPT !.at = "control"]
      /\ \A t \in Threads \ {Master} : thread'[t] = thread[t]
  BY <1>0 DEF ThreadState
<1>2. /\ thread'[Master].at = "control" /\ thread'[Master].now = thread[Master].now
      /\ thread'[Master].ok = thread[Master].ok /\ thread'[Master].batch = thread[Master].batch
  BY <1>0, <1>1 DEF ThreadState
<1>3. QTypeOK'
  BY <1>1 DEF QInv, QTypeOK
<1>4. Clean'
  BY <1>1, <1>2 DEF QInv, Clean, Where
<1>5. HeldBy' = HeldBy /\ Sleepers' = Sleepers /\ ~MasterCounted' /\ nTotal >= 0
  BY <1>0, <1>1, <1>2 DEF HeldBy, Held, Sleepers, MasterCounted, Where, QInv, Counted, QTypeOK
<1>6. Counted'
  BY <1>5, CountedKept
<1>7. Good'
  BY <1>1, <1>2, BetweenBlocks DEF Good
<1>8. Answered'
  BY <1>2, <1>7 DEF Answered, Where, AllOk
<1>9. Awaited'
  BY <1>1, <1>2 DEF QInv, Awaited, Where
<1> QED BY <1>3, <1>4, <1>6, <1>8, <1>9 DEF QInv

LEMMA WaitKeeps ==
    ASSUME QInv, Wait
    PROVE  QInv'
<1> USE DEF Wait, counters, session
<1>0. /\ Master \in Threads /\ thread \in [Threads -> ThreadState]
  BY DEF Threads, QInv, QTypeOK
<1>1. /\ thread' \in [Threads -> ThreadState] /\ thread'[Master] = Fresh
      /\ \A t \in Threads \ {Master} : thread'[t] = thread[t]
  BY <1>0, EmptyStates
<1>2. /\ Fresh.at = "loop" /\ Fresh.now = 0 /\ Fresh.ok /\ Fresh.batch = <<>>
      /\ thread[Master].now = 0 /\ thread[Master].ok /\ thread[Master].batch = <<>>
  BY <1>0 DEF Fresh, Off, QInv, Clean
<1>3. QTypeOK'
  BY <1>1 DEF QInv, QTypeOK
<1>4. Clean'
  BY <1>1, <1>2 DEF QInv, Clean, Where
<1>5. HeldBy' = HeldBy /\ Sleepers' = Sleepers /\ ~MasterCounted' /\ nTotal >= 0
  BY <1>0, <1>1, <1>2 DEF HeldBy, Held, Sleepers, MasterCounted, Where, QInv, Counted, QTypeOK
<1>6. Counted'
  BY <1>5, CountedKept
<1>7. Good' <=> Good
  BY <1>0, <1>1, <1>2 DEF Good
<1>8. Answered'
  BY <1>1, <1>2, <1>7 DEF QInv, Answered, Where
<1>9. Awaited'
  BY <1>1, <1>2 DEF QInv, Awaited, Where
<1> QED BY <1>3, <1>4, <1>6, <1>8, <1>9 DEF QInv

LEMMA AddKeeps ==
    ASSUME QInv, NEW checks \in Checks, Add(checks)
    PROVE  QInv'
<1> USE DEF Add
<1>1. checks \in Seq(BOOLEAN) /\ Len(checks) \in Nat
  BY SizesAssumption DEF Checks
<1>2. /\ queue \in Seq(BOOLEAN) /\ added \in Seq(BOOLEAN)
      /\ Master \in Threads
  BY DEF QInv, QTypeOK, Threads
<1>3. /\ queue' \in Seq(BOOLEAN) /\ Len(queue') = Len(queue) + Len(checks) /\ Len(queue) \in Nat
      /\ AllOk(queue') <=> AllOk(queue) /\ AllOk(checks)
      /\ added' \in Seq(BOOLEAN) /\ (AllOk(added') <=> AllOk(added) /\ AllOk(checks))
  BY <1>1, <1>2, AllOkConcat
<1>4. QTypeOK'
  <2>1. nTodo' \in Int /\ notify' \in {"none", "one", "all"}
    BY <1>1 DEF QInv, QTypeOK
  <2> QED BY <1>3, <2>1 DEF QInv, QTypeOK
<1>5. Clean'
  BY DEF QInv, Clean, Where
<1>6. Counted'
  <2>1. HeldBy' = HeldBy /\ Sleepers' = Sleepers /\ MasterCounted' = MasterCounted
    BY DEF HeldBy, Held, Sleepers, MasterCounted, Where
  <2>2. Pairs(HeldBy)' = Pairs(HeldBy)
    BY <2>1 DEF Pairs
  <2>3. Cardinality(Pairs(HeldBy)) \in Nat
    BY FS_CardinalityType DEF QInv, Counted
  <2> QED BY <1>1, <1>3, <2>1, <2>2, <2>3 DEF QInv, Counted
<1>7. Good' <=> Good /\ AllOk(checks)
  BY <1>3 DEF Good
<1>8. Answered'
  BY <1>3, <1>7 DEF QInv, Answered, Where
<1>9. Awaited'
  BY DEF QInv, Awaited, Where
<1> QED BY <1>4, <1>5, <1>6, <1>8, <1>9 DEF QInv

\* Waking threads, for a notification or for no reason.
LEMMA WakingKeeps ==
    ASSUME QInv, NEW W \in SUBSET Threads, \A t \in W : Where(t) = "wait",
           thread' = [t \in Threads |-> IF t \in W THEN Woken(t) ELSE thread[t]],
           notify' \in {"none", "one", "all"}, stop' \in BOOLEAN,
           stop' => Where(Master) = "off" /\ \A t \in Threads : Where(t) = "wait" => t \in W,
           UNCHANGED <<queue, counters, session>>
    PROVE  QInv'
<1> USE DEF counters, session
<1>0. /\ Master \in Threads /\ thread \in [Threads -> ThreadState]
  BY DEF Threads, QInv, QTypeOK
<1>1. /\ thread' \in [Threads -> ThreadState]
      /\ \A t \in Threads :
            /\ thread'[t].now = thread[t].now /\ thread'[t].ok = thread[t].ok
            /\ thread'[t].batch = thread[t].batch
            /\ thread'[t].at = IF t \in W THEN "woken" ELSE thread[t].at
  BY <1>0 DEF ThreadState, Woken
<1>2. QTypeOK'
  BY <1>1 DEF QInv, QTypeOK
<1>3. Clean'
  BY <1>1 DEF QInv, Clean, Where
<1>4. HeldBy' = HeldBy /\ Sleepers' = Sleepers /\ (MasterCounted' <=> MasterCounted)
  BY <1>0, <1>1 DEF HeldBy, Held, Sleepers, MasterCounted, Where
<1>5. Counted'
  BY <1>4, CountedKept DEF QInv, Counted
<1>6. Good' <=> Good
  BY <1>1 DEF Good
<1>7. Answered'
  BY <1>0, <1>1, <1>6 DEF QInv, Answered, Where
<1>8. Awaited'
  BY <1>0, <1>1 DEF QInv, Awaited, Where
<1> QED BY <1>2, <1>3, <1>5, <1>7, <1>8 DEF QInv

LEMMA NotifyKeeps ==
    ASSUME QInv, Notify
    PROVE  QInv'
<1> DEFINE waiting == {t \in Workers : Where(t) = "wait"}
<1>0. waiting \in SUBSET Threads /\ thread \in [Threads -> ThreadState]
  BY DEF Threads, QInv, QTypeOK
<1>1. PICK W \in SUBSET waiting :
         thread' = [t \in Threads |-> IF t \in W THEN Woken(t) ELSE thread[t]]
  <2>1. CASE notify = "one" /\ waiting # {}
    <3>1. PICK w \in waiting : thread' = [thread EXCEPT ![w] = Woken(w)]
      BY <2>1 DEF Notify
    <3>2. thread' = [t \in Threads |-> IF t \in {w} THEN Woken(t) ELSE thread[t]]
      BY <1>0, <3>1
    <3> QED BY <3>2
  <2>2. CASE ~(notify = "one" /\ waiting # {})
    BY <2>2 DEF Notify
  <2> QED BY <2>1, <2>2
<1>2. /\ W \in SUBSET Threads /\ \A t \in W : Where(t) = "wait"
      /\ notify' = "none" /\ UNCHANGED <<queue, counters, stop, session>>
  BY <1>0, <1>1 DEF Notify
<1>3. /\ stop' \in BOOLEAN
      /\ stop' => Where(Master) = "off" /\ \A t \in Threads : Where(t) = "wait" => t \in W
  BY <1>2 DEF QInv, QTypeOK, Awaited
<1> QED BY <1>1, <1>2, <1>3, WakingKeeps

LEMMA SpuriousKeeps ==
    ASSUME QInv, NEW t \in Threads, Spurious(t)
    PROVE  QInv'
<1> USE DEF Spurious
<1>1. thread' = [u \in Threads |-> IF u \in {t} THEN Woken(u) ELSE thread[u]]
  BY DEF QInv, QTypeOK
<1>2. stop' \in BOOLEAN /\ notify' \in {"none", "one", "all"} /\ ~stop'
  BY DEF QInv, QTypeOK, Awaited
<1>3. {t} \in SUBSET Threads /\ (\A u \in {t} : Where(u) = "wait") /\ UNCHANGED <<queue, counters, session>>
  OBVIOUS
<1> QED BY <1>1, <1>2, <1>3, WakingKeeps

LEMMA StopKeeps ==
    ASSUME QInv, Stop
    PROVE  QInv'
<1> USE DEF Stop
<1> DEFINE W == {t \in Threads : Where(t) = "wait"}
<1>1. thread' = [u \in Threads |-> IF u \in W THEN Woken(u) ELSE thread[u]]
  OBVIOUS
<1>2. stop' \in BOOLEAN
  BY Zenon
<1>3. notify' \in {"none", "one", "all"} /\ Where(Master) = "off"
  BY DEF QInv, QTypeOK
<1>4. W \in SUBSET Threads /\ (\A u \in W : Where(u) = "wait") /\ UNCHANGED <<queue, counters, session>>
      /\ (\A u \in Threads : Where(u) = "wait" => u \in W)
  OBVIOUS
<1> HIDE DEF W
<1> QED BY <1>1, <1>2, <1>3, <1>4, WakingKeeps

LEMMA JoinedKeeps ==
    ASSUME QInv, Joined
    PROVE  QInv'
<1> USE DEF Joined
<1>1. thread' = [u \in Threads |-> IF u \in {} THEN Woken(u) ELSE thread[u]]
  BY DEF QInv, QTypeOK
<1>2. stop' \in BOOLEAN /\ ~stop'
  BY Zenon
<1>3. notify' \in {"none", "one", "all"} /\ UNCHANGED <<queue, counters, session>>
  BY DEF QInv, QTypeOK
<1>4. {} \in SUBSET Threads /\ (\A u \in {} : Where(u) = "wait")
  OBVIOUS
<1> QED BY <1>1, <1>2, <1>3, <1>4, WakingKeeps

LEMMA ExecuteKeeps ==
    ASSUME QInv, NEW t \in Threads, Execute(t)
    PROVE  QInv'
<1> USE DEF Execute, counters, session
<1>0. /\ Master \in Threads /\ thread \in [Threads -> ThreadState]
      /\ thread[t] \in ThreadState /\ thread[t].ok \in BOOLEAN /\ thread[t].now \in Nat
  BY DEF Threads, QInv, QTypeOK, ThreadState
<1> DEFINE good == thread[t].ok /\ \A i \in DOMAIN thread[t].batch : thread[t].batch[i]
           r == [thread[t] EXCEPT !.at = "loop", !.batch = <<>>, !.ok = good]
<1>1. thread' = [thread EXCEPT ![t] = r]
  BY <1>0
<1>2. good \in BOOLEAN /\ (good <=> thread[t].ok /\ AllOk(thread[t].batch))
  BY Zenon DEF AllOk
<1> HIDE DEF good
<1>3. /\ r \in ThreadState
      /\ r.at = "loop" /\ r.batch = <<>> /\ r.now = thread[t].now /\ r.ok = good
  <2>1. <<>> \in Seq(BOOLEAN)
    OBVIOUS
  <2> QED BY <1>0, <1>2, <2>1 DEF ThreadState
<1> HIDE DEF r
<1>4. /\ thread' \in [Threads -> ThreadState] /\ thread'[t] = r
      /\ \A u \in Threads \ {t} : thread'[u] = thread[u]
  BY <1>0, <1>1, <1>3
<1>5. Where(t) = "work" /\ thread[t].now # 0
  BY DEF QInv, Clean
<1>6. QTypeOK'
  BY <1>4 DEF QInv, QTypeOK
<1>7. Clean'
  BY <1>3, <1>4, <1>5 DEF QInv, Clean, Where
<1>8. HeldBy' = HeldBy /\ Sleepers' = Sleepers /\ (MasterCounted' <=> MasterCounted)
  BY <1>0, <1>3, <1>4, <1>5 DEF HeldBy, Held, Sleepers, MasterCounted, Where
<1>9. Counted'
  BY <1>8, CountedKept DEF QInv, Counted
<1>10. Good' <=> Good
  <2>1. r.ok /\ AllOk(r.batch) <=> thread[t].ok /\ AllOk(thread[t].batch)
    <3>1. AllOk(r.batch)
      BY <1>3 DEF AllOk
    <3> QED BY <1>2, <1>3, <3>1
  <2> QED BY <1>4, <2>1 DEF Good
<1>11. Answered'
  BY <1>0, <1>3, <1>4, <1>5, <1>10 DEF QInv, Answered, Where
<1>12. Awaited'
  BY <1>0, <1>3, <1>4, <1>5 DEF QInv, Awaited, Where
<1> QED BY <1>6, <1>7, <1>9, <1>11, <1>12 DEF QInv

\* The counters are natural numbers, also while a thread enters.
LEMMA CountersNatural ==
    ASSUME QInv, NEW t \in Threads, AtLock(t)
    PROVE  /\ Entered(t).total \in Nat /\ Entered(t).idle \in Nat
           /\ Entered(t).total >= nTotal
           /\ t = Master => Entered(t).total >= 1
<1>1. nIdle = Cardinality(Sleepers) /\ nTotal \in Nat /\ nIdle \in Int
  BY DEF QInv, QTypeOK, Counted
<1>2. Cardinality(Sleepers) \in Nat /\ (t \in Sleepers => Cardinality(Sleepers) >= 1)
  <2>1. Sleepers \in SUBSET Threads
    BY DEF Sleepers
  <2> QED BY <2>1, SleepersChange
<1>3. t = Master /\ ~(Where(t) = "loop" /\ thread[t].now = 0) => nTotal >= 1
  BY DEF QInv, Counted, MasterCounted, AtLock
<1> QED BY <1>1, <1>2, <1>3, EnteredIs DEF QInv

LEMMA TakeKeeps ==
    ASSUME QInv, NEW t \in Threads, Take(t)
    PROVE  QInv'
<1> DEFINE e == Entered(t)
           n == BatchOf(Len(queue), e.total, e.idle)
           left == Len(queue) - n
           batch == Reverse(SubSeq(queue, left + 1, Len(queue)))
           r == [at |-> "work", batch |-> batch, now |-> n, ok |-> e.ok]
<1>1. /\ AtLock(t) /\ queue # <<>> /\ ~stop
      /\ nTodo' = e.todo /\ nIdle' = e.idle /\ nTotal' = e.total /\ fAllOk' = e.ok
      /\ queue' = SubSeq(queue, 1, left) /\ thread' = [Notified(t) EXCEPT ![t] = r]
      /\ UNCHANGED <<stop, notify, session>>
  BY DEF Take, Counters
<1>2. queue \in Seq(BOOLEAN) /\ Len(queue) \in Nat \ {0} /\ Master \in Threads
  BY <1>1 DEF QInv, QTypeOK, Threads
<1>3. /\ e.todo = nTodo - Held(t) /\ Held(t) \in Nat
      /\ e.idle = nIdle - (IF t \in Sleepers THEN 1 ELSE 0)
      /\ e.ok \in BOOLEAN /\ (e.ok <=> fAllOk /\ thread[t].ok)
      /\ e.total \in Nat /\ e.idle \in Nat /\ e.total >= nTotal /\ (t = Master => e.total >= 1)
  BY <1>1, EnteredIs, CountersNatural DEF QInv
<1> HIDE DEF e
<1>4. n \in 1..Len(queue)
  BY <1>2, <1>3, BatchRange
<1> HIDE DEF n
<1>5. /\ queue' \in Seq(BOOLEAN) /\ Len(queue') = left /\ batch \in Seq(BOOLEAN)
      /\ AllOk(queue) <=> AllOk(queue') /\ AllOk(batch)
  <2>1. LET l == Len(queue) - n
            head == SubSeq(queue, 1, l)
            tail == Reverse(SubSeq(queue, l + 1, Len(queue)))
        IN  /\ head \in Seq(BOOLEAN) /\ Len(head) = l
            /\ tail \in Seq(BOOLEAN)
            /\ AllOk(queue) <=> AllOk(head) /\ AllOk(tail)
    BY <1>2, <1>4, AllOkSplit, Zenon
  <2> QED BY <1>1, <2>1, Zenon
<1> HIDE DEF batch
<1>6. /\ r \in ThreadState /\ r.at = "work" /\ r.now = n /\ r.ok = e.ok /\ r.batch = batch
      /\ n \in Nat /\ n = IF r.at \in {"work", "loop"} THEN r.now ELSE 0
  BY <1>2, <1>3, <1>4, <1>5 DEF ThreadState
<1> HIDE DEF r
<1>7. Looped(t, r, n)
  BY <1>1, <1>6, LoopStep
<1>8. QTypeOK'
  <2>1. nTodo' \in Int
    BY <1>1, <1>3 DEF QInv, QTypeOK
  <2>2. fAllOk' \in BOOLEAN /\ nIdle' \in Int /\ nTotal' \in Int
    BY <1>1, <1>3
  <2> QED BY <1>1, <1>5, <1>7, <2>1, <2>2, Zenon DEF QInv, QTypeOK, session, Looped
<1>9. Clean'
  BY <1>4, <1>6, <1>7 DEF QInv, Clean, Where, Looped
<1>10. Counted'
  <2>1. Cardinality(Pairs(HeldBy)) \in Nat /\ nTodo = Len(queue) + Cardinality(Pairs(HeldBy))
    BY FS_CardinalityType DEF QInv, Counted
  <2>2. nTodo' = Len(queue') + Cardinality(Pairs(HeldBy)')
    BY <1>1, <1>2, <1>3, <1>4, <1>5, <1>7, <2>1 DEF Looped
  <2>3. Cardinality(Sleepers) \in Nat /\ nIdle = Cardinality(Sleepers)
    <3>1. Sleepers \in SUBSET Threads
      BY DEF Sleepers
    <3> QED BY <3>1, SleepersChange DEF QInv, Counted
  <2>4. nIdle' = Cardinality(Sleepers')
    BY <1>1, <1>3, <1>6, <1>7, <2>3 DEF Looped
  <2>5. nTotal' >= IF MasterCounted' THEN 1 ELSE 0
    <3>1. t # Master => (MasterCounted' <=> MasterCounted)
      BY <1>2, <1>7 DEF MasterCounted, Where, Looped
    <3>2. nTotal >= IF MasterCounted THEN 1 ELSE 0
      BY DEF QInv, Counted
    <3> QED BY <1>1, <1>3, <3>1, <3>2 DEF QInv, QTypeOK
  <2> QED BY <1>7, <2>2, <2>4, <2>5 DEF Counted, Looped
<1>11. Where(Master) # "off" /\ Where(Master)' # "off"
  BY <1>1, <1>2, <1>6, <1>7 DEF QInv, Answered, Where, AtLock, Looped
<1>12. Good' <=> Good
  <2>1. AllOk(thread[t].batch)
    BY <1>1 DEF QInv, Clean, AtLock, AllOk
  <2> QED BY <1>1, <1>3, <1>5, <1>6, <1>7, <2>1 DEF Good, Looped
<1>13. Answered'
  BY <1>1, <1>11, <1>12 DEF QInv, Answered, session
<1>14. Awaited'
  BY <1>1, <1>2, <1>6, <1>7 DEF QInv, Awaited, Where, Looped
<1> QED BY <1>8, <1>9, <1>10, <1>13, <1>14 DEF QInv

\* A thread that reports and goes to rest, in state r without a batch: what is
\* common to Sleep, Leave and Return.
LEMMA Resting ==
    ASSUME QInv, NEW t \in Threads, AtLock(t), NEW r \in ThreadState,
           r.at \in {"wait", "off"}, r.now = 0, r.batch = <<>>, r.ok,
           queue = <<>>, queue' = queue,
           nTodo' = Entered(t).todo,
           nIdle' = Entered(t).idle + (IF r.at = "wait" THEN 1 ELSE 0),
           nTotal' \in Nat, nTotal' >= IF MasterCounted' THEN 1 ELSE 0,
           Looped(t, r, 0)
    PROVE  /\ nTodo' \in Int /\ nIdle' \in Int /\ Clean' /\ Counted'
           /\ Good <=> Entered(t).ok /\ \A u \in Threads \ {t} : thread[u].ok /\ AllOk(thread[u].batch)
<1>1. /\ Entered(t).todo = nTodo - Held(t) /\ Held(t) \in Nat
      /\ Entered(t).idle = nIdle - (IF t \in Sleepers THEN 1 ELSE 0)
      /\ Entered(t).ok <=> fAllOk /\ thread[t].ok
      /\ nTodo \in Int /\ nIdle \in Int
  BY EnteredIs DEF QInv, QTypeOK
<1>2. Clean'
  BY DEF QInv, Clean, Where, Looped
<1>3. Counted'
  <2>1. Cardinality(Pairs(HeldBy)) \in Nat /\ nTodo = Len(queue) + Cardinality(Pairs(HeldBy))
    BY FS_CardinalityType DEF QInv, Counted
  <2>2. nTodo' = Len(queue') + Cardinality(Pairs(HeldBy)')
    BY <1>1, <2>1 DEF Looped
  <2>3. Cardinality(Sleepers) \in Nat /\ nIdle = Cardinality(Sleepers)
    <3>1. Sleepers \in SUBSET Threads
      BY DEF Sleepers
    <3> QED BY <3>1, SleepersChange DEF QInv, Counted
  <2>4. nIdle' = Cardinality(Sleepers')
    BY <1>1, <2>3 DEF Looped
  <2> QED BY <2>2, <2>4 DEF Counted, Looped
<1>4. AllOk(queue) /\ AllOk(thread[t].batch)
  BY DEF AllOk, QInv, Clean, AtLock
<1> QED BY <1>1, <1>2, <1>3, <1>4 DEF Good

LEMMA SleepKeeps ==
    ASSUME QInv, NEW t \in Threads, Sleep(t)
    PROVE  QInv'
<1> DEFINE e == Entered(t)
           r == [Off EXCEPT !.at = "wait"]
<1>1. /\ AtLock(t) /\ queue = <<>> /\ ~stop /\ (t # Master \/ e.todo # 0)
      /\ Counters([e EXCEPT !.idle = @ + 1]) /\ thread' = [Notified(t) EXCEPT ![t] = r]
      /\ UNCHANGED <<queue, stop, notify, session>>
  BY DEF Sleep
<1>2. e \in [todo : Int, idle : Int, total : Int, ok : BOOLEAN]
  BY <1>1, EnteredType DEF QInv
<1>3. nTodo' = e.todo /\ nIdle' = e.idle + 1 /\ nTotal' = e.total /\ fAllOk' = e.ok
  BY <1>1, <1>2 DEF Counters
<1>4. /\ r \in ThreadState /\ r.at = "wait" /\ r.now = 0 /\ r.batch = <<>> /\ r.ok
  BY EmptyStates
<1>5. /\ e.total \in Nat /\ e.idle \in Nat /\ e.total >= nTotal /\ (t = Master => e.total >= 1)
      /\ Master \in Threads
  BY <1>1, CountersNatural DEF Threads
<1> HIDE DEF e, r
<1>6. Looped(t, r, 0)
  <2>1. 0 \in Nat /\ 0 = IF r.at \in {"work", "loop"} THEN r.now ELSE 0
    BY <1>4
  <2> QED BY <1>1, <1>4, <2>1, LoopStep, Zenon
<1>7. nTotal' >= IF MasterCounted' THEN 1 ELSE 0
  <2>1. t # Master => (MasterCounted' <=> MasterCounted)
    BY <1>5, <1>6 DEF MasterCounted, Where, Looped
  <2>2. nTotal >= IF MasterCounted THEN 1 ELSE 0
    BY DEF QInv, Counted
  <2> QED BY <1>3, <1>5, <2>1, <2>2 DEF QInv, QTypeOK
<1>8. /\ nTodo' \in Int /\ nIdle' \in Int /\ Clean' /\ Counted'
      /\ Good <=> e.ok /\ \A u \in Threads \ {t} : thread[u].ok /\ AllOk(thread[u].batch)
  BY <1>1, <1>3, <1>4, <1>5, <1>6, <1>7, Resting DEF e
<1>9. QTypeOK'
  <2>1. fAllOk' \in BOOLEAN /\ nTotal' \in Int
    BY <1>2, <1>3
  <2> QED BY <1>1, <1>6, <1>8, <2>1, Zenon DEF QInv, QTypeOK, session, Looped
<1>10. Good' <=> Good
  <2>1. AllOk(queue') /\ AllOk(r.batch)
    BY <1>1, <1>4 DEF AllOk
  <2> QED BY <1>3, <1>4, <1>6, <1>8, <2>1 DEF Good, Looped
<1>11. e.todo = nTodo - Held(t) /\ Held(t) \in Nat
  BY <1>1, EnteredIs DEF QInv, e
<1>12. Answered'
  <2>1. Where(Master)' = "off" => Where(Master) = "off" /\ t # Master
    BY <1>4, <1>5, <1>6 DEF Looped, Where
  <2>2. Where(Master) = "off" => Held(t) = 0 /\ Good
    BY BetweenBlocks
  <2>3. Where(Master)' # "off" => Where(Master) # "off"
    BY <1>1, <1>5, <1>6 DEF Looped, Where, AtLock
  <2>4. Where(Master)' = "off" => queue' = <<>> /\ nTodo' = 0 /\ fAllOk'
    BY <1>1, <1>3, <1>8, <1>11, <2>1, <2>2 DEF QInv, Answered
  <2> QED BY <1>1, <1>10, <2>3, <2>4 DEF QInv, Answered, session
<1>13. Awaited'
  BY <1>1, <1>3, <1>4, <1>5, <1>6 DEF QInv, Awaited, Where, Looped, e
<1> QED BY <1>8, <1>9, <1>12, <1>13 DEF QInv

LEMMA LeaveKeeps ==
    ASSUME QInv, NEW t \in Threads, Leave(t)
    PROVE  QInv'
<1> DEFINE e == Entered(t)
<1>1. /\ t \in Workers /\ AtLock(t) /\ stop /\ Counters(e)
      /\ thread' = [Notified(t) EXCEPT ![t] = Off] /\ UNCHANGED <<queue, stop, notify, session>>
  BY DEF Leave
<1>2. nTodo' = e.todo /\ nIdle' = e.idle /\ nTotal' = e.total /\ fAllOk' = e.ok
  BY <1>1 DEF Counters
<1>3. /\ Off \in ThreadState /\ Off.at = "off" /\ Off.now = 0 /\ Off.batch = <<>> /\ Off.ok
  BY EmptyStates
<1>4. /\ e.total \in Nat /\ e.idle \in Nat /\ e.total >= nTotal
      /\ Master \in Threads /\ t # Master
      /\ Where(Master) = "off" /\ queue = <<>> /\ nTodo = 0 /\ fAllOk
  BY <1>1, CountersNatural, ThreadsAssumption DEF Threads, QInv, Awaited, Answered
<1>5. Looped(t, Off, 0)
  <2>1. 0 \in Nat /\ 0 = IF Off.at \in {"work", "loop"} THEN Off.now ELSE 0
    BY <1>3
  <2> QED BY <1>1, <1>3, <2>1, LoopStep, Zenon
<1>6. /\ e.todo = 0 /\ e.ok \in BOOLEAN /\ (e.ok <=> TRUE) /\ Held(t) = 0
  BY <1>1, <1>4, EnteredIs, BetweenBlocks DEF QInv
<1>7. Where(Master)' = "off" /\ ~MasterCounted' /\ ~MasterCounted
  BY <1>4, <1>5 DEF Looped, Where, MasterCounted
<1>8. nTodo' \in Int /\ nIdle' \in Int /\ Clean' /\ Counted'
  <2>1. /\ Off.at \in {"wait", "off"} /\ nIdle' = Entered(t).idle + (IF Off.at = "wait" THEN 1 ELSE 0)
        /\ nTotal' \in Nat /\ nTotal' >= IF MasterCounted' THEN 1 ELSE 0
    BY <1>2, <1>3, <1>4, <1>7
  <2> HIDE DEF e
  <2> QED BY <1>1, <1>2, <1>3, <1>4, <1>5, <2>1, Resting DEF e
<1>9. QTypeOK'
  <2>1. fAllOk' \in BOOLEAN /\ nTotal' \in Int
    BY <1>2, <1>4, <1>6
  <2> QED BY <1>1, <1>5, <1>8, <2>1, Zenon DEF QInv, QTypeOK, session, Looped
<1>10. Answered'
  BY <1>1, <1>2, <1>4, <1>6, <1>7 DEF QInv, Answered, session
<1>11. Awaited'
  BY <1>1, <1>3, <1>4, <1>5, <1>7 DEF QInv, Awaited, Where, Looped
<1> QED BY <1>8, <1>9, <1>10, <1>11 DEF QInv

LEMMA ReturnKeeps ==
    ASSUME QInv, Return
    PROVE  QInv'
<1> DEFINE e == Entered(Master)
<1>0. Master \in Threads /\ thread \in [Threads -> ThreadState]
  BY DEF Threads, QInv, QTypeOK
<1>1. /\ AtLock(Master) /\ queue = <<>> /\ ~stop /\ e.todo = 0
      /\ Counters([e EXCEPT !.total = @ - 1, !.ok = TRUE])
      /\ answer' = <<e.ok>> /\ thread' = [thread EXCEPT ![Master] = Off]
      /\ UNCHANGED <<queue, stop, notify, added, blocks>>
  BY DEF Return
<1>2. e \in [todo : Int, idle : Int, total : Int, ok : BOOLEAN]
  BY <1>0, <1>1, EnteredType DEF QInv
<1>3. nTodo' = e.todo /\ nIdle' = e.idle /\ nTotal' = e.total - 1 /\ fAllOk'
  BY <1>1, <1>2 DEF Counters
<1>4. /\ Off \in ThreadState /\ Off.at = "off" /\ Off.now = 0 /\ Off.batch = <<>> /\ Off.ok
  BY EmptyStates
<1>5. e.total \in Nat /\ e.idle \in Nat /\ e.total >= 1
  BY <1>0, <1>1, CountersNatural
<1>6. Looped(Master, Off, 0)
  <2>1. 0 \in Nat /\ 0 = IF Off.at \in {"work", "loop"} THEN Off.now ELSE 0
    BY <1>4
  <2>2. thread' = [Notified(Master) EXCEPT ![Master] = Off]
    BY <1>1 DEF Notified
  <2> QED BY <1>0, <1>1, <1>4, <2>1, <2>2, LoopStep, Zenon
<1>7. Where(Master)' = "off" /\ ~MasterCounted'
  BY <1>0, <1>4, <1>6 DEF Looped, Where, MasterCounted
<1>8. /\ nTodo' \in Int /\ nIdle' \in Int /\ Clean' /\ Counted'
      /\ Good <=> e.ok /\ \A u \in Threads \ {Master} : thread[u].ok /\ AllOk(thread[u].batch)
  <2>1. /\ Off.at \in {"wait", "off"} /\ nIdle' = Entered(Master).idle + (IF Off.at = "wait" THEN 1 ELSE 0)
        /\ nTotal' \in Nat /\ nTotal' >= IF MasterCounted' THEN 1 ELSE 0
    BY <1>3, <1>4, <1>5, <1>7
  <2> HIDE DEF e
  <2> QED BY <1>0, <1>1, <1>3, <1>4, <1>6, <2>1, Resting DEF e
<1>9. \A u \in Threads : Held(u)' = 0
  <2>1. HeldBy' \in [Threads -> Nat] /\ \A u \in Threads : HeldBy'[u] = Held(u)'
    BY <1>6 DEF HeldBy, Held, Looped, ThreadState, Where
  <2>2. /\ IsFiniteSet(Pairs(HeldBy')) /\ nTodo' = Len(queue') + Cardinality(Pairs(HeldBy'))
        /\ queue' = <<>> /\ nTodo' = 0
    BY <1>1, <1>3, <1>8 DEF Counted, Pairs
  <2>3. Cardinality(Pairs(HeldBy')) \in Nat
    BY <2>2, FS_CardinalityType
  <2>4. Cardinality(Pairs(HeldBy')) = 0
    BY <2>2, <2>3
  <2>5. \A u \in Threads : HeldBy'[u] = 0
    BY <2>1, <2>2, <2>4, NothingHeld, Zenon
  <2> QED BY <2>1, <2>5
<1>10. \A u \in Threads \ {Master} : thread[u].ok /\ AllOk(thread[u].batch)
  <2> SUFFICES ASSUME NEW u \in Threads \ {Master}
               PROVE  thread[u].ok /\ AllOk(thread[u].batch)
    OBVIOUS
  <2>1. thread'[u] = thread[u] /\ Held(u)' = 0
    BY <1>0, <1>1, <1>9
  <2>2. Where(u) \in {"off", "control", "loop", "wait", "woken", "work"}
    BY <1>0 DEF ThreadState, Where
  <2>3. thread[u].ok /\ thread[u].batch = <<>>
    BY <2>1, <2>2 DEF QInv, Clean, Held, Where
  <2> QED BY <2>3 DEF AllOk
<1>11. Where(Master) # "off"
  BY <1>1 DEF AtLock
<1>12. e.ok <=> AllOk(added)
  BY <1>8, <1>10, <1>11 DEF QInv, Answered
<1>13. QTypeOK'
  <2>1. fAllOk' \in BOOLEAN
    BY <1>1, <1>2, Zenon DEF Counters
  <2>2. nTotal' \in Int /\ e.ok \in BOOLEAN
    BY <1>2, <1>3
  <2>3. answer' \in {<<>>, <<TRUE>>, <<FALSE>>}
    BY <1>1, <2>2, Zenon
  <2> QED BY <1>1, <1>6, <1>8, <2>1, <2>2, <2>3, Zenon DEF QInv, QTypeOK, Looped
<1>14. Answered'
  <2>1. answer'[1] <=> AllOk(added')
    BY <1>1, <1>12
  <2> QED BY <1>1, <1>3, <1>7, <2>1 DEF Answered
<1>15. Awaited'
  BY <1>1, <1>7 DEF QInv, Awaited
<1> QED BY <1>8, <1>13, <1>14, <1>15 DEF QInv

-----------------------------------------------------------------------------
\* The inductive step, one case per operation.
LEMMA QInvStep == QInv /\ [Next]_vars => QInv'
<1> SUFFICES ASSUME QInv, [Next]_vars PROVE QInv'
  OBVIOUS
<1>1. CASE UNCHANGED vars
  <2>1. /\ QTypeOK' = QTypeOK /\ Clean' = Clean /\ Answered' = Answered /\ Awaited' = Awaited
    BY <1>1 DEF vars, QTypeOK, Clean, Answered, Awaited, Where, Good
  <2>2. HeldBy' = HeldBy /\ Sleepers' = Sleepers /\ MasterCounted' = MasterCounted
    BY <1>1 DEF vars, HeldBy, Held, Sleepers, MasterCounted, Where
  <2>3. Counted'
    BY <1>1, <2>2, CountedKept DEF vars, QInv, Counted
  <2> QED BY <2>1, <2>3 DEF QInv
<1>2. ASSUME NEW t \in Threads, Step(t) PROVE QInv'
  BY <1>2, TakeKeeps, SleepKeeps, LeaveKeeps, ExecuteKeeps, ReturnKeeps DEF Step
<1> QED BY <1>1, <1>2, StartKeeps, ControlKeeps, NotifyKeeps, WaitKeeps, StopKeeps, JoinedKeeps,
           AddKeeps, SpuriousKeeps DEF Next

LEMMA Invariance == Spec => []QInv
BY QInvInit, QInvStep, PTL DEF Spec

\* Once the master is out of Wait nothing is queued, held by a worker or
\* counted: what CCheckQueueControl promises of the queue it guards, for any
\* number of worker threads (checkqueue.h, Loop and Wait).
THEOREM FinishedQueue == Spec => []QueueFinished
<1>1. QInv => QueueFinished
  BY BetweenBlocks DEF QueueFinished, QInv, Answered
<1> QED BY <1>1, Invariance, PTL

\* The answer of Wait is TRUE exactly if every check of the block holds,
\* whoever ran it and in whichever order the results came in (fAllOk in Loop).
THEOREM ExactAnswer == Spec => []AnswerIsExact
<1>1. QInv => AnswerIsExact
  <2> SUFFICES ASSUME QInv, answer # <<>>
               PROVE  answer[1] = \A i \in DOMAIN added : added[i]
    BY DEF AnswerIsExact
  <2>1. answer[1] \in BOOLEAN
    <3>1. answer = <<TRUE>> \/ answer = <<FALSE>>
      BY DEF QInv, QTypeOK
    <3>2. <<TRUE>>[1] = TRUE /\ <<FALSE>>[1] = FALSE
      OBVIOUS
    <3> QED BY <3>1, <3>2, Zenon
  <2>2. answer[1] <=> \A i \in DOMAIN added : added[i]
    BY DEF QInv, Answered, AllOk
  <2> QED BY <2>1, <2>2, Zenon
<1> QED BY <1>1, Invariance, PTL

\* A thread that waits has somebody to wake it: while the master waits, a worker
\* holds checks and will find nTodo at zero when the last of them is reported,
\* and a worker does not wait once StopWorkerThreads has set the flag.  This is
\* what WaitReturns and StopReturns rest on besides fairness.
NobodyForgotten ==
    /\ Where(Master) = "wait" => \E w \in Workers : Where(w) \in {"work", "loop"} /\ Held(w) # 0
    /\ stop => \A w \in Workers : Where(w) # "wait"

\* Nobody is forgotten, for any number of workers (Loop's two conditions and the
\* notifications of Add and of the last report).
THEOREM NoLostWakeup == Spec => []NobodyForgotten
<1>1. QInv => NobodyForgotten
  <2> SUFFICES ASSUME QInv PROVE NobodyForgotten
    OBVIOUS
  <2>1. stop => \A w \in Workers : Where(w) # "wait"
    BY DEF QInv, Awaited, Threads
  <2>2. ASSUME Where(Master) = "wait"
        PROVE  \E w \in Workers : Where(w) \in {"work", "loop"} /\ Held(w) # 0
    <3>1. HeldBy \in [Threads -> Nat] /\ \A t \in Threads : HeldBy[t] = Held(t)
      BY DEF HeldBy, Held, QInv, QTypeOK, ThreadState
    <3>2. /\ nTodo # 0 /\ queue = <<>> /\ nTodo = Len(queue) + Cardinality(Pairs(HeldBy))
          /\ IsFiniteSet(Pairs(HeldBy))
      BY <2>2 DEF QInv, Awaited, Counted
    <3>3. Cardinality(Pairs(HeldBy)) \in Nat
      BY <3>2, FS_CardinalityType
    <3>4. Cardinality(Pairs(HeldBy)) # 0
      BY <3>2, <3>3
    <3>5. PICK w \in Threads : HeldBy[w] # 0
      BY <3>1, <3>2, <3>4, NothingHeld
    <3>6. w # Master
      BY <2>2, <3>1, <3>5 DEF Held
    <3> QED BY <3>1, <3>5, <3>6 DEF Held, Threads
  <2> QED BY <2>1, <2>2 DEF NobodyForgotten
<1> QED BY <1>1, Invariance, PTL
=============================================================================
