-------------------------- MODULE KernelLocksProof --------------------------
(***************************************************************************)
(* The last part of the invariant of KernelLocks is kept: QueueInv, about  *)
(* the queues of the locks; and the theorems.                              *)
(***************************************************************************)
EXTENDS KernelLocksCore

(* Holding and waiting are matters of where a context is on its path. *)
LEMMA HoldsKept ==
  ASSUME NEW x, NEW l, path'[x] = path[x], taken'[x] = taken[x],
         pc'[x] \in {"exit", "sti"} <=> pc[x] \in {"exit", "sti"},
         pc'[x] = "spin" <=> pc[x] = "spin"
  PROVE  (Holds(x, l)' <=> Holds(x, l)) /\ (Waits(x, l)' <=> Waits(x, l))
BY DEF Holds, Waits, NextLock

(* At the start of its path a context has no lock and waits for none. *)
LEMMA HoldsNone ==
  ASSUME NEW x, NEW l
  PROVE  /\ taken[x] = 0 => ~Holds(x, l)
         /\ taken'[x] = 0 => ~Holds(x, l)'
BY DEF Holds

(* The queues stay as they are if nobody gets or loses a place. *)
LEMMA QueuesKept ==
  ASSUME Inv, UNCHANGED queue, NEW l \in Locks,
         \A y \in Contexts : /\ Holds(y, l)' <=> Holds(y, l)
                             /\ Waits(y, l)' <=> Waits(y, l)
  PROVE  QueueInv(l)'
<1>1. QueueInv(l) /\ queue[l] \in Seq(Contexts)
  BY DEF Inv, TypeOK
<1>2. \A i \in 1 .. Len(queue[l]) : queue[l][i] \in Contexts
  BY <1>1
<1> QED BY <1>1, <1>2 DEF QueueInv

(* A lock is in the path of a context once. *)
LEMMA OnceOnPath ==
  ASSUME Inv, NEW x \in Contexts, pc[x] # "idle",
         NEW i \in 1 .. Len(path[x]), NEW j \in 1 .. Len(path[x]), path[x][i] = path[x][j]
  PROVE  i = j
BY DEF Inv, ContextInv, GoodPath

(* A ticket goes to the end of the line, and whoever draws it is not in    *)
(* the line already.                                                       *)
LEMMA DrawKeepsQueue ==
  ASSUME Inv, NEW c \in Cores, DrawTicket(c), NEW l \in Locks
  PROVE  QueueInv(l)'
<1>0. PICK x \in Contexts : x = Top(c)
  BY TopIsContext, Zenon
<1>1. /\ TypeOK /\ ContextInv(x) /\ QueueInv(l) /\ queue[l] \in Seq(Contexts)
      /\ taken[x] \in Nat /\ Len(path[x]) \in Nat
  <2>1. TypeOK /\ ContextInv(x) /\ QueueInv(l)
    BY DEF Inv
  <2>2. queue[l] \in Seq(Contexts) /\ taken[x] \in Nat /\ path[x] \in Seq(Locks \cup {Section})
    BY <2>1 DEF TypeOK
  <2> QED BY <2>1, <2>2
<1>2. /\ pc[x] = "draw" /\ pc' = [pc EXCEPT ![x] = "spin"]
      /\ queue' = [queue EXCEPT ![NextLock(x)] = Append(@, x)]
      /\ UNCHANGED <<path, taken>>
  BY <1>0 DEF DrawTicket, At, Goto, program
<1>3. ASSUME NEW y \in Contexts, y # x
      PROVE  (Holds(y, l)' <=> Holds(y, l)) /\ (Waits(y, l)' <=> Waits(y, l))
  BY <1>1, <1>2, <1>3, HoldsKept DEF TypeOK
<1>4. Holds(x, l)' <=> Holds(x, l)
  BY <1>1, <1>2 DEF Holds, TypeOK
<1>5. ~Waits(x, l) /\ (Waits(x, l)' <=> NextLock(x) = l)
  BY <1>1, <1>2 DEF Waits, NextLock, TypeOK
<1>6. CASE NextLock(x) # l
  <2>1. queue'[l] = queue[l]
    BY <1>1, <1>2, <1>6 DEF TypeOK
  <2>2. \A y \in Contexts : (Holds(y, l)' <=> Holds(y, l)) /\ (Waits(y, l)' <=> Waits(y, l))
    BY <1>3, <1>4, <1>5, <1>6
  <2>3. \A i \in 1 .. Len(queue[l]) : queue[l][i] \in Contexts
    BY <1>1
  <2> QED BY <1>1, <2>1, <2>2, <2>3 DEF QueueInv
<1>7. CASE NextLock(x) = l
  <2>1. queue'[l] = Append(queue[l], x)
    BY <1>1, <1>2, <1>7 DEF TypeOK
  <2>2. PICK n \in Nat : n = Len(queue[l])
    BY <1>1
  <2>3. /\ Len(queue'[l]) = n + 1 /\ queue'[l][n + 1] = x
        /\ \A i \in 1 .. n : queue'[l][i] = queue[l][i] /\ queue[l][i] \in Contexts
    BY <1>1, <2>1, <2>2
  <2>4. ~Holds(x, l)
    <3>1. SUFFICES ASSUME NEW k \in 1 .. taken[x], path[x][k] = l PROVE FALSE
      BY DEF Holds
    <3>2. taken[x] < Len(path[x])
      BY <1>1, <1>2 DEF ContextInv
    <3>3. k \in 1 .. Len(path[x]) /\ taken[x] + 1 \in 1 .. Len(path[x]) /\ k # taken[x] + 1
      BY <1>1, <3>2
    <3> QED BY <1>2, <1>7, <3>1, <3>3, OnceOnPath DEF NextLock
  <2>5. \A i \in 1 .. n : queue[l][i] # x
    BY <1>1, <1>5, <2>2, <2>4 DEF QueueInv
  <2>6. ASSUME NEW i \in 1 .. n + 1, NEW j \in 1 .. n + 1, queue'[l][i] = queue'[l][j]
        PROVE  i = j
    <3>1. \A k, m \in 1 .. n : queue[l][k] = queue[l][m] => k = m
      BY <1>1, <2>2 DEF QueueInv
    <3>2. CASE i \in 1 .. n /\ j \in 1 .. n
      BY <2>3, <2>6, <3>1, <3>2
    <3>3. CASE i = n + 1 /\ j \in 1 .. n
      BY <2>3, <2>5, <2>6, <3>3
    <3>4. CASE i \in 1 .. n /\ j = n + 1
      BY <2>3, <2>5, <2>6, <3>4
    <3> QED BY <3>2, <3>3, <3>4
  <2>7. ASSUME NEW i \in 1 .. n + 1
        PROVE  (Holds(queue[l][i], l) \/ Waits(queue[l][i], l))'
    <3>0. SUFFICES ASSUME NEW z \in Contexts, z = queue'[l][i] PROVE Holds(z, l)' \/ Waits(z, l)'
      <4>1. queue'[l][i] \in Contexts
        BY <2>3
      <4> QED BY <3>0, <4>1 DEF Holds, Waits, NextLock
    <3>1. CASE i = n + 1
      BY <1>5, <1>7, <2>3, <3>0, <3>1
    <3>2. CASE i # n + 1
      <4>1. i \in 1 .. n
        BY <3>2
      <4>2. z = queue[l][i] /\ z # x
        BY <2>3, <2>5, <3>0, <4>1
      <4>3. Holds(z, l) \/ Waits(z, l)
        BY <1>1, <2>2, <4>1, <4>2 DEF QueueInv
      <4> QED BY <1>3, <4>2, <4>3
    <3> QED BY <3>1, <3>2
  <2>8. ASSUME NEW y \in Contexts, Holds(y, l)'
        PROVE  Len(queue'[l]) > 0 /\ queue'[l][1] = y
    <3>1. Holds(y, l)
      BY <1>3, <1>4, <2>8
    <3>2. n > 0 /\ queue[l][1] = y
      BY <1>1, <2>2, <3>1 DEF QueueInv
    <3>3. 1 \in 1 .. n
      BY <3>2
    <3> QED BY <2>3, <3>2, <3>3
  <2>9. ASSUME NEW y \in Contexts, Waits(y, l)'
        PROVE  \E i \in 1 .. Len(queue'[l]) : queue'[l][i] = y
    <3>1. CASE y = x
      <4>1. n + 1 \in 1 .. Len(queue'[l])
        BY <2>3
      <4> QED BY <2>3, <3>1, <4>1
    <3>2. CASE y # x
      <4>1. PICK i \in 1 .. n : queue[l][i] = y
        BY <1>1, <1>3, <2>2, <2>9, <3>2 DEF QueueInv
      <4>2. i \in 1 .. Len(queue'[l])
        BY <2>3
      <4> QED BY <2>3, <4>1, <4>2
    <3> QED BY <3>1, <3>2
  <2> QED BY <2>3, <2>6, <2>7, <2>8, <2>9 DEF QueueInv
<1> QED BY <1>6, <1>7

(* Whoever ends to spin stays at the head, now as the holder. *)
LEMMA AcquireKeepsQueue ==
  ASSUME Inv, NEW c \in Cores, Acquire(c), NEW l \in Locks
  PROVE  QueueInv(l)'
<1>0. PICK x \in Contexts : x = Top(c)
  BY TopIsContext, Zenon
<1>1. TypeOK /\ ContextInv(x) /\ QueueInv(l) /\ queue[l] \in Seq(Contexts) /\ taken[x] \in Nat
  <2>1. TypeOK /\ ContextInv(x) /\ QueueInv(l)
    BY DEF Inv
  <2> QED BY <2>1, Zenon DEF TypeOK
<1>2. /\ pc[x] = "spin" /\ Head(queue[NextLock(x)]) = x
      /\ taken' = [taken EXCEPT ![x] = @ + 1]
      /\ pc' = [pc EXCEPT ![x] = IF taken[x] + 1 = Len(path[x]) THEN "drop" ELSE "lock"]
      /\ UNCHANGED <<queue, path>>
  BY <1>0 DEF Acquire, GoDown, At, Goto, program
<1>3. taken'[x] = taken[x] + 1 /\ pc'[x] \in {"drop", "lock"} /\ path'[x] = path[x]
  BY <1>1, <1>2 DEF TypeOK
<1>4. ASSUME NEW y \in Contexts, y # x
      PROVE  (Holds(y, l)' <=> Holds(y, l)) /\ (Waits(y, l)' <=> Waits(y, l))
  BY <1>1, <1>2, <1>4, HoldsKept, Zenon DEF TypeOK
<1>5. (Waits(x, l) <=> NextLock(x) = l) /\ ~Waits(x, l)'
  BY <1>2, <1>3 DEF Waits
<1>6. Holds(x, l)' <=> Holds(x, l) \/ NextLock(x) = l
  <2>1. Holds(x, l) <=> \E k \in 1 .. taken[x] : path[x][k] = l
    BY <1>2 DEF Holds
  <2>2. Holds(x, l)' <=> \E k \in 1 .. taken[x] + 1 : path[x][k] = l
    BY <1>3 DEF Holds
  <2>3. 1 .. taken[x] + 1 = (1 .. taken[x]) \cup {taken[x] + 1}
    BY <1>1
  <2> QED BY <2>1, <2>2, <2>3 DEF NextLock
<1>7. CASE NextLock(x) # l
  <2>1. \A y \in Contexts : (Holds(y, l)' <=> Holds(y, l)) /\ (Waits(y, l)' <=> Waits(y, l))
    BY <1>4, <1>5, <1>6, <1>7
  <2> QED BY <1>2, <2>1, QueuesKept
<1>8. CASE NextLock(x) = l
  <2>1. Len(queue[l]) > 0 /\ queue[l][1] = x
    <3>1. \E i \in 1 .. Len(queue[l]) : queue[l][i] = x
      BY <1>1, <1>5, <1>8 DEF QueueInv
    <3>2. Len(queue[l]) > 0
      BY <1>1, <3>1
    <3> QED BY <1>1, <1>2, <1>8, <3>2
  <2>2. ASSUME NEW i \in 1 .. Len(queue[l])
        PROVE  (Holds(queue[l][i], l) \/ Waits(queue[l][i], l))'
    <3>1. SUFFICES ASSUME NEW z \in Contexts, z = queue[l][i] PROVE Holds(z, l)' \/ Waits(z, l)'
      <4>1. queue[l][i] \in Contexts
        BY <1>1
      <4> QED BY <1>2, <3>1, <4>1 DEF Holds, Waits, NextLock
    <3>2. Holds(z, l) \/ Waits(z, l)
      BY <1>1, <3>1 DEF QueueInv
    <3> QED BY <1>4, <1>6, <1>8, <3>2
  <2>3. ASSUME NEW y \in Contexts, Holds(y, l)' PROVE queue[l][1] = y
    <3>1. y = x \/ Holds(y, l)
      BY <1>4, <2>3
    <3> QED BY <1>1, <2>1, <3>1 DEF QueueInv
  <2>4. ASSUME NEW y \in Contexts, Waits(y, l)'
        PROVE  \E i \in 1 .. Len(queue[l]) : queue[l][i] = y
    <3>1. Waits(y, l)
      BY <1>4, <1>5, <2>4
    <3> QED BY <1>1, <3>1 DEF QueueInv
  <2> QED BY <1>1, <1>2, <2>1, <2>2, <2>3, <2>4, Zenon DEF QueueInv
<1> QED BY <1>7, <1>8

(* The guard that is dropped is that of the context at the head. *)
LEMMA DropKeepsQueue ==
  ASSUME Inv, NEW c \in Cores, DropGuard(c), NEW l \in Locks
  PROVE  QueueInv(l)'
<1>0. PICK x \in Contexts : x = Top(c)
  BY TopIsContext, Zenon
<1>1. TypeOK /\ ContextInv(x) /\ QueueInv(l)
  BY DEF Inv
<1>2. queue[l] \in Seq(Contexts) /\ taken[x] \in Nat /\ Len(path[x]) \in Nat
  BY <1>1 DEF TypeOK
<1>3. /\ pc[x] = "drop" /\ taken[x] > 0
      /\ queue' = IF LastLock(x) = Section THEN queue
                  ELSE [queue EXCEPT ![LastLock(x)] = Tail(@)]
      /\ \/ pc' = [pc EXCEPT ![x] = "exit"] /\ UNCHANGED taken
         \/ taken' = [taken EXCEPT ![x] = @ - 1] /\ UNCHANGED pc
      /\ UNCHANGED path
  BY <1>0 DEF DropGuard, At, Goto, program
<1>4. /\ path'[x] = path[x]
      /\ \/ pc'[x] = "exit" /\ taken'[x] = taken[x]
         \/ pc'[x] = "drop" /\ taken'[x] = taken[x] - 1
  BY <1>1, <1>3 DEF TypeOK
<1>5. ASSUME NEW y \in Contexts, y # x
      PROVE  (Holds(y, l)' <=> Holds(y, l)) /\ (Waits(y, l)' <=> Waits(y, l))
  <2>1. path'[y] = path[y] /\ taken'[y] = taken[y] /\ pc'[y] = pc[y]
    BY <1>1, <1>3, <1>5 DEF TypeOK
  <2> QED BY <2>1, HoldsKept
<1>6. ~Waits(x, l) /\ ~Waits(x, l)'
  BY <1>3, <1>4 DEF Waits
<1>7. Holds(x, l)' <=> Holds(x, l) /\ LastLock(x) # l
  <2>1. Holds(x, l) <=> \E k \in 1 .. taken[x] : path[x][k] = l
    BY <1>3 DEF Holds
  <2>2. Holds(x, l)' <=> \E k \in 1 .. taken[x] - 1 : path[x][k] = l
    <3>1. CASE pc'[x] = "exit" /\ taken'[x] = taken[x]
      <4>1. Holds(x, l)' <=> \E k \in 1 .. taken[x] : path[x][k] = l /\ k # taken[x]
        BY <1>4, <3>1 DEF Holds
      <4>2. \A k : k \in 1 .. taken[x] - 1 <=> k \in 1 .. taken[x] /\ k # taken[x]
        BY <1>2
      <4> QED BY <4>1, <4>2
    <3>2. CASE pc'[x] = "drop" /\ taken'[x] = taken[x] - 1
      BY <1>4, <3>2 DEF Holds
    <3> QED BY <1>4, <3>1, <3>2
  <2>3. \A k \in 1 .. taken[x] - 1 : path[x][k] # LastLock(x)
    <3>1. SUFFICES ASSUME NEW k \in 1 .. taken[x] - 1, path[x][k] = LastLock(x) PROVE FALSE
      OBVIOUS
    <3>2. taken[x] <= Len(path[x])
      BY <1>1, <1>3 DEF ContextInv
    <3>3. k \in 1 .. Len(path[x]) /\ taken[x] \in 1 .. Len(path[x]) /\ k # taken[x]
      BY <1>2, <1>3, <3>2
    <3> QED BY <1>3, <3>1, <3>3, OnceOnPath DEF LastLock
  <2>4. \A k : k \in 1 .. taken[x] <=> k \in 1 .. taken[x] - 1 \/ k = taken[x]
    BY <1>2, <1>3
  <2> QED BY <2>1, <2>2, <2>3, <2>4 DEF LastLock
<1>8. CASE LastLock(x) # l
  <2>1. queue'[l] = queue[l]
    BY <1>1, <1>3, <1>8 DEF TypeOK
  <2>2. \A y \in Contexts : (Holds(y, l)' <=> Holds(y, l)) /\ (Waits(y, l)' <=> Waits(y, l))
    BY <1>5, <1>6, <1>7, <1>8
  <2>3. \A i \in 1 .. Len(queue[l]) : queue[l][i] \in Contexts
    BY <1>2
  <2> QED BY <1>1, <2>1, <2>2, <2>3 DEF QueueInv
<1>9. CASE LastLock(x) = l
  <2>1. Holds(x, l)
    <3>1. taken[x] \in 1 .. taken[x]
      BY <1>2, <1>3
    <3> QED BY <1>3, <1>9, <3>1 DEF Holds, LastLock
  <2>2. Len(queue[l]) > 0 /\ queue[l][1] = x
    BY <1>1, <2>1 DEF QueueInv
  <2>3. PICK n \in Nat : n + 1 = Len(queue[l])
    <3>1. Len(queue[l]) \in Nat /\ Len(queue[l]) - 1 \in Nat
      BY <1>2, <2>2
    <3>2. (Len(queue[l]) - 1) + 1 = Len(queue[l])
      BY <3>1
    <3> QED BY <3>1, <3>2, Zenon
  <2>4. l # Section
    BY DEF Locks, Section, SharedLocks, LocalLocks
  <2>5. queue'[l] = Tail(queue[l])
    BY <1>1, <1>3, <1>9, <2>4 DEF TypeOK
  <2>6. /\ Len(queue'[l]) = n
        /\ \A i \in 1 .. n : /\ i + 1 \in 1 .. n + 1 /\ queue'[l][i] = queue[l][i + 1]
                             /\ queue[l][i + 1] \in Contexts /\ queue[l][i + 1] # x
    <3>1. Len(queue'[l]) = n /\ \A i \in 1 .. n : queue'[l][i] = queue[l][i + 1]
      BY <1>2, <2>2, <2>3, <2>5
    <3>2. ASSUME NEW i \in 1 .. n
          PROVE  /\ i + 1 \in 1 .. n + 1 /\ i + 1 # 1 /\ queue[l][i + 1] \in Contexts
      BY <1>2, <2>3
    <3>3. 1 \in 1 .. n + 1
      OBVIOUS
    <3>4. ASSUME NEW i \in 1 .. n PROVE queue[l][i + 1] # x
      BY <1>1, <2>2, <2>3, <3>2, <3>3 DEF QueueInv
    <3> QED BY <3>1, <3>2, <3>4
  <2>7. ASSUME NEW i \in 1 .. n, NEW j \in 1 .. n, queue'[l][i] = queue'[l][j]
        PROVE  i = j
    <3>1. i + 1 = j + 1
      <4>1. /\ i + 1 \in 1 .. Len(queue[l]) /\ j + 1 \in 1 .. Len(queue[l])
            /\ queue[l][i + 1] = queue[l][j + 1]
        BY <2>3, <2>6, <2>7
      <4> QED BY <1>1, <4>1 DEF QueueInv
    <3> QED BY <3>1
  <2>8. ASSUME NEW i \in 1 .. n
        PROVE  (Holds(queue[l][i], l) \/ Waits(queue[l][i], l))'
    <3>1. SUFFICES ASSUME NEW z \in Contexts, z = queue'[l][i] PROVE Holds(z, l)' \/ Waits(z, l)'
      <4>1. queue'[l][i] \in Contexts
        BY <2>6
      <4> QED BY <3>1, <4>1 DEF Holds, Waits, NextLock
    <3>2. z = queue[l][i + 1] /\ i + 1 \in 1 .. n + 1 /\ z # x
      BY <2>6, <3>1
    <3>3. Holds(z, l) \/ Waits(z, l)
      BY <1>1, <2>3, <3>2 DEF QueueInv
    <3> QED BY <1>5, <3>2, <3>3
  <2>9. ASSUME NEW y \in Contexts, Holds(y, l)' PROVE FALSE
    <3>1. y # x
      BY <1>7, <1>9, <2>9
    <3>2. queue[l][1] = y
      BY <1>1, <1>5, <2>9, <3>1 DEF QueueInv
    <3> QED BY <2>2, <3>1, <3>2
  <2>10. ASSUME NEW y \in Contexts, Waits(y, l)'
        PROVE  \E i \in 1 .. n : queue'[l][i] = y
    <3>1. y # x /\ Waits(y, l)
      BY <1>5, <1>6, <2>10
    <3>2. PICK i \in 1 .. n + 1 : queue[l][i] = y
      BY <1>1, <2>3, <3>1 DEF QueueInv
    <3>3. i # 1
      BY <2>2, <3>1, <3>2
    <3>4. i - 1 \in 1 .. n /\ (i - 1) + 1 = i
      BY <3>3
    <3> QED BY <2>6, <3>2, <3>4
  <2> QED BY <2>6, <2>7, <2>8, <2>9, <2>10 DEF QueueInv
<1> QED BY <1>8, <1>9

(* The queues are right after every step. *)
LEMMA QueueStep ==
  ASSUME Inv, NEW c \in Cores, CoreStep(c), NEW l \in Locks
  PROVE  QueueInv(l)'
<1>0. PICK x \in Contexts : x = Top(c)
  BY TopIsContext, Zenon
<1>1. TypeOK /\ ContextInv(x) /\ taken[x] \in Nat
  BY Zenon DEF Inv, TypeOK
<1>2. CASE DrawTicket(c)
  BY <1>2, DrawKeepsQueue
<1>3. CASE Acquire(c)
  BY <1>3, AcquireKeepsQueue
<1>4. CASE DropGuard(c)
  BY <1>4, DropKeepsQueue
<1>5. ASSUME NEW z \in Contexts, UNCHANGED queue,
             \A y \in Contexts : y # z =>
                 pc'[y] = pc[y] /\ path'[y] = path[y] /\ taken'[y] = taken[y],
             (Holds(z, l)' <=> Holds(z, l)) /\ (Waits(z, l)' <=> Waits(z, l))
      PROVE  QueueInv(l)'
  <2>1. ASSUME NEW y \in Contexts
        PROVE  (Holds(y, l)' <=> Holds(y, l)) /\ (Waits(y, l)' <=> Waits(y, l))
    BY <1>5, HoldsKept
  <2> QED BY <1>5, <2>1, QueuesKept
<1>6. CASE EnterLock(c) \/ Cli(c) \/ ExitLock(c)
  <2>1. /\ UNCHANGED <<queue, path, taken>>
        /\ \/ pc[x] = "lock" /\ pc' = [pc EXCEPT ![x] = "cli"]
           \/ pc[x] \in {"lock", "cli"} /\ pc' = [pc EXCEPT ![x] = "draw"]
           \/ pc[x] = "exit" /\ pc' = [pc EXCEPT ![x] = "sti"]
    BY <1>0, <1>6 DEF EnterLock, Cli, ExitLock, At, Goto, program
  <2>2. /\ \A y \in Contexts : y # x => pc'[y] = pc[y]
        /\ pc'[x] \in {"exit", "sti"} <=> pc[x] \in {"exit", "sti"}
        /\ pc'[x] = "spin" <=> pc[x] = "spin"
    BY <1>1, <2>1 DEF TypeOK
  <2>3. (Holds(x, l)' <=> Holds(x, l)) /\ (Waits(x, l)' <=> Waits(x, l))
    BY <2>1, <2>2, HoldsKept
  <2> QED BY <1>5, <2>1, <2>2, <2>3
<1>7. CASE Sti(c)
  <2>1. /\ pc[x] = "sti" /\ pc' = [pc EXCEPT ![x] = "drop"]
        /\ taken' = [taken EXCEPT ![x] = @ - 1] /\ UNCHANGED <<queue, path>>
    BY <1>0, <1>7 DEF Sti, At, Goto, program
  <2>2. /\ \A y \in Contexts : y # x => pc'[y] = pc[y] /\ taken'[y] = taken[y]
        /\ pc'[x] = "drop" /\ taken'[x] = taken[x] - 1 /\ path'[x] = path[x]
    BY <1>1, <2>1 DEF TypeOK
  <2>3. Holds(x, l) <=> \E k \in 1 .. taken[x] : path[x][k] = l /\ k # taken[x]
    BY <2>1 DEF Holds
  <2>4. Holds(x, l)' <=> \E k \in 1 .. taken[x] - 1 : path[x][k] = l
    BY <2>2 DEF Holds
  <2>5. \A k : k \in 1 .. taken[x] - 1 <=> k \in 1 .. taken[x] /\ k # taken[x]
    BY <1>1
  <2>6. ~Waits(x, l) /\ ~Waits(x, l)'
    BY <2>1, <2>2 DEF Waits
  <2> QED BY <1>5, <2>1, <2>2, <2>3, <2>4, <2>5, <2>6
<1>8. CASE Call(c) \/ Return(c) \/ Iret(c)
  <2>1. /\ taken[x] = 0 /\ pc[x] \in {"idle", "drop"} /\ UNCHANGED <<queue, taken>>
        /\ pc'[x] \in {"lock", "idle"}
        /\ \A y \in Contexts : y # x => pc'[y] = pc[y] /\ path'[y] = path[y]
    <3>1. CASE Call(c)
      BY <1>0, <1>1, <3>1 DEF Call, At, Goto, TypeOK, ContextInv
    <3>2. CASE Return(c)
      BY <1>0, <1>1, <3>2 DEF Return, At, Goto, TypeOK
    <3>3. CASE Iret(c)
      BY <1>0, <1>1, <3>3 DEF Iret, At, Goto, TypeOK
    <3> QED BY <1>8, <3>1, <3>2, <3>3
  <2>2. ~Holds(x, l) /\ ~Holds(x, l)'
    BY <2>1, HoldsNone
  <2>3. ~Waits(x, l) /\ ~Waits(x, l)'
    BY <2>1 DEF Waits
  <2> QED BY <1>5, <2>1, <2>2, <2>3
<1>9. CASE BootCall(c)
  <2>1. /\ pc[x] = "idle" /\ UNCHANGED queue /\ boot[c] # << >>
        /\ path'[x] = Head(boot[c]) /\ pc'[x] # "spin"
        /\ \/ Head(boot[c]) = EndOfBoot /\ taken'[x] = 1
           \/ taken'[x] = taken[x]
        /\ \A y \in Contexts : y # x => /\ pc'[y] = pc[y] /\ path'[y] = path[y]
                                        /\ taken'[y] = taken[y]
    BY <1>0, <1>1, <1>9 DEF BootCall, At, Goto, TypeOK
  <2>2. taken[x] = 0
    BY <1>1, <2>1 DEF ContextInv
  <2>3. ~Holds(x, l)
    BY <2>2, HoldsNone
  <2>4. ~Holds(x, l)'
    <3>1. CASE taken'[x] = 0
      BY <3>1, HoldsNone
    <3>2. CASE Head(boot[c]) = EndOfBoot /\ taken'[x] = 1
      <4>1. path'[x][1] = Section /\ l # Section
        BY <2>1, <3>2 DEF EndOfBoot, Section, Locks, SharedLocks, LocalLocks
      <4>2. \A k \in 1 .. taken'[x] : k = 1
        BY <3>2
      <4> QED BY <4>1, <4>2 DEF Holds
    <3> QED BY <2>1, <2>2, <3>1, <3>2
  <2>5. ~Waits(x, l) /\ ~Waits(x, l)'
    BY <2>1 DEF Waits
  <2> QED BY <1>5, <2>1, <2>3, <2>4, <2>5
<1>10. CASE Timer(c)
  <2>1. level[c] < MaxNest /\ level[c] \in {0, 1} /\ if_flag[c]
    BY <1>10, TopIsContext, Zenon DEF Timer
  <2>2. PICK h \in Contexts : h = <<c, level[c] + 1>>
    BY <2>1, TopIsContext, Zenon
  <2>3. pc[h] = "idle"
    <3>1. level[c] + 1 \in 1 .. MaxNest /\ level[c] + 1 > level[c]
      BY <2>1, MaxNestAssumption
    <3>2. CoreInv(c)
      BY DEF Inv
    <3> QED BY <2>2, <3>1, <3>2 DEF CoreInv
  <2>4. taken[h] = 0
    BY <2>3, IdleIsQuiet
  <2>5. /\ UNCHANGED <<queue, taken>> /\ pc'[h] = "lock"
        /\ \A y \in Contexts : y # h => pc'[y] = pc[y] /\ path'[y] = path[y]
    BY <1>1, <1>10, <2>2 DEF Timer, Goto, TypeOK
  <2>6. ~Holds(h, l) /\ ~Holds(h, l)'
    BY <2>4, <2>5, HoldsNone
  <2>7. ~Waits(h, l) /\ ~Waits(h, l)'
    BY <2>3, <2>5 DEF Waits
  <2> QED BY <1>5, <2>5, <2>6, <2>7
<1> QED BY <1>2, <1>3, <1>4, <1>6, <1>7, <1>8, <1>9, <1>10 DEF CoreStep, Step

-----------------------------------------------------------------------------
(* The invariant is kept by every step of every core. *)
LEMMA NextInv == Inv /\ [Next]_vars => Inv'
<1>1. ASSUME Inv, NEW c \in Cores, CoreStep(c) PROVE Inv'
  <2>1. TypeOK' /\ \A x \in Contexts : ContextInv(x)'
    BY <1>1, ContextStep
  <2>2. ASSUME NEW d \in Cores PROVE CoreInv(d)'
    BY <1>1, <2>2, OwnCoreStep, OtherCoreStep
  <2>3. ASSUME NEW l \in Locks PROVE QueueInv(l)'
    BY <1>1, <2>3, QueueStep
  <2> QED BY <2>1, <2>2, <2>3 DEF Inv
<1>2. ASSUME Inv, UNCHANGED vars PROVE Inv'
  <2>1. TypeOK'
    BY <1>2 DEF vars, Inv, TypeOK
  <2>2. ASSUME NEW x \in Contexts PROVE ContextInv(x)'
    BY <1>2 DEF vars, Inv, ContextInv, NextLock, LastLock
  <2>3. ASSUME NEW c \in Cores PROVE CoreInv(c)'
    <3>1. CoreInv(c)
      BY <1>2 DEF Inv
    <3>2. UNCHANGED <<Out(<<c, 0>>), Out(<<c, 1>>), Hard(c), Top(c)>>
      BY <1>2 DEF vars, Out, Asking, NextLock, Hard, Top
    <3> QED BY <1>2, <3>1, <3>2 DEF vars, CoreInv
  <2>4. ASSUME NEW l \in Locks PROVE QueueInv(l)'
    <3>1. \A y \in Contexts : (Holds(y, l)' <=> Holds(y, l)) /\ (Waits(y, l)' <=> Waits(y, l))
      BY <1>2 DEF vars, Holds, Waits, NextLock
    <3> QED BY <1>2, <3>1, QueuesKept DEF vars
  <2> QED BY <2>1, <2>2, <2>3, <2>4 DEF Inv
<1> QED BY <1>1, <1>2 DEF Next, CoreStep

(* The contexts of a core below the first two are idle. *)
LEMMA TwoContexts ==
  ASSUME Inv, NEW y \in Contexts, pc[y] # "idle"
  PROVE  y = <<y[1], 0>> \/ (y = <<y[1], 1>> /\ level[y[1]] = 1)
<1>1. PICK c \in Cores, n \in 0 .. MaxNest : y = <<c, n>>
  BY DEF Contexts
<1>2. y[1] = c
  BY <1>1
<1>3. n = 0 \/ (n \in 1 .. MaxNest /\ n <= level[c])
  <2>1. level[c] \in {0, 1}
    BY TopIsContext, Zenon
  <2>2. n \in 1 .. MaxNest => n <= level[c]
    <3>1. CoreInv(c)
      BY DEF Inv
    <3>2. n \in 1 .. MaxNest => ~(n > level[c])
      BY <1>1, <3>1 DEF CoreInv
    <3> QED BY <2>1, <3>2
  <2> QED BY <2>2, MaxNestAssumption
<1>4. n = 0 \/ (n = 1 /\ level[c] = 1)
  <2>1. level[c] \in {0, 1}
    BY TopIsContext, Zenon
  <2> QED BY <1>3, <2>1
<1> QED BY <1>1, <1>2, <1>4

(* The locks of the timer handler mask, so it runs only while the thread   *)
(* below it neither holds nor waits for one of them.                       *)
LEMMA InvNoSelfWait == Inv => NoSelfWait
<1> SUFFICES ASSUME Inv, NEW l \in Locks,
                    NEW i \in 1 .. Len(queue[l]), NEW j \in 1 .. Len(queue[l]),
                    queue[l][i][1] = queue[l][j][1], i # j
             PROVE  FALSE
  BY DEF NoSelfWait
<1>1. QueueInv(l) /\ queue[l] \in Seq(Contexts)
  BY DEF Inv, TypeOK
<1>2. PICK y \in Contexts, z \in Contexts : y = queue[l][i] /\ z = queue[l][j]
  BY <1>1
<1>3. y # z /\ y[1] = z[1]
  BY <1>1, <1>2 DEF QueueInv
<1>4. (Holds(y, l) \/ Waits(y, l)) /\ (Holds(z, l) \/ Waits(z, l))
  BY <1>1, <1>2 DEF QueueInv
<1>5. ASSUME NEW x \in Contexts, Holds(x, l) \/ Waits(x, l) PROVE pc[x] # "idle"
  <2>1. pc[x] = "idle" => taken[x] = 0
    BY DEF Inv, ContextInv
  <2> QED BY <1>5, <2>1, HoldsNone DEF Waits
<1>6. pc[y] # "idle" /\ pc[z] # "idle"
  BY <1>4, <1>5
<1>7. PICK c \in Cores : c = y[1]
  BY DEF Contexts
<1>8. PICK t \in Contexts, h \in Contexts :
        /\ t = <<c, 0>> /\ h = <<c, 1>> /\ level[c] = 1
        /\ Holds(t, l) \/ Waits(t, l)
        /\ Holds(h, l) \/ Waits(h, l)
  <2>1. y = <<c, 0>> \/ (y = <<c, 1>> /\ level[c] = 1)
    BY <1>6, <1>7, TwoContexts
  <2>2. z = <<c, 0>> \/ (z = <<c, 1>> /\ level[c] = 1)
    BY <1>3, <1>6, <1>7, TwoContexts
  <2>3. (y = <<c, 0>> /\ z = <<c, 1>>) \/ (y = <<c, 1>> /\ z = <<c, 0>>)
    BY <1>3, <2>1, <2>2
  <2>4. level[c] = 1
    BY <1>3, <2>1, <2>2
  <2> QED BY <1>4, <2>3, <2>4
<1>9. path[h] = TimerPath(c) /\ ~Hard(c)
  BY <1>8 DEF Inv, CoreInv
<1>10. Masks(l)
  <2>1. Len(TimerPath(c)) = 2 /\ Masks(TimerPath(c)[1]) /\ Masks(TimerPath(c)[2])
    BY DEF TimerPath, Masks, Serial
  <2>2. taken[h] \in Nat /\ taken[h] <= 2 /\ (pc[h] = "spin" => taken[h] < 2)
    BY <1>5, <1>8, <1>9, <2>1, Zenon DEF Inv, TypeOK, ContextInv
  <2>3. \E k \in 1 .. 2 : TimerPath(c)[k] = l
    <3>1. CASE Holds(h, l)
      <4>1. PICK k \in 1 .. taken[h] : path[h][k] = l
        BY <3>1 DEF Holds
      <4>2. k \in 1 .. 2
        BY <2>2
      <4> QED BY <1>9, <4>1, <4>2
    <3>2. CASE Waits(h, l)
      <4>1. taken[h] + 1 \in 1 .. 2 /\ path[h][taken[h] + 1] = l
        BY <2>2, <3>2 DEF Waits, NextLock
      <4> QED BY <1>9, <4>1
    <3> QED BY <1>8, <3>1, <3>2
  <2> QED BY <2>1, <2>3
<1>11. CASE Holds(t, l)
  <2>1. PICK k \in 1 .. taken[t] : path[t][k] = l
    BY <1>11 DEF Holds
  <2>2. taken[t] \in Nat
    BY CountIsNat
  <2>3. MaskCount(path[t], taken[t]) > 0
    BY <1>10, <2>1, <2>2, MaskCountPositive
  <2> QED BY <1>8, <1>9, <2>3 DEF Hard
<1>12. CASE Waits(t, l)
  BY <1>8, <1>9, <1>10, <1>12 DEF Hard, Waits
<1> QED BY <1>8, <1>11, <1>12

(* Between two calls nothing is counted but the section of entry(). *)
LEMMA InvMaskMatches == Inv => MaskMatchesRequests
<1> SUFFICES ASSUME Inv, NEW c \in Cores
             PROVE  /\ level[c] <= 1
                    /\ requests[c] > 0 /\ ~At(<<c, 0>>, "cli") => ~if_flag[c]
                    /\ At(Top(c), "idle") =>
                          /\ requests[c] = IF boot[c] = << >> THEN 0 ELSE 1
                          /\ if_flag[c] <=> boot[c] = << >>
  BY Zenon DEF MaskMatchesRequests
<1>1. PICK t \in Contexts, h \in Contexts : t = <<c, 0>> /\ h = <<c, 1>>
  BY TopIsContext, Zenon
<1>2. CoreInv(c) /\ level[c] \in {0, 1}
  BY TopIsContext, Zenon DEF Inv
<1>3. requests[c] = Bit(boot[c] # << >>) + Out(t) + Out(h)
  BY <1>1, <1>2 DEF CoreInv
<1>4. level[c] = 0 => Out(h) = 0
  <2>1. level[c] = 0 => pc[h] = "idle"
    BY <1>1, <1>2, MaxNestAssumption DEF CoreInv
  <2> QED BY <2>1, IdleIsQuiet
<1>5. ASSUME if_flag[c], pc[t] # "cli" PROVE requests[c] = 0
  <2>1. level[c] = 0 /\ ~Hard(c)
    BY <1>2, <1>5 DEF CoreInv
  <2>2. MaskCount(path[t], taken[t]) = 0 /\ boot[c] = << >> /\ pc[t] # "sti"
    BY <1>1, <2>1, ThreadIsSoft
  <2>3. ~Asking(t)
    BY <1>1, <1>5, <2>1 DEF Hard, Asking
  <2>4. Out(t) = 0
    BY <2>2, <2>3 DEF Out, Bit
  <2> QED BY <1>3, <1>4, <2>1, <2>2, <2>4 DEF Bit
<1>6. ASSUME pc[Top(c)] = "idle"
      PROVE  /\ requests[c] = IF boot[c] = << >> THEN 0 ELSE 1
             /\ if_flag[c] <=> boot[c] = << >>
  <2>1. level[c] = 0 /\ pc[t] = "idle"
    <3>1. level[c] = 1 => pc[Top(c)] # "idle"
      BY <1>2 DEF CoreInv, Top
    <3>2. level[c] = 0
      BY <1>2, <1>6, <3>1
    <3> QED BY <1>1, <1>6, <3>2 DEF Top
  <2>2. Out(t) = 0 /\ taken[t] = 0
    BY <2>1, IdleIsQuiet
  <2>3. requests[c] = Bit(boot[c] # << >>)
    BY <1>3, <1>4, <2>1, <2>2 DEF Bit
  <2>4. Hard(c) <=> boot[c] # << >>
    <3>1. MaskCount(path[t], 0) = 0
      BY MaskCountStep
    <3> QED BY <1>1, <2>1, <2>2, <3>1 DEF Hard
  <2>5. if_flag[c] <=> ~Hard(c)
    BY <1>2, <2>1 DEF CoreInv
  <2> QED BY <2>3, <2>4, <2>5 DEF Bit
<1>7. requests[c] > 0 /\ ~At(<<c, 0>>, "cli") => ~if_flag[c]
  BY <1>1, <1>5 DEF At
<1> QED BY <1>2, <1>6, <1>7 DEF At

-----------------------------------------------------------------------------
(* The types and the bookkeeping of masks and queues hold in every         *)
(* behaviour, on any number of cores.                                      *)
THEOREM LocksInvariance == Spec => []Inv
BY InitInv, NextInv, PTL DEF Spec

(* lock() never waits for a context of its own core.                       *)
THEOREM NeverWaitsForItself == Spec => []NoSelfWait
BY LocksInvariance, InvNoSelfWait, PTL

(* The count of requests and RFLAGS.IF agree, and interrupts do not nest.  *)
THEOREM MasksMatch == Spec => []MaskMatchesRequests
BY LocksInvariance, InvMaskMatches, PTL
=============================================================================
