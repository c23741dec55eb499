--------------------------- MODULE KernelLocksInv ---------------------------
(***************************************************************************)
(* The inductive invariant behind the safety properties of KernelLocks,    *)
(* for any number of cores and any bound on the nesting of handlers.  Here *)
(* are its definition, the initial states, and the first part of a step:   *)
(* types and ContextInv.                                                   *)
(***************************************************************************)
EXTENDS KernelLocks, FiniteSetTheorems, TLAPS

(* The masking locks among the first n of a path. *)
MaskCount(p, n) == Cardinality({i \in 1 .. n : Masks(p[i])})

(* A call of the kernel takes no lock twice, and the section of entry() is *)
(* a call of its own.                                                      *)
GoodPath(p) ==
    /\ p \in Seq(Locks \cup {Section}) /\ Len(p) > 0
    /\ \A i, j \in 1 .. Len(p) : p[i] = p[j] => i = j
    /\ p # EndOfBoot => \A i \in 1 .. Len(p) : p[i] \in Locks

(* The calls of entry() that are left: the section is the last of them. *)
GoodBoot(b) ==
    /\ b \in Seq(Seq(Locks \cup {Section}))
    /\ \A i \in 1 .. Len(b) : GoodPath(b[i]) /\ (b[i] = EndOfBoot <=> i = Len(b))

Bit(b) == IF b THEN 1 ELSE 0
Asking(x) == pc[x] \in {"cli", "draw", "spin"} /\ Masks(NextLock(x))

(* The requests of a context that are counted. *)
Out(x) == MaskCount(path[x], taken[x]) + Bit(Asking(x)) - Bit(pc[x] = "sti")

(* The thread of a core has interrupts disabled. *)
Hard(c) ==
    LET x == <<c, 0>> IN
    \/ boot[c] # << >>
    \/ MaskCount(path[x], taken[x]) > 0
    \/ pc[x] \in {"draw", "spin"} /\ Masks(NextLock(x))

(* Where a context is, and what of its path it has behind it. *)
ContextInv(x) ==
    /\ pc[x] = "idle" => path[x] = << >> /\ taken[x] = 0
    /\ pc[x] # "idle" => GoodPath(path[x]) /\ taken[x] <= Len(path[x])
    /\ pc[x] \in {"lock", "cli", "draw", "spin"} =>
          path[x] # EndOfBoot /\ taken[x] < Len(path[x])
    /\ pc[x] = "cli" => Masks(NextLock(x))
    /\ pc[x] \in {"exit", "sti"} => taken[x] > 0 /\ Masks(LastLock(x))

(* What the flag and the counters of a core say about its contexts. *)
CoreInv(c) ==
    /\ level[c] <= 1 /\ depth[c] = level[c]
    /\ \A n \in 1 .. MaxNest : n > level[c] => pc[<<c, n>>] = "idle"
    /\ level[c] = 1 => /\ pc[<<c, 1>>] # "idle" /\ path[<<c, 1>>] = TimerPath(c)
                       /\ ~Hard(c)
    /\ if_flag[c] <=> level[c] = 0 /\ ~Hard(c)
    /\ requests[c] = Bit(boot[c] # << >>) + Out(<<c, 0>>) + Out(<<c, 1>>)
    /\ pc[Top(c)] = "sti" => was[Top(c)] = requests[c] + 1
    /\ GoodBoot(boot[c])

(* A context has a lock from the end of the spin loop to its release. *)
Holds(x, l) ==
    \E k \in 1 .. taken[x] :
        path[x][k] = l /\ (k = taken[x] => pc[x] \notin {"exit", "sti"})

Waits(x, l) == pc[x] = "spin" /\ NextLock(x) = l

(* A queue has those who wait or hold, once each, a holder at its head. *)
QueueInv(l) ==
    /\ \A i, j \in 1 .. Len(queue[l]) : queue[l][i] = queue[l][j] => i = j
    /\ \A i \in 1 .. Len(queue[l]) : Holds(queue[l][i], l) \/ Waits(queue[l][i], l)
    /\ \A x \in Contexts : Holds(x, l) => Len(queue[l]) > 0 /\ queue[l][1] = x
    /\ \A x \in Contexts : Waits(x, l) => \E i \in 1 .. Len(queue[l]) : queue[l][i] = x

Inv ==
    /\ TypeOK
    /\ \A x \in Contexts : ContextInv(x)
    /\ \A c \in Cores : CoreInv(c)
    /\ \A l \in Locks : QueueInv(l)

-----------------------------------------------------------------------------
(* Each masking lock on the way down a path adds one to the count. *)
LEMMA MaskCountStep ==
  ASSUME NEW p, NEW n \in Nat
  PROVE  /\ MaskCount(p, n) \in Nat
         /\ MaskCount(p, 0) = 0
         /\ MaskCount(p, n + 1) = MaskCount(p, n) + Bit(Masks(p[n + 1]))
<1> DEFINE S(m) == {i \in 1 .. m : Masks(p[i])}
<1>1. ASSUME NEW m \in Nat PROVE IsFiniteSet(S(m))
  <2>1. IsFiniteSet(1 .. m) /\ S(m) \in SUBSET (1 .. m)
    BY FS_Interval
  <2> QED BY <2>1, FS_Subset
<1>2. S(0) = {} /\ S(n + 1) = IF Masks(p[n + 1]) THEN S(n) \cup {n + 1} ELSE S(n)
  OBVIOUS
<1>3. n + 1 \notin S(n)
  OBVIOUS
<1> HIDE DEF S
<1>4. Cardinality(S(n)) \in Nat /\ Cardinality(S(0)) = 0
  BY <1>1, <1>2, FS_CardinalityType, FS_EmptySet
<1>5. Cardinality(S(n + 1)) = Cardinality(S(n)) + Bit(Masks(p[n + 1]))
  BY <1>1, <1>2, <1>3, <1>4, FS_AddElement DEF Bit
<1> QED BY <1>4, <1>5 DEF MaskCount, S

(* A masking lock that is taken is counted. *)
LEMMA MaskCountPositive ==
  ASSUME NEW p, NEW n \in Nat, NEW k \in 1 .. n, Masks(p[k])
  PROVE  MaskCount(p, n) > 0
<1> DEFINE S == {i \in 1 .. n : Masks(p[i])}
<1>1. IsFiniteSet(1 .. n) /\ S \in SUBSET (1 .. n) /\ k \in S
  BY FS_Interval
<1> HIDE DEF S
<1>2. IsFiniteSet(S)
  BY <1>1, FS_Subset, Zenon
<1>3. Cardinality(S) \in Nat /\ Cardinality(S) # 0
  BY <1>1, <1>2, FS_CardinalityType, FS_EmptySet
<1> QED BY <1>3 DEF MaskCount, S

(* The sequences of locks of the kernel's calls are good paths. *)
LEMMA PathsAreGood ==
  ASSUME NEW c \in Cores
  PROVE  /\ GoodPath(AllocSmall(c)) /\ GoodPath(AllocLarge(c)) /\ GoodPath(PrintLine)
         /\ GoodPath(InitInterrupts(c)) /\ GoodPath(InitApic(c)) /\ GoodPath(EnableTimer(c))
         /\ GoodPath(EndOfBoot) /\ GoodPath(TimerPath(c))
<1> USE DEF GoodPath, Locks, SharedLocks, LocalLocks, Section, Serial, FreeMemory
<1>1. GoodPath(AllocSmall(c))
  BY DEF AllocSmall
<1>2. LET p == AllocLarge(c) IN
      /\ p \in Seq(Locks) /\ Len(p) = 4
      /\ p[1] = <<"list_large", c>> /\ p[2] = <<"kernel_pt", "shared">>
      /\ p[3] = <<"list_page", c>> /\ p[4] = FreeMemory
  BY DEF AllocLarge, MapPages, AllocPage
<1>3. GoodPath(AllocLarge(c))
  BY <1>2
<1>4. GoodPath(PrintLine)
  BY DEF PrintLine
<1>5. LET p == InitInterrupts(c) IN
      /\ p \in Seq(Locks) /\ Len(p) = 5 /\ p[1] = <<"interrupts", c>>
      /\ p[2] = <<"list_large", c>> /\ p[3] = <<"kernel_pt", "shared">>
      /\ p[4] = <<"list_page", c>> /\ p[5] = FreeMemory
  BY DEF InitInterrupts, AllocLarge, MapPages, AllocPage
<1>6. GoodPath(InitInterrupts(c))
  <2>1. \A i, j \in 1 .. 5 : InitInterrupts(c)[i][1] = InitInterrupts(c)[j][1] => i = j
    BY <1>5
  <2>2. \A i \in 1 .. 5 : InitInterrupts(c)[i] \in Locks
    BY <1>5
  <2>3. InitInterrupts(c) \in Seq(Locks \cup {Section}) /\ Len(InitInterrupts(c)) = 5
    BY <1>5
  <2> QED BY <2>1, <2>2, <2>3 DEF GoodPath
<1>7. LET p == InitApic(c) IN
      /\ p \in Seq(Locks) /\ Len(p) = 4
      /\ p[1] = <<"apic", c>> /\ p[2] = <<"kernel_pt", "shared">>
      /\ p[3] = <<"list_page", c>> /\ p[4] = FreeMemory
  BY DEF InitApic, MapPages, AllocPage
<1>8. GoodPath(InitApic(c))
  BY <1>7
<1>9. GoodPath(EnableTimer(c)) /\ GoodPath(EndOfBoot) /\ GoodPath(TimerPath(c))
  BY DEF EnableTimer, EndOfBoot, TimerPath
<1> QED BY <1>1, <1>3, <1>4, <1>6, <1>8, <1>9

(* No call of a thread, nor the timer's, is the section. *)
LEMMA CallIsNoSection ==
  ASSUME NEW c \in Cores
  PROVE  /\ AllocSmall(c) # EndOfBoot /\ AllocLarge(c) # EndOfBoot /\ PrintLine # EndOfBoot
         /\ InitInterrupts(c) # EndOfBoot /\ InitApic(c) # EndOfBoot
         /\ EnableTimer(c) # EndOfBoot /\ TimerPath(c) # EndOfBoot
BY DEF InitInterrupts, InitApic, AllocSmall, AllocLarge, MapPages, AllocPage, PrintLine,
       EnableTimer, TimerPath, EndOfBoot, Section, FreeMemory, Serial

(* Only the section of entry() is no lock, and it is the last call. *)
LEMMA EntryIsGood == ASSUME NEW c \in Cores PROVE GoodBoot(Entry(c)) /\ Entry(c) # << >>
<1>1. /\ InitInterrupts(c) # EndOfBoot /\ InitApic(c) # EndOfBoot /\ AllocSmall(c) # EndOfBoot
      /\ PrintLine # EndOfBoot /\ EnableTimer(c) # EndOfBoot
  BY CallIsNoSection
<1>2. /\ AllocSmall(c) \in Seq(Locks \cup {Section}) /\ PrintLine \in Seq(Locks \cup {Section})
      /\ InitInterrupts(c) \in Seq(Locks \cup {Section}) /\ InitApic(c) \in Seq(Locks \cup {Section})
      /\ EnableTimer(c) \in Seq(Locks \cup {Section}) /\ EndOfBoot \in Seq(Locks \cup {Section})
  BY PathsAreGood DEF GoodPath
<1>3. CASE c = Bsp
  <2>1. LET b == Entry(c) IN
        /\ b \in Seq(Seq(Locks \cup {Section})) /\ Len(b) = 6
        /\ b[1] = InitInterrupts(c) /\ b[2] = InitApic(c) /\ b[3] = AllocSmall(c)
        /\ b[4] = PrintLine /\ b[5] = EnableTimer(c) /\ b[6] = EndOfBoot
    BY <1>2, <1>3 DEF Entry, AfterLaunch
  <2>2. \A i \in 1 .. 6 : GoodPath(Entry(c)[i]) /\ (Entry(c)[i] = EndOfBoot <=> i = 6)
    BY <1>1, <2>1, PathsAreGood
  <2>3. Len(Entry(c)) = 6
    BY <2>1
  <2>4. Entry(c) # << >>
    BY <2>3
  <2> QED BY <2>1, <2>2, <2>4 DEF GoodBoot
<1>4. CASE c # Bsp
  <2>1. LET b == Entry(c) IN
        /\ b \in Seq(Seq(Locks \cup {Section})) /\ Len(b) = 3
        /\ b[1] = InitInterrupts(c) /\ b[2] = InitApic(c) /\ b[3] = EndOfBoot
    BY <1>2, <1>4 DEF Entry
  <2>2. \A i \in 1 .. 3 : GoodPath(Entry(c)[i]) /\ (Entry(c)[i] = EndOfBoot <=> i = 3)
    BY <1>1, <2>1, PathsAreGood
  <2>3. Entry(c) # << >>
    BY <2>1
  <2> QED BY <2>1, <2>2, <2>3 DEF GoodBoot
<1> QED BY <1>3, <1>4

-----------------------------------------------------------------------------
(* The invariant holds when the cores enter entry(). *)
LEMMA InitInv == Init => Inv
<1> SUFFICES ASSUME Init PROVE Inv
  OBVIOUS
<1>1. \A c \in Cores : GoodBoot(Entry(c)) /\ Entry(c) # << >>
  BY EntryIsGood
<1>2. TypeOK
  BY <1>1, MaxNestAssumption DEF Init, TypeOK, Labels, GoodBoot
<1>3. \A x \in Contexts : ContextInv(x)
  BY DEF Init, ContextInv
<1>4. ASSUME NEW c \in Cores PROVE CoreInv(c)
  <2>1. <<c, 0>> \in Contexts /\ <<c, 1>> \in Contexts /\ \A n \in 1 .. MaxNest : <<c, n>> \in Contexts
    BY MaxNestAssumption DEF Contexts
  <2>2. MaskCount(<< >>, 0) = 0
    BY MaskCountStep
  <2>3. Out(<<c, 0>>) = 0 /\ Out(<<c, 1>>) = 0
    BY <2>1, <2>2 DEF Init, Out, Asking, Bit
  <2> QED BY <1>1, <2>1, <2>2, <2>3 DEF Init, CoreInv, Hard, Bit, Top
<1>5. ASSUME NEW l \in Locks PROVE QueueInv(l)
  BY DEF Init, QueueInv, Holds, Waits
<1> QED BY <1>2, <1>3, <1>4, <1>5 DEF Inv

(* The running context of a core, and the lock it works on. *)
LEMMA TopIsContext ==
  ASSUME Inv, NEW c \in Cores
  PROVE  /\ level[c] \in {0, 1} /\ Top(c) \in Contexts
         /\ <<c, 0>> \in Contexts /\ <<c, 1>> \in Contexts
         /\ level[c] < MaxNest => <<c, level[c] + 1>> \in Contexts
         /\ pc[Top(c)] \in {"lock", "cli", "draw", "spin"} => NextLock(Top(c)) \in Locks
         /\ pc[Top(c)] = "drop" /\ taken[Top(c)] > 0 =>
               LastLock(Top(c)) \in Locks \/ LastLock(Top(c)) = Section
<1>1. level[c] \in {0, 1} /\ level[c] \in 0 .. MaxNest
  <2>1. level[c] \in 0 .. MaxNest /\ level[c] <= 1
    BY Zenon DEF Inv, CoreInv, TypeOK
  <2> QED BY <2>1, MaxNestAssumption
<1>2. Top(c) \in Contexts /\ <<c, 0>> \in Contexts /\ <<c, 1>> \in Contexts
  BY <1>1, MaxNestAssumption DEF Top, Contexts
<1>3. level[c] < MaxNest => <<c, level[c] + 1>> \in Contexts
  BY <1>1, MaxNestAssumption DEF Contexts
<1>4. ContextInv(Top(c)) /\ taken[Top(c)] \in Nat /\ path[Top(c)] \in Seq(Locks \cup {Section})
  BY <1>2 DEF Inv, TypeOK
<1> QED BY <1>1, <1>2, <1>3, <1>4 DEF ContextInv, GoodPath, NextLock, LastLock

(* A request that is withdrawn has been counted. *)
LEMMA ExitIsCounted ==
  ASSUME Inv, NEW c \in Cores, pc[Top(c)] = "exit"
  PROVE  requests[c] > 0
<1>1. /\ level[c] \in {0, 1} /\ Top(c) \in Contexts /\ <<c, 0>> \in Contexts /\ <<c, 1>> \in Contexts
  BY TopIsContext, Zenon
<1>2. ASSUME NEW x \in Contexts PROVE taken[x] \in Nat /\ MaskCount(path[x], taken[x]) \in Nat
  <2>1. taken[x] \in Nat
    BY DEF Inv, TypeOK
  <2> QED BY <2>1, MaskCountStep
<1>3. MaskCount(path[Top(c)], taken[Top(c)]) > 0
  BY <1>1, <1>2, MaskCountPositive DEF Inv, ContextInv, LastLock
<1>4. ASSUME NEW x \in {<<c, 0>>, <<c, 1>>}, x # Top(c) PROVE Out(x) >= 0
  <2>1. pc[x] # "sti"
    <3>1. CASE level[c] = 0
      BY <1>1, <1>4, <3>1, MaxNestAssumption DEF Inv, CoreInv, Top
    <3>2. CASE level[c] = 1
      <4>1. x = <<c, 0>> /\ ~Hard(c)
        BY <1>4, <3>2 DEF Inv, CoreInv, Top
      <4>2. pc[x] = "sti" => MaskCount(path[x], taken[x]) > 0
        BY <1>1, <1>2, <4>1, MaskCountPositive DEF Inv, ContextInv, LastLock
      <4> QED BY <4>1, <4>2 DEF Hard
    <3> QED BY <1>1, <3>1, <3>2
  <2> QED BY <1>1, <1>2, <2>1 DEF Out, Bit
<1>5. Out(Top(c)) > 0
  BY <1>1, <1>2, <1>3 DEF Out, Asking, Bit
<1>6. Out(<<c, 0>>) \in Int /\ Out(<<c, 1>>) \in Int
  BY <1>1, <1>2 DEF Out, Bit
<1>7. Out(<<c, 0>>) + Out(<<c, 1>>) > 0
  BY <1>1, <1>4, <1>5, <1>6 DEF Top
<1>8. requests[c] = Bit(boot[c] # << >>) + Out(<<c, 0>>) + Out(<<c, 1>>)
  BY DEF Inv, CoreInv
<1> QED BY <1>6, <1>7, <1>8 DEF Bit

-----------------------------------------------------------------------------
(* A step of a core. *)
CoreStep(c) == BootCall(c) \/ Call(c) \/ Timer(c) \/ Step(c)

(* An empty sequence has no elements. *)
LEMMA EmptyIff == ASSUME NEW S, NEW s \in Seq(S) PROVE s = << >> <=> Len(s) = 0
<1>1. s = << >> => Len(s) = 0
  OBVIOUS
<1>2. Len(s) = 0 => s = << >>
  OBVIOUS
<1> QED BY <1>1, <1>2

(* The call that entry() makes next is a good path, and so are those after *)
(* it.                                                                     *)
LEMMA BootHead ==
  ASSUME NEW b, GoodBoot(b), b # << >>
  PROVE  /\ GoodPath(Head(b)) /\ GoodBoot(Tail(b))
         /\ Head(b) = EndOfBoot <=> Tail(b) = << >>
<1>1. b \in Seq(Seq(Locks \cup {Section})) /\ Len(b) > 0 /\ Head(b) = b[1]
  BY DEF GoodBoot
<1>2. /\ Tail(b) \in Seq(Seq(Locks \cup {Section})) /\ Len(Tail(b)) = Len(b) - 1
      /\ \A i \in 1 .. Len(b) - 1 : Tail(b)[i] = b[i + 1]
  BY <1>1
<1>3. Tail(b) = << >> <=> Len(b) = 1
  <2>1. Len(b) \in Nat /\ Len(Tail(b)) = Len(b) - 1
    BY <1>1, <1>2
  <2>2. Tail(b) = << >> <=> Len(Tail(b)) = 0
    BY <1>2, EmptyIff, Zenon
  <2> QED BY <2>1, <2>2
<1>4. ASSUME NEW i \in 1 .. Len(Tail(b))
      PROVE  GoodPath(Tail(b)[i]) /\ (Tail(b)[i] = EndOfBoot <=> i = Len(Tail(b)))
  <2>1. i + 1 \in 1 .. Len(b) /\ i \in 1 .. Len(b) - 1 /\ i \in Int /\ Len(b) \in Int
    BY <1>1, <1>2
  <2>2. Tail(b)[i] = b[i + 1]
    BY <1>2, <2>1
  <2>3. GoodPath(b[i + 1]) /\ (b[i + 1] = EndOfBoot <=> i + 1 = Len(b))
    BY <2>1 DEF GoodBoot
  <2>4. i = Len(Tail(b)) <=> i + 1 = Len(b)
    BY <1>2, <2>1
  <2> QED BY <2>2, <2>3, <2>4
<1>5. GoodBoot(Tail(b))
  BY <1>2, <1>4, Zenon DEF GoodBoot
<1> QED BY <1>1, <1>3, <1>5 DEF GoodBoot

(* Types, and the place of every context on its path, are kept. *)
LEMMA ContextStep ==
  ASSUME Inv, NEW c \in Cores, CoreStep(c)
  PROVE  TypeOK' /\ \A x \in Contexts : ContextInv(x)'
<1>0. PICK x \in Contexts : x = Top(c)
  BY TopIsContext, Zenon
<1>1. /\ level[c] \in {0, 1} /\ x \in Contexts
      /\ <<c, 0>> \in Contexts /\ <<c, 1>> \in Contexts
      /\ level[c] < MaxNest => <<c, level[c] + 1>> \in Contexts
      /\ pc[x] \in {"lock", "cli", "draw", "spin"} => NextLock(x) \in Locks
  BY <1>0, TopIsContext
<1>2. TypeOK /\ \A y \in Contexts : ContextInv(y)
  BY DEF Inv
<1>3. GoodBoot(boot[c]) /\ depth[c] = level[c]
  BY Zenon DEF Inv, CoreInv
<1>4. Section \notin Locks /\ Masks(Section) /\ Len(EndOfBoot) = 1 /\ EndOfBoot[1] = Section
  BY DEF Section, Locks, SharedLocks, LocalLocks, Masks, EndOfBoot
<1>6. CASE BootCall(c)
  <2>1. GoodPath(Head(boot[c])) /\ GoodBoot(Tail(boot[c]))
    BY <1>3, <1>6, BootHead DEF BootCall
  <2>2. /\ x = <<c, 0>> /\ pc[x] = "idle" /\ boot' = [boot EXCEPT ![c] = Tail(@)]
        /\ path' = [path EXCEPT ![x] = Head(boot[c])]
        /\ \/ /\ Head(boot[c]) = EndOfBoot /\ taken' = [taken EXCEPT ![x] = 1]
              /\ pc' = [pc EXCEPT ![x] = "drop"]
           \/ /\ Head(boot[c]) # EndOfBoot /\ pc' = [pc EXCEPT ![x] = "lock"] /\ taken' = taken
        /\ UNCHANGED <<queue, level, was, requests, depth, if_flag>>
    BY <1>0, <1>6 DEF BootCall, At, Goto, Top
  <2>3. TypeOK'
    <3>1. boot' \in [Cores -> Seq(Seq(Locks \cup {Section}))]
      BY <1>2, <2>1, <2>2, Zenon DEF TypeOK, GoodBoot
    <3>2. path' \in [Contexts -> Seq(Locks \cup {Section})]
      BY <1>2, <2>1, <2>2 DEF TypeOK, GoodPath
    <3>3. taken' \in [Contexts -> Nat]
      <4>1. taken' = [taken EXCEPT ![x] = 1] \/ taken' = taken
        BY <2>2
      <4>2. taken \in [Contexts -> Nat]
        BY <1>2 DEF TypeOK
      <4> QED BY <4>1, <4>2
    <3>4. pc' \in [Contexts -> Labels]
      BY <1>2, <2>2, Zenon DEF TypeOK, Labels
    <3> QED BY <1>2, <2>2, <3>1, <3>2, <3>3, <3>4, Zenon DEF TypeOK
  <2>4. ContextInv(x)'
    <3>1. path'[x] = Head(boot[c]) /\ taken[x] = 0
      BY <1>2, <2>2 DEF TypeOK, ContextInv
    <3>2. \/ Head(boot[c]) = EndOfBoot /\ taken'[x] = 1 /\ pc'[x] = "drop"
          \/ Head(boot[c]) # EndOfBoot /\ taken'[x] = 0 /\ pc'[x] = "lock"
      BY <1>2, <2>2, <3>1 DEF TypeOK
    <3>3. Len(Head(boot[c])) \in Nat
      BY <2>1 DEF GoodPath
    <3> QED BY <2>1, <3>1, <3>2, <3>3 DEF ContextInv, GoodPath
  <2>5. ASSUME NEW y \in Contexts, y # x PROVE ContextInv(y)'
    BY <1>2, <2>2, <2>5, Zenon DEF TypeOK, ContextInv, NextLock, LastLock
  <2> QED BY <2>3, <2>4, <2>5
<1>7. CASE Call(c)
  <2>1. PICK p : /\ GoodPath(p) /\ p # EndOfBoot
                 /\ path' = [path EXCEPT ![x] = p] /\ pc' = [pc EXCEPT ![x] = "lock"]
                 /\ UNCHANGED <<boot, queue, level, taken, was, requests, depth, if_flag>>
    BY <1>0, <1>7, PathsAreGood, CallIsNoSection, Zenon DEF Call, ThreadPaths, Goto
  <2>2. pc[x] = "idle"
    BY <1>0, <1>7 DEF Call, At
  <2>3. TypeOK'
    BY <1>1, <1>2, <2>1, Zenon DEF TypeOK, GoodPath, Labels
  <2>4. ContextInv(x)'
    BY <1>1, <1>2, <2>1, <2>2 DEF TypeOK, ContextInv, GoodPath
  <2>5. ASSUME NEW y \in Contexts, y # x PROVE ContextInv(y)'
    BY <1>2, <2>1, <2>5 DEF TypeOK, ContextInv, NextLock, LastLock
  <2> QED BY <2>3, <2>4, <2>5
<1>8. CASE Timer(c)
  <2>0. PICK h \in Contexts : h = <<c, level[c] + 1>>
    BY <1>1, <1>8 DEF Timer
  <2>1. /\ level[c] + 1 \in 0 .. MaxNest
        /\ level' = [level EXCEPT ![c] = @ + 1] /\ depth' = [depth EXCEPT ![c] = @ + 1]
        /\ path' = [path EXCEPT ![h] = TimerPath(c)] /\ pc' = [pc EXCEPT ![h] = "lock"]
        /\ if_flag' = [if_flag EXCEPT ![c] = FALSE]
        /\ UNCHANGED <<boot, queue, taken, was, requests>>
    BY <1>1, <1>8, <2>0, MaxNestAssumption DEF Timer, Goto
  <2>2. pc[h] = "idle" /\ taken[h] = 0
    <3>1. pc[h] = "idle"
      <4>1. level[c] + 1 \in 1 .. MaxNest /\ level[c] + 1 > level[c]
        BY <1>1, <1>8, MaxNestAssumption DEF Timer
      <4>2. CoreInv(c)
        BY DEF Inv
      <4> QED BY <2>0, <4>1, <4>2 DEF CoreInv
    <3> QED BY <1>2, <2>1, <3>1 DEF ContextInv
  <2>3. GoodPath(TimerPath(c)) /\ TimerPath(c) # EndOfBoot
    BY PathsAreGood, CallIsNoSection
  <2>4. TypeOK'
    <3>1. level' \in [Cores -> 0 .. MaxNest] /\ depth' \in [Cores -> Nat]
      BY <1>2, <2>1 DEF TypeOK
    <3>2. path' \in [Contexts -> Seq(Locks \cup {Section})] /\ pc' \in [Contexts -> Labels]
      BY <1>2, <2>1, <2>3, Zenon DEF TypeOK, GoodPath, Labels
    <3>3. if_flag' \in [Cores -> BOOLEAN]
      BY <1>2, <2>1 DEF TypeOK
    <3> QED BY <1>2, <2>1, <3>1, <3>2, <3>3, Zenon DEF TypeOK
  <2>5. ContextInv(h)'
    BY <1>2, <2>1, <2>2, <2>3 DEF TypeOK, ContextInv, GoodPath
  <2>6. ASSUME NEW y \in Contexts, y # h PROVE ContextInv(y)'
    BY <1>2, <2>1, <2>6 DEF TypeOK, ContextInv, NextLock, LastLock
  <2> QED BY <2>4, <2>5, <2>6
<1>9. ASSUME UNCHANGED <<boot, level, path>>, TypeOK',
             \A y \in Contexts : y # x => pc'[y] = pc[y] /\ taken'[y] = taken[y],
             ContextInv(x)'
      PROVE  \A y \in Contexts : ContextInv(y)'
  <2>1. ASSUME NEW y \in Contexts, y # x PROVE ContextInv(y)'
    BY <1>2, <1>9, <2>1 DEF ContextInv, NextLock, LastLock
  <2> QED BY <1>9, <2>1
<1>10. CASE EnterLock(c)
  <2>1. /\ pc[x] = "lock" /\ UNCHANGED <<queue, boot, level, path, taken, was, depth, if_flag>>
        /\ \/ /\ Masks(NextLock(x)) /\ requests' = [requests EXCEPT ![c] = @ + 1]
              /\ pc' = [pc EXCEPT ![x] = "cli"]
           \/ pc' = [pc EXCEPT ![x] = "draw"] /\ UNCHANGED requests
    BY <1>0, <1>10 DEF EnterLock, At, Goto, program
  <2>2. TypeOK'
    <3>1. requests' \in [Cores -> Nat]
      <4>1. requests \in [Cores -> Nat]
        BY <1>2 DEF TypeOK
      <4>2. requests' = [requests EXCEPT ![c] = @ + 1] \/ requests' = requests
        BY <2>1
      <4> QED BY <4>1, <4>2
    <3>2. pc' \in [Contexts -> Labels]
      BY <1>2, <2>1, Zenon DEF TypeOK, Labels
    <3> QED BY <1>2, <2>1, <3>1, <3>2, Zenon DEF TypeOK
  <2>3. ContextInv(x)'
    BY <1>1, <1>2, <2>1, Zenon DEF TypeOK, ContextInv, NextLock
  <2> QED BY <1>1, <1>2, <1>9, <2>1, <2>2, <2>3, Zenon DEF TypeOK
<1>11. CASE Cli(c)
  <2>1. /\ pc[x] = "cli" /\ pc' = [pc EXCEPT ![x] = "draw"]
        /\ if_flag' = [if_flag EXCEPT ![c] = FALSE]
        /\ UNCHANGED <<queue, boot, level, path, taken, was, requests, depth>>
    BY <1>0, <1>11 DEF Cli, At, Goto, program
  <2>2. TypeOK'
    <3>1. if_flag' \in [Cores -> BOOLEAN]
      BY <1>2, <2>1 DEF TypeOK
    <3>2. pc' \in [Contexts -> Labels]
      BY <1>2, <2>1 DEF TypeOK, Labels
    <3> QED BY <1>2, <2>1, <3>1, <3>2 DEF TypeOK
  <2>3. ContextInv(x)'
    BY <1>1, <1>2, <2>1 DEF TypeOK, ContextInv
  <2> QED BY <1>1, <1>2, <1>9, <2>1, <2>2, <2>3, Zenon DEF TypeOK
<1>12. CASE DrawTicket(c)
  <2>1. /\ pc[x] = "draw" /\ pc' = [pc EXCEPT ![x] = "spin"]
        /\ queue' = [queue EXCEPT ![NextLock(x)] = Append(@, x)]
        /\ UNCHANGED <<boot, level, path, taken, was, requests, depth, if_flag>>
    BY <1>0, <1>12 DEF DrawTicket, At, Goto, program
  <2>2. TypeOK'
    <3>1. queue' \in [Locks -> Seq(Contexts)]
      BY <1>1, <1>2, <2>1 DEF TypeOK
    <3>2. pc' \in [Contexts -> Labels]
      BY <1>2, <2>1 DEF TypeOK, Labels
    <3> QED BY <1>2, <2>1, <3>1, <3>2, Zenon DEF TypeOK
  <2>3. ContextInv(x)'
    BY <1>1, <1>2, <2>1 DEF TypeOK, ContextInv
  <2> QED BY <1>1, <1>2, <1>9, <2>1, <2>2, <2>3, Zenon DEF TypeOK
<1>13. CASE Acquire(c)
  <2>1. /\ pc[x] = "spin" /\ taken' = [taken EXCEPT ![x] = @ + 1]
        /\ pc' = [pc EXCEPT ![x] = IF taken[x] + 1 = Len(path[x]) THEN "drop" ELSE "lock"]
        /\ UNCHANGED <<queue, boot, level, path, was, requests, depth, if_flag>>
    BY <1>0, <1>13 DEF Acquire, GoDown, At, Goto, program
  <2>2. TypeOK'
    <3>1. taken' \in [Contexts -> Nat] /\ pc' \in [Contexts -> Labels]
      BY <1>2, <2>1 DEF TypeOK, Labels
    <3> QED BY <1>2, <2>1, <3>1, Zenon DEF TypeOK
  <2>3. ContextInv(x)'
    <3>1. /\ path'[x] = path[x] /\ taken'[x] = taken[x] + 1
          /\ pc'[x] = IF taken[x] + 1 = Len(path[x]) THEN "drop" ELSE "lock"
      BY <1>2, <2>1 DEF TypeOK
    <3>2. /\ GoodPath(path[x]) /\ path[x] # EndOfBoot /\ taken[x] < Len(path[x])
          /\ taken[x] \in Nat /\ Len(path[x]) \in Nat
      BY <1>2, <2>1 DEF TypeOK, ContextInv
    <3> QED BY <3>1, <3>2 DEF ContextInv
  <2> QED BY <1>1, <1>2, <1>9, <2>1, <2>2, <2>3, Zenon DEF TypeOK
<1>14. CASE DropGuard(c)
  <2>1. /\ pc[x] = "drop" /\ taken[x] > 0
        /\ queue' = IF LastLock(x) = Section THEN queue
                    ELSE [queue EXCEPT ![LastLock(x)] = Tail(@)]
        /\ \/ Masks(LastLock(x)) /\ pc' = [pc EXCEPT ![x] = "exit"] /\ UNCHANGED taken
           \/ taken' = [taken EXCEPT ![x] = @ - 1] /\ UNCHANGED pc
        /\ UNCHANGED <<boot, level, path, was, requests, depth, if_flag>>
    BY <1>0, <1>14 DEF DropGuard, At, Goto, program
  <2>2. queue' \in [Locks -> Seq(Contexts)]
    <3>1. LastLock(x) \in Locks \/ LastLock(x) = Section
      BY <1>0, <2>1, TopIsContext, Zenon
    <3>2. ASSUME LastLock(x) # Section PROVE queue[LastLock(x)] # << >>
      <4>1. Holds(x, LastLock(x))
        <5>1. taken[x] \in 1 .. taken[x]
          BY <1>2, <2>1 DEF TypeOK
        <5> QED BY <2>1, <5>1 DEF Holds, LastLock
      <4> QED BY <3>1, <3>2, <4>1 DEF Inv, QueueInv
    <3> QED BY <1>2, <2>1, <3>1, <3>2 DEF TypeOK
  <2>3. TypeOK'
    <3>1. taken[x] - 1 \in Nat
      BY <1>2, <2>1 DEF TypeOK
    <3>2. taken' \in [Contexts -> Nat]
      BY <1>2, <2>1, <3>1, Zenon DEF TypeOK
    <3>3. pc' \in [Contexts -> Labels]
      BY <1>2, <2>1, Zenon DEF TypeOK, Labels
    <3> QED BY <1>2, <2>1, <2>2, <3>2, <3>3, Zenon DEF TypeOK
  <2>4. ContextInv(x)'
    <3>1. /\ path'[x] = path[x]
          /\ \/ taken'[x] = taken[x] /\ pc'[x] = "exit" /\ Masks(LastLock(x))
             \/ taken'[x] = taken[x] - 1 /\ pc'[x] = "drop"
      BY <1>2, <2>1 DEF TypeOK
    <3>2. /\ GoodPath(path[x]) /\ taken[x] <= Len(path[x])
          /\ taken[x] \in Nat /\ Len(path[x]) \in Nat
      BY <1>2, <2>1 DEF TypeOK, ContextInv
    <3> QED BY <2>1, <3>1, <3>2 DEF ContextInv, LastLock
  <2> QED BY <1>1, <1>2, <1>9, <2>1, <2>3, <2>4, Zenon DEF TypeOK
<1>15. CASE ExitLock(c)
  <2>1. /\ pc[x] = "exit" /\ pc' = [pc EXCEPT ![x] = "sti"]
        /\ was' = [was EXCEPT ![x] = requests[c]]
        /\ requests' = [requests EXCEPT ![c] = @ - 1]
        /\ UNCHANGED <<queue, boot, level, path, taken, depth, if_flag>>
    BY <1>0, <1>15 DEF ExitLock, At, Goto, program
  <2>2. requests[c] > 0
    BY <1>0, <2>1, ExitIsCounted
  <2>3. TypeOK'
    <3>1. was' \in [Contexts -> Nat] /\ requests' \in [Cores -> Nat]
      BY <1>2, <2>1, <2>2 DEF TypeOK
    <3>2. pc' \in [Contexts -> Labels]
      BY <1>2, <2>1 DEF TypeOK, Labels
    <3> QED BY <1>2, <2>1, <3>1, <3>2, Zenon DEF TypeOK
  <2>4. ContextInv(x)'
    BY <1>1, <1>2, <2>1 DEF TypeOK, ContextInv, LastLock
  <2> QED BY <1>1, <1>2, <1>9, <2>1, <2>3, <2>4, Zenon DEF TypeOK
<1>16. CASE Sti(c)
  <2>1. /\ pc[x] = "sti" /\ pc' = [pc EXCEPT ![x] = "drop"]
        /\ if_flag' = [if_flag EXCEPT ![c] = @ \/ (depth[c] = 0 /\ was[x] = 1)]
        /\ taken' = [taken EXCEPT ![x] = @ - 1] /\ was' = [was EXCEPT ![x] = 0]
        /\ UNCHANGED <<queue, boot, level, path, requests, depth>>
    BY <1>0, <1>16 DEF Sti, At, Goto, program
  <2>2. taken[x] > 0
    BY <1>1, <1>2, <2>1 DEF ContextInv
  <2>3. if_flag' \in [Cores -> BOOLEAN]
    BY <1>2, <2>1 DEF TypeOK
  <2>4. TypeOK'
    <3>1. was' \in [Contexts -> Nat] /\ taken' \in [Contexts -> Nat]
      BY <1>2, <2>1, <2>2 DEF TypeOK
    <3>2. pc' \in [Contexts -> Labels]
      BY <1>2, <2>1 DEF TypeOK, Labels
    <3> QED BY <1>2, <2>1, <2>3, <3>1, <3>2, Zenon DEF TypeOK
  <2>5. ContextInv(x)'
    <3>1. path'[x] = path[x] /\ taken'[x] = taken[x] - 1 /\ pc'[x] = "drop"
      BY <1>2, <2>1 DEF TypeOK
    <3>2. GoodPath(path[x]) /\ taken[x] <= Len(path[x]) /\ taken[x] \in Nat /\ Len(path[x]) \in Nat
      BY <1>2, <2>1 DEF TypeOK, ContextInv
    <3> QED BY <3>1, <3>2 DEF ContextInv
  <2> QED BY <1>1, <1>2, <1>9, <2>1, <2>4, <2>5, Zenon DEF TypeOK
<1>17. CASE Return(c) \/ Iret(c)
  <2>1. /\ pc[x] = "drop" /\ taken[x] = 0 /\ pc' = [pc EXCEPT ![x] = "idle"]
        /\ path' = [path EXCEPT ![x] = << >>]
        /\ UNCHANGED <<boot, queue, taken, was, requests>>
    BY <1>0, <1>17 DEF Return, Iret, At, Goto
  <2>2. /\ level' \in [Cores -> 0 .. MaxNest] /\ depth' \in [Cores -> Nat]
        /\ if_flag' \in [Cores -> BOOLEAN]
    <3>1. CASE Return(c)
      BY <1>2, <3>1 DEF Return, TypeOK
    <3>2. CASE Iret(c)
      <4>1. level[c] - 1 \in 0 .. MaxNest /\ depth[c] - 1 \in Nat
        <5>1. level[c] > 0
          BY <3>2 DEF Iret
        <5>2. level[c] = 1 /\ depth[c] = 1
          BY <1>1, <1>3, <5>1
        <5> QED BY <5>2, MaxNestAssumption
      <4>2. /\ level' = [level EXCEPT ![c] = @ - 1] /\ depth' = [depth EXCEPT ![c] = @ - 1]
            /\ if_flag' = [if_flag EXCEPT ![c] = TRUE]
        BY <3>2 DEF Iret
      <4>3. level' \in [Cores -> 0 .. MaxNest] /\ depth' \in [Cores -> Nat]
        BY <1>2, <4>1, <4>2 DEF TypeOK
      <4>4. if_flag' \in [Cores -> BOOLEAN]
        BY <1>2, <4>2 DEF TypeOK
      <4> QED BY <4>3, <4>4
    <3> QED BY <1>17, <3>1, <3>2
  <2>3. TypeOK'
    <3>1. path' \in [Contexts -> Seq(Locks \cup {Section})] /\ pc' \in [Contexts -> Labels]
      BY <1>2, <2>1 DEF TypeOK, Labels
    <3> QED BY <1>2, <2>1, <2>2, <3>1, Zenon DEF TypeOK
  <2>4. ContextInv(x)'
    BY <1>1, <1>2, <2>1 DEF TypeOK, ContextInv
  <2>5. ASSUME NEW y \in Contexts, y # x PROVE ContextInv(y)'
    BY <1>2, <2>1, <2>5 DEF TypeOK, ContextInv, NextLock, LastLock
  <2> QED BY <2>3, <2>4, <2>5
<1> QED BY <1>6, <1>7, <1>8, <1>10, <1>11, <1>12, <1>13, <1>14, <1>15, <1>16, <1>17
  DEF CoreStep, Step
=============================================================================
