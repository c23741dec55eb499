-------------------------- MODULE KernelLocksCore ---------------------------
(***************************************************************************)
(* The second part of the invariant of KernelLocks is kept: CoreInv, about *)
(* the flag and the counters of a core.                                    *)
(***************************************************************************)
EXTENDS KernelLocksInv

(* The requests of a context are numbers. *)
LEMMA CountIsNat ==
  ASSUME Inv, NEW x \in Contexts
  PROVE  taken[x] \in Nat /\ MaskCount(path[x], taken[x]) \in Nat /\ Out(x) \in Int
<1>1. taken[x] \in Nat
  BY DEF Inv, TypeOK
<1>2. MaskCount(path[x], taken[x]) \in Nat
  BY <1>1, MaskCountStep
<1> QED BY <1>1, <1>2 DEF Out, Bit

(* While a handler runs, the thread below it has at most counted a request *)
(* that it has not come to disable interrupts for.                         *)
LEMMA ThreadIsSoft ==
  ASSUME Inv, NEW c \in Cores, ~Hard(c)
  PROVE  /\ MaskCount(path[<<c, 0>>], taken[<<c, 0>>]) = 0
         /\ boot[c] = << >> /\ pc[<<c, 0>>] # "sti"
<1> DEFINE t == <<c, 0>>
<1>1. t \in Contexts
  BY TopIsContext, Zenon
<1>2. taken[t] \in Nat /\ MaskCount(path[t], taken[t]) \in Nat
  BY <1>1, CountIsNat
<1>3. MaskCount(path[t], taken[t]) = 0 /\ boot[c] = << >>
  BY <1>2 DEF Hard
<1>4. ASSUME pc[t] = "sti" PROVE FALSE
  <2>1. taken[t] \in 1 .. taken[t] /\ Masks(path[t][taken[t]])
    BY <1>1, <1>2, <1>4 DEF Inv, ContextInv, LastLock
  <2>2. MaskCount(path[t], taken[t]) > 0
    BY <1>2, <2>1, MaskCountPositive
  <2> QED BY <1>3, <2>2
<1> QED BY <1>3, <1>4

(* A handler that does not run asks for nothing. *)
LEMMA IdleIsQuiet ==
  ASSUME Inv, NEW x \in Contexts, pc[x] = "idle"
  PROVE  path[x] = << >> /\ taken[x] = 0 /\ Out(x) = 0
<1>1. path[x] = << >> /\ taken[x] = 0
  BY DEF Inv, ContextInv
<1>2. MaskCount(<< >>, 0) = 0
  BY MaskCountStep
<1> QED BY <1>1, <1>2 DEF Out, Asking, Bit

(* What has to be shown of a step that stays on the path of the running    *)
(* context.                                                                *)
LEMMA OnThePath ==
  ASSUME Inv, TypeOK', NEW c \in Cores, NEW x \in Contexts, x = Top(c),
         UNCHANGED <<boot, level, path, depth>>,
         \A y \in Contexts : y # x => pc'[y] = pc[y] /\ taken'[y] = taken[y],
         pc'[x] # "idle",
         requests'[c] = requests[c] + (Out(x)' - Out(x)),
         level[c] = 0 => (if_flag'[c] <=> ~Hard(c)'),
         level[c] = 1 => ~if_flag'[c],
         pc'[x] = "sti" => was'[x] = requests'[c] + 1
  PROVE  CoreInv(c)'
<1>1. PICK t \in Contexts, h \in Contexts : t = <<c, 0>> /\ h = <<c, 1>>
  BY TopIsContext, Zenon
<1>2. level[c] \in {0, 1} /\ CoreInv(c) /\ t # h
  <2>1. level[c] \in {0, 1} /\ CoreInv(c)
    BY TopIsContext, Zenon DEF Inv
  <2>2. t[2] = 0 /\ h[2] = 1
    BY <1>1
  <2> QED BY <2>1, <2>2
<1>3. (level[c] = 0 /\ x = t) \/ (level[c] = 1 /\ x = h)
  <2>1. x = <<c, level[c]>>
    BY DEF Top
  <2>2. level[c] = 0 => x = t
    BY <1>1, <2>1, Zenon
  <2>3. level[c] = 1 => x = h
    BY <1>1, <2>1, Zenon
  <2>4. level[c] = 0 \/ level[c] = 1
    BY <1>2
  <2> QED BY <2>2, <2>3, <2>4
<1>4. \A y \in Contexts : y # x => Out(y)' = Out(y)
  BY DEF Out, Asking, NextLock
<1>5. Out(t) \in Int /\ Out(h) \in Int
  BY CountIsNat
<1>6. Out(x)' \in Int
  <2>1. taken'[x] \in Nat
    BY DEF TypeOK
  <2>2. MaskCount(path'[x], taken'[x]) \in Nat
    BY <2>1, MaskCountStep
  <2> QED BY <2>2 DEF Out, Bit
<1>7. requests'[c] = Bit(boot'[c] # << >>) + Out(t)' + Out(h)'
  <2>1. requests[c] = Bit(boot[c] # << >>) + Out(t) + Out(h)
    BY <1>1, <1>2 DEF CoreInv
  <2>2. Bit(boot[c] # << >>) \in Int
    BY DEF Bit
  <2>3. CASE x = t
    BY <1>2, <1>4, <1>5, <1>6, <2>1, <2>2, <2>3
  <2>4. CASE x = h
    BY <1>2, <1>4, <1>5, <1>6, <2>1, <2>2, <2>4
  <2> QED BY <1>3, <2>3, <2>4
<1>8. level'[c] <= 1 /\ depth'[c] = level'[c]
  BY <1>2 DEF CoreInv
<1>9. \A n \in 1 .. MaxNest : n > level'[c] => pc'[<<c, n>>] = "idle"
  <2>1. ASSUME NEW n \in 1 .. MaxNest, n > level[c] PROVE pc'[<<c, n>>] = "idle"
    <3>1. <<c, n>> \in Contexts /\ <<c, n>> # x
      BY <1>1, <1>2, <1>3, <2>1 DEF Contexts
    <3>2. pc[<<c, n>>] = "idle"
      BY <1>2, <2>1 DEF CoreInv
    <3> QED BY <3>1, <3>2
  <2> QED BY <2>1
<1>10. level[c] = 1 => path'[h] = TimerPath(c) /\ pc'[h] # "idle" /\ ~Hard(c)'
  <2>1. level[c] = 1 => path[h] = TimerPath(c) /\ ~Hard(c)
    BY <1>1, <1>2 DEF CoreInv
  <2>2. level[c] = 1 => pc'[t] = pc[t] /\ taken'[t] = taken[t]
    BY <1>2, <1>3
  <2>3. level[c] = 1 => (Hard(c)' <=> Hard(c))
    BY <1>1, <2>2 DEF Hard, NextLock
  <2> QED BY <1>2, <1>3, <2>1, <2>3
<1>11. if_flag'[c] <=> level'[c] = 0 /\ ~Hard(c)'
  BY <1>2, <1>10
<1>12. GoodBoot(boot'[c])
  BY <1>2 DEF CoreInv
<1>13. Top(c)' = x
  BY DEF Top
<1> QED BY <1>1, <1>7, <1>8, <1>9, <1>10, <1>11, <1>12, <1>13 DEF CoreInv

(* The flag and the counters of a core keep saying the truth about it. *)
LEMMA OwnCoreStep ==
  ASSUME Inv, NEW c \in Cores, CoreStep(c)
  PROVE  CoreInv(c)'
<1>0. PICK x \in Contexts, t \in Contexts, h \in Contexts :
        x = Top(c) /\ t = <<c, 0>> /\ h = <<c, 1>>
  BY TopIsContext, Zenon
<1>1. /\ level[c] \in {0, 1} /\ level[c] = depth[c]
      /\ CoreInv(c) /\ ContextInv(x) /\ ContextInv(t) /\ ContextInv(h)
  BY <1>0, TopIsContext, Zenon DEF Inv, CoreInv
<1>2. t # h /\ (level[c] = 0 <=> x = t) /\ (level[c] = 1 <=> x = h)
  <2>1. t[2] = 0 /\ h[2] = 1 /\ x[2] = level[c]
    BY <1>0 DEF Top
  <2>2. level[c] = 0 => x = t
    BY <1>0 DEF Top
  <2>3. level[c] = 1 => x = h
    BY <1>0 DEF Top
  <2> QED BY <1>1, <2>1, <2>2, <2>3
<1>3. TypeOK /\ TypeOK' /\ \A y \in Contexts : ContextInv(y)'
  BY ContextStep DEF Inv
<1>4. \A y \in Contexts : taken[y] \in Nat /\ MaskCount(path[y], taken[y]) \in Nat
  BY CountIsNat
<1>5. requests[c] \in Nat /\ if_flag[c] \in BOOLEAN
  BY <1>3 DEF TypeOK
<1>6. level[c] = 0 => (if_flag[c] <=> ~Hard(c))
  BY <1>1 DEF CoreInv
<1>7. level[c] = 1 => ~if_flag[c]
  BY <1>1 DEF CoreInv
<1>8. ASSUME UNCHANGED <<boot, level, path, depth>>,
             \A y \in Contexts : y # x => pc'[y] = pc[y] /\ taken'[y] = taken[y],
             pc'[x] # "idle",
             requests'[c] = requests[c] + (Out(x)' - Out(x)),
             level[c] = 0 => (if_flag'[c] <=> ~Hard(c)'),
             level[c] = 1 => ~if_flag'[c],
             pc'[x] = "sti" => was'[x] = requests'[c] + 1
      PROVE  CoreInv(c)'
  BY <1>0, <1>3, <1>8, OnThePath
<1>9. /\ \A n \in 1 .. MaxNest : n > level[c] => pc[<<c, n>>] = "idle"
      /\ level[c] = 1 => ~Hard(c)
      /\ if_flag[c] => level[c] = 0 /\ ~Hard(c)
      /\ GoodBoot(boot[c])
  BY <1>1 DEF CoreInv
<1>10. CASE EnterLock(c)
  <2>1. /\ pc[x] = "lock" /\ UNCHANGED <<queue, boot, level, path, taken, was, depth, if_flag>>
        /\ \/ /\ Masks(NextLock(x)) /\ requests' = [requests EXCEPT ![c] = @ + 1]
              /\ pc' = [pc EXCEPT ![x] = "cli"]
           \/ /\ ~Masks(NextLock(x)) /\ UNCHANGED requests
              /\ pc' = [pc EXCEPT ![x] = "draw"]
    BY <1>0, <1>10 DEF EnterLock, At, Goto, program
  <2>2. /\ \A y \in Contexts : y # x => pc'[y] = pc[y] /\ taken'[y] = taken[y]
        /\ path'[x] = path[x] /\ taken'[x] = taken[x]
        /\ \/ Masks(NextLock(x)) /\ pc'[x] = "cli" /\ requests'[c] = requests[c] + 1
           \/ ~Masks(NextLock(x)) /\ pc'[x] = "draw" /\ requests'[c] = requests[c]
    BY <1>3, <2>1 DEF TypeOK
  <2>3. requests'[c] = requests[c] + (Out(x)' - Out(x))
    BY <1>4, <1>5, <2>1, <2>2 DEF Out, Asking, Bit, NextLock
  <2>4. x = t => (Hard(c)' <=> Hard(c))
    BY <1>0, <2>1, <2>2 DEF Hard, NextLock
  <2> QED BY <1>2, <1>6, <1>7, <1>8, <2>1, <2>2, <2>3, <2>4
<1>11. CASE Cli(c)
  <2>1. /\ pc[x] = "cli" /\ pc' = [pc EXCEPT ![x] = "draw"]
        /\ if_flag' = [if_flag EXCEPT ![c] = FALSE]
        /\ UNCHANGED <<queue, boot, level, path, taken, was, requests, depth>>
    BY <1>0, <1>11 DEF Cli, At, Goto, program
  <2>2. /\ \A y \in Contexts : y # x => pc'[y] = pc[y] /\ taken'[y] = taken[y]
        /\ path'[x] = path[x] /\ taken'[x] = taken[x] /\ pc'[x] = "draw"
        /\ Masks(NextLock(x)) /\ requests'[c] = requests[c]
    BY <1>1, <1>3, <2>1 DEF TypeOK, ContextInv
  <2>3. requests'[c] = requests[c] + (Out(x)' - Out(x))
    BY <1>4, <1>5, <2>1, <2>2 DEF Out, Asking, Bit, NextLock
  <2>4. x = t => Hard(c)'
    BY <1>0, <2>2 DEF Hard, NextLock
  <2>5. ~if_flag'[c]
    BY <1>3, <2>1 DEF TypeOK
  <2> QED BY <1>2, <1>8, <2>1, <2>2, <2>3, <2>4, <2>5
<1>12. CASE DrawTicket(c)
  <2>1. /\ pc[x] = "draw" /\ pc' = [pc EXCEPT ![x] = "spin"]
        /\ UNCHANGED <<boot, level, path, taken, was, requests, depth, if_flag>>
    BY <1>0, <1>12 DEF DrawTicket, At, Goto, program
  <2>2. /\ \A y \in Contexts : y # x => pc'[y] = pc[y] /\ taken'[y] = taken[y]
        /\ path'[x] = path[x] /\ taken'[x] = taken[x] /\ pc'[x] = "spin"
        /\ requests'[c] = requests[c]
    BY <1>3, <2>1 DEF TypeOK
  <2>3. requests'[c] = requests[c] + (Out(x)' - Out(x))
    BY <1>4, <1>5, <2>1, <2>2 DEF Out, Asking, Bit, NextLock
  <2>4. x = t => (Hard(c)' <=> Hard(c))
    BY <1>0, <2>1, <2>2 DEF Hard, NextLock
  <2> QED BY <1>2, <1>6, <1>7, <1>8, <2>1, <2>2, <2>3, <2>4
<1>13. CASE Acquire(c)
  <2>1. /\ pc[x] = "spin" /\ taken' = [taken EXCEPT ![x] = @ + 1]
        /\ pc' = [pc EXCEPT ![x] = IF taken[x] + 1 = Len(path[x]) THEN "drop" ELSE "lock"]
        /\ UNCHANGED <<queue, boot, level, path, was, requests, depth, if_flag>>
    BY <1>0, <1>13 DEF Acquire, GoDown, At, Goto, program
  <2>2. /\ \A y \in Contexts : y # x => pc'[y] = pc[y] /\ taken'[y] = taken[y]
        /\ path'[x] = path[x] /\ taken'[x] = taken[x] + 1 /\ pc'[x] \in {"drop", "lock"}
        /\ requests'[c] = requests[c]
    BY <1>3, <2>1 DEF TypeOK
  <2>3. MaskCount(path'[x], taken'[x]) = MaskCount(path[x], taken[x]) + Bit(Masks(NextLock(x)))
    BY <1>4, <2>2, MaskCountStep DEF NextLock
  <2>4. requests'[c] = requests[c] + (Out(x)' - Out(x))
    BY <1>4, <1>5, <2>1, <2>2, <2>3 DEF Out, Asking, Bit
  <2>5. x = t => (Hard(c)' <=> Hard(c))
    BY <1>0, <1>4, <2>1, <2>2, <2>3 DEF Hard, Bit
  <2> QED BY <1>2, <1>6, <1>7, <1>8, <2>1, <2>2, <2>4, <2>5
<1>14. CASE DropGuard(c)
  <2>1. /\ pc[x] = "drop" /\ taken[x] > 0
        /\ \/ Masks(LastLock(x)) /\ pc' = [pc EXCEPT ![x] = "exit"] /\ UNCHANGED taken
           \/ ~Masks(LastLock(x)) /\ taken' = [taken EXCEPT ![x] = @ - 1] /\ UNCHANGED pc
        /\ UNCHANGED <<boot, level, path, was, requests, depth, if_flag>>
    BY <1>0, <1>14 DEF DropGuard, At, Goto, program
  <2>2. /\ \A y \in Contexts : y # x => pc'[y] = pc[y] /\ taken'[y] = taken[y]
        /\ path'[x] = path[x] /\ pc'[x] \in {"drop", "exit"} /\ requests'[c] = requests[c]
        /\ taken'[x] = taken[x] \/ (~Masks(LastLock(x)) /\ taken'[x] = taken[x] - 1)
    BY <1>3, <2>1 DEF TypeOK
  <2>3. MaskCount(path[x], taken[x] - 1) + Bit(Masks(LastLock(x))) = MaskCount(path[x], taken[x])
    <3>1. taken[x] - 1 \in Nat /\ (taken[x] - 1) + 1 = taken[x]
      BY <1>4, <2>1
    <3> QED BY <3>1, MaskCountStep DEF LastLock
  <2>4. MaskCount(path[x], taken[x] - 1) \in Nat
    <3>1. taken[x] - 1 \in Nat
      BY <1>4, <2>1
    <3> QED BY <3>1, MaskCountStep
  <2>5. MaskCount(path'[x], taken'[x]) = MaskCount(path[x], taken[x])
    BY <1>4, <2>2, <2>3, <2>4 DEF Bit
  <2>6. requests'[c] = requests[c] + (Out(x)' - Out(x))
    BY <1>4, <1>5, <2>1, <2>2, <2>5 DEF Out, Asking, Bit
  <2>7. x = t => (Hard(c)' <=> Hard(c))
    BY <1>0, <2>1, <2>2, <2>5 DEF Hard
  <2> QED BY <1>2, <1>6, <1>7, <1>8, <2>1, <2>2, <2>6, <2>7
<1>15. CASE ExitLock(c)
  <2>1. /\ pc[x] = "exit" /\ pc' = [pc EXCEPT ![x] = "sti"]
        /\ was' = [was EXCEPT ![x] = requests[c]]
        /\ requests' = [requests EXCEPT ![c] = @ - 1]
        /\ UNCHANGED <<queue, boot, level, path, taken, depth, if_flag>>
    BY <1>0, <1>15 DEF ExitLock, At, Goto, program
  <2>2. /\ \A y \in Contexts : y # x => pc'[y] = pc[y] /\ taken'[y] = taken[y]
        /\ path'[x] = path[x] /\ taken'[x] = taken[x] /\ pc'[x] = "sti"
        /\ requests'[c] = requests[c] - 1 /\ was'[x] = requests[c]
    BY <1>3, <2>1 DEF TypeOK
  <2>3. requests'[c] = requests[c] + (Out(x)' - Out(x))
    BY <1>4, <1>5, <2>1, <2>2 DEF Out, Asking, Bit
  <2>4. x = t => (Hard(c)' <=> Hard(c))
    BY <1>0, <2>1, <2>2 DEF Hard
  <2>5. was'[x] = requests'[c] + 1
    BY <1>5, <2>2
  <2> QED BY <1>2, <1>6, <1>7, <1>8, <2>1, <2>2, <2>3, <2>4, <2>5
<1>16. CASE Sti(c)
  <2>1. /\ pc[x] = "sti" /\ pc' = [pc EXCEPT ![x] = "drop"]
        /\ if_flag' = [if_flag EXCEPT ![c] = @ \/ (depth[c] = 0 /\ was[x] = 1)]
        /\ taken' = [taken EXCEPT ![x] = @ - 1]
        /\ UNCHANGED <<queue, boot, level, path, requests, depth>>
    BY <1>0, <1>16 DEF Sti, At, Goto, program
  <2>2. taken[x] \in 1 .. taken[x] /\ Masks(path[x][taken[x]]) /\ taken[x] - 1 \in Nat
    BY <1>1, <1>4, <2>1 DEF ContextInv, LastLock
  <2>3. /\ \A y \in Contexts : y # x => pc'[y] = pc[y] /\ taken'[y] = taken[y]
        /\ path'[x] = path[x] /\ taken'[x] = taken[x] - 1 /\ pc'[x] = "drop"
        /\ requests'[c] = requests[c]
    BY <1>3, <2>1 DEF TypeOK
  <2>4. /\ MaskCount(path'[x], taken'[x]) \in Nat
        /\ MaskCount(path[x], taken[x]) = MaskCount(path'[x], taken'[x]) + 1
    <3>1. /\ MaskCount(path[x], taken[x] - 1) \in Nat
          /\ MaskCount(path[x], (taken[x] - 1) + 1) =
                MaskCount(path[x], taken[x] - 1) + Bit(Masks(path[x][(taken[x] - 1) + 1]))
      BY <2>2, MaskCountStep
    <3>2. (taken[x] - 1) + 1 = taken[x]
      BY <1>4
    <3> QED BY <2>2, <2>3, <3>1, <3>2 DEF Bit
  <2>5. requests'[c] = requests[c] + (Out(x)' - Out(x))
    <3>1. Out(x) = MaskCount(path'[x], taken'[x])
      BY <2>1, <2>4 DEF Out, Asking, Bit
    <3>2. Out(x)' = MaskCount(path'[x], taken'[x])
      BY <2>3, <2>4 DEF Out, Asking, Bit
    <3> QED BY <1>5, <2>3, <2>4, <3>1, <3>2
  <2>6. if_flag'[c] <=> if_flag[c] \/ (depth[c] = 0 /\ was[x] = 1)
    BY <1>3, <2>1, Zenon DEF TypeOK
  <2>7. level[c] = 1 => ~if_flag'[c]
    BY <1>1, <1>7, <2>6
  <2>8. ASSUME level[c] = 0 PROVE if_flag'[c] <=> ~Hard(c)'
    <3>1. x = t /\ depth[c] = 0
      BY <1>1, <1>2, <2>8
    <3>2. ~if_flag[c]
      BY <1>0, <1>4, <1>6, <2>4, <2>8, <3>1 DEF Hard
    <3>3. pc[h] = "idle"
      BY <1>0, <1>1, <2>8, MaxNestAssumption DEF CoreInv
    <3>4. Out(h) = 0
      BY <3>3, IdleIsQuiet
    <3>5. Out(t) = MaskCount(path'[x], taken'[x])
      BY <2>1, <2>4, <3>1 DEF Out, Asking, Bit
    <3>6. requests[c] = Bit(boot[c] # << >>) + MaskCount(path'[x], taken'[x])
      <4>1. requests[c] = Bit(boot[c] # << >>) + Out(t) + Out(h)
        BY <1>0, <1>1 DEF CoreInv
      <4> QED BY <2>4, <3>4, <3>5, <4>1 DEF Bit
    <3>7. was[x] = requests[c] + 1
      BY <1>0, <1>1, <2>1 DEF CoreInv
    <3>8. was[x] = 1 <=> boot[c] = << >> /\ MaskCount(path'[x], taken'[x]) = 0
      BY <1>5, <2>4, <3>6, <3>7 DEF Bit
    <3>9. Hard(c)' <=> boot[c] # << >> \/ MaskCount(path'[x], taken'[x]) > 0
      BY <1>0, <2>1, <2>3, <3>1 DEF Hard
    <3>10. MaskCount(path'[x], taken'[x]) > 0 <=> MaskCount(path'[x], taken'[x]) # 0
      BY <2>4
    <3> QED BY <2>6, <3>1, <3>2, <3>8, <3>9, <3>10
  <2> QED BY <1>8, <2>1, <2>3, <2>5, <2>7, <2>8
<1>17. CASE BootCall(c) \/ Call(c) \/ Return(c)
  <2>1. /\ level[c] = 0 /\ UNCHANGED <<level, was, requests, depth, if_flag>>
        /\ pc' = [pc EXCEPT ![x] = pc'[x]] /\ pc'[x] \in {"idle", "lock", "drop"}
        /\ \A y \in Contexts : y # x => /\ path'[y] = path[y] /\ taken'[y] = taken[y]
                                        /\ pc'[y] = pc[y]
    <3>1. CASE BootCall(c)
      <4>1. /\ level[c] = 0 /\ UNCHANGED <<level, was, requests, depth, if_flag>>
            /\ path' = [path EXCEPT ![x] = Head(boot[c])]
        BY <1>0, <3>1 DEF BootCall
      <4>2. \/ taken' = [taken EXCEPT ![x] = 1] /\ pc' = [pc EXCEPT ![x] = "drop"]
            \/ taken' = taken /\ pc' = [pc EXCEPT ![x] = "lock"]
        BY <1>0, <3>1, Zenon DEF BootCall, Goto
      <4>3. \A y \in Contexts : y # x => path'[y] = path[y] /\ taken'[y] = taken[y]
        BY <1>3, <4>1, <4>2, Zenon DEF TypeOK
      <4>4. /\ pc' = [pc EXCEPT ![x] = pc'[x]] /\ pc'[x] \in {"idle", "lock", "drop"}
            /\ \A y \in Contexts : y # x => pc'[y] = pc[y]
        BY <1>3, <4>2, Zenon DEF TypeOK
      <4> QED BY <4>1, <4>3, <4>4
    <3>2. CASE Call(c)
      BY <1>0, <1>3, <3>2 DEF Call, Goto, TypeOK
    <3>3. CASE Return(c)
      BY <1>0, <1>3, <3>3 DEF Return, Goto, TypeOK
    <3> QED BY <1>17, <3>1, <3>2, <3>3
  <2>2. x = t /\ Top(c)' = x
    BY <1>0, <1>2, <2>1 DEF Top
  <2>3. Out(h) = 0 /\ Out(h)' = 0 /\ pc[h] = "idle"
    <3>1. pc[h] = "idle"
      BY <1>0, <1>1, <2>1, MaxNestAssumption DEF CoreInv
    <3>2. Out(h) = 0
      BY <3>1, IdleIsQuiet
    <3>3. Out(h)' = Out(h)
      BY <1>2, <2>1, <2>2 DEF Out, Asking, NextLock
    <3> QED BY <3>1, <3>2, <3>3
  <2>4. \A n \in 1 .. MaxNest : n > level'[c] => pc'[<<c, n>>] = "idle"
    <3>1. ASSUME NEW n \in 1 .. MaxNest PROVE pc'[<<c, n>>] = "idle"
      <4>1. <<c, n>> \in Contexts /\ <<c, n>> # x
        BY <1>0, <2>2 DEF Contexts
      <4>2. pc[<<c, n>>] = "idle"
        BY <1>9, <2>1
      <4> QED BY <2>1, <4>1, <4>2
    <3> QED BY <3>1
  <2>5. SUFFICES /\ Bit(boot'[c] # << >>) + Out(t)' = Bit(boot[c] # << >>) + Out(t)
                 /\ Hard(c)' <=> Hard(c)
                 /\ GoodBoot(boot'[c])
    <3>1. requests[c] = Bit(boot[c] # << >>) + Out(t) + Out(h)
      BY <1>0, <1>1 DEF CoreInv
    <3>2. Out(t) \in Int
      BY CountIsNat
    <3>3. requests'[c] = Bit(boot'[c] # << >>) + Out(t)' + Out(h)'
      <4>1. Bit(boot'[c] # << >>) + Out(t)' + 0 = Bit(boot'[c] # << >>) + Out(t)'
        BY <2>5, <3>2 DEF Bit
      <4> QED BY <2>1, <2>3, <2>5, <3>1, <3>2 DEF Bit
    <3>4. level'[c] = 0 /\ depth'[c] = 0
      BY <1>1, <2>1, Zenon
    <3>5. if_flag'[c] <=> level'[c] = 0 /\ ~Hard(c)'
      BY <1>6, <2>1, <2>5, <3>4
    <3>6. (pc[Top(c)] = "sti" => was[Top(c)] = requests[c] + 1)'
      BY <2>1, <2>2
    <3>7. (level[c] = 1 => /\ pc[<<c, 1>>] # "idle" /\ path[<<c, 1>>] = TimerPath(c)
                           /\ ~Hard(c))'
      BY <3>4
    <3>8. (level[c] <= 1 /\ depth[c] = level[c])'
      BY <3>4
    <3>9. (requests[c] = Bit(boot[c] # << >>) + Out(<<c, 0>>) + Out(<<c, 1>>))'
      BY <1>0, <3>3
    <3> QED BY <2>4, <2>5, <3>5, <3>6, <3>7, <3>8, <3>9 DEF CoreInv
  <2>6. CASE BootCall(c)
    <3>1. /\ pc[x] = "idle" /\ boot[c] # << >> /\ boot'[c] = Tail(boot[c])
          /\ path'[x] = Head(boot[c])
          /\ \/ Head(boot[c]) = EndOfBoot /\ taken'[x] = 1 /\ pc'[x] = "drop"
             \/ Head(boot[c]) # EndOfBoot /\ taken'[x] = taken[x] /\ pc'[x] = "lock"
      BY <1>0, <1>3, <2>6 DEF BootCall, At, Goto, TypeOK
    <3>2. Out(t) = 0 /\ taken[t] = 0
      BY <2>2, <3>1, IdleIsQuiet
    <3>3. GoodBoot(Tail(boot[c])) /\ (Head(boot[c]) = EndOfBoot <=> Tail(boot[c]) = << >>)
      BY <1>1, <3>1, BootHead DEF CoreInv
    <3>4. Hard(c)
      BY <3>1 DEF Hard
    <3>5. CASE Head(boot[c]) = EndOfBoot
      <4>1. MaskCount(EndOfBoot, 1) = 1
        <5>1. /\ MaskCount(EndOfBoot, 0) = 0
              /\ MaskCount(EndOfBoot, 0 + 1) = MaskCount(EndOfBoot, 0) + Bit(Masks(EndOfBoot[0 + 1]))
          BY MaskCountStep
        <5>2. Masks(EndOfBoot[0 + 1])
          BY DEF EndOfBoot, Section, Masks
        <5> QED BY <5>1, <5>2 DEF Bit
      <4>2. MaskCount(path'[t], taken'[t]) = 1 /\ pc'[t] = "drop" /\ boot'[c] = << >>
        BY <2>2, <3>1, <3>3, <3>5, <4>1
      <4>3. Out(t)' = 1
        BY <4>2 DEF Out, Asking, Bit
      <4>4. Hard(c)'
        BY <1>0, <4>2 DEF Hard
      <4>5. Bit(boot'[c] # << >>) + Out(t)' = Bit(boot[c] # << >>) + Out(t)
        <5>1. Bit(boot'[c] # << >>) = 0 /\ Bit(boot[c] # << >>) = 1
          BY <3>1, <4>2, Zenon DEF Bit
        <5> QED BY <3>2, <4>3, <5>1
      <4> QED BY <3>1, <3>3, <3>4, <4>4, <4>5
    <3>6. CASE Head(boot[c]) # EndOfBoot
      <4>1. MaskCount(path'[t], 0) = 0
        BY MaskCountStep
      <4>2. taken'[t] = 0 /\ pc'[t] = "lock" /\ boot'[c] # << >>
        BY <2>2, <3>1, <3>2, <3>3, <3>6
      <4>3. Out(t)' = 0
        BY <4>1, <4>2 DEF Out, Asking, Bit
      <4>4. Hard(c)'
        BY <4>2 DEF Hard
      <4> QED BY <3>1, <3>2, <3>3, <3>4, <4>2, <4>3, <4>4 DEF Bit
    <3> QED BY <3>5, <3>6
  <2>7. CASE Call(c) \/ Return(c)
    <3>1. /\ boot' = boot /\ taken' = taken /\ taken[x] = 0
          /\ pc[x] \in {"idle", "drop"} /\ pc'[x] \in {"idle", "lock"}
      <4>1. CASE Call(c)
        BY <1>0, <1>1, <1>3, <4>1 DEF Call, At, Goto, TypeOK, ContextInv
      <4>2. CASE Return(c)
        BY <1>0, <1>3, <4>2 DEF Return, At, Goto, TypeOK
      <4> QED BY <2>7, <4>1, <4>2
    <3>2. MaskCount(path[t], 0) = 0 /\ MaskCount(path'[t], 0) = 0
      BY MaskCountStep
    <3>3. Out(t) = 0 /\ Out(t)' = 0
      BY <2>2, <3>1, <3>2 DEF Out, Asking, Bit
    <3>4. Hard(c)' <=> Hard(c)
      BY <1>0, <2>2, <3>1, <3>2 DEF Hard
    <3>5. GoodBoot(boot[c])
      BY <1>1 DEF CoreInv
    <3> QED BY <3>1, <3>3, <3>4, <3>5
  <2> QED BY <1>17, <2>6, <2>7
<1>18. CASE Timer(c)
  <2>1. /\ if_flag[c] /\ level[c] = 0
        /\ ~Hard(c) /\ level[c] + 1 = 1
    BY <1>9, <1>18 DEF Timer
  <2>2. /\ level'[c] = 1 /\ depth'[c] = 1 /\ pc'[h] = "lock" /\ path'[h] = TimerPath(c)
        /\ ~if_flag'[c]
        /\ \A y \in Contexts : y # h => pc'[y] = pc[y] /\ path'[y] = path[y]
        /\ UNCHANGED <<boot, taken, was, requests>>
    <3>1. <<c, level[c] + 1>> = h
      BY <1>0, <2>1
    <3>2. level' = [level EXCEPT ![c] = @ + 1] /\ depth' = [depth EXCEPT ![c] = @ + 1]
      BY <1>18 DEF Timer
    <3>3. level'[c] = 1 /\ depth'[c] = 1
      BY <1>1, <1>3, <2>1, <3>2, Zenon DEF TypeOK
    <3>4. if_flag' = [if_flag EXCEPT ![c] = FALSE]
      BY <1>18 DEF Timer
    <3>5. ~if_flag'[c]
      BY <1>3, <3>4 DEF TypeOK
    <3> QED BY <1>3, <1>18, <3>1, <3>3, <3>5, Zenon DEF Timer, Goto, TypeOK
  <2>3. pc[h] = "idle"
    <3>1. 1 \in 1 .. MaxNest /\ 1 > level[c]
      BY <2>1, MaxNestAssumption
    <3> QED BY <1>0, <1>9, <3>1
  <2>4. taken[h] = 0 /\ Out(h) = 0
    BY <2>3, IdleIsQuiet
  <2>5. Out(h)' = 0
    <3>1. MaskCount(path'[h], 0) = 0
      BY MaskCountStep
    <3>2. MaskCount(path'[h], taken'[h]) = 0 /\ pc'[h] = "lock"
      BY <2>2, <2>4, <3>1
    <3> QED BY <3>2 DEF Out, Asking, Bit
  <2>6. Out(t)' = Out(t) /\ (Hard(c)' <=> Hard(c))
    BY <1>0, <1>2, <2>2 DEF Out, Asking, NextLock, Hard
  <2>7. requests'[c] = Bit(boot'[c] # << >>) + Out(t)' + Out(h)'
    <3>1. requests[c] = Bit(boot[c] # << >>) + Out(t) + Out(h)
      BY <1>0, <1>1 DEF CoreInv
    <3> QED BY <2>2, <2>4, <2>5, <2>6, <3>1
  <2>8. ASSUME NEW n \in 1 .. MaxNest, n > 1 PROVE pc'[<<c, n>>] = "idle"
    <3>1. <<c, n>> \in Contexts /\ <<c, n>> # h
      BY <1>0, <2>8 DEF Contexts
    <3>2. pc[<<c, n>>] = "idle"
      BY <1>9, <2>1
    <3> QED BY <2>2, <3>1, <3>2, Zenon
  <2>9. Top(c)' = h
    BY <1>0, <2>2 DEF Top
  <2>10. GoodBoot(boot'[c])
    BY <1>1, <2>2 DEF CoreInv
  <2>11. (level[c] = 1 => /\ pc[<<c, 1>>] # "idle" /\ path[<<c, 1>>] = TimerPath(c)
                          /\ ~Hard(c))'
    BY <1>0, <2>1, <2>2, <2>6
  <2>12. (pc[Top(c)] = "sti" => was[Top(c)] = requests[c] + 1)'
    BY <2>2, <2>9
  <2>13. (level[c] <= 1 /\ depth[c] = level[c])' /\ (if_flag[c] <=> level[c] = 0 /\ ~Hard(c))'
    BY <2>2
  <2>14. (requests[c] = Bit(boot[c] # << >>) + Out(<<c, 0>>) + Out(<<c, 1>>))'
    BY <1>0, <2>7
  <2>15. (\A n \in 1 .. MaxNest : n > level[c] => pc[<<c, n>>] = "idle")'
    BY <2>2, <2>8
  <2> QED BY <2>10, <2>11, <2>12, <2>13, <2>14, <2>15 DEF CoreInv
<1>19. CASE Iret(c)
  <2>1. level[c] = 1 /\ ~Hard(c) /\ x = h
    <3>1. level[c] = 1
      BY <1>1, <1>19 DEF Iret
    <3> QED BY <1>2, <1>9, <3>1
  <2>2. /\ pc[h] = "drop" /\ taken[h] = 0 /\ pc'[h] = "idle"
        /\ \A y \in Contexts : y # h => pc'[y] = pc[y] /\ path'[y] = path[y]
        /\ UNCHANGED <<boot, taken, was, requests>>
    BY <1>0, <1>3, <1>19, <2>1 DEF Iret, At, Goto, TypeOK
  <2>3. level'[c] = 0 /\ depth'[c] = 0 /\ if_flag'[c]
    <3>1. /\ level' = [level EXCEPT ![c] = @ - 1] /\ depth' = [depth EXCEPT ![c] = @ - 1]
          /\ if_flag' = [if_flag EXCEPT ![c] = TRUE]
      BY <1>19 DEF Iret
    <3>2. level'[c] = 0 /\ depth'[c] = 0
      <4>1. level[c] = 1 /\ depth[c] = 1
        BY <1>1, <2>1
      <4>2. level'[c] = level[c] - 1 /\ depth'[c] = depth[c] - 1
        BY <1>3, <3>1 DEF TypeOK
      <4> QED BY <4>1, <4>2
    <3>3. if_flag'[c]
      BY <1>3, <3>1 DEF TypeOK
    <3> QED BY <3>2, <3>3
  <2>4. Out(h) = 0 /\ Out(h)' = 0
    <3>1. MaskCount(path[h], 0) = 0 /\ MaskCount(path'[h], 0) = 0
      BY MaskCountStep
    <3> QED BY <2>2, <3>1 DEF Out, Asking, Bit
  <2>5. Out(t)' = Out(t) /\ (Hard(c)' <=> Hard(c)) /\ pc'[t] = pc[t]
    BY <1>0, <1>2, <2>2 DEF Out, Asking, NextLock, Hard
  <2>6. requests'[c] = Bit(boot'[c] # << >>) + Out(t)' + Out(h)'
    <3>1. requests[c] = Bit(boot[c] # << >>) + Out(t) + Out(h)
      BY <1>0, <1>1 DEF CoreInv
    <3> QED BY <2>2, <2>4, <2>5, <3>1
  <2>7. ASSUME NEW n \in 1 .. MaxNest PROVE pc'[<<c, n>>] = "idle"
    <3>1. <<c, n>> \in Contexts
      BY DEF Contexts
    <3>2. CASE n = 1
      BY <1>0, <2>2, <3>2
    <3>3. CASE n > 1
      <4>1. <<c, n>> # h
        BY <1>0, <3>3
      <4>2. pc[<<c, n>>] = "idle"
        BY <1>1, <2>1, <3>3 DEF CoreInv
      <4> QED BY <2>2, <3>1, <4>1, <4>2
    <3> QED BY <3>2, <3>3
  <2>8. pc'[t] # "sti" /\ Top(c)' = t
    <3>1. pc[t] # "sti"
      BY <1>0, <2>1, ThreadIsSoft
    <3> QED BY <1>0, <2>3, <2>5, <3>1 DEF Top
  <2>9. GoodBoot(boot'[c])
    BY <1>1, <2>2 DEF CoreInv
  <2>10. (level[c] = 1 => /\ pc[<<c, 1>>] # "idle" /\ path[<<c, 1>>] = TimerPath(c)
                          /\ ~Hard(c))'
    BY <2>3
  <2>11. (pc[Top(c)] = "sti" => was[Top(c)] = requests[c] + 1)'
    BY <2>8
  <2>12. (level[c] <= 1 /\ depth[c] = level[c])' /\ (if_flag[c] <=> level[c] = 0 /\ ~Hard(c))'
    BY <2>1, <2>3, <2>5
  <2>13. (requests[c] = Bit(boot[c] # << >>) + Out(<<c, 0>>) + Out(<<c, 1>>))'
    BY <1>0, <2>6
  <2>14. (\A n \in 1 .. MaxNest : n > level[c] => pc[<<c, n>>] = "idle")'
    BY <2>7
  <2> QED BY <2>9, <2>10, <2>11, <2>12, <2>13, <2>14 DEF CoreInv
<1> QED BY <1>10, <1>11, <1>12, <1>13, <1>14, <1>15, <1>16, <1>17, <1>18, <1>19
  DEF CoreStep, Step

(* A step of a core leaves the others alone. *)
LEMMA OtherCoreStep ==
  ASSUME Inv, NEW c \in Cores, CoreStep(c), NEW d \in Cores, d # c
  PROVE  CoreInv(d)'
<1>1. /\ UNCHANGED <<boot[d], level[d], requests[d], depth[d], if_flag[d]>>
      /\ \A y \in Contexts : y[1] = d =>
            UNCHANGED <<pc[y], path[y], taken[y], was[y]>>
  <2>1. TypeOK
    BY DEF Inv
  <2>2. Top(c)[1] = c /\ <<c, level[c] + 1>>[1] = c
    BY DEF Top
  <2>3. CASE BootCall(c)
    BY <2>1, <2>2, <2>3 DEF BootCall, Goto, TypeOK
  <2>4. CASE Call(c)
    BY <2>1, <2>2, <2>4 DEF Call, Goto, TypeOK
  <2>5. CASE Timer(c)
    BY <2>1, <2>2, <2>5 DEF Timer, Goto, TypeOK
  <2>6. CASE EnterLock(c)
    BY <2>1, <2>2, <2>6 DEF EnterLock, Goto, TypeOK, program
  <2>7. CASE Cli(c)
    BY <2>1, <2>2, <2>7 DEF Cli, Goto, TypeOK, program
  <2>8. CASE DrawTicket(c)
    BY <2>1, <2>2, <2>8 DEF DrawTicket, Goto, TypeOK, program
  <2>9. CASE Acquire(c)
    BY <2>1, <2>2, <2>9 DEF Acquire, GoDown, Goto, TypeOK, program
  <2>10. CASE DropGuard(c)
    BY <2>1, <2>2, <2>10 DEF DropGuard, Goto, TypeOK, program
  <2>11. CASE ExitLock(c)
    BY <2>1, <2>2, <2>11 DEF ExitLock, Goto, TypeOK, program
  <2>12. CASE Sti(c)
    BY <2>1, <2>2, <2>12 DEF Sti, Goto, TypeOK, program
  <2>13. CASE Return(c)
    BY <2>1, <2>2, <2>13 DEF Return, Goto, TypeOK
  <2>14. CASE Iret(c)
    BY <2>1, <2>2, <2>14 DEF Iret, Goto, TypeOK
  <2> QED BY <2>3, <2>4, <2>5, <2>6, <2>7, <2>8, <2>9, <2>10, <2>11, <2>12, <2>13, <2>14
, Zenon DEF CoreStep, Step
<1>2. PICK t \in Contexts, h \in Contexts, x \in Contexts :
        t = <<d, 0>> /\ h = <<d, 1>> /\ x = Top(d)
  BY TopIsContext, Zenon
<1>3. t[1] = d /\ h[1] = d /\ x[1] = d /\ Top(d)' = x
  BY <1>1, <1>2 DEF Top
<1>4. CoreInv(d)
  BY DEF Inv
<1>5. /\ Out(t)' = Out(t) /\ Out(h)' = Out(h) /\ (Hard(d)' <=> Hard(d))
  BY <1>1, <1>2, <1>3, Zenon DEF Out, Asking, NextLock, Hard
<1>6. \A n \in 1 .. MaxNest : n > level'[d] => pc'[<<d, n>>] = "idle"
  <2>1. ASSUME NEW n \in 1 .. MaxNest, n > level[d] PROVE pc'[<<d, n>>] = "idle"
    <3>1. <<d, n>> \in Contexts /\ <<d, n>>[1] = d
      BY DEF Contexts
    <3>2. pc[<<d, n>>] = "idle"
      BY <1>4, <2>1 DEF CoreInv
    <3> QED BY <1>1, <3>1, <3>2
  <2> QED BY <1>1, <2>1, Zenon
<1>7. /\ requests[d] = Bit(boot[d] # << >>) + Out(t) + Out(h)
      /\ pc[x] = "sti" => was[x] = requests[d] + 1
  BY <1>2, <1>4 DEF CoreInv
<1>8. (level[d] = 1 => /\ pc[<<d, 1>>] # "idle" /\ path[<<d, 1>>] = TimerPath(d) /\ ~Hard(d))'
  <2>1. level[d] = 1 => pc[h] # "idle" /\ path[h] = TimerPath(d) /\ ~Hard(d)
    BY <1>2, <1>4 DEF CoreInv
  <2> QED BY <1>1, <1>2, <1>3, <1>5, <2>1
<1>9. (pc[Top(d)] = "sti" => was[Top(d)] = requests[d] + 1)'
  BY <1>1, <1>3, <1>7
<1>10. (requests[d] = Bit(boot[d] # << >>) + Out(<<d, 0>>) + Out(<<d, 1>>))'
  BY <1>1, <1>2, <1>5, <1>7
<1>11. /\ (level[d] <= 1 /\ depth[d] = level[d])' /\ (if_flag[d] <=> level[d] = 0 /\ ~Hard(d))'
       /\ GoodBoot(boot[d])'
  BY <1>1, <1>4, <1>5 DEF CoreInv
<1> QED BY <1>6, <1>8, <1>9, <1>10, <1>11 DEF CoreInv
=============================================================================
