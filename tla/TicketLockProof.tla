-------------------------- MODULE TicketLockProof ---------------------------
(***************************************************************************)
(* TicketLock keeps its guards exclusive and serves in order, for every    *)
(* finite set of agents smaller than the range of the counters.            *)
(***************************************************************************)
EXTENDS TicketLock, FiniteSetTheorems, FunctionTheorems, SequenceTheorems, TLAPS

(* The range of the counters is not empty, as `usize` is not. *)
LEMMA TicketModPositive == TicketMod \in Nat \ {0} /\ Cardinality(Agents) \in Nat
  BY AgentsAssumption, FS_CardinalityType

(* The line is shorter than the number of agents while somebody is not in  *)
(* it: each place is taken by another agent.  Hence drawing one more       *)
(* ticket never makes `ticket` catch up with `release`.                    *)
LEMMA RoomInLine ==
  ASSUME Inv, NEW a \in Agents, pc[a] = "idle"
  PROVE  LineLength \in Nat /\ LineLength <= TicketMod - 2
<1> DEFINE Places == 0 .. LineLength - 1
           Others == Agents \ {a}
           At == [p \in Places |-> CHOOSE b \in Outstanding : Place(b) = p]
<1>1. LineLength \in Nat
  BY TicketModPositive DEF Inv, TypeOK, LineLength, Ahead, Tickets
<1>2. \A p \in Places : At[p] \in Others /\ Place(At[p]) = p
  <2> SUFFICES ASSUME NEW p \in Places
               PROVE  At[p] \in Others /\ Place(At[p]) = p
    OBVIOUS
  <2>1. \E b \in Outstanding : Place(b) = p
    BY DEF Inv, LineInv
  <2>2. At[p] \in Outstanding /\ Place(At[p]) = p
    BY <2>1
  <2> QED BY <2>2 DEF Outstanding
<1>3. At \in Injection(Places, Others)
  <2>1. At \in [Places -> Others]
    BY <1>2
  <2>2. \A p, q \in Places : At[p] = At[q] => p = q
    BY <1>2
  <2> HIDE DEF At, Places, Others
  <2> QED BY <2>1, <2>2, Fun_IsInj
<1>4. IsFiniteSet(Others) /\ Cardinality(Others) = Cardinality(Agents) - 1
  BY FS_RemoveElement, AgentsAssumption
<1>5. Cardinality(Places) <= Cardinality(Others)
  <2> HIDE DEF At, Places, Others
  <2> QED BY <1>3, <1>4, FS_Injection
<1>6. Cardinality(Places) = LineLength
  <2>1. LineLength - 1 \in Int
    BY <1>1
  <2> QED BY <1>1, <2>1, FS_Interval
<1> HIDE DEF Places, Others
<1> QED BY <1>1, <1>4, <1>5, <1>6, AgentsAssumption, TicketModPositive

-----------------------------------------------------------------------------
(* SpinLock::new(): nobody is in line and the counters agree. *)
LEMMA InitInv == Init => Inv
  BY TicketModPositive
  DEF Init, Inv, TypeOK, LineInv, Outstanding, Holders, LineLength, Ahead, Tickets

(* fetch_add(1) in lock() puts the agent behind everybody in line. *)
LEMMA DrawTicketInv ==
  ASSUME Inv, NEW a \in Agents, DrawTicket(a)
  PROVE  Inv'
<1>1. LineLength \in Nat /\ LineLength <= TicketMod - 2
  BY RoomInLine DEF DrawTicket
<1>2. TypeOK'
  BY TicketModPositive DEF Inv, TypeOK, DrawTicket, WrappingInc, Tickets
<1>3. LineLength' = LineLength + 1
  BY <1>1, TicketModPositive
  DEF Inv, TypeOK, DrawTicket, LineLength, Ahead, WrappingInc, Tickets
<1>4. Place(a)' = LineLength
  BY DEF Inv, TypeOK, DrawTicket, Place, LineLength
<1>5. Outstanding' = Outstanding \cup {a}
  BY DEF Inv, TypeOK, DrawTicket, Outstanding
<1>6. \A b \in Outstanding : b # a /\ Place(b)' = Place(b) /\ my_ticket'[b] = my_ticket[b]
  BY DEF Inv, TypeOK, DrawTicket, Outstanding, Place
<1>7. Holders' = Holders
  BY DEF Inv, TypeOK, DrawTicket, Holders
<1>8. \A b \in Outstanding : Place(b) \in Nat /\ Place(b) < LineLength
  BY TicketModPositive DEF Inv, TypeOK, LineInv, Place, Ahead, Outstanding, Tickets
<1>9. (\A b \in Outstanding : Place(b) < LineLength)'
  BY <1>1, <1>3, <1>4, <1>5, <1>6, <1>8
<1>10. \A b \in Outstanding : my_ticket[b] # ticket
  BY <1>8 DEF Place, LineLength
<1>11. (\A b, c \in Outstanding : my_ticket[b] = my_ticket[c] => b = c)'
  <2>1. my_ticket'[a] = ticket
    BY DEF Inv, TypeOK, DrawTicket
  <2> QED BY <1>5, <1>6, <1>10, <2>1 DEF Inv, LineInv
<1>12. (\A p \in 0 .. LineLength - 1 : \E b \in Outstanding : Place(b) = p)'
  <2> SUFFICES ASSUME NEW p \in 0 .. LineLength
               PROVE  \E b \in Outstanding' : Place(b)' = p
    BY <1>1, <1>3
  <2>1. CASE p = LineLength
    BY <2>1, <1>4, <1>5
  <2>2. CASE p # LineLength
    <3>1. p \in 0 .. LineLength - 1
      BY <1>1, <2>2
    <3>2. PICK b \in Outstanding : Place(b) = p
      BY <3>1 DEF Inv, LineInv
    <3> QED BY <3>2, <1>5, <1>6
  <2> QED BY <2>1, <2>2
<1>13. (\A b \in Holders : my_ticket[b] = release)'
  BY <1>6, <1>7 DEF Inv, LineInv, DrawTicket, Holders, Outstanding
<1> QED BY <1>2, <1>9, <1>11, <1>12, <1>13 DEF Inv, LineInv

(* The end of the spin loop in lock() makes the front the only holder. *)
LEMMA AcquireInv ==
  ASSUME Inv, NEW a \in Agents, Acquire(a)
  PROVE  Inv'
<1>1. TypeOK'
  BY DEF Inv, TypeOK, Acquire
<1>2. Outstanding' = Outstanding
  BY DEF Inv, TypeOK, Acquire, Outstanding
<1>3. LineLength' = LineLength /\ \A b \in Agents : Place(b)' = Place(b)
  BY DEF Acquire, LineLength, Place
<1>4. (\A b \in Holders : my_ticket[b] = release)'
  BY DEF Inv, TypeOK, LineInv, Acquire, Holders
<1> QED BY <1>1, <1>2, <1>3, <1>4 DEF Inv, LineInv, Acquire, Outstanding

(* Dropping the guard moves everybody else one place forward. *)
LEMMA DropMoves ==
  ASSUME Inv, NEW a \in Agents, Drop(a)
  PROVE  /\ LineLength \in Nat \ {0}
         /\ LineLength' = LineLength - 1
         /\ Place(a) = 0
         /\ Outstanding' = Outstanding \ {a}
         /\ a \in Outstanding
         /\ \A b \in Outstanding \ {a} : Place(b) \in Nat \ {0} /\ Place(b)' = Place(b) - 1
<1>1. a \in Holders /\ a \in Outstanding /\ my_ticket[a] = release
  BY DEF Inv, LineInv, Drop, Holders, Outstanding
<1>2. Place(a) = 0
  BY <1>1, TicketModPositive DEF Inv, TypeOK, Place, Ahead, Tickets
<1>3. LineLength \in Nat \ {0}
  <2>1. LineLength \in Nat
    BY TicketModPositive DEF Inv, TypeOK, LineLength, Ahead, Tickets
  <2> QED BY <1>1, <1>2, <2>1 DEF Inv, LineInv
<1>4. LineLength' = LineLength - 1
  BY <1>3, TicketModPositive
  DEF Inv, TypeOK, Drop, LineLength, Ahead, WrappingInc, Tickets
<1>5. Outstanding' = Outstanding \ {a}
  BY DEF Inv, TypeOK, Drop, Outstanding
<1>6. ASSUME NEW b \in Outstanding \ {a}
      PROVE  Place(b) \in Nat \ {0} /\ Place(b)' = Place(b) - 1
  <2>1. my_ticket[b] # release
    BY <1>1 DEF Inv, LineInv
  <2>2. my_ticket[b] \in Tickets /\ my_ticket'[b] = my_ticket[b]
    BY DEF Inv, TypeOK, Drop, Outstanding
  <2> QED BY <2>1, <2>2, TicketModPositive
          DEF Inv, TypeOK, Drop, Place, Ahead, WrappingInc, Tickets
<1> QED BY <1>1, <1>2, <1>3, <1>4, <1>5, <1>6

(* fetch_add(1) in drop() takes the front, and nobody else, out of line. *)
LEMMA DropInv ==
  ASSUME Inv, NEW a \in Agents, Drop(a)
  PROVE  Inv'
<1>1. TypeOK'
  BY TicketModPositive DEF Inv, TypeOK, Drop, WrappingInc, Tickets
<1>2. (\A b \in Outstanding : Place(b) < LineLength)'
  BY DropMoves DEF Inv, LineInv
<1>3. (\A b, c \in Outstanding : my_ticket[b] = my_ticket[c] => b = c)'
  BY DropMoves DEF Inv, LineInv, Drop
<1>4. (\A p \in 0 .. LineLength - 1 : \E b \in Outstanding : Place(b) = p)'
  <2> SUFFICES ASSUME NEW p \in 0 .. LineLength - 2
               PROVE  \E b \in Outstanding' : Place(b)' = p
    BY DropMoves
  <2>1. p + 1 \in 0 .. LineLength - 1 /\ p + 1 # 0
    BY DropMoves
  <2>2. PICK b \in Outstanding : Place(b) = p + 1
    BY <2>1 DEF Inv, LineInv
  <2>3. b # a
    BY <2>1, <2>2, DropMoves
  <2> QED BY <2>2, <2>3, DropMoves
<1>5. Holders' = {}
  <2> SUFFICES ASSUME NEW b \in Holders' PROVE FALSE
    OBVIOUS
  <2>1. b \in Holders /\ b # a
    BY DEF Inv, TypeOK, Drop, Holders
  <2> QED BY <2>1 DEF Inv, LineInv, Drop, Holders, Outstanding
<1> QED BY <1>1, <1>2, <1>3, <1>4, <1>5 DEF Inv, LineInv

(* Steps of other code leave the lock alone. *)
LEMMA StutterInv == Inv /\ UNCHANGED vars => Inv'
  BY DEF Inv, vars, TypeOK, LineInv, Outstanding, Holders, Place, LineLength, Ahead

(* Every step of lock() and drop() preserves the invariant. *)
LEMMA NextInv == Inv /\ [Next]_vars => Inv'
  BY DrawTicketInv, AcquireInv, DropInv, StutterInv DEF Next

(* The counters of lock() and drop() always describe the line of live     *)
(* requests.                                                               *)
THEOREM LineInvariance == Spec => []Inv
<1> QED BY InitInv, NextInv, PTL DEF Spec

(* No two guards of one SpinLock are alive at once, however many agents    *)
(* contend and however often the counters wrapped.                         *)
THEOREM Exclusive == Spec => []MutualExclusion
<1>1. Inv => MutualExclusion
  BY DEF Inv, LineInv, MutualExclusion, Holders, Outstanding
<1> QED BY <1>1, InitInv, NextInv, PTL DEF Spec

-----------------------------------------------------------------------------
(* The line is a sequence of agents, and the agent at a place is the one   *)
(* whose ticket says so.                                                   *)
LineShape ==
  /\ LineLength \in Nat
  /\ Line \in Seq(Agents)
  /\ Len(Line) = LineLength
  /\ \A i \in 1 .. LineLength : Line[i] \in Outstanding /\ Place(Line[i]) = i - 1
  /\ \A b \in Outstanding : Place(b) + 1 \in 1 .. LineLength /\ Line[Place(b) + 1] = b

(* In every state of the invariant the line has that shape. *)
LEMMA LineIsSeq == Inv => LineShape
<1> SUFFICES ASSUME Inv PROVE LineShape
  OBVIOUS
<1>1. LineLength \in Nat
  BY TicketModPositive DEF Inv, TypeOK, LineLength, Ahead, Tickets
<1>2. \A i \in 1 .. LineLength : Line[i] \in Outstanding /\ Place(Line[i]) = i - 1
  <2> SUFFICES ASSUME NEW i \in 1 .. LineLength
               PROVE  Line[i] \in Outstanding /\ Place(Line[i]) = i - 1
    OBVIOUS
  <2>1. \E b \in Outstanding : Place(b) = i - 1
    BY <1>1 DEF Inv, LineInv
  <2>2. Line[i] = CHOOSE b \in Outstanding : Place(b) = i - 1
    BY DEF Line
  <2> QED BY <2>1, <2>2
<1>3. Line \in [1 .. LineLength -> Agents]
  BY <1>2 DEF Line, Outstanding
<1>4. Line \in Seq(Agents)
  BY <1>1, <1>3, SeqDef
<1>5. Len(Line) = LineLength
  BY <1>1, <1>3, <1>4, LenProperties
<1>6. ASSUME NEW b \in Outstanding
      PROVE  Place(b) + 1 \in 1 .. LineLength /\ Line[Place(b) + 1] = b
  <2>1. Place(b) \in Nat /\ Place(b) < LineLength
    BY TicketModPositive DEF Inv, TypeOK, LineInv, Place, Ahead, Outstanding, Tickets
  <2>2. Place(b) + 1 \in 1 .. LineLength
    BY <1>1, <2>1
  <2>3. Line[Place(b) + 1] \in Outstanding /\ Place(Line[Place(b) + 1]) = Place(b)
    BY <1>2, <2>1, <2>2
  <2>4. \A c \in Outstanding : Place(c) = Place(b) => c = b
    BY TicketModPositive DEF Inv, TypeOK, LineInv, Place, Ahead, Outstanding, Tickets
  <2> QED BY <2>2, <2>3, <2>4
<1> QED BY <1>1, <1>2, <1>4, <1>5, <1>6 DEF LineShape

(* SpinLock::new() is a lock with an empty line. *)
LEMMA InitRefines == Init => Fifo!Init
<1> SUFFICES ASSUME Init PROVE Line = << >> /\ Holders = {}
  BY DEF Fifo!Init
<1>1. Inv /\ LineLength = 0
  BY InitInv, TicketModPositive DEF Init, LineLength, Ahead
<1>2. Line \in Seq(Agents) /\ Len(Line) = 0
  BY <1>1, LineIsSeq DEF LineShape
<1>3. Line = << >>
  BY <1>2, EmptySeq
<1> QED BY <1>3 DEF Init, Holders

(* Drawing a ticket in lock() is joining the tail of the line. *)
LEMMA DrawTicketRefines ==
  ASSUME Inv, NEW a \in Agents, DrawTicket(a)
  PROVE  Fifo!Request(a)
<1> DEFINE Longer == Append(Line, a)
<1>1. LineShape /\ LineShape'
  BY DrawTicketInv, LineIsSeq, PTL
<1>2. \A i \in 1 .. Len(Line) : Line[i] # a
  BY <1>1 DEF LineShape, DrawTicket, Outstanding
<1>3. \A b \in Outstanding : b \in Outstanding' /\ Place(b)' = Place(b)
  BY DEF Inv, TypeOK, DrawTicket, Outstanding, Place
<1>4. a \in Outstanding' /\ Place(a)' = LineLength
  BY DEF Inv, TypeOK, DrawTicket, Outstanding, Place, LineLength
<1>5. /\ Line' \in Seq(Agents) /\ Len(Line') = LineLength + 1
      /\ \A b \in Outstanding' : Line'[Place(b)' + 1] = b
  <2>1. LineLength \in Nat /\ LineLength <= TicketMod - 2
    BY RoomInLine DEF DrawTicket
  <2>2. LineLength' = LineLength + 1
    BY <2>1, TicketModPositive
    DEF Inv, TypeOK, DrawTicket, LineLength, Ahead, WrappingInc, Tickets
  <2> QED BY <1>1, <2>2 DEF LineShape
<1>6. /\ LineLength \in Nat /\ Line \in Seq(Agents) /\ Len(Line) = LineLength
      /\ \A i \in 1 .. LineLength : Line[i] \in Outstanding /\ Place(Line[i]) = i - 1
  BY <1>1 DEF LineShape
<1>7. Longer \in Seq(Agents) /\ Len(Longer) = LineLength + 1
  BY <1>6
<1>8. \A i \in 1 .. LineLength + 1 : Line'[i] = Longer[i]
  <2> SUFFICES ASSUME NEW i \in 1 .. LineLength + 1 PROVE Line'[i] = Longer[i]
    OBVIOUS
  <2>1. CASE i = LineLength + 1
    BY <2>1, <1>4, <1>5, <1>6
  <2>2. CASE i # LineLength + 1
    <3>1. i \in 1 .. LineLength
      BY <1>6, <2>2
    <3>2. PICK b \in Outstanding : b = Line[i] /\ Place(b) = i - 1
      BY <3>1, <1>6
    <3>3. Longer[i] = b
      BY <3>1, <3>2, <1>6
    <3>4. Line'[Place(b)' + 1] = b /\ Place(b)' = i - 1
      BY <3>2, <1>3, <1>5
    <3> QED BY <3>1, <3>3, <3>4, <1>6
  <2> QED BY <2>1, <2>2
<1>9. Line' = Longer
  <2> HIDE DEF Longer
  <2> QED BY <1>5, <1>7, <1>8, SeqEqual
<1>10. Holders' = Holders
  BY DEF Inv, TypeOK, DrawTicket, Holders
<1> QED BY <1>2, <1>9, <1>10 DEF Fifo!Request

(* An agent whose ticket equals `release` is the head of the line. *)
LEMMA FrontIsHead ==
  ASSUME Inv, NEW a \in Outstanding, my_ticket[a] = release
  PROVE  Line # << >> /\ a = Head(Line)
<1>1. Place(a) = 0
  BY TicketModPositive DEF Inv, TypeOK, Place, Ahead, Tickets
<1>2. 1 \in 1 .. LineLength /\ Line[1] = a
  BY <1>1, LineIsSeq DEF LineShape
<1> QED BY <1>2, LineIsSeq DEF LineShape

(* The end of the spin loop in lock() is the head of the line entering. *)
LEMMA AcquireRefines ==
  ASSUME Inv, NEW a \in Agents, Acquire(a)
  PROVE  Fifo!Enter(a)
<1>1. Line # << >> /\ a = Head(Line)
  BY FrontIsHead DEF Acquire, Outstanding
<1>2. Line' = Line
  <2>1. Outstanding' = Outstanding
    BY DEF Inv, TypeOK, Acquire, Outstanding
  <2> QED BY <2>1 DEF Acquire, Line, Place, LineLength
<1>3. a \notin Holders /\ Holders' = Holders \cup {a}
  BY DEF Inv, TypeOK, Acquire, Holders
<1> QED BY <1>1, <1>2, <1>3 DEF Fifo!Enter

(* Dropping the guard is the head of the line leaving. *)
LEMMA DropRefines ==
  ASSUME Inv, NEW a \in Agents, Drop(a)
  PROVE  Fifo!Leave(a)
<1>1. Line # << >> /\ a = Head(Line) /\ a \in Holders
  BY FrontIsHead DEF Inv, LineInv, Drop, Outstanding, Holders
<1>2. LineShape /\ LineShape'
  BY DropInv, LineIsSeq, PTL
<1>3. /\ Line' \in Seq(Agents) /\ Len(Line') = LineLength'
      /\ \A b \in Outstanding' : Line'[Place(b)' + 1] = b
  BY <1>2 DEF LineShape
<1>4. /\ LineLength \in Nat /\ Line \in Seq(Agents) /\ Len(Line) = LineLength
      /\ \A i \in 1 .. LineLength : Line[i] \in Outstanding /\ Place(Line[i]) = i - 1
  BY <1>2 DEF LineShape
<1>5. /\ Tail(Line) \in Seq(Agents) /\ Len(Tail(Line)) = LineLength - 1
      /\ \A i \in 1 .. LineLength - 1 : Tail(Line)[i] = Line[i + 1]
  BY <1>1, <1>4, HeadTailProperties
<1>6. \A i \in 1 .. LineLength - 1 : Line'[i] = Tail(Line)[i]
  <2> SUFFICES ASSUME NEW i \in 1 .. LineLength - 1 PROVE Line'[i] = Line[i + 1]
    BY <1>5
  <2>1. PICK b \in Outstanding : b = Line[i + 1] /\ Place(b) = i
    BY <1>4
  <2>2. b # a
    BY <2>1, DropMoves
  <2>3. b \in Outstanding' /\ Place(b)' = i - 1
    BY <2>1, <2>2, DropMoves
  <2>4. Line'[Place(b)' + 1] = b
    BY <2>3, <1>3
  <2> QED BY <2>1, <2>3, <2>4
<1>7. Line' = Tail(Line)
  BY <1>3, <1>5, <1>6, DropMoves, SeqEqual
<1>8. Holders' = Holders \ {a}
  BY DEF Inv, TypeOK, Drop, Holders
<1> QED BY <1>1, <1>7, <1>8 DEF Fifo!Leave

(* The ticket lock is a first-come first-served lock: nobody overtakes,    *)
(* and every request that was made is still in line or has been served.    *)
THEOREM RefinesFifo == Spec => FifoSpec
<1>1. Inv /\ [Next]_vars => [Fifo!Next]_(Fifo!vars)
  <2> SUFFICES ASSUME Inv, [Next]_vars PROVE [Fifo!Next]_(Fifo!vars)
    OBVIOUS
  <2>1. ASSUME NEW a \in Agents, DrawTicket(a) \/ Acquire(a) \/ Drop(a)
        PROVE  Fifo!Next
    BY <2>1, DrawTicketRefines, AcquireRefines, DropRefines DEF Fifo!Next
  <2>2. CASE UNCHANGED vars
    BY <2>2 DEF vars, Fifo!vars, Line, Holders, Outstanding, Place, LineLength
  <2> QED BY <2>1, <2>2 DEF Next
<1> QED BY <1>1, InitRefines, InitInv, NextInv, PTL DEF Spec, FifoSpec, Fifo!Spec
=============================================================================
