------------------------- MODULE RedisProtocolProofs -------------------------
(***************************************************************************)
(* Proofs about the two directions of the protocol: the reply parser, for  *)
(* any messages and any way to cut them into chunks, any stack depth and   *)
(* any buffer limit; and the commands, for any formats, values and lists   *)
(* of arguments.                                                           *)
(***************************************************************************)
EXTENDS RedisReader, CommandFormat, ListsProofs, SequenceTheorems, FiniteSetTheorems,
        WellFoundedInduction, TLAPS

-----------------------------------------------------------------------------
\* A set of natural numbers that is not empty has a least element, and if it
\* is bounded it has a largest one.
LEMMA LeastOf ==
    ASSUME NEW S \in SUBSET Nat, S # {}
    PROVE  Least(S) \in S /\ \A j \in S : Least(S) <= j
<1>1. PICK i \in S : \A j \in S : <<j, i>> \notin OpToRel(<, Nat)
  BY WFMin, NatLessThanWellFounded, Zenon
<1>2. \A j \in S : i <= j
  <2>1. \A j \in S : ~(j < i)
    BY <1>1 DEF OpToRel
  <2> QED
    BY <2>1
<1> QED
  BY <1>2, Zenon DEF Least

LEMMA LargestOf ==
    ASSUME NEW n \in Nat, NEW S \in SUBSET (0..n), S # {}
    PROVE  Largest(S) \in S
<1> DEFINE T == {i \in 0..n : n - i \in S}
<1>1. T \in SUBSET Nat /\ T # {}
  <2>1. PICK s \in S : TRUE
    OBVIOUS
  <2>2. n - s \in 0..n /\ n - (n - s) = s
    BY <2>1
  <2> QED
    BY <2>1, <2>2
<1>2. Least(T) \in T /\ \A j \in T : Least(T) <= j
  BY <1>1, LeastOf
<1>3. \A j \in S : n - j \in T
  <2>1. \A j \in S : n - j \in 0..n /\ n - (n - j) = j
    OBVIOUS
  <2> QED
    BY <2>1
<1> DEFINE m == Least(T)
<1>4. m \in 0..n /\ n - m \in S /\ \A j \in T : m <= j
  BY <1>2
<1> HIDE DEF m, T
<1>5. \A j \in S : n - m >= j
  BY <1>3, <1>4
<1> QED
  BY <1>4, <1>5, Zenon DEF Largest

-----------------------------------------------------------------------------
(* The item at the cursor.                                                 *)

Tasks == [type : {NoType} \cup {TypeByte[b] : b \in DOMAIN TypeByte},
          elements : Int, idx : Int]

IInv == TypeOK /\ StackAsserted

LEMMA NumberIsInt == readLongLong \in Int
<1>1. \A t : (IF t = << >> THEN 0
              ELSE IF Len(t) = 1 /\ t[1] \in DOMAIN Number THEN Number[t[1]] ELSE -1) \in Int
  BY NumberAssumption
<1> QED
  BY <1>1, Zenon DEF readLongLong

\* The line end found is inside the buffer and behind the cursor.
LEMMA NewlineInside ==
    ASSUME TypeOK, LineThere
    PROVE  seekNewline \in Nat /\ seekNewline >= pos + 1 /\ seekNewline <= Len(buf) - 1
<1>1. Newlines \in SUBSET Nat /\ Newlines # {}
  BY DEF Newlines, LineThere, TypeOK
<1>2. seekNewline \in Newlines
  BY <1>1, LeastOf DEF seekNewline
<1> QED
  BY <1>2 DEF Newlines, TypeOK

\* Taking the item at the cursor off leaves the cursor in the buffer.
LEMMA CursorAfterLine ==
    ASSUME TypeOK, LineThere
    PROVE  seekNewline + 1 \in 0..Len(buf)
BY NewlineInside DEF TypeOK

LEMMA CursorAfterBulk ==
    ASSUME TypeOK, BulkThere
    PROVE  pos + BulkLength \in 0..Len(buf)
<1>1. LineThere /\ pos + BulkLength <= Len(buf)
  BY DEF BulkThere
<1>2. seekNewline \in Nat /\ seekNewline >= pos + 1
  BY <1>1, NewlineInside
<1>3. BulkLength \in Nat
  <2>1. readLongLong \in Int
    BY NumberIsInt
  <2> QED
    BY <1>2, <2>1 DEF BulkLength, TypeOK
<1> QED
  BY <1>1, <1>3 DEF TypeOK

LEMMA TypesOfBytes ==
    /\ \A b \in DOMAIN TypeByte : TypeByte[b] \in {"error", "status", "integer", "string", "array"}
    /\ NoType \notin {"error", "status", "integer", "string", "array"}
BY DEF TypeByte, NoType

-----------------------------------------------------------------------------
(* The task stack.                                                         *)

\* moveToNextTask keeps the stack in shape: its assertions hold.
LEMMA NextTask ==
    ASSUME IInv, moveToNextTask
    PROVE  /\ ridx' \in -1..Depth
           /\ rstack' \in [0..Depth -> Tasks]
           /\ StackAsserted'
<1> USE DEF IInv
<1>1. CASE Unfinished = {} /\ ridx' = -1 /\ UNCHANGED rstack
  BY <1>1, BoundsAssumption DEF StackAsserted, TypeOK, Tasks
<1>2. CASE /\ Unfinished # {}
           /\ ridx' = Largest(Unfinished)
           /\ rstack' = [rstack EXCEPT ![ridx'] = FreshTask(@.idx + 1)]
  <2>1. ridx \in Nat
    BY <1>2 DEF Unfinished, TypeOK
  <2>2. Unfinished \in SUBSET (0..ridx)
    BY <2>1 DEF Unfinished
  <2>3. ridx' \in Unfinished
    BY <1>2, <2>1, <2>2, LargestOf
  <2>4. /\ ridx' \in 1..ridx
        /\ rstack[ridx'].idx # rstack[ridx' - 1].elements - 1
    BY <2>3 DEF Unfinished
  <2>5. /\ rstack[ridx' - 1].type = "array"
        /\ 0 <= rstack[ridx'].idx /\ rstack[ridx'].idx < rstack[ridx' - 1].elements
    BY <2>4 DEF StackAsserted
  <2>6. ridx' \in 0..Depth /\ ridx' - 1 \in 0..Depth
    <3>1. ridx \in 0..Depth
      BY <2>1 DEF IInv, TypeOK
    <3>2. ASSUME NEW r \in 0..Depth, NEW i \in 1..r
          PROVE  i \in 0..Depth /\ i - 1 \in 0..Depth
      BY BoundsAssumption
    <3> QED
      BY <2>4, <3>1, <3>2, Zenon
  <2>7. rstack[ridx'] \in Tasks /\ rstack[ridx' - 1] \in Tasks
    BY <2>6 DEF TypeOK, Tasks
  <2>8. /\ rstack[ridx'].idx + 1 \in Int /\ 0 <= rstack[ridx'].idx + 1
        /\ rstack[ridx'].idx + 1 < rstack[ridx' - 1].elements
    BY <2>4, <2>5, <2>7 DEF Tasks
  <2>9. FreshTask(rstack[ridx'].idx + 1) \in Tasks
    BY <2>8 DEF FreshTask, Tasks
  <2>10. /\ rstack' \in [0..Depth -> Tasks]
         /\ rstack'[ridx'] = FreshTask(rstack[ridx'].idx + 1)
         /\ \A i \in 0..Depth : i # ridx' => rstack'[i] = rstack[i]
    BY <1>2, <2>6, <2>9 DEF TypeOK, Tasks
  <2>11. ASSUME NEW i \in 1..ridx'
         PROVE  /\ rstack'[i - 1].type = "array"
                /\ 0 <= rstack'[i].idx /\ rstack'[i].idx < rstack'[i - 1].elements
    <3>1. i \in 1..ridx /\ i \in 0..Depth /\ i - 1 \in 0..Depth /\ i - 1 # ridx'
      BY <2>1, <2>4, <2>6, BoundsAssumption
    <3>2. rstack'[i - 1] = rstack[i - 1]
      BY <3>1, <2>10
    <3>3. CASE i = ridx'
      BY <3>2, <3>3, <2>5, <2>8, <2>10 DEF FreshTask
    <3>4. CASE i # ridx'
      BY <3>1, <3>2, <3>4, <2>10 DEF StackAsserted
    <3> QED
      BY <3>3, <3>4
  <2> QED
    BY <2>6, <2>10, <2>11 DEF StackAsserted
<1> QED
  BY <1>1, <1>2 DEF moveToNextTask

\* An error empties the stack and the buffer.
LEMMA AfterError ==
    ASSUME IInv, NEW e, SetError(e), UNCHANGED call, wire' \in Seq(Byte)
    PROVE  IInv'
<1>1. << >> \in Seq(Byte) /\ Len(<< >>) = 0
  OBVIOUS
<1>2. -1 \in -1..Depth
  BY BoundsAssumption
<1> QED
  BY <1>1, <1>2 DEF IInv, SetError, TypeOK, StackAsserted

LEMMA SubSeqOfBytes ==
    ASSUME NEW s \in Seq(Byte), NEW m \in Nat, m > 0, NEW n \in Int, n <= Len(s)
    PROVE  SubSeq(s, m, n) \in Seq(Byte)
<1>1. \A i \in m..n : s[i] \in Byte
  OBVIOUS
<1> QED
  BY <1>1, SubSeqProperties

LEMMA InitIInv == Init => IInv
<1> SUFFICES ASSUME Init PROVE IInv
  OBVIOUS
<1>1. << >> \in Seq(Byte) /\ Len(<< >>) = 0
  OBVIOUS
<1>2. -1 \in -1..Depth
  BY BoundsAssumption
<1>3. FreshTask(-1) \in Tasks
  BY DEF FreshTask, Tasks
<1> QED
  <2>1. rstack \in [0..Depth -> Tasks] /\ ridx = -1
    BY <1>3 DEF Init
  <2>2. StackAsserted
    BY <2>1 DEF StackAsserted
  <2> QED
    <3>1. buf \in Seq(Byte) /\ wire \in Seq(Byte)
      BY <1>1, Zenon DEF Init
    <3>2. pos = 0 /\ Len(buf) = 0
      BY DEF Init
    <3>3. call \in BOOLEAN
      BY Zenon DEF Init
    <3> QED
      BY <1>2, <2>1, <2>2, <3>1, <3>2, <3>3 DEF IInv, TypeOK, Tasks

-----------------------------------------------------------------------------
(* One lemma per group of actions.                                         *)

LEMMA ArrivalSteps ==
    ASSUME IInv, (\E m \in Message : Send(m)) \/ Arrive
    PROVE  IInv'
<1>1. CASE \E m \in Message : Send(m)
  <2>1. PICK m \in Message : Send(m)
    BY <1>1
  <2>2. wire' \in Seq(Byte)
    BY <2>1, MessageAssumption, ConcatProperties DEF Send, IInv, TypeOK
  <2> QED
    BY <2>1, <2>2 DEF Send, IInv, TypeOK, StackAsserted
<1>2. CASE Arrive
  <2>1. PICK n \in 1..Len(wire) : Feed(n)
    BY <1>2 DEF Arrive
  <2>2. wire' \in Seq(Byte) /\ SubSeq(wire, 1, n) \in Seq(Byte)
    BY <2>1, SubSeqOfBytes DEF Feed, IInv, TypeOK
  <2>3. CASE buf' = buf \o SubSeq(wire, 1, n) /\ UNCHANGED <<pos, err, ridx, rstack, reply>>
    <3>1. buf' \in Seq(Byte) /\ Len(buf') >= Len(buf)
      BY <2>2, <2>3, ConcatProperties DEF IInv, TypeOK
    <3> QED
      BY <2>1, <2>2, <2>3, <3>1 DEF Feed, IInv, TypeOK, StackAsserted
  <2>4. CASE SetError("oom")
    BY <2>1, <2>2, <2>4, AfterError DEF Feed
  <2>5. CASE UNCHANGED <<buf, pos, err, ridx, rstack, reply>>
    BY <2>1, <2>2, <2>5 DEF Feed, IInv, TypeOK, StackAsserted
  <2> QED
    BY <2>1, <2>3, <2>4, <2>5 DEF Feed
<1> QED
  BY <1>1, <1>2

LEMMA CallSteps ==
    ASSUME IInv, GetReply \/ Return
    PROVE  IInv'
<1>1. CASE GetReply
  <2>1. CASE UNCHANGED <<ridx, rstack>>
    BY <1>1, <2>1 DEF GetReply, IInv, TypeOK, StackAsserted
  <2>2. CASE ridx' = 0 /\ rstack' = [rstack EXCEPT ![0] = FreshTask(-1)]
    <3>1. FreshTask(-1) \in Tasks /\ 0 \in 0..Depth
      BY BoundsAssumption DEF FreshTask, Tasks
    <3>2. rstack' \in [0..Depth -> Tasks]
      BY <2>2, <3>1 DEF IInv, TypeOK, Tasks
    <3> QED
      BY <1>1, <2>2, <3>1, <3>2 DEF GetReply, IInv, TypeOK, StackAsserted, Tasks
  <2> QED
    BY <1>1, <2>1, <2>2 DEF GetReply
<1>2. CASE Return
  <2>1. buf' \in Seq(Byte) /\ pos' \in 0..Len(buf')
    <3>1. CASE buf' = SubSeq(buf, pos + 1, Len(buf)) /\ pos' = 0
      BY <3>1, SubSeqOfBytes, LenProperties DEF IInv, TypeOK
    <3>2. CASE UNCHANGED <<buf, pos>>
      BY <3>2 DEF IInv, TypeOK
    <3> QED
      BY <1>2, <3>1, <3>2 DEF Return
  <2> QED
    BY <1>2, <2>1 DEF Return, IInv, TypeOK, StackAsserted
<1> QED
  BY <1>1, <1>2

LEMMA TypeStep ==
    ASSUME IInv, ReadType
    PROVE  IInv'
<1>1. CASE /\ buf[pos + 1] \in DOMAIN TypeByte
           /\ pos' = pos + 1
           /\ rstack' = [rstack EXCEPT ![ridx].type = TypeByte[buf[pos + 1]]]
           /\ UNCHANGED <<buf, err, ridx, reply>>
  <2>1. ridx \in 0..Depth /\ rstack[ridx] \in Tasks /\ rstack \in [0..Depth -> Tasks]
    BY DEF ReadType, IInv, TypeOK, Tasks
  <2> DEFINE t == TypeByte[buf[pos + 1]]
  <2>2. t \in {TypeByte[b] : b \in DOMAIN TypeByte}
    BY <1>1
  <2> HIDE DEF t
  <2>3. [rstack[ridx] EXCEPT !.type = t] \in Tasks
    BY <2>1, <2>2 DEF Tasks
  <2>4. rstack' = [rstack EXCEPT ![ridx] = [rstack[ridx] EXCEPT !.type = t]]
    BY <1>1, <2>1 DEF t
  <2>5. /\ rstack' \in [0..Depth -> Tasks]
        /\ \A i \in 0..Depth : i # ridx => rstack'[i] = rstack[i]
        /\ rstack'[ridx].idx = rstack[ridx].idx
    BY <2>1, <2>3, <2>4 DEF Tasks
  <2>6. StackAsserted'
    <3>1. ASSUME NEW i \in 1..ridx
          PROVE  /\ i \in 0..Depth /\ i - 1 \in 0..Depth /\ i - 1 # ridx
                 /\ rstack'[i - 1] = rstack[i - 1] /\ rstack'[i].idx = rstack[i].idx
      <4>1. i \in 0..Depth /\ i - 1 \in 0..Depth /\ i - 1 # ridx
        BY <2>1, BoundsAssumption
      <4> QED
        BY <4>1, <2>5
    <3> QED
      BY <1>1, <3>1 DEF IInv, StackAsserted
  <2>7. pos' \in 0..Len(buf')
    BY <1>1 DEF ReadType, IInv, TypeOK
  <2> QED
    BY <1>1, <2>5, <2>6, <2>7 DEF ReadType, IInv, TypeOK, Tasks
<1>2. CASE SetError("protocol")
  BY <1>2, AfterError DEF ReadType, IInv, TypeOK
<1> QED
  BY <1>1, <1>2 DEF ReadType

\* A leaf of the reply: the cursor moves behind it and the stack to the next
\* task.
LEMMA LeafStep ==
    ASSUME IInv, moveToNextTask, pos' \in 0..Len(buf), UNCHANGED <<buf, call, wire>>
    PROVE  IInv'
<1>1. /\ ridx' \in -1..Depth
      /\ rstack' \in [0..Depth -> Tasks]
      /\ StackAsserted'
  BY NextTask
<1> QED
  BY <1>1 DEF IInv, TypeOK, Tasks

LEMMA LineAndBulkSteps ==
    ASSUME IInv, processLineItem \/ processBulkItem
    PROVE  IInv'
<1>1. CASE processLineItem
  <2>1. LineThere
    BY <1>1 DEF processLineItem, ItemThere
  <2>2. pos' \in 0..Len(buf)
    BY <1>1, <2>1, CursorAfterLine DEF processLineItem, IInv
  <2> QED
    BY <1>1, <2>2, LeafStep DEF processLineItem
<1>2. CASE processBulkItem
  <2>1. BulkThere
    BY <1>2 DEF processBulkItem, ItemThere
  <2>2. pos' \in 0..Len(buf)
    BY <1>2, <2>1, CursorAfterBulk DEF processBulkItem, IInv
  <2> QED
    BY <1>2, <2>2, LeafStep DEF processBulkItem
<1> QED
  BY <1>1, <1>2

LEMMA MultiBulkStep ==
    ASSUME IInv, processMultiBulkItem
    PROVE  IInv'
<1>1. LineThere
  BY DEF processMultiBulkItem, ItemThere
<1>2. pos' \in 0..Len(buf)
  BY <1>1, CursorAfterLine DEF processMultiBulkItem, IInv
<1>3. CASE moveToNextTask
  BY <1>2, <1>3, LeafStep DEF processMultiBulkItem
<1>4. CASE /\ readLongLong > 0
           /\ ridx' = ridx + 1
           /\ rstack' = [rstack EXCEPT ![ridx].elements = readLongLong,
                                       ![ridx + 1] = FreshTask(0)]
  <2>1. ridx \in 0..Depth /\ ridx + 1 \in 0..Depth
    BY BoundsAssumption DEF processMultiBulkItem, TooDeep, IInv, TypeOK
  <2>2. rstack \in [0..Depth -> Tasks] /\ rstack[ridx].type = "array"
    BY DEF processMultiBulkItem, Cur, IInv, TypeOK, Tasks
  <2>3. readLongLong \in Int
    BY NumberIsInt
  <2> DEFINE n == readLongLong
             top == [rstack[ridx] EXCEPT !.elements = n]
             new == FreshTask(0)
  <2>4. /\ top \in Tasks /\ top.type = "array" /\ top.elements = n /\ top.idx = rstack[ridx].idx
        /\ new \in Tasks /\ new.idx = 0
    BY <2>1, <2>2, <2>3 DEF FreshTask, Tasks
  <2>5. rstack' = [rstack EXCEPT ![ridx] = top, ![ridx + 1] = new]
    BY <1>4, <2>1, <2>2
  <2> HIDE DEF top, new, n
  <2>6. /\ rstack' \in [0..Depth -> Tasks]
        /\ rstack'[ridx] = top /\ rstack'[ridx + 1] = new
        /\ \A i \in 0..Depth : i # ridx /\ i # ridx + 1 => rstack'[i] = rstack[i]
    BY <2>1, <2>2, <2>4, <2>5
  <2>7. ASSUME NEW i \in 1..ridx'
        PROVE  /\ rstack'[i - 1].type = "array"
               /\ 0 <= rstack'[i].idx /\ rstack'[i].idx < rstack'[i - 1].elements
    <3>1. CASE i = ridx + 1
      <4>1. rstack'[i - 1] = top /\ rstack'[i] = new /\ 0 < n
        BY <1>4, <2>1, <2>6, <3>1 DEF n
      <4> QED
        BY <4>1, <2>4
    <3>2. CASE i # ridx + 1
      <4>1. i \in 1..ridx /\ i \in 0..Depth /\ i - 1 \in 0..Depth
        BY <1>4, <2>1, <3>2, BoundsAssumption
      <4>2. rstack'[i - 1] = rstack[i - 1] /\ rstack'[i].idx = rstack[i].idx
        BY <2>1, <2>4, <2>6, <4>1
      <4> QED
        BY <4>1, <4>2 DEF IInv, StackAsserted
    <3> QED
      BY <3>1, <3>2
  <2>8. StackAsserted' /\ ridx' \in -1..Depth
    <3>1. ridx' \in -1..Depth
      BY <1>4, <2>1, BoundsAssumption
    <3> QED
      BY <2>7, <3>1, Zenon DEF StackAsserted
  <2> QED
    BY <1>2, <2>6, <2>8 DEF processMultiBulkItem, IInv, TypeOK, Tasks
<1> QED
  BY <1>3, <1>4 DEF processMultiBulkItem

LEMMA FailSteps ==
    ASSUME IInv, NestedTooDeep \/ CreateFails
    PROVE  IInv'
BY AfterError DEF NestedTooDeep, CreateFails, IInv, TypeOK

LEMMA StepIInv == IInv /\ [Next]_vars => IInv'
<1> SUFFICES ASSUME IInv, [Next]_vars PROVE IInv'
  OBVIOUS
<1>1. CASE (\E m \in Message : Send(m)) \/ Arrive
  BY <1>1, ArrivalSteps
<1>2. CASE GetReply \/ Return
  BY <1>2, CallSteps
<1>3. CASE Item
  BY <1>3, TypeStep, LineAndBulkSteps, MultiBulkStep, FailSteps DEF Item
<1>4. CASE UNCHANGED vars
  BY <1>4 DEF vars, IInv, TypeOK, StackAsserted
<1> QED
  BY <1>1, <1>2, <1>3, <1>4 DEF Next

-----------------------------------------------------------------------------
(* Whatever bytes arrive, in whatever chunks, the cursor of the parser     *)
(* stays in its buffer and its task stack in the array rstack.             *)
THEOREM ReaderTypeCorrect == Spec => []TypeOK
<1>1. IInv => TypeOK
  BY DEF IInv
<1> QED
  BY <1>1, InitIInv, StepIInv, PTL DEF Spec

(* Whatever bytes arrive, the assertions of moveToNextTask hold: no stream *)
(* makes the process abort in them.                                        *)
THEOREM AssertionsHold == Spec => []StackAsserted
<1>1. IInv => StackAsserted
  BY DEF IInv
<1> QED
  BY <1>1, InitIInv, StepIInv, PTL DEF Spec
-----------------------------------------------------------------------------
(* CommandFormat. Numbers: Decimal writes as many digits as countDigits    *)
(* says.                                                                   *)

Writes(f, n) ==
    f = [v \in 0..n |-> IF v < 10 THEN <<v>> ELSE Append(f[v \div 10], v % 10)]

CountsOf(g, n) ==
    g = [v \in 0..n |-> IF NextTurn(v) = 0 THEN UpToFour(v) ELSE 4 + g[NextTurn(v)]]

LEMMA WritesExists ==
    ASSUME NEW n \in Nat
    PROVE  \E f : Writes(f, n)
<1> DEFINE Bad == {m \in Nat : ~\E f : Writes(f, m)}
<1> SUFFICES ASSUME n \in Bad PROVE FALSE
  OBVIOUS
<1>1. PICK m \in Bad : \A j \in Bad : m <= j
  <2>1. Bad \in SUBSET Nat /\ Bad # {}
    OBVIOUS
  <2> HIDE DEF Bad
  <2> QED
    BY LeastMember, <2>1, Zenon
<1>2. \E k : m # 0 => Writes(k, m - 1)
  <2>1. m # 0 => m - 1 \in Nat /\ m - 1 \notin Bad
    BY <1>1
  <2> QED
    BY <2>1
<1>3. PICK k : m # 0 => Writes(k, m - 1)
  BY <1>2
<1> DEFINE g == [v \in 0..m |-> IF v < m THEN k[v]
                                ELSE IF m < 10 THEN <<m>> ELSE Append(k[m \div 10], m % 10)]
<1>4. ASSUME NEW v \in 0..m
      PROVE  g[v] = IF v < 10 THEN <<v>> ELSE Append(g[v \div 10], v % 10)
  <2>1. m \in Nat /\ v \in Nat /\ v \div 10 \in Nat /\ (v >= 10 => v \div 10 < v)
    BY <1>1
  <2>2. v >= 10 => v \div 10 \in 0..m /\ v \div 10 < m
    BY <2>1
  <2>3. CASE v < m
    <3>1. v \in 0..m - 1 /\ m # 0
      BY <2>1, <2>3
    <3>2. k[v] = IF v < 10 THEN <<v>> ELSE Append(k[v \div 10], v % 10)
      BY <1>3, <3>1, Zenon DEF Writes
    <3> QED
      BY <2>1, <2>2, <2>3, <3>2
  <2>4. CASE v = m
    BY <2>1, <2>2, <2>4
  <2> QED
    BY <2>1, <2>3, <2>4
<1>5. Writes(g, m)
  BY <1>4, Zenon DEF Writes
<1> QED
  BY <1>1, <1>5

LEMMA TurnIs ==
    ASSUME NEW v \in Nat
    PROVE  NextTurn(v) \in Nat /\ (NextTurn(v) # 0 => NextTurn(v) < v)
  BY DEF NextTurn

LEMMA CountsExists ==
    ASSUME NEW n \in Nat
    PROVE  \E g : CountsOf(g, n)
<1> DEFINE Bad == {m \in Nat : ~\E g : CountsOf(g, m)}
<1> SUFFICES ASSUME n \in Bad PROVE FALSE
  OBVIOUS
<1>1. PICK m \in Bad : \A j \in Bad : m <= j
  <2>1. Bad \in SUBSET Nat /\ Bad # {}
    OBVIOUS
  <2> HIDE DEF Bad
  <2> QED
    BY LeastMember, <2>1, Zenon
<1>2. \E k : m # 0 => CountsOf(k, m - 1)
  <2>1. m # 0 => m - 1 \in Nat /\ m - 1 \notin Bad
    BY <1>1
  <2> QED
    BY <2>1
<1>3. PICK k : m # 0 => CountsOf(k, m - 1)
  BY <1>2
<1> DEFINE Of(h, v) == IF NextTurn(v) = 0 THEN UpToFour(v) ELSE 4 + h[NextTurn(v)]
           g == [v \in 0..m |-> IF v < m THEN k[v] ELSE Of(k, m)]
<1>4. ASSUME NEW v \in 0..m PROVE g[v] = Of(g, v)
  <2>1. m \in Nat /\ v \in Nat /\ NextTurn(v) \in Nat /\ (NextTurn(v) # 0 => NextTurn(v) < v)
    BY <1>1, TurnIs
  <2>2. NextTurn(v) # 0 => g[NextTurn(v)] = k[NextTurn(v)]
    <3>1. NextTurn(v) # 0 => NextTurn(v) \in 0..m /\ NextTurn(v) < m
      BY <2>1
    <3> QED
      BY <3>1
  <2>3. Of(g, v) = Of(k, v)
    <3>1. CASE NextTurn(v) = 0
      BY <3>1, Zenon
    <3>2. CASE NextTurn(v) # 0
      <4>1. g[NextTurn(v)] = k[NextTurn(v)]
        BY <2>2, <3>2
      <4> HIDE DEF g
      <4> QED
        BY <4>1, Zenon
    <3> QED
      BY <3>1, <3>2
  <2>4. CASE v < m
    <3>1. v \in 0..m - 1 /\ m # 0
      BY <2>1, <2>4
    <3>2. k[v] = Of(k, v)
      BY <1>3, <3>1, Zenon DEF CountsOf
    <3>3. g[v] = k[v]
      BY <2>4
    <3> QED
      BY <2>3, <3>2, <3>3, Zenon
  <2>5. CASE v = m
    <3>1. g[v] = Of(k, v)
      BY <2>1, <2>5
    <3> QED
      BY <2>3, <3>1, Zenon
  <2> QED
    BY <2>1, <2>4, <2>5
<1>5. CountsOf(g, m)
  BY <1>4, Zenon DEF CountsOf
<1> QED
  BY <1>1, <1>5

\* Four digits at once are one digit four times.
LEMMA FourDigits ==
    ASSUME NEW v \in Nat
    PROVE  \E a, b, d \in Nat :
              /\ a = v \div 10 /\ b = a \div 10 /\ d = b \div 10 /\ NextTurn(v) = d \div 10
              /\ a <= v /\ b <= v /\ d <= v
              /\ (v < 10 => UpToFour(v) = 1) /\ (v >= 10 /\ a < 10 => UpToFour(v) = 2)
              /\ (a >= 10 /\ b < 10 => v >= 10 /\ UpToFour(v) = 3)
              /\ (b >= 10 /\ d < 10 => v >= 10 /\ a >= 10 /\ UpToFour(v) = 4)
              /\ (d >= 10 => v >= 10 /\ a >= 10 /\ b >= 10)
              /\ (d >= 10 <=> NextTurn(v) # 0)
<1> DEFINE a == v \div 10
           b == v \div 100
           d == v \div 1000
<1>1. a \in Nat /\ b \in Nat /\ d \in Nat /\ a <= v /\ b <= v /\ d <= v
  OBVIOUS
<1>2. b = a \div 10 /\ d = b \div 10
  OBVIOUS
<1>3. NextTurn(v) = d \div 10
  BY DEF NextTurn
<1>4. /\ (v < 10 => UpToFour(v) = 1) /\ (v >= 10 /\ a < 10 => UpToFour(v) = 2)
      /\ (a >= 10 /\ b < 10 => v >= 10 /\ UpToFour(v) = 3)
      /\ (b >= 10 /\ d < 10 => v >= 10 /\ a >= 10 /\ UpToFour(v) = 4)
  BY DEF UpToFour
<1>5. /\ (d >= 10 => v >= 10 /\ a >= 10 /\ b >= 10)
      /\ (d >= 10 <=> d \div 10 # 0)
  OBVIOUS
<1> HIDE DEF a, b, d
<1>6. a = v \div 10
  BY DEF a
<1> QED
  BY <1>1, <1>2, <1>3, <1>4, <1>5, <1>6

LEMMA DecimalLength ==
    ASSUME NEW n \in Nat
    PROVE  /\ Decimal(n) \in Seq(Nat) /\ countDigits(n) \in Nat
           /\ Len(Decimal(n)) = countDigits(n)
<1>1. PICK f : Writes(f, n) /\ Decimal(n) = f[n]
  <2>1. Writes(CHOOSE f : Writes(f, n), n)
    BY WritesExists, Zenon
  <2>2. Decimal(n) = (CHOOSE f : Writes(f, n))[n]
    BY Zenon DEF Decimal, Writes
  <2> QED
    BY <2>1, <2>2, Zenon
<1>2. PICK g : CountsOf(g, n) /\ countDigits(n) = g[n]
  <2>1. CountsOf(CHOOSE g : CountsOf(g, n), n)
    BY CountsExists, Zenon
  <2>2. countDigits(n) = (CHOOSE g : CountsOf(g, n))[n]
    BY Zenon DEF countDigits, CountsOf
  <2> QED
    BY <2>1, <2>2, Zenon
<1>3. \A v \in 0..n : f[v] = IF v < 10 THEN <<v>> ELSE Append(f[v \div 10], v % 10)
  BY <1>1, Zenon DEF Writes
<1>4. \A v \in 0..n : g[v] = IF NextTurn(v) = 0 THEN UpToFour(v) ELSE 4 + g[NextTurn(v)]
  BY <1>2, Zenon DEF CountsOf
<1>5. ASSUME NEW v \in 0..n, v < 10
      PROVE  f[v] \in Seq(Nat) /\ Len(f[v]) = 1
  <2>1. f[v] = IF v < 10 THEN <<v>> ELSE Append(f[v \div 10], v % 10)
    BY <1>3, Zenon
  <2>2. f[v] = <<v>>
    BY <1>5, <2>1, Zenon
  <2> QED
    BY <2>2
<1>6. ASSUME NEW v \in 0..n, v >= 10, NEW a, a = v \div 10, f[a] \in Seq(Nat)
      PROVE  f[v] \in Seq(Nat) /\ Len(f[v]) = Len(f[a]) + 1
  <2>1. f[v] = IF v < 10 THEN <<v>> ELSE Append(f[v \div 10], v % 10)
    BY <1>3, Zenon
  <2>2. ~(v < 10) /\ v % 10 \in Nat
    BY <1>6
  <2>3. f[v] = Append(f[a], v % 10)
    BY <1>6, <2>1, <2>2, Zenon
  <2> QED
    BY <1>6, <2>2, <2>3
<1> DEFINE Fine(v) == f[v] \in Seq(Nat) /\ g[v] \in Nat /\ Len(f[v]) = g[v]
           Bad == {v \in 0..n : ~Fine(v)}
<1>7. ASSUME Bad # {} PROVE FALSE
  <2>1. PICK v \in Bad : \A j \in Bad : v <= j
    <3>1. Bad \in SUBSET Nat
      OBVIOUS
    <3> HIDE DEF Bad
    <3> QED
      BY LeastMember, <3>1, <1>7, Zenon
  <2>2. v \in 0..n /\ v \in Nat /\ ~Fine(v)
    BY <2>1
  <2>3. PICK a, b, d \in Nat :
              /\ a = v \div 10 /\ b = a \div 10 /\ d = b \div 10 /\ NextTurn(v) = d \div 10
              /\ a <= v /\ b <= v /\ d <= v
              /\ (v < 10 => UpToFour(v) = 1) /\ (v >= 10 /\ a < 10 => UpToFour(v) = 2)
              /\ (a >= 10 /\ b < 10 => v >= 10 /\ UpToFour(v) = 3)
              /\ (b >= 10 /\ d < 10 => v >= 10 /\ a >= 10 /\ UpToFour(v) = 4)
              /\ (d >= 10 => v >= 10 /\ a >= 10 /\ b >= 10)
              /\ (d >= 10 <=> NextTurn(v) # 0)
    BY <2>2, FourDigits
  <2>4. a \in 0..n /\ b \in 0..n /\ d \in 0..n
    BY <2>2, <2>3
  <2>5. g[v] = IF NextTurn(v) = 0 THEN UpToFour(v) ELSE 4 + g[NextTurn(v)]
    BY <1>4, <2>2, Zenon
  <2>6. v < 10 => f[v] \in Seq(Nat) /\ Len(f[v]) = 1
    BY <1>5, <2>2
  <2>7. v >= 10 /\ f[a] \in Seq(Nat) => f[v] \in Seq(Nat) /\ Len(f[v]) = Len(f[a]) + 1
    BY <1>6, <2>2, <2>3
  <2>8. /\ a < 10 => f[a] \in Seq(Nat) /\ Len(f[a]) = 1
        /\ a >= 10 /\ f[b] \in Seq(Nat) => f[a] \in Seq(Nat) /\ Len(f[a]) = Len(f[b]) + 1
    <3>1. a < 10 => f[a] \in Seq(Nat) /\ Len(f[a]) = 1
      BY <1>5, <2>4
    <3>2. a >= 10 /\ f[b] \in Seq(Nat) => f[a] \in Seq(Nat) /\ Len(f[a]) = Len(f[b]) + 1
      BY <1>6, <2>3, <2>4
    <3> QED
      BY <3>1, <3>2
  <2>9. /\ b < 10 => f[b] \in Seq(Nat) /\ Len(f[b]) = 1
        /\ b >= 10 /\ f[d] \in Seq(Nat) => f[b] \in Seq(Nat) /\ Len(f[b]) = Len(f[d]) + 1
    <3>1. b < 10 => f[b] \in Seq(Nat) /\ Len(f[b]) = 1
      BY <1>5, <2>4
    <3>2. b >= 10 /\ f[d] \in Seq(Nat) => f[b] \in Seq(Nat) /\ Len(f[b]) = Len(f[d]) + 1
      BY <1>6, <2>3, <2>4
    <3> QED
      BY <3>1, <3>2
  <2>10. d < 10 => f[d] \in Seq(Nat) /\ Len(f[d]) = 1
    BY <1>5, <2>4
  <2> HIDE DEF Fine, Bad
  <2>13. /\ a \in Nat /\ b \in Nat /\ d \in Nat
         /\ (v < 10 => UpToFour(v) = 1) /\ (v >= 10 /\ a < 10 => UpToFour(v) = 2)
         /\ (a >= 10 /\ b < 10 => v >= 10 /\ UpToFour(v) = 3)
         /\ (b >= 10 /\ d < 10 => v >= 10 /\ a >= 10 /\ UpToFour(v) = 4)
         /\ (d >= 10 => v >= 10 /\ a >= 10 /\ b >= 10)
         /\ (d >= 10 <=> NextTurn(v) # 0)
    BY <2>3
  <2>11. CASE v < 10 \/ a < 10 \/ b < 10 \/ d < 10
    <3>1. NextTurn(v) = 0 /\ g[v] = UpToFour(v)
      <4>1. d < 10
        BY <2>2, <2>11, <2>13
      <4>2. NextTurn(v) = 0
        BY <2>13, <4>1
      <4> QED
        BY <2>5, <4>2, Zenon
    <3>2. CASE v < 10
      BY <2>2, <2>13, <2>6, <3>1, <3>2 DEF Fine
    <3>3. CASE v >= 10 /\ a < 10
      <4>1. f[a] \in Seq(Nat) /\ Len(f[a]) = 1
        BY <2>8, <3>3
      <4>2. f[v] \in Seq(Nat) /\ Len(f[v]) = 2
        BY <2>7, <3>3, <4>1
      <4>3. g[v] = 2
        BY <2>13, <3>1, <3>3
      <4> QED
        BY <2>2, <4>2, <4>3 DEF Fine
    <3>4. CASE v >= 10 /\ a >= 10 /\ b < 10
      <4>1. f[b] \in Seq(Nat) /\ Len(f[b]) = 1
        BY <2>9, <3>4
      <4>2. f[a] \in Seq(Nat) /\ Len(f[a]) = 2
        BY <2>8, <3>4, <4>1
      <4>3. f[v] \in Seq(Nat) /\ Len(f[v]) = 3
        BY <2>7, <3>4, <4>2
      <4>4. g[v] = 3
        BY <2>13, <3>1, <3>4
      <4> QED
        BY <2>2, <4>3, <4>4 DEF Fine
    <3>5. CASE v >= 10 /\ a >= 10 /\ b >= 10 /\ d < 10
      <4>1. f[d] \in Seq(Nat) /\ Len(f[d]) = 1
        BY <2>10, <3>5
      <4>2. f[b] \in Seq(Nat) /\ Len(f[b]) = 2
        BY <2>9, <3>5, <4>1
      <4>3. f[a] \in Seq(Nat) /\ Len(f[a]) = 3
        BY <2>8, <3>5, <4>2
      <4>4. f[v] \in Seq(Nat) /\ Len(f[v]) = 4
        BY <2>7, <3>5, <4>3
      <4>5. g[v] = 4
        BY <2>13, <3>1, <3>5
      <4> QED
        BY <2>2, <4>4, <4>5 DEF Fine
    <3> QED
      BY <2>2, <2>13, <2>11, <3>2, <3>3, <3>4, <3>5
  <2>12. CASE d >= 10
    <3>1. PICK t \in Nat : t = NextTurn(v) /\ t = d \div 10 /\ t # 0 /\ t < v
      BY <2>2, <2>3, <2>12, TurnIs
    <3>2. t \in 0..n /\ Fine(t)
      BY <2>1, <2>2, <3>1 DEF Bad
    <3>3. g[v] = 4 + g[t]
      BY <2>5, <3>1
    <3>4. f[d] \in Seq(Nat) /\ Len(f[d]) = Len(f[t]) + 1
      BY <1>6, <2>4, <2>12, <3>1, <3>2 DEF Fine
    <3> QED
      <4>1. v >= 10 /\ a >= 10 /\ b >= 10
        BY <2>12, <2>13
      <4>2. PICK m \in Nat : m = Len(f[t]) /\ g[t] = m
        BY <3>2 DEF Fine
      <4>3. f[b] \in Seq(Nat) /\ Len(f[b]) = m + 2
        BY <2>9, <3>4, <4>1, <4>2
      <4>4. f[a] \in Seq(Nat) /\ Len(f[a]) = m + 3
        BY <2>8, <4>1, <4>3
      <4>5. f[v] \in Seq(Nat) /\ Len(f[v]) = m + 4
        BY <2>7, <4>1, <4>4
      <4> QED
        BY <2>2, <3>3, <4>2, <4>5 DEF Fine
  <2> QED
    BY <2>13, <2>11, <2>12
<1>8. Fine(n)
  BY <1>7
<1> QED
  BY <1>1, <1>2, <1>8

-----------------------------------------------------------------------------
(* The size of a command.                                                   *)

\* The strings the model writes out itself are named: the provers do not know
\* that a literal is a member of STRING.
Char == STRING \union {"%", "t", "o", "%s", "%b", Blank}
Args == Seq(Char)
Symbol == Char \union Nat \union {"$", "*", "\r", "\n"}
Bulks(list) == [i \in DOMAIN list |-> Bulk(list[i])]
Written(list) == Len(FlattenSeq(Bulks(list)))

LEMMA WiderSeq ==
    ASSUME NEW S, NEW T, NEW s \in Seq(S), S \subseteq T PROVE s \in Seq(T)
  OBVIOUS

LEMMA Joined ==
    ASSUME NEW S, NEW s \in Seq(S), NEW t \in Seq(S)
    PROVE  \E u \in Seq(S) : u = s \o t /\ Len(u) = Len(s) + Len(t)
<1>1. s \o t \in Seq(S) /\ Len(s \o t) = Len(s) + Len(t)
  OBVIOUS
<1> QED
  BY <1>1, Zenon

LEMMA OneSymbol ==
    ASSUME NEW a \in Symbol PROVE <<a>> \in Seq(Symbol) /\ Len(<<a>>) = 1
  OBVIOUS

LEMMA Signs == {"$", "*", "\r", "\n"} \subseteq Symbol
  BY DEF Symbol

LEMMA CRLFIs == CRLF \in Seq(Symbol) /\ Len(CRLF) = 2
<1>1. "\r" \in Symbol /\ "\n" \in Symbol
  BY Signs
<1> DEFINE x == "\r"
           y == "\n"
<1>2. x \in Symbol /\ y \in Symbol
  BY <1>1
<1>3. CRLF = <<x, y>>
  BY DEF CRLF
<1> HIDE DEF x, y
<1> QED
  BY <1>2, <1>3

LEMMA NumberIs ==
    ASSUME NEW n \in Nat
    PROVE  /\ Decimal(n) \in Seq(Symbol) /\ Len(Decimal(n)) = countDigits(n)
           /\ countDigits(n) \in Nat
<1>1. Nat \subseteq Symbol
  BY DEF Symbol
<1> QED
  BY <1>1, DecimalLength, WiderSeq

LEMMA BulkIs ==
    ASSUME NEW a \in Args
    PROVE  Bulk(a) \in Seq(Symbol) /\ Len(Bulk(a)) = bulklen(Len(a)) /\ bulklen(Len(a)) \in Nat
<1>1. a \in Seq(Symbol) /\ Len(a) \in Nat
  <2>1. Char \subseteq Symbol
    BY DEF Symbol
  <2>2. a \in Seq(Char)
    BY DEF Args
  <2>3. a \in Seq(Symbol)
    BY <2>1, <2>2, WiderSeq, Zenon
  <2> QED
    BY <2>3
<1>2. <<"$">> \in Seq(Symbol) /\ Len(<<"$">>) = 1
  <2>1. "$" \in Symbol
    BY Signs
  <2> QED
    BY OneSymbol, <2>1, Zenon
<1>3. PICK d \in Seq(Symbol) : /\ d = Decimal(Len(a)) /\ Len(d) = countDigits(Len(a))
                               /\ countDigits(Len(a)) \in Nat
  BY <1>1, NumberIs
<1>4. PICK x \in Seq(Symbol) : x = <<"$">> \o d /\ Len(x) = 1 + Len(d)
  BY <1>2, Joined
<1>5. PICK y \in Seq(Symbol) : y = x \o CRLF /\ Len(y) = Len(x) + 2
  <2>1. x \in Seq(Symbol) /\ CRLF \in Seq(Symbol)
    BY CRLFIs
  <2>2. \E y \in Seq(Symbol) : y = x \o CRLF /\ Len(y) = Len(x) + Len(CRLF)
    BY <2>1, Joined, Zenon
  <2> QED
    BY <2>2, CRLFIs, Zenon
<1>6. PICK z \in Seq(Symbol) : z = y \o a /\ Len(z) = Len(y) + Len(a)
  BY <1>1, Joined
<1>7. z \o CRLF \in Seq(Symbol) /\ Len(z \o CRLF) = Len(z) + 2
  <2>1. z \in Seq(Symbol) /\ CRLF \in Seq(Symbol)
    BY CRLFIs
  <2>2. \E w \in Seq(Symbol) : w = z \o CRLF /\ Len(w) = Len(z) + Len(CRLF)
    BY <2>1, Joined, Zenon
  <2> QED
    BY <2>2, CRLFIs, Zenon
<1>8. Bulk(a) = z \o CRLF
  BY <1>3, <1>4, <1>5, <1>6 DEF Bulk
<1>9. PICK k \in Nat : k = countDigits(Len(a))
  BY <1>3
<1>10. bulklen(Len(a)) = 1 + k + 2 + Len(a) + 2
  BY <1>9 DEF bulklen
<1>11. Len(d) = k
  BY <1>3, <1>9
<1>12. Len(z \o CRLF) = bulklen(Len(a))
  BY <1>1, <1>4, <1>5, <1>6, <1>7, <1>10, <1>11
<1> QED
  BY <1>1, <1>7, <1>8, <1>9, <1>10, <1>12

LEMMA BulksAre ==
    ASSUME NEW list \in Seq(Args)
    PROVE  /\ Bulks(list) \in Seq(Seq(Symbol)) /\ Len(Bulks(list)) = Len(list)
           /\ \A i \in 1..Len(list) : Bulks(list)[i] = Bulk(list[i])
           /\ FlattenSeq(Bulks(list)) \in Seq(Symbol) /\ Written(list) \in Nat
<1>1. DOMAIN list = 1..Len(list) /\ Len(list) \in Nat /\ \A i \in 1..Len(list) : list[i] \in Args
  OBVIOUS
<1>2. Bulks(list) \in [1..Len(list) -> Seq(Symbol)]
  BY <1>1, BulkIs DEF Bulks
<1>3. Bulks(list) \in Seq(Seq(Symbol)) /\ Len(Bulks(list)) = Len(list)
  BY <1>1, <1>2, ListOf
<1>4. \A i \in 1..Len(list) : Bulks(list)[i] = Bulk(list[i])
  BY <1>1 DEF Bulks
<1>5. FlattenSeq(Bulks(list)) \in Seq(Symbol)
  BY <1>3, FlattenType
<1>6. Written(list) \in Nat
  BY <1>5 DEF Written
<1> QED
  BY <1>3, <1>4, <1>5, <1>6

LEMMA WrittenMore ==
    ASSUME NEW list \in Seq(Args), NEW bs \in Seq(Args), Len(bs) = Len(list) + 1,
           \A i \in 1..Len(list) : bs[i] = list[i]
    PROVE  Written(bs) = Written(list) + bulklen(Len(bs[Len(bs)]))
<1>1. PICK n \in Nat : n = Len(list)
  OBVIOUS
<1>2. /\ Bulks(list) \in Seq(Seq(Symbol)) /\ Len(Bulks(list)) = n
      /\ \A i \in 1..n : Bulks(list)[i] = Bulk(list[i])
      /\ FlattenSeq(Bulks(list)) \in Seq(Symbol)
  BY <1>1, BulksAre
<1>3. /\ Bulks(bs) \in Seq(Seq(Symbol)) /\ Len(Bulks(bs)) = n + 1
      /\ \A i \in 1..n + 1 : Bulks(bs)[i] = Bulk(bs[i])
  BY <1>1, BulksAre
<1>4. \A i \in 1..n : Bulks(bs)[i] = Bulks(list)[i]
  BY <1>1, <1>2, <1>3
<1>5. FlattenSeq(Bulks(bs)) = FlattenSeq(Bulks(list)) \o Bulks(bs)[n + 1]
  <2>1. PICK s \in Seq(Seq(Symbol)) : s = Bulks(list) /\ Len(s) = n
    BY <1>2
  <2>2. PICK t \in Seq(Seq(Symbol)) : t = Bulks(bs) /\ Len(t) = n + 1
    BY <1>3
  <2>3. Alike(t, s, n)
    BY <1>4, <2>1, <2>2 DEF Alike
  <2>4. FlattenSeq(t) = FlattenSeq(s) \o t[n + 1]
    BY <2>1, <2>2, <2>3, FlattenMore
  <2> QED
    BY <2>1, <2>2, <2>4
<1>6. bs[n + 1] \in Args /\ n + 1 \in 1..n + 1
  BY <1>1
<1>7. Bulks(bs)[n + 1] \in Seq(Symbol) /\ Len(Bulks(bs)[n + 1]) = bulklen(Len(bs[n + 1]))
  BY <1>3, <1>6, BulkIs
<1> QED
  BY <1>1, <1>2, <1>5, <1>7 DEF Written

LEMMA WrittenNone == Written(<< >>) = 0
<1>1. << >> \in Seq(Args) /\ Len(<< >>) = 0
  OBVIOUS
<1>2. Len(Bulks(<< >>)) = 0
  BY <1>1, BulksAre
<1> QED
  BY <1>2, FlattenNone DEF Written

\* What the assertion in hiredis.c says.
LEMMA CommandLength ==
    ASSUME NEW list \in Seq(Args)
    PROVE  /\ Len(Command(list)) = 1 + countDigits(Len(list)) + 2 + Written(list)
           /\ countDigits(Len(list)) \in Nat /\ Written(list) \in Nat
<1>1. Len(list) \in Nat
  OBVIOUS
<1>2. <<"*">> \in Seq(Symbol) /\ Len(<<"*">>) = 1
  <2>1. "*" \in Symbol
    BY Signs
  <2> QED
    BY OneSymbol, <2>1, Zenon
<1>3. PICK d \in Seq(Symbol) : /\ d = Decimal(Len(list)) /\ Len(d) = countDigits(Len(list))
                               /\ countDigits(Len(list)) \in Nat
  BY <1>1, NumberIs
<1>4. PICK x \in Seq(Symbol) : x = <<"*">> \o d /\ Len(x) = 1 + Len(d)
  BY <1>2, Joined
<1>5. PICK y \in Seq(Symbol) : y = x \o CRLF /\ Len(y) = Len(x) + 2
  <2>1. x \in Seq(Symbol) /\ CRLF \in Seq(Symbol)
    BY CRLFIs
  <2>2. \E y \in Seq(Symbol) : y = x \o CRLF /\ Len(y) = Len(x) + Len(CRLF)
    BY <2>1, Joined, Zenon
  <2> QED
    BY <2>2, CRLFIs, Zenon
<1>6. PICK b \in Seq(Symbol) : b = FlattenSeq(Bulks(list)) /\ Len(b) = Written(list)
  BY BulksAre DEF Written
<1>7. Command(list) = y \o b
  BY <1>3, <1>4, <1>5, <1>6 DEF Command, Bulks
<1>8. Len(y \o b) = Len(y) + Len(b)
  OBVIOUS
<1> QED
  BY <1>3, <1>4, <1>5, <1>6, <1>7, <1>8

-----------------------------------------------------------------------------
(* Where the scan has come to: the first n elements of a format f have been *)
(* read, tk are the values its specifiers stood for.                        *)

Specifiers(f) == {k \in DOMAIN f : f[k] \in Specifier}
Starts(f) == {i \in DOMAIN f : f[i] # Blank /\ (i > 1 => f[i - 1] = Blank)}
TextIn(f, tk, i) == IF f[i] \in Specifier THEN Meaning(f[i], tk[Count(Specifiers(f), i)])
                    ELSE <<f[i]>>
Part(f, tk, w, i) == IF f[i] # Blank /\ Count(Starts(f), i) = w THEN TextIn(f, tk, i)
                     ELSE << >>
Built(f, tk, w, n) == FlattenSeq([i \in 1..n |-> Part(f, tk, w, i)])

\* The arguments that are complete, the one that is being written, and no more.
Scanned(f, tk, n, list, arg, begun) ==
    /\ list \in Seq(Args) /\ arg \in Args /\ begun \in BOOLEAN
    /\ tk \in Seq(Args) /\ Len(tk) = Count(Specifiers(f), n)
    /\ \A i \in 1..n : TextIn(f, tk, i) \in Args
    /\ begun <=> n > 0 /\ f[n] # Blank
    /\ Count(Starts(f), n) = Len(list) + (IF begun THEN 1 ELSE 0)
    /\ \A w \in 1..Len(list) : Built(f, tk, w, n) = list[w]
    /\ Built(f, tk, Len(list) + 1, n) = arg
    /\ \A w \in Nat : w > Count(Starts(f), n) => Built(f, tk, w, n) = << >>

Sized(list, total, held) == total = Written(list) /\ held = Len(list) + 1

FormatIInv == IF pc = "scan"
        THEN /\ format \in Args /\ c \in 1..Len(format) + 1
             /\ Scanned(format, taken, c - 1, argv, curarg, touched)
             /\ Sized(argv, totlen, live)
        ELSE pc = "done" /\ (live = 0 \/ Lost) /\ (ret > 0 => argv = Expected)

LEMMA InFormat ==
    ASSUME NEW f \in Args
    PROVE  /\ Len(f) \in Nat /\ DOMAIN f = 1..Len(f)
           /\ Specifiers(f) \subseteq Nat \ {0} /\ Starts(f) \subseteq Nat \ {0}
           /\ \A n \in 1..Len(f) : n \in Specifiers(f) <=> f[n] \in Specifier
           /\ \A n \in 1..Len(f) : n \in Starts(f) <=> f[n] # Blank /\ (n > 1 => f[n - 1] = Blank)
  BY DEF Specifiers, Starts, Args

\* The number of values that have been taken after one more element.
LEMMA SpecifiersMore ==
    ASSUME NEW f \in Args, NEW n \in Nat, n < Len(f)
    PROVE  /\ f[n + 1] \in Specifier => Count(Specifiers(f), n + 1) = Count(Specifiers(f), n) + 1
           /\ f[n + 1] \notin Specifier => Count(Specifiers(f), n + 1) = Count(Specifiers(f), n)
           /\ Count(Specifiers(f), n) \in Nat
<1>1. n + 1 \in 1..Len(f)
  BY InFormat
<1>2. Specifiers(f) \subseteq Nat \ {0} /\ (n + 1 \in Specifiers(f) <=> f[n + 1] \in Specifier)
  BY <1>1, InFormat
<1>3. /\ n + 1 \in Specifiers(f) => Count(Specifiers(f), n + 1) = Count(Specifiers(f), n) + 1
      /\ n + 1 \notin Specifiers(f) => Count(Specifiers(f), n + 1) = Count(Specifiers(f), n)
  BY <1>2, UptoMore
<1>4. Count(Specifiers(f), n) \in Nat
  BY <1>2, UptoFinite
<1> QED
  BY <1>2, <1>3, <1>4

\* An argument starts at an element that is no blank and follows none.
LEMMA StartsMore ==
    ASSUME NEW f \in Args, NEW n \in Nat, n < Len(f)
    PROVE  /\ f[n + 1] = Blank => Count(Starts(f), n + 1) = Count(Starts(f), n)
           /\ f[n + 1] # Blank /\ n > 0 /\ f[n] # Blank
                => Count(Starts(f), n + 1) = Count(Starts(f), n)
           /\ f[n + 1] # Blank /\ (n = 0 \/ f[n] = Blank)
                => Count(Starts(f), n + 1) = Count(Starts(f), n) + 1
           /\ Count(Starts(f), n) \in Nat
<1>1. n + 1 \in 1..Len(f) /\ (n + 1) - 1 = n /\ (n + 1 > 1 <=> n > 0)
  BY InFormat
<1>2. /\ Starts(f) \subseteq Nat \ {0}
      /\ n + 1 \in Starts(f) <=> f[n + 1] # Blank /\ (n + 1 > 1 => f[(n + 1) - 1] = Blank)
  BY <1>1, InFormat
<1>3. n + 1 \in Starts(f) <=> f[n + 1] # Blank /\ (n > 0 => f[n] = Blank)
  BY <1>1, <1>2
<1>4. /\ n + 1 \in Starts(f) => Count(Starts(f), n + 1) = Count(Starts(f), n) + 1
      /\ n + 1 \notin Starts(f) => Count(Starts(f), n + 1) = Count(Starts(f), n)
  BY <1>2, UptoMore
<1>5. Count(Starts(f), n) \in Nat
  BY <1>2, UptoFinite
<1> QED
  BY <1>3, <1>4, <1>5

\* What has been built depends on the values up to there only.
LEMMA BuiltMore ==
    ASSUME NEW f, NEW t, NEW u, NEW w, NEW n \in Nat,
           \A i \in 1..n : TextIn(f, t, i) \in Args /\ TextIn(f, u, i) = TextIn(f, t, i),
           TextIn(f, u, n + 1) \in Args
    PROVE  /\ Built(f, t, w, n) \in Args
           /\ Built(f, u, w, n + 1) = Built(f, t, w, n) \o Part(f, u, w, n + 1)
<1> DEFINE s == [i \in 1..n |-> Part(f, t, w, i)]
           r == [i \in 1..n + 1 |-> Part(f, u, w, i)]
<1>1. << >> \in Args
  BY EmptySeq DEF Args
<1>2. s \in [1..n -> Args]
  BY <1>1 DEF Part
<1>3. ASSUME NEW i \in 1..n + 1 PROVE r[i] \in Args
  <2>1. i \in 1..n \/ i = n + 1
    OBVIOUS
  <2>2. TextIn(f, u, i) \in Args
    BY <2>1
  <2> QED
    BY <1>1, <2>2 DEF Part
<1>4. ASSUME NEW i \in 1..n PROVE r[i] = s[i]
  BY DEF Part
<1>5. r[n + 1] = Part(f, u, w, n + 1)
  OBVIOUS
<1>6. r \in [1..n + 1 -> Args]
  BY <1>3
<1>7. Built(f, t, w, n) = FlattenSeq(s) /\ Built(f, u, w, n + 1) = FlattenSeq(r)
  BY DEF Built
<1> HIDE DEF s, r
<1>8. s \in Seq(Args) /\ Len(s) = n /\ r \in Seq(Args) /\ Len(r) = n + 1
  BY <1>2, <1>6, ListOf
<1>9. Alike(r, s, n)
  BY <1>4 DEF Alike
<1>10. s \in Seq(Seq(Char)) /\ r \in Seq(Seq(Char))
  BY <1>8 DEF Args
<1>11. FlattenSeq(r) = FlattenSeq(s) \o r[n + 1] /\ FlattenSeq(s) \in Seq(Char)
  BY <1>8, <1>9, <1>10, FlattenMore, FlattenType
<1> QED
  BY <1>5, <1>7, <1>11 DEF Args

LEMMA BuiltNone ==
    ASSUME NEW f, NEW t, NEW w PROVE Built(f, t, w, 0) = << >>
<1> DEFINE s == [i \in 1..0 |-> Part(f, t, w, i)]
<1>1. s = << >> /\ Len(s) = 0
  OBVIOUS
<1>2. Built(f, t, w, 0) = FlattenSeq(s)
  BY DEF Built
<1> HIDE DEF s
<1> QED
  BY <1>1, <1>2, FlattenNone

-----------------------------------------------------------------------------
(* One more element is read.                                                *)

LEMMA CStringIs ==
    ASSUME NEW v \in Args PROVE CString(v) \in Args
<1> DEFINE S == {i \in DOMAIN v : v[i] = Terminator} \union {Len(v) + 1}
<1>1. v \in Seq(Char) /\ Len(v) \in Nat /\ DOMAIN v = 1..Len(v)
  BY DEF Args
<1>2. S \in SUBSET Nat /\ S # {} /\ \A i \in S : 1 <= i /\ i <= Len(v) + 1
  BY <1>1
<1>3. Min(S) = CHOOSE x \in S : \A y \in S : x <= y
  BY Zenon DEF Min
<1>4. CString(v) = SubSeq(v, 1, Min(S) - 1)
  BY Zenon DEF CString
<1> HIDE DEF S
<1>5. Min(S) \in S
  <2>1. \E x \in S : \A y \in S : x <= y
    BY <1>2, LeastMember, Zenon
  <2> QED
    BY <1>3, <2>1, Zenon
<1>6. Min(S) - 1 \in Nat /\ Min(S) - 1 <= Len(v)
  <2>1. PICK k : k = Min(S) /\ k \in Nat /\ 1 <= k /\ k <= Len(v) + 1
    BY <1>2, <1>5
  <2> QED
    BY <1>1, <2>1
<1>7. SubSeq(v, 1, Min(S) - 1) \in Seq(Char)
  BY <1>1, <1>6
<1> QED
  BY <1>4, <1>7 DEF Args

LEMMA MeaningIs ==
    ASSUME NEW v \in Args, NEW spec \in Specifier \ {"%?"}
    PROVE  Meaning(spec, v) \in Args
<1>1. CASE spec = "%s"
  BY <1>1, CStringIs DEF Meaning
<1>2. CASE spec \in {"%b", "%d"}
  BY <1>2 DEF Meaning
<1>3. CASE spec = "%%"
  <2>1. Meaning(spec, v) = <<"%">>
    BY <1>3 DEF Meaning
  <2>2. "%" \in Char
    BY DEF Char
  <2> QED
    BY <2>1, <2>2 DEF Args
<1>4. CASE spec = "%too long"
  <2> DEFINE t == "t"
             o == "o"
  <2>1. Meaning(spec, v) = <<t, o, o>>
    BY <1>4 DEF Meaning
  <2>2. t \in Char /\ o \in Char
    BY DEF Char
  <2> HIDE DEF t, o
  <2> QED
    BY <2>1, <2>2 DEF Args
<1> QED
  BY <1>1, <1>2, <1>3, <1>4 DEF Specifier

LEMMA BlankIsText == Blank \notin Specifier
  BY DEF Blank, Specifier

\* A value that is taken changes no text that was there.
LEMMA TakenMore ==
    ASSUME NEW f \in Args, NEW n \in Nat, n < Len(f), NEW t \in Seq(Args), NEW v \in Args,
           Len(t) = Count(Specifiers(f), n), f[n + 1] \in Specifier
    PROVE  /\ \A i \in 1..n : TextIn(f, Append(t, v), i) = TextIn(f, t, i)
           /\ TextIn(f, Append(t, v), n + 1) = Meaning(f[n + 1], v)
           /\ Append(t, v) \in Seq(Args) /\ Len(Append(t, v)) = Count(Specifiers(f), n + 1)
<1>1. PICK m \in Nat : m = Len(t) /\ Count(Specifiers(f), n) = m
                       /\ Count(Specifiers(f), n + 1) = m + 1
  BY SpecifiersMore
<1>2. /\ Append(t, v) \in Seq(Args) /\ Len(Append(t, v)) = m + 1
      /\ Append(t, v)[m + 1] = v /\ \A k \in 1..m : Append(t, v)[k] = t[k]
  BY <1>1
<1>3. ASSUME NEW i \in 1..n, f[i] \in Specifier
      PROVE  Count(Specifiers(f), i) \in 1..m
  <2>1. i \in 1..Len(f) /\ i - 1 \in Nat /\ i - 1 < Len(f) /\ (i - 1) + 1 = i /\ i <= n /\ i \in Nat
    BY InFormat
  <2>2. Count(Specifiers(f), (i - 1) + 1) = Count(Specifiers(f), i - 1) + 1
        /\ Count(Specifiers(f), i - 1) \in Nat
    <3>1. f[(i - 1) + 1] \in Specifier
      BY <1>3, <2>1
    <3> QED
      BY <2>1, <3>1, SpecifiersMore
  <2>3. Count(Specifiers(f), i) <= Count(Specifiers(f), n)
    BY <2>1, InFormat, UptoGrows
  <2> QED
    BY <1>1, <2>1, <2>2, <2>3
<1>4. ASSUME NEW i \in 1..n
      PROVE  TextIn(f, Append(t, v), i) = TextIn(f, t, i)
  <2>1. f[i] \in Specifier => Append(t, v)[Count(Specifiers(f), i)] = t[Count(Specifiers(f), i)]
    BY <1>2, <1>3
  <2> QED
    BY <2>1 DEF TextIn
<1>5. TextIn(f, Append(t, v), n + 1) = Meaning(f[n + 1], v)
  <2>1. Append(t, v)[Count(Specifiers(f), n + 1)] = v
    BY <1>1, <1>2
  <2>2. TextIn(f, Append(t, v), n + 1)
          = Meaning(f[n + 1], Append(t, v)[Count(Specifiers(f), n + 1)])
    BY Zenon DEF TextIn
  <2> QED
    BY <2>1, <2>2
<1> QED
  BY <1>1, <1>2, <1>4, <1>5

LEMMA ScannedIs ==
    ASSUME NEW f, NEW t, NEW n, NEW list, NEW arg, NEW begun, Scanned(f, t, n, list, arg, begun)
    PROVE  /\ list \in Seq(Args) /\ arg \in Args /\ begun \in BOOLEAN /\ Len(list) \in Nat
           /\ t \in Seq(Args) /\ Len(t) = Count(Specifiers(f), n)
           /\ \A i \in 1..n : TextIn(f, t, i) \in Args
           /\ (begun <=> n > 0 /\ f[n] # Blank)
           /\ (begun => Count(Starts(f), n) = Len(list) + 1)
           /\ (~begun => Count(Starts(f), n) = Len(list))
           /\ \A w \in 1..Len(list) : Built(f, t, w, n) = list[w]
           /\ Built(f, t, Len(list) + 1, n) = arg
           /\ \A w \in Nat : w > Count(Starts(f), n) => Built(f, t, w, n) = << >>
<1>1. Scanned(f, t, n, list, arg, begun)
  OBVIOUS
<1>2. /\ list \in Seq(Args) /\ arg \in Args /\ begun \in BOOLEAN /\ t \in Seq(Args)
      /\ Count(Starts(f), n) = Len(list) + (IF begun THEN 1 ELSE 0)
  BY <1>1, Zenon DEF Scanned
<1>3. Len(list) \in Nat
  BY <1>2
<1>4. /\ begun => Count(Starts(f), n) = Len(list) + 1
      /\ ~begun => Count(Starts(f), n) = Len(list)
  BY <1>2, <1>3
<1>5. /\ Len(t) = Count(Specifiers(f), n)
      /\ \A i \in 1..n : TextIn(f, t, i) \in Args
      /\ (begun <=> n > 0 /\ f[n] # Blank)
  BY <1>1, Zenon DEF Scanned
<1>6. /\ \A w \in 1..Len(list) : Built(f, t, w, n) = list[w]
      /\ Built(f, t, Len(list) + 1, n) = arg
      /\ \A w \in Nat : w > Count(Starts(f), n) => Built(f, t, w, n) = << >>
  BY <1>1, Zenon DEF Scanned
<1> QED
  BY <1>2, <1>3, <1>4, <1>5, <1>6, Zenon

LEMMA ScannedBlank ==
    ASSUME NEW f \in Args, NEW n \in Nat, n < Len(f), f[n + 1] = Blank,
           NEW t, NEW list, NEW arg, NEW begun, Scanned(f, t, n, list, arg, begun)
    PROVE  /\ begun => Scanned(f, t, n + 1, Append(list, arg), << >>, FALSE)
           /\ ~begun => arg = << >> /\ Scanned(f, t, n + 1, list, << >>, FALSE)
<1>1. /\ list \in Seq(Args) /\ arg \in Args /\ begun \in BOOLEAN /\ Len(list) \in Nat
      /\ t \in Seq(Args) /\ Len(t) = Count(Specifiers(f), n)
      /\ \A i \in 1..n : TextIn(f, t, i) \in Args
      /\ (begun => Count(Starts(f), n) = Len(list) + 1)
      /\ (~begun => Count(Starts(f), n) = Len(list))
  BY ScannedIs
<1>2. /\ \A w \in 1..Len(list) : Built(f, t, w, n) = list[w]
      /\ Built(f, t, Len(list) + 1, n) = arg
      /\ \A w \in Nat : w > Count(Starts(f), n) => Built(f, t, w, n) = << >>
  BY ScannedIs
<1>3. /\ Count(Starts(f), n + 1) = Count(Starts(f), n) /\ Count(Starts(f), n) \in Nat
      /\ Len(t) = Count(Specifiers(f), n + 1)
  BY <1>1, BlankIsText, StartsMore, SpecifiersMore
<1>4. TextIn(f, t, n + 1) \in Args
  <2>1. TextIn(f, t, n + 1) = <<f[n + 1]>>
    BY BlankIsText, Zenon DEF TextIn
  <2>2. n + 1 \in 1..Len(f)
    BY InFormat
  <2>3. f[n + 1] \in Char
    BY <2>2 DEF Args
  <2>4. <<f[n + 1]>> \in Seq(Char)
    BY <2>3
  <2> QED
    BY <2>1, <2>4, Zenon DEF Args
<1>5. \A i \in 1..n + 1 : TextIn(f, t, i) \in Args
  BY <1>1, <1>4
<1>6. ASSUME NEW w PROVE Built(f, t, w, n + 1) = Built(f, t, w, n)
  <2>1. Built(f, t, w, n) \in Args
        /\ Built(f, t, w, n + 1) = Built(f, t, w, n) \o Part(f, t, w, n + 1)
    BY <1>1, <1>4, BuiltMore
  <2>2. Part(f, t, w, n + 1) = << >>
    BY Zenon DEF Part
  <2> QED
    BY <2>1, <2>2, ConcatEmptySeq DEF Args
<1>7. << >> \in Args
  BY EmptySeq DEF Args
<1>8. \A w \in Nat : w > Count(Starts(f), n + 1) => Built(f, t, w, n + 1) = << >>
  BY <1>2, <1>3, <1>6
<1>9. ~(n + 1 > 0 /\ f[n + 1] # Blank)
  OBVIOUS
<1>10. CASE begun
  <2> DEFINE more == Append(list, arg)
  <2>1. /\ more \in Seq(Args) /\ Len(more) = Len(list) + 1 /\ more[Len(list) + 1] = arg
        /\ \A w \in 1..Len(list) : more[w] = list[w]
    BY <1>1
  <2> HIDE DEF more
  <2>2. \A w \in 1..Len(more) : Built(f, t, w, n + 1) = more[w]
    <3>1. \A w \in 1..Len(more) : w \in 1..Len(list) \/ w = Len(list) + 1
      BY <1>1, <2>1
    <3> QED
      BY <1>2, <1>6, <2>1, <3>1
  <2>3. Built(f, t, Len(more) + 1, n + 1) = << >>
    <3>1. Len(more) + 1 \in Nat /\ Len(more) + 1 > Count(Starts(f), n + 1)
      BY <1>1, <1>3, <1>10, <2>1
    <3> QED
      BY <1>8, <3>1
  <2>4. Count(Starts(f), n + 1) = Len(more) + (IF FALSE THEN 1 ELSE 0)
    BY <1>1, <1>3, <1>10, <2>1
  <2>5. Scanned(f, t, n + 1, more, << >>, FALSE)
    BY <1>1, <1>3, <1>5, <1>7, <1>8, <1>9, <2>1, <2>2, <2>3, <2>4, Zenon DEF Scanned
  <2> QED
    BY <1>10, <2>5, Zenon DEF more
<1>11. CASE ~begun
  <2>1. arg = << >>
    <3>1. Len(list) + 1 \in Nat /\ Len(list) + 1 > Count(Starts(f), n)
      BY <1>1, <1>11
    <3> QED
      BY <1>2, <3>1
  <2>2. \A w \in 1..Len(list) : Built(f, t, w, n + 1) = list[w]
    BY <1>2, <1>6
  <2>3. Built(f, t, Len(list) + 1, n + 1) = << >>
    BY <1>2, <1>6, <2>1
  <2>4. Count(Starts(f), n + 1) = Len(list) + (IF FALSE THEN 1 ELSE 0)
    BY <1>1, <1>3, <1>11
  <2>5. Scanned(f, t, n + 1, list, << >>, FALSE)
    BY <1>1, <1>3, <1>5, <1>7, <1>8, <1>9, <2>2, <2>3, <2>4, Zenon DEF Scanned
  <2> QED
    BY <1>11, <2>1, <2>5, Zenon
<1> QED
  BY <1>1, <1>10, <1>11

LEMMA ScannedText ==
    ASSUME NEW f \in Args, NEW n \in Nat, n < Len(f), f[n + 1] # Blank,
           NEW t, NEW list, NEW arg, NEW begun, Scanned(f, t, n, list, arg, begun),
           NEW u \in Seq(Args), Len(u) = Count(Specifiers(f), n + 1),
           \A i \in 1..n : TextIn(f, u, i) = TextIn(f, t, i), TextIn(f, u, n + 1) \in Args
    PROVE  Scanned(f, u, n + 1, list, arg \o TextIn(f, u, n + 1), TRUE)
<1>1. /\ list \in Seq(Args) /\ arg \in Args /\ begun \in BOOLEAN /\ Len(list) \in Nat
      /\ \A i \in 1..n : TextIn(f, t, i) \in Args
      /\ (begun <=> n > 0 /\ f[n] # Blank)
      /\ (begun => Count(Starts(f), n) = Len(list) + 1)
      /\ (~begun => Count(Starts(f), n) = Len(list))
  BY ScannedIs
<1>2. /\ \A w \in 1..Len(list) : Built(f, t, w, n) = list[w]
      /\ Built(f, t, Len(list) + 1, n) = arg
      /\ \A w \in Nat : w > Count(Starts(f), n) => Built(f, t, w, n) = << >>
  BY ScannedIs
<1>3. Count(Starts(f), n + 1) = Len(list) + 1
  <2>1. /\ n > 0 /\ f[n] # Blank => Count(Starts(f), n + 1) = Count(Starts(f), n)
        /\ (n = 0 \/ f[n] = Blank) => Count(Starts(f), n + 1) = Count(Starts(f), n) + 1
    BY StartsMore
  <2> QED
    BY <1>1, <2>1
<1>4. \A i \in 1..n + 1 : TextIn(f, u, i) \in Args
  BY <1>1
<1> DEFINE text == TextIn(f, u, n + 1)
<1>5. ASSUME NEW w
      PROVE  /\ w = Len(list) + 1 => Built(f, u, w, n + 1) = Built(f, t, w, n) \o text
             /\ w # Len(list) + 1 => Built(f, u, w, n + 1) = Built(f, t, w, n)
  <2>1. Built(f, t, w, n) \in Args
        /\ Built(f, u, w, n + 1) = Built(f, t, w, n) \o Part(f, u, w, n + 1)
    BY <1>1, BuiltMore
  <2>2. /\ w = Len(list) + 1 => Part(f, u, w, n + 1) = text
        /\ w # Len(list) + 1 => Part(f, u, w, n + 1) = << >>
    BY <1>3, Zenon DEF Part
  <2>3. Built(f, t, w, n) \o << >> = Built(f, t, w, n)
    BY <2>1, ConcatEmptySeq DEF Args
  <2> QED
    BY <2>1, <2>2, <2>3, Zenon
<1>6. text \in Args /\ arg \o text \in Args
  BY <1>1 DEF Args
<1> HIDE DEF text
<1>7. \A w \in 1..Len(list) : Built(f, u, w, n + 1) = list[w]
  BY <1>1, <1>2, <1>5
<1>8. Built(f, u, Len(list) + 1, n + 1) = arg \o text
  BY <1>2, <1>5
<1>9. \A w \in Nat : w > Count(Starts(f), n + 1) => Built(f, u, w, n + 1) = << >>
  <2>1. \A w \in Nat : w > Len(list) + 1 => w # Len(list) + 1 /\ w > Count(Starts(f), n)
    BY <1>1
  <2> QED
    BY <1>2, <1>3, <1>5, <2>1
<1>10. (n + 1 > 0 /\ f[n + 1] # Blank) /\ Count(Starts(f), n + 1) = Len(list) + (IF TRUE THEN 1 ELSE 0)
  BY <1>3
<1>11. TRUE <=> n + 1 > 0 /\ f[n + 1] # Blank
  BY <1>10
<1>12. Len(u) = Count(Specifiers(f), n + 1) /\ u \in Seq(Args)
  OBVIOUS
<1>13. Scanned(f, u, n + 1, list, arg \o text, TRUE)
  BY <1>1, <1>4, <1>6, <1>7, <1>8, <1>9, <1>10, <1>11, <1>12, Zenon DEF Scanned
<1> QED
  BY <1>13, Zenon DEF text

\* Nothing has been read.
LEMMA ScannedNone ==
    ASSUME NEW f \in Args PROVE Scanned(f, << >>, 0, << >>, << >>, FALSE)
<1>1. << >> \in Args /\ << >> \in Seq(Args) /\ Len(<< >>) = 0
  BY EmptySeq DEF Args
<1>2. Count(Specifiers(f), 0) = 0 /\ Count(Starts(f), 0) = 0
  BY InFormat, UptoNone
<1>3. \A w : Built(f, << >>, w, 0) = << >>
  BY BuiltNone
<1>4. Len(<< >>) = Count(Specifiers(f), 0)
      /\ Count(Starts(f), 0) = Len(<< >>) + (IF FALSE THEN 1 ELSE 0)
  BY <1>1, <1>2
<1>5. /\ \A w \in 1..Len(<< >>) : Built(f, << >>, w, 0) = << >>[w]
      /\ \A i \in 1..0 : TextIn(f, << >>, i) \in Args
      /\ ~(0 > 0 /\ f[0] # Blank) /\ FALSE \in BOOLEAN
  BY <1>1
<1> QED
  BY <1>1, <1>3, <1>4, <1>5, Zenon DEF Scanned

\* Everything has been read.
Whole(f, t) == [w \in 1..Cardinality(Starts(f)) |-> Built(f, t, w, Len(f))]

LEMMA ScannedAll ==
    ASSUME NEW f \in Args, NEW t, NEW list, NEW arg, NEW begun,
           Scanned(f, t, Len(f), list, arg, begun)
    PROVE  /\ begun => Append(list, arg) = Whole(f, t)
           /\ ~begun => list = Whole(f, t)
<1>1. PICK n \in Nat : n = Len(f)
  BY InFormat
<1>2. Scanned(f, t, n, list, arg, begun)
  BY <1>1
<1>3. /\ list \in Seq(Args) /\ arg \in Args /\ Len(list) \in Nat /\ begun \in BOOLEAN
      /\ (begun => Count(Starts(f), n) = Len(list) + 1)
      /\ (~begun => Count(Starts(f), n) = Len(list))
      /\ \A w \in 1..Len(list) : Built(f, t, w, n) = list[w]
      /\ Built(f, t, Len(list) + 1, n) = arg
  BY <1>2, ScannedIs
<1>4. Cardinality(Starts(f)) = Count(Starts(f), n)
  <2>1. \A k : k \in UpTo(Starts(f), n) <=> k \in Starts(f) /\ k \in Nat /\ k # 0 /\ k <= n
    BY InFormat, UptoIs, Zenon
  <2>2. \A k \in Starts(f) : k \in Nat /\ k # 0 /\ k <= n
    BY <1>1, InFormat DEF Starts
  <2>3. UpTo(Starts(f), n) = Starts(f)
    BY <2>1, <2>2, Zenon
  <2> QED
    BY <2>3, Zenon DEF Count
<1>5. Whole(f, t) = [w \in 1..Count(Starts(f), n) |-> Built(f, t, w, n)]
  BY <1>1, <1>4, Zenon DEF Whole
<1>6. CASE begun
  <2>1. /\ Append(list, arg) \in Seq(Args) /\ Len(Append(list, arg)) = Len(list) + 1
        /\ Append(list, arg)[Len(list) + 1] = arg
        /\ \A w \in 1..Len(list) : Append(list, arg)[w] = list[w]
    BY <1>3
  <2> DEFINE more == Append(list, arg)
  <2> HIDE DEF more
  <2>2. more \in Seq(Args) /\ Len(more) = Len(list) + 1
    BY <2>1 DEF more
  <2>3. ASSUME NEW w \in 1..Len(list) + 1 PROVE more[w] = Built(f, t, w, n)
    <3>1. w \in 1..Len(list) \/ w = Len(list) + 1
      BY <1>3
    <3> QED
      BY <1>3, <2>1, <3>1 DEF more
  <2>4. more = [w \in 1..Len(list) + 1 |-> Built(f, t, w, n)]
    BY <2>2, <2>3
  <2> QED
    BY <1>3, <1>5, <1>6, <2>4 DEF more
<1>7. CASE ~begun
  <2>1. list = [w \in 1..Len(list) |-> Built(f, t, w, n)]
    BY <1>3
  <2> QED
    BY <1>3, <1>5, <1>7, <2>1
<1> QED
  BY <1>3, <1>6, <1>7

-----------------------------------------------------------------------------
(* redisFormatCommandArgv: the same, from a format with a specifier and a   *)
(* blank for each argument.                                                 *)

Meanings(list, spec) == [i \in DOMAIN list |-> Meaning(spec, list[i])]
FirstOf(s, t, n) == t \in Seq(Args) /\ Len(t) = n /\ \A k \in 1..n : t[k] = s[k]

LEMMA FirstMore ==
    ASSUME NEW s \in Seq(Args), NEW n \in Nat, n < Len(s), NEW t, FirstOf(s, t, n)
    PROVE  FirstOf(s, Append(t, s[n + 1]), n + 1)
<1>1. t \in Seq(Args) /\ Len(t) = n /\ (\A k \in 1..n : t[k] = s[k]) /\ s[n + 1] \in Args
  BY DEF FirstOf
<1> DEFINE u == Append(t, s[n + 1])
<1>2. u \in Seq(Args) /\ Len(u) = n + 1 /\ u[n + 1] = s[n + 1] /\ \A k \in 1..n : u[k] = t[k]
  BY <1>1
<1> HIDE DEF u
<1>3. \A k \in 1..n + 1 : k \in 1..n \/ k = n + 1
  OBVIOUS
<1>4. \A k \in 1..n + 1 : u[k] = s[k]
  BY <1>1, <1>2, <1>3
<1>5. FirstOf(s, u, n + 1)
  BY <1>2, <1>4, Zenon DEF FirstOf
<1> QED
  BY <1>5, Zenon DEF u

LEMMA FirstAll ==
    ASSUME NEW s \in Seq(Args), NEW t, FirstOf(s, t, Len(s)) PROVE t = s
  BY DEF FirstOf

LEMMA FirstNone ==
    ASSUME NEW s PROVE FirstOf(s, << >>, 0)
  BY EmptySeq DEF FirstOf

LEMMA PairsScanned ==
    ASSUME NEW list \in Seq(Args), NEW spec \in {"%s", "%b"}
    PROVE  /\ Formats(list, spec) \in Args /\ Meanings(list, spec) \in Seq(Args)
           /\ Len(Meanings(list, spec)) = Len(list)
           /\ Meanings(list, spec) = Whole(Formats(list, spec), list)
<1> DEFINE f == Formats(list, spec)
           a == Meanings(list, spec)
           m == Len(list)
<1>1. m \in Nat /\ DOMAIN list = 1..m /\ \A i \in 1..m : list[i] \in Args
  OBVIOUS
<1>2. spec \in Specifier \ {"%?"} /\ spec \in Char /\ Blank \in Char /\ spec # Blank
  BY DEF Specifier, Char, Blank
<1>3. f \in Args /\ Len(f) = 2 * m
  <2>1. 2 * m \in Nat
    BY <1>1
  <2>2. f \in [1..2 * m -> Char]
    BY <1>2 DEF Formats
  <2> HIDE DEF f
  <2> QED
    BY <2>1, <2>2, ListOf DEF Args
<1>4. ASSUME NEW j \in Nat, j < m
      PROVE  f[2 * j + 1] = spec /\ f[2 * j + 2] = Blank
  <2>1. 2 * j + 1 \in 1..2 * m /\ 2 * j + 2 \in 1..2 * m
    BY <1>1, <1>4
  <2>2. (2 * j + 1) % 2 = 1 /\ (2 * j + 2) % 2 # 1
    BY <1>4
  <2> QED
    BY <2>1, <2>2 DEF Formats
<1>5. a \in Seq(Args) /\ Len(a) = m /\ \A i \in 1..m : a[i] = Meaning(spec, list[i])
  <2>1. \A i \in 1..m : Meaning(spec, list[i]) \in Args
    BY <1>1, <1>2, MeaningIs
  <2>2. a \in [1..m -> Args] /\ \A i \in 1..m : a[i] = Meaning(spec, list[i])
    BY <1>1, <2>1 DEF Meanings
  <2> HIDE DEF a
  <2> QED
    BY <1>1, <2>2, ListOf
<1> HIDE DEF f, a
<1> DEFINE P(j) == \E t, l : /\ Scanned(f, t, 2 * j, l, << >>, FALSE)
                             /\ FirstOf(list, t, j) /\ FirstOf(a, l, j)
           Bad == {j \in 0..m : ~P(j)}
<1>6. P(0)
  <2>1. 2 * 0 = 0
    OBVIOUS
  <2> QED
    BY <1>3, <2>1, ScannedNone, FirstNone
<1>7. ASSUME NEW j \in Nat, j < m, P(j) PROVE P(j + 1)
  <2>1. PICK t, l : /\ Scanned(f, t, 2 * j, l, << >>, FALSE)
                    /\ FirstOf(list, t, j) /\ FirstOf(a, l, j)
    BY <1>7
  <2>2. PICK n \in Nat : n = 2 * j /\ n < Len(f) /\ n + 1 < Len(f) /\ 2 * (j + 1) = (n + 1) + 1
    BY <1>1, <1>3, <1>7
  <2>3. f[n + 1] = spec /\ f[(n + 1) + 1] = Blank /\ n + 1 \in Nat
    <3>1. (n + 1) + 1 = 2 * j + 2 /\ n + 1 = 2 * j + 1
      BY <2>2
    <3> QED
      BY <1>4, <1>7, <2>2, <3>1
  <2>4. Scanned(f, t, n, l, << >>, FALSE)
    BY <2>1, <2>2
  <2>5. PICK v \in Args : v = list[j + 1] /\ Meaning(spec, v) = a[j + 1]
    <3>1. j + 1 \in 1..m
      BY <1>1, <1>7
    <3> QED
      BY <1>1, <1>5, <3>1
  <2>6. t \in Seq(Args) /\ Len(t) = Count(Specifiers(f), n)
    BY <2>4, ScannedIs
  <2>7. f[n + 1] \in Specifier /\ f[n + 1] # Blank
    BY <1>2, <2>3
  <2> DEFINE u == Append(t, v)
  <2>8. /\ \A i \in 1..n : TextIn(f, u, i) = TextIn(f, t, i)
        /\ TextIn(f, u, n + 1) = Meaning(f[n + 1], v)
        /\ u \in Seq(Args) /\ Len(u) = Count(Specifiers(f), n + 1)
    BY <1>3, <2>2, <2>6, <2>7, TakenMore
  <2>9. FirstOf(list, u, j + 1)
    BY <1>7, <2>1, <2>5, FirstMore
  <2> HIDE DEF u
  <2>10. PICK x \in Args : x = TextIn(f, u, n + 1) /\ x = a[j + 1]
    BY <1>2, <2>3, <2>5, <2>8, MeaningIs
  <2>11. Scanned(f, u, n + 1, l, << >> \o TextIn(f, u, n + 1), TRUE)
    BY <1>3, <2>2, <2>4, <2>7, <2>8, <2>10, ScannedText
  <2>12. << >> \o TextIn(f, u, n + 1) = x
    BY <2>10, ConcatEmptySeq DEF Args
  <2>13. Scanned(f, u, (n + 1) + 1, Append(l, x), << >>, FALSE)
    <3>1. Scanned(f, u, n + 1, l, x, TRUE)
      BY <2>11, <2>12
    <3> QED
      BY <1>3, <2>2, <2>3, <3>1, ScannedBlank
  <2>14. FirstOf(a, Append(l, x), j + 1)
    BY <1>5, <1>7, <2>1, <2>10, FirstMore
  <2> QED
    BY <2>2, <2>9, <2>13, <2>14
<1>8. ASSUME Bad # {} PROVE FALSE
  <2> HIDE DEF P
  <2>1. PICK j \in Bad : \A k \in Bad : j <= k
    <3>1. Bad \in SUBSET Nat
      BY <1>1
    <3> HIDE DEF Bad
    <3> QED
      BY LeastMember, <3>1, <1>8, Zenon
  <2>2. j \in 0..m /\ ~P(j) /\ j # 0
    BY <1>6, <2>1
  <2>3. j - 1 \in Nat /\ j - 1 < m /\ (j - 1) + 1 = j /\ P(j - 1)
    BY <1>1, <2>1, <2>2
  <2>4. P((j - 1) + 1)
    BY <1>7, <2>3, Zenon
  <2> QED
    BY <2>2, <2>3, <2>4
<1>9. P(m)
  <2> HIDE DEF P
  <2> QED
    BY <1>1, <1>8
<1>10. PICK t, l : /\ Scanned(f, t, 2 * m, l, << >>, FALSE)
                   /\ FirstOf(list, t, m) /\ FirstOf(a, l, m)
  BY <1>9
<1>11. t = list /\ l = a
  BY <1>5, <1>10, FirstAll
<1>12. Scanned(f, list, Len(f), a, << >>, FALSE)
  BY <1>3, <1>10, <1>11
<1>13. a = Whole(f, list)
  BY <1>3, <1>12, ScannedAll
<1>14. f \in Args /\ a \in Seq(Args) /\ Len(a) = Len(list) /\ a = Whole(f, list)
  BY <1>3, <1>5, <1>13
<1> QED
  BY <1>14, Zenon DEF f, a

-----------------------------------------------------------------------------
(* The size, argument by argument.                                          *)

Sums(g, b, base, m) ==
    g = [i \in 0..m |-> IF i = 0 THEN base ELSE g[i - 1] + bulklen(Len(b[i]))]

LEMMA SumsExists ==
    ASSUME NEW b, NEW base, NEW n \in Nat PROVE \E g : Sums(g, b, base, n)
<1> DEFINE Bad == {m \in Nat : ~\E g : Sums(g, b, base, m)}
<1> SUFFICES ASSUME n \in Bad PROVE FALSE
  OBVIOUS
<1>1. PICK m \in Bad : \A j \in Bad : m <= j
  <2>1. Bad \in SUBSET Nat /\ Bad # {}
    OBVIOUS
  <2> HIDE DEF Bad
  <2> QED
    BY LeastMember, <2>1, Zenon
<1>2. \E k : m # 0 => Sums(k, b, base, m - 1)
  <2>1. m # 0 => m - 1 \in Nat /\ m - 1 \notin Bad
    BY <1>1
  <2> QED
    BY <2>1
<1>3. PICK k : m # 0 => Sums(k, b, base, m - 1)
  BY <1>2
<1> DEFINE After(h, i) == IF i = 0 THEN base ELSE h[i - 1] + bulklen(Len(b[i]))
           g == [i \in 0..m |-> IF i < m THEN k[i] ELSE After(k, m)]
<1>4. ASSUME NEW i \in 0..m PROVE g[i] = After(g, i)
  <2>1. m \in Nat /\ i \in Nat
    BY <1>1
  <2>2. i # 0 => g[i - 1] = k[i - 1]
    <3>1. i # 0 => i - 1 \in 0..m /\ i - 1 < m
      BY <2>1
    <3> QED
      BY <3>1
  <2>3. After(g, i) = After(k, i)
    <3>1. CASE i = 0
      BY <3>1, Zenon
    <3>2. CASE i # 0
      <4>1. g[i - 1] = k[i - 1]
        BY <2>2, <3>2
      <4> HIDE DEF g
      <4> QED
        BY <4>1, Zenon
    <3> QED
      BY <3>1, <3>2
  <2>4. CASE i < m
    <3>1. i \in 0..m - 1 /\ m # 0
      BY <2>1, <2>4
    <3>2. k[i] = After(k, i)
      BY <1>3, <3>1, Zenon DEF Sums
    <3>3. g[i] = k[i]
      BY <2>4
    <3> QED
      BY <2>3, <3>2, <3>3, Zenon
  <2>5. CASE i = m
    <3>1. g[i] = After(k, i)
      BY <2>1, <2>5
    <3> QED
      BY <2>3, <3>1, Zenon
  <2> QED
    BY <2>1, <2>4, <2>5
<1>5. Sums(g, b, base, m)
  BY <1>4, Zenon DEF Sums
<1> QED
  BY <1>1, <1>5

LEMMA SumsAre ==
    ASSUME NEW b \in Seq(Args), NEW base \in Nat, NEW g, Sums(g, b, base, Len(b))
    PROVE  g[Len(b)] = base + Written(b)
<1> DEFINE m == Len(b)
           P(j) == \E l : FirstOf(b, l, j) /\ g[j] = base + Written(l)
           Bad == {j \in 0..m : ~P(j)}
<1>1. m \in Nat
  OBVIOUS
<1>2. \A i \in 0..m : g[i] = IF i = 0 THEN base ELSE g[i - 1] + bulklen(Len(b[i]))
  BY Zenon DEF Sums
<1>3. P(0)
  <2>1. 0 \in 0..m
    BY <1>1
  <2>2. g[0] = base
    BY <1>2, <2>1
  <2>3. g[0] = base + Written(<< >>)
    BY <2>2, WrittenNone
  <2> QED
    BY <2>3, FirstNone
<1>4. ASSUME NEW j \in Nat, j < m, P(j) PROVE P(j + 1)
  <2>1. PICK l : FirstOf(b, l, j) /\ g[j] = base + Written(l)
    BY <1>4
  <2>2. j + 1 \in 0..m /\ j + 1 \in 1..m /\ j + 1 # 0 /\ (j + 1) - 1 = j
    BY <1>1, <1>4
  <2>3. g[j + 1] = g[j] + bulklen(Len(b[j + 1]))
    BY <1>2, <2>2
  <2> DEFINE u == Append(l, b[j + 1])
  <2>4. FirstOf(b, u, j + 1)
    BY <1>4, <2>1, FirstMore
  <2>5. l \in Seq(Args) /\ Len(l) = j /\ u \in Seq(Args) /\ Len(u) = j + 1
    BY <2>1, <2>4 DEF FirstOf
  <2>6. u[j + 1] = b[j + 1] /\ \A i \in 1..j : u[i] = l[i]
    BY <2>5
  <2> HIDE DEF u
  <2>7. Written(u) = Written(l) + bulklen(Len(u[Len(u)]))
    BY <2>5, <2>6, WrittenMore
  <2>8. Written(l) \in Nat /\ bulklen(Len(b[j + 1])) \in Nat
    <3>1. b[j + 1] \in Args
      BY <2>2
    <3> QED
      BY <2>5, <3>1, BulksAre, BulkIs
  <2>9. Written(u) = Written(l) + bulklen(Len(b[j + 1]))
    BY <2>5, <2>6, <2>7
  <2>10. g[j + 1] = base + Written(u)
    BY <2>1, <2>3, <2>8, <2>9
  <2> QED
    BY <2>4, <2>10
<1>5. ASSUME Bad # {} PROVE FALSE
  <2> HIDE DEF P
  <2>1. PICK j \in Bad : \A k \in Bad : j <= k
    <3>1. Bad \in SUBSET Nat
      BY <1>1
    <3> HIDE DEF Bad
    <3> QED
      BY LeastMember, <3>1, <1>5, Zenon
  <2>2. j \in 0..m /\ ~P(j) /\ j # 0
    BY <1>3, <2>1
  <2>3. j - 1 \in Nat /\ j - 1 < m /\ (j - 1) + 1 = j /\ P(j - 1)
    BY <1>1, <2>1, <2>2
  <2>4. P((j - 1) + 1)
    BY <1>4, <2>3, Zenon
  <2> QED
    BY <2>2, <2>3, <2>4
<1>6. P(m)
  <2> HIDE DEF P
  <2> QED
    BY <1>1, <1>5
<1>7. PICK l : FirstOf(b, l, m) /\ g[m] = base + Written(l)
  BY <1>6
<1>8. l = b
  BY <1>7, FirstAll
<1> QED
  BY <1>7, <1>8

-----------------------------------------------------------------------------
(* The invariant, action by action.                                         *)

\* Expected, of a format and the values that were taken for it.
ExpectedOf(f, t) ==
    [w \in 1..Cardinality(Starts(f)) |->
       FlattenSeq([i \in DOMAIN f |->
                     IF f[i] # Blank /\ Cardinality({k \in Starts(f) : k <= i}) = w
                     THEN IF f[i] \in Specifier
                          THEN Meaning(f[i], t[Cardinality({k \in 1..i : f[k] \in Specifier})])
                          ELSE <<f[i]>>
                     ELSE << >>])]

LEMMA ExpectedIs ==
    ASSUME NEW f \in Args, NEW t PROVE ExpectedOf(f, t) = Whole(f, t)
<1> DEFINE Held(i) == Cardinality({k \in Starts(f) : k <= i})
           Said(i) == IF f[i] \in Specifier
                      THEN Meaning(f[i], t[Cardinality({k \in 1..i : f[k] \in Specifier})])
                      ELSE <<f[i]>>
           Piece(w, i) == IF f[i] # Blank /\ Held(i) = w THEN Said(i) ELSE << >>
<1>1. \A i : Held(i) = Count(Starts(f), i)
  BY Zenon DEF Count, UpTo
<1>2. DOMAIN f = 1..Len(f) /\ Len(f) \in Nat
  BY InFormat
<1>3. ASSUME NEW i \in DOMAIN f
      PROVE  Said(i) = TextIn(f, t, i)
  <2>1. {k \in 1..i : f[k] \in Specifier} = UpTo(Specifiers(f), i)
    <3>1. \A k : k \in UpTo(Specifiers(f), i)
                 <=> k \in 1..Len(f) /\ f[k] \in Specifier /\ k <= i
      BY <1>2, Zenon DEF UpTo, Specifiers
    <3>2. \A k : k \in 1..Len(f) /\ k <= i <=> k \in 1..i
      BY <1>2
    <3> QED
      BY <3>1, <3>2
  <2> QED
    BY <2>1, Zenon DEF TextIn, Count
<1>4. ASSUME NEW w
      PROVE  Built(f, t, w, Len(f)) = FlattenSeq([i \in DOMAIN f |-> Piece(w, i)])
  <2>1. \A i \in DOMAIN f : Piece(w, i) = Part(f, t, w, i)
    <3> HIDE DEF Held, Said
    <3> QED
      BY <1>1, <1>3, Zenon DEF Part
  <2> HIDE DEF Piece
  <2>2. [i \in DOMAIN f |-> Piece(w, i)] = [i \in 1..Len(f) |-> Part(f, t, w, i)]
    BY <1>2, <2>1, Zenon
  <2> QED
    BY <2>2, Zenon DEF Built
<1>5. ExpectedOf(f, t)
        = [w \in 1..Cardinality(Starts(f)) |-> FlattenSeq([i \in DOMAIN f |-> Piece(w, i)])]
  BY Zenon DEF ExpectedOf
<1> HIDE DEF Piece
<1> QED
  BY <1>4, <1>5, Zenon DEF Whole

LEMMA ValuesAreArgs ==
    ASSUME FormatsRight
    PROVE  (\A f \in Format : f \in Args) /\ (\A v \in Datum : v \in Args)
<1>1. STRING \subseteq Char
  BY DEF Char
<1> QED
  BY <1>1, WiderSeq DEF FormatsRight, Args

LEMMA SizedMore ==
    ASSUME NEW list \in Seq(Args), NEW arg \in Args, NEW total, NEW held, Sized(list, total, held)
    PROVE  Sized(Append(list, arg), total + bulklen(Len(arg)), held + 1)
<1> DEFINE more == Append(list, arg)
<1>1. more \in Seq(Args) /\ Len(more) = Len(list) + 1 /\ more[Len(list) + 1] = arg
      /\ \A i \in 1..Len(list) : more[i] = list[i]
  OBVIOUS
<1> HIDE DEF more
<1>2. Written(more) = Written(list) + bulklen(Len(more[Len(more)]))
  BY <1>1, WrittenMore
<1>3. Written(more) = Written(list) + bulklen(Len(arg))
  BY <1>1, <1>2
<1>4. Sized(more, total + bulklen(Len(arg)), held + 1)
  BY <1>1, <1>3 DEF Sized
<1> QED
  BY <1>4, Zenon DEF more

LEMMA FormatInitInv ==
    ASSUME FormatsRight, FormatInit PROVE FormatIInv
<1>1. format \in Args /\ taken = << >> /\ c = 1 /\ pc = "scan" /\ curarg = << >> /\ touched = FALSE
      /\ argv = << >> /\ totlen = 0 /\ live = 1
  BY ValuesAreArgs DEF FormatInit
<1>2. c \in 1..Len(format) + 1 /\ c - 1 = 0
  BY <1>1, InFormat
<1>3. Scanned(format, taken, c - 1, argv, curarg, touched)
  BY <1>1, <1>2, ScannedNone
<1>4. Sized(argv, totlen, live)
  BY <1>1, WrittenNone, EmptySeq DEF Sized
<1> QED
  BY <1>1, <1>2, <1>3, <1>4 DEF FormatIInv

\* What the invariant says while the format is read.
LEMMA Reading ==
    ASSUME FormatIInv, pc = "scan", c <= Len(format)
    PROVE  \E n \in Nat : /\ c = n + 1 /\ n < Len(format) /\ format \in Args
                          /\ Scanned(format, taken, n, argv, curarg, touched)
                          /\ Sized(argv, totlen, live)
<1>1. /\ format \in Args /\ c \in 1..Len(format) + 1
      /\ Scanned(format, taken, c - 1, argv, curarg, touched)
      /\ Sized(argv, totlen, live)
  BY DEF FormatIInv
<1>2. c - 1 \in Nat /\ c = (c - 1) + 1 /\ c - 1 < Len(format)
  BY <1>1, InFormat
<1> QED
  BY <1>1, <1>2

LEMMA ReadOn ==
    ASSUME NEW n \in Nat, n < Len(format), format \in Args, c = n + 1, c' = c + 1,
           format' = format, pc' = "scan",
           Scanned(format', taken', n + 1, argv', curarg', touched'),
           Sized(argv', totlen', live')
    PROVE  FormatIInv'
<1>1. c' - 1 = n + 1 /\ c' \in 1..Len(format') + 1
  BY InFormat
<1> QED
  BY <1>1 DEF FormatIInv

LEMMA SeparatorInv ==
    ASSUME FormatIInv, Separator PROVE FormatIInv'
<1>1. /\ pc = "scan" /\ c <= Len(format) /\ format[c] = Blank /\ c' = c + 1
      /\ format' = format /\ taken' = taken /\ pc' = pc
  BY DEF Separator, Here
<1>2. PICK n \in Nat : /\ c = n + 1 /\ n < Len(format) /\ format \in Args
                       /\ Scanned(format, taken, n, argv, curarg, touched)
                       /\ Sized(argv, totlen, live)
  BY <1>1, Reading
<1>3. format[n + 1] = Blank
  BY <1>1, <1>2
<1>4. /\ touched => Scanned(format, taken, n + 1, Append(argv, curarg), << >>, FALSE)
      /\ ~touched => curarg = << >> /\ Scanned(format, taken, n + 1, argv, << >>, FALSE)
  <2>1. n < Len(format) /\ format \in Args /\ format[n + 1] = Blank
        /\ Scanned(format, taken, n, argv, curarg, touched)
    BY <1>2, <1>3
  <2> QED
    <3>1. touched \in BOOLEAN
      BY <2>1, ScannedIs
    <3>2. CASE touched = TRUE
      <4>1. Scanned(format, taken, n, argv, curarg, TRUE)
        BY <2>1, <3>2
      <4>2. Scanned(format, taken, n + 1, Append(argv, curarg), << >>, FALSE)
        BY <2>1, <4>1, ScannedBlank
      <4> QED
        BY <3>2, <4>2
    <3>3. CASE touched = FALSE
      <4>1. Scanned(format, taken, n, argv, curarg, FALSE)
        BY <2>1, <3>3
      <4>2. curarg = << >> /\ Scanned(format, taken, n + 1, argv, << >>, FALSE)
        BY <2>1, <4>1, ScannedBlank
      <4> QED
        BY <3>3, <4>2
    <3> QED
      BY <3>1, <3>2, <3>3
<1>5. argv \in Seq(Args) /\ curarg \in Args /\ touched \in BOOLEAN
  BY <1>2, ScannedIs
<1>6. CASE touched
  <2>1. /\ argv' = Append(argv, curarg) /\ totlen' = totlen + bulklen(Len(curarg))
        /\ curarg' = << >> /\ touched' = FALSE /\ live' = live + 1
    BY <1>6 DEF Separator, AddArgument
  <2>2. Sized(argv', totlen', live')
    BY <1>2, <1>5, <2>1, SizedMore
  <2>3. Scanned(format', taken', n + 1, argv', curarg', touched')
    BY <1>1, <1>4, <1>6, <2>1
  <2> QED
    BY <1>1, <1>2, <2>2, <2>3, ReadOn
<1>7. CASE ~touched
  <2>1. argv' = argv /\ totlen' = totlen /\ curarg' = curarg /\ touched' = touched /\ live' = live
    BY <1>7 DEF Separator
  <2>2. Sized(argv', totlen', live')
    BY <1>2, <2>1
  <2>3. touched = FALSE /\ curarg = << >>
    BY <1>4, <1>5, <1>7
  <2>4. Scanned(format', taken', n + 1, argv', curarg', touched')
    BY <1>1, <1>4, <1>7, <2>1, <2>3
  <2> QED
    BY <1>1, <1>2, <2>2, <2>4, ReadOn
<1> QED
  BY <1>6, <1>7

LEMMA LiteralInv ==
    ASSUME FormatIInv, Literal PROVE FormatIInv'
<1>1. /\ pc = "scan" /\ c <= Len(format) /\ format[c] \notin Specifier /\ format[c] # Blank
      /\ curarg' = curarg \o <<format[c]>> /\ touched' = TRUE /\ c' = c + 1
      /\ format' = format /\ taken' = taken /\ pc' = pc
      /\ argv' = argv /\ totlen' = totlen /\ live' = live
  BY DEF Literal, Here, Add, Touch
<1>2. PICK n \in Nat : /\ c = n + 1 /\ n < Len(format) /\ format \in Args
                       /\ Scanned(format, taken, n, argv, curarg, touched)
                       /\ Sized(argv, totlen, live)
  BY <1>1, Reading
<1>3. format[n + 1] # Blank /\ format[n + 1] \notin Specifier
  BY <1>1, <1>2
<1>4. TextIn(format, taken, n + 1) = <<format[n + 1]>>
  BY <1>3, Zenon DEF TextIn
<1>5. TextIn(format, taken, n + 1) \in Args
  <2>1. n + 1 \in 1..Len(format)
    BY <1>2, InFormat
  <2>2. format[n + 1] \in Char
    BY <1>2, <2>1 DEF Args
  <2>3. <<format[n + 1]>> \in Seq(Char)
    BY <2>2
  <2> QED
    BY <1>4, <2>3, Zenon DEF Args
<1>6. taken \in Seq(Args) /\ Len(taken) = Count(Specifiers(format), n + 1)
  BY <1>2, <1>3, ScannedIs, SpecifiersMore
<1>7. Scanned(format, taken, n + 1, argv, curarg \o TextIn(format, taken, n + 1), TRUE)
  BY <1>2, <1>3, <1>5, <1>6, ScannedText
<1>8. Scanned(format', taken', n + 1, argv', curarg', touched')
  BY <1>1, <1>2, <1>4, <1>7
<1>9. Sized(argv', totlen', live')
  BY <1>1, <1>2
<1> QED
  BY <1>1, <1>2, <1>8, <1>9, ReadOn

LEMMA InterpolateInv ==
    ASSUME FormatsRight, FormatIInv, Interpolate PROVE FormatIInv'
<1>1. /\ pc = "scan" /\ c <= Len(format) /\ format[c] \in Specifier \ {"%?"}
      /\ c' = c + 1 /\ format' = format /\ pc' = pc
      /\ argv' = argv /\ totlen' = totlen /\ live' = live
  BY DEF Interpolate, Here
<1>2. PICK v : /\ v \in IF format[c] \in Valued THEN Datum ELSE {<< >>}
               /\ taken' = Append(taken, v)
               /\ curarg' = curarg \o Meaning(format[c], v) /\ touched' = TRUE
  BY Zenon DEF Interpolate, Here, Add, Touch
<1>3. v \in Args
  BY <1>2, ValuesAreArgs, EmptySeq DEF Args
<1>4. PICK n \in Nat : /\ c = n + 1 /\ n < Len(format) /\ format \in Args
                       /\ Scanned(format, taken, n, argv, curarg, touched)
                       /\ Sized(argv, totlen, live)
  BY <1>1, Reading
<1>5. format[n + 1] \in Specifier \ {"%?"} /\ format[n + 1] \in Specifier /\ format[n + 1] # Blank
  BY <1>1, <1>4, BlankIsText
<1>6. taken \in Seq(Args) /\ Len(taken) = Count(Specifiers(format), n)
  BY <1>4, ScannedIs
<1> DEFINE u == Append(taken, v)
<1>7. /\ \A i \in 1..n : TextIn(format, u, i) = TextIn(format, taken, i)
      /\ TextIn(format, u, n + 1) = Meaning(format[n + 1], v)
      /\ u \in Seq(Args) /\ Len(u) = Count(Specifiers(format), n + 1)
  BY <1>3, <1>4, <1>5, <1>6, TakenMore
<1> HIDE DEF u
<1>8. TextIn(format, u, n + 1) \in Args
  BY <1>3, <1>5, <1>7, MeaningIs
<1>9. Scanned(format, u, n + 1, argv, curarg \o TextIn(format, u, n + 1), TRUE)
  BY <1>4, <1>5, <1>7, <1>8, ScannedText
<1>10. taken' = u /\ curarg' = curarg \o TextIn(format, u, n + 1)
  BY <1>2, <1>4, <1>7 DEF u
<1>11. Scanned(format', taken', n + 1, argv', curarg', touched')
  BY <1>1, <1>2, <1>9, <1>10
<1>12. Sized(argv', totlen', live')
  BY <1>1, <1>4
<1> QED
  BY <1>1, <1>4, <1>11, <1>12, ReadOn

\* The arguments and the size when the format has been read to its end.
LEMMA AtEnd ==
    ASSUME FormatIInv, pc = "scan", ~(c <= Len(format))
    PROVE  /\ format \in Args /\ argv \in Seq(Args) /\ curarg \in Args /\ touched \in BOOLEAN
           /\ Sized(argv, totlen, live)
           /\ touched => Append(argv, curarg) = Expected
           /\ ~touched => argv = Expected
<1>1. /\ format \in Args /\ c \in 1..Len(format) + 1
      /\ Scanned(format, taken, c - 1, argv, curarg, touched)
      /\ Sized(argv, totlen, live)
  BY DEF FormatIInv
<1>2. c - 1 = Len(format)
  BY <1>1, InFormat
<1>3. Scanned(format, taken, Len(format), argv, curarg, touched)
  BY <1>1, <1>2
<1>4. argv \in Seq(Args) /\ curarg \in Args /\ touched \in BOOLEAN
  BY <1>3, ScannedIs
<1>5. /\ touched => Append(argv, curarg) = Whole(format, taken)
      /\ ~touched => argv = Whole(format, taken)
  BY <1>1, <1>3, ScannedAll
<1>6. Expected = Whole(format, taken)
  <2>1. Expected = ExpectedOf(format, taken)
    BY Zenon DEF Expected, ExpectedOf, Words, WordOf, TextAt, Starts
  <2> QED
    BY <1>1, <2>1, ExpectedIs
<1> QED
  BY <1>1, <1>4, <1>5, <1>6

\* The assertion holds, and every string is freed.
LEMMA BuildInv ==
    ASSUME FormatIInv, Build PROVE FormatIInv'
<1>1. /\ pc = "scan" /\ ~(c <= Len(format))
      /\ ret' = totlen' + 1 + countDigits(Len(argv')) + 2
      /\ pc' = IF Len(Command(argv')) = ret' THEN "done" ELSE "aborted"
      /\ live' = live - Len(argv) - 1 /\ format' = format /\ taken' = taken
  <2>1. pc = "scan" /\ c > Len(format)
    BY DEF Build
  <2>2. c > Len(format) => ~(c <= Len(format))
    BY DEF FormatIInv, Build
  <2> QED
    BY <2>1, <2>2 DEF Build
<1>2. /\ format \in Args /\ argv \in Seq(Args) /\ curarg \in Args /\ touched \in BOOLEAN
      /\ Sized(argv, totlen, live)
      /\ touched => Append(argv, curarg) = Expected
      /\ ~touched => argv = Expected
  BY <1>1, AtEnd
<1>3. argv' = Expected /\ argv' \in Seq(Args) /\ totlen' = Written(argv')
  <2>1. CASE touched
    <3>1. argv' = Append(argv, curarg) /\ totlen' = totlen + bulklen(Len(curarg))
      BY <2>1 DEF Build, AddArgument
    <3>2. Sized(argv', totlen', live + 1)
      BY <1>2, <3>1, SizedMore
    <3> QED
      BY <1>2, <2>1, <3>1, <3>2 DEF Sized
  <2>2. CASE ~touched
    <3>1. argv' = argv /\ totlen' = totlen
      BY <2>2 DEF Build
    <3> QED
      BY <1>2, <2>2, <3>1 DEF Sized
  <2> QED
    BY <1>2, <2>1, <2>2
<1>4. Len(Command(argv')) = ret'
  BY <1>1, <1>3, CommandLength
<1>5. live' = 0
  BY <1>1, <1>2 DEF Sized
<1>6. argv' = Expected'
  BY <1>1, <1>3 DEF Expected, Words, WordOf, TextAt
<1>7. pc' = "done"
  BY <1>1, <1>4
<1> QED
  BY <1>5, <1>6, <1>7 DEF FormatIInv

LEMMA HeldByScan ==
    ASSUME FormatIInv, pc = "scan" PROVE argv \in Seq(Args) /\ curarg \in Args /\ live = Len(argv) + 1
<1>1. Scanned(format, taken, c - 1, argv, curarg, touched) /\ Sized(argv, totlen, live)
  BY DEF FormatIInv
<1> QED
  BY <1>1, ScannedIs DEF Sized

LEMMA FormatErrorInv ==
    ASSUME FormatIInv, FormatError PROVE FormatIInv'
<1>1. pc = "scan" /\ pc' = "done" /\ ret' = -2 /\ live' = live - (Len(argv) + 1)
  BY DEF FormatError, Fail, Freed
<1>2. live' = 0 /\ ~(ret' > 0)
  BY <1>1, HeldByScan
<1> QED
  BY <1>1, <1>2 DEF FormatIInv

LEMMA MemoryErrorInv ==
    ASSUME FormatIInv, MemoryError PROVE FormatIInv'
<1>1. pc = "scan" /\ argv \in Seq(Args) /\ curarg \in Args /\ live = Len(argv) + 1
  BY HeldByScan DEF MemoryError
<1>2. CASE Fail(-1, 1)
  <2>1. pc' = "done" /\ ret' = -1 /\ live' = live - (Len(argv) + 1)
    BY <1>2 DEF Fail, Freed
  <2>2. live' = 0 /\ ~(ret' > 0)
    BY <1>1, <2>1
  <2> QED
    BY <2>1, <2>2 DEF FormatIInv
<1>3. CASE pc' = "done" /\ ret' = -1 /\ argv' = Append(argv, curarg) /\ live' = live - Len(argv')
  <2>1. Len(argv') = Len(argv) + 1
    BY <1>1, <1>3
  <2>2. live' = 0 /\ ~(ret' > 0)
    BY <1>1, <1>3, <2>1
  <2> QED
    BY <1>3, <2>2 DEF FormatIInv
<1> QED
  BY <1>2, <1>3 DEF MemoryError

LEMMA FormatArgvInv ==
    ASSUME FormatsRight, FormatIInv, NEW list \in BoundedSeq(Datum, MaxArgs),
           NEW spec \in {"%s", "%b"},
           redisFormatCommandArgv(list, spec) \/ redisFormatSdsCommandArgv(list, spec)
    PROVE  FormatIInv'
<1>1. list \in Seq(Args)
  <2>1. PICK n \in 0..MaxArgs : list \in [1..n -> Datum]
    BY Zenon DEF BoundedSeq, SeqOf
  <2>2. list \in [1..n -> Args]
    BY <2>1, ValuesAreArgs
  <2>3. n \in Nat
    BY <2>1 DEF FormatsRight
  <2> QED
    BY <2>2, <2>3, ListOf
<1>2. /\ format' = Formats(list, spec) /\ taken' = list /\ argv' = Meanings(list, spec)
      /\ WriteBuffer \/ Refused(0) \/ (Refused(1) /\ formatter' = "redisFormatSdsCommandArgv")
  BY Zenon DEF redisFormatCommandArgv, redisFormatSdsCommandArgv, Measure, Meanings
<1>3. /\ format' \in Args /\ argv' \in Seq(Args) /\ Len(argv') = Len(list)
      /\ argv' = Whole(format', taken')
  BY <1>1, <1>2, PairsScanned
<1>4. argv' = Expected'
  <2>1. Expected' = ExpectedOf(format', taken')
    BY Zenon DEF Expected, ExpectedOf, Words, WordOf, TextAt, Starts
  <2> QED
    BY <1>3, <2>1, ExpectedIs
<1>5. totlen' = 1 + countDigits(Len(list)) + 2 + Written(argv')
  <2> DEFINE base == 1 + countDigits(Len(list)) + 2
  <2>1. base \in Nat /\ Len(list) \in Nat
    <3>1. PICK n \in Nat : n = Len(list)
      BY <1>1
    <3>2. countDigits(n) \in Nat
      BY NumberIs
    <3> QED
      BY <3>1, <3>2
  <2>2. totlen' = (CHOOSE g : Sums(g, argv', base, Len(list)))[Len(list)]
    BY Zenon DEF redisFormatCommandArgv, redisFormatSdsCommandArgv, Measure, Sums
  <2>3. Sums(CHOOSE g : Sums(g, argv', base, Len(list)), argv', base, Len(list))
    BY <2>1, SumsExists, Zenon
  <2> HIDE DEF base
  <2>4. PICK g : Sums(g, argv', base, Len(argv')) /\ totlen' = g[Len(argv')]
    BY <1>3, <2>2, <2>3
  <2>5. totlen' = base + Written(argv')
    BY <1>3, <2>1, <2>4, SumsAre
  <2> QED
    BY <2>5 DEF base
<1>6. Len(Command(argv')) = totlen'
  BY <1>3, <1>5, CommandLength
<1>7. pc' = "done" /\ (live' = 0 \/ Lost')
  BY <1>2, <1>6 DEF WriteBuffer, Refused, Lost
<1> QED
  BY <1>4, <1>7 DEF FormatIInv

LEMMA FormatNextInv ==
    ASSUME FormatsRight, FormatIInv, [FormatNext]_formatVars PROVE FormatIInv'
<1>1. CASE UNCHANGED formatVars
  <2>1. /\ formatter' = formatter
        /\ format' = format /\ taken' = taken /\ c' = c /\ pc' = pc /\ curarg' = curarg
        /\ touched' = touched /\ argv' = argv /\ totlen' = totlen /\ live' = live /\ ret' = ret
    BY <1>1, Zenon DEF formatVars
  <2> QED
    <3>1. Expected' = Expected
      BY <2>1, Zenon DEF Expected, Words, WordOf, TextAt
    <3> QED
      BY <2>1, <3>1 DEF FormatIInv, Lost
<1>2. CASE Separator \/ Literal \/ Interpolate
  BY <1>2, SeparatorInv, LiteralInv, InterpolateInv
<1>3. CASE Build \/ FormatError \/ MemoryError
  BY <1>3, BuildInv, FormatErrorInv, MemoryErrorInv
<1>4. CASE \E list \in BoundedSeq(Datum, MaxArgs), spec \in {"%s", "%b"} :
             redisFormatCommandArgv(list, spec) \/ redisFormatSdsCommandArgv(list, spec)
  BY <1>4, FormatArgvInv
<1> QED
  BY <1>1, <1>2, <1>3, <1>4 DEF FormatNext

\* redisvFormatCommand, redisFormatCommandArgv and redisFormatSdsCommandArgv give
\* the arguments the format describes, whatever is put in; the buffer has the size
\* of what is written; everything allocated for the arguments is freed, on every
\* path but one: redisFormatSdsCommandArgv, when sdsMakeRoomFor fails, loses the
\* string it started with.
THEOREM FormatCorrect == ASSUME FormatsRight PROVE FormatSpec => []FormatRight
<1>1. FormatInit => FormatIInv
  BY FormatInitInv
<1>2. FormatIInv /\ [FormatNext]_formatVars => FormatIInv'
  BY FormatNextInv
<1>3. FormatIInv => FormatRight
  BY DEF FormatIInv, FormatRight, ArgumentsByFormat, LengthRight, NoLeak
<1> QED
  BY <1>1, <1>2, <1>3, PTL DEF FormatSpec
======================================================================================================================================================
