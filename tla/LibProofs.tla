----------------------------- MODULE LibProofs -----------------------------
(***************************************************************************)
(* The library: memmove and the functions that copy strings leave in       *)
(* memory what they are for, and those that compare, search and convert    *)
(* return it, for every memory and all arguments callers may give them;    *)
(* vsnprintf stays in its buffer, for every format, all arguments and      *)
(* every size, and prints what the format means, if it is not disputed; a polled port loses       *)
(* nothing of a device that is not too slow, however long it waits.        *)
(***************************************************************************)
EXTENDS Lib, SequenceTheorems, WellFoundedInduction, TLAPS

-----------------------------------------------------------------------------
(* memmove *)

\* The arguments, which do not change.
Arguments ==
  /\ dst \in Nat /\ src \in Nat /\ n \in Nat /\ dst + n <= N /\ src + n <= N
  /\ mem0 \in [Address -> Byte] /\ mem \in [Address -> Byte]
  /\ back = Overlaps /\ by \in {1, 4}

\* The bytes moved so far are in place and all others as they were.
MovedTo(from, to) ==
  \A a \in Address : mem[a] = IF a \in from..(to - 1) THEN mem0[src + (a - dst)] ELSE mem0[a]

Progress ==
  /\ left \in 0..n /\ (by = 4 => \E q \in Nat : left = 4 * q)
  /\ IF back THEN d = dst + left /\ s = src + left /\ MovedTo(dst + left, dst + n)
             ELSE d = dst + (n - left) /\ s = src + (n - left) /\ MovedTo(dst, dst + (n - left))
  /\ at \in {"turn", "returned"} /\ (at = "returned" => left = 0)

MoveInv == fn \in Moving => Arguments /\ Progress

\* A multiple of four that is not zero is four at least, and stays one.
LEMMA Fours ==
  ASSUME NEW left_ \in Nat, left_ # 0, NEW by_ \in {1, 4}, by_ = 4 => \E q \in Nat : left_ = 4 * q
  PROVE  by_ <= left_ /\ (by_ = 4 => \E q \in Nat : left_ - by_ = 4 * q)
<1>1. CASE by_ = 1
  BY <1>1
<1>2. CASE by_ = 4
  <2>1. PICK q \in Nat : left_ = 4 * q
    BY <1>2
  <2>2. q - 1 \in Nat /\ left_ - 4 = 4 * (q - 1)
    BY <2>1
  <2> QED
    BY <1>2, <2>1, <2>2
<1> QED
  BY <1>1, <1>2

LEMMA MoveInit == Fits /\ Enter => MoveInv
<1> SUFFICES ASSUME Fits, Enter, fn \in Moving
             PROVE  Arguments /\ Progress
  BY DEF MoveInv
<1> USE CopyAssumption
<1>1. enter_memmove
  BY DEF Enter, enter_memset, enter_str, Moving, OfStrings
<1>2. Arguments
  BY <1>1 DEF Arguments, Fits, Fitting, Moving, Enter, enter_memmove, memmove_width, Address, Overlaps
<1>3. left = n /\ n \in Nat /\ at = "turn" /\ mem = mem0
  BY <1>1 DEF Fits, Fitting, Enter, enter_memmove
<1>4. by = 4 => \E q \in Nat : left = 4 * q
  <2> SUFFICES ASSUME by = 4 PROVE \E q \in Nat : n = 4 * q
    BY <1>3
  <2>1. n % 4 = 0
    BY <1>1 DEF enter_memmove, memmove_width, Aligned4
  <2>2. n \div 4 \in Nat /\ n = 4 * (n \div 4)
    BY <2>1, <1>3
  <2> QED
    BY <2>2
<1>5. CASE back
  <2>1. d = dst + left /\ s = src + left
    BY <1>1, <1>3, <1>5 DEF enter_memmove
  <2>2. MovedTo(dst + left, dst + n)
    BY <1>2, <1>3 DEF MovedTo, Arguments, Address
  <2> QED
    BY <1>2, <1>3, <1>4, <1>5, <2>1, <2>2 DEF Progress
<1>6. CASE ~back
  <2>1. d = dst + (n - left) /\ s = src + (n - left)
    BY <1>1, <1>2, <1>3, <1>6 DEF enter_memmove, Arguments
  <2>2. MovedTo(dst, dst + (n - left))
    BY <1>2, <1>3 DEF MovedTo, Arguments, Address
  <2> QED
    BY <1>2, <1>3, <1>4, <1>6, <2>1, <2>2 DEF Progress
<1> QED
  BY <1>5, <1>6

\* One turn downwards: what it reads lies below all that has been written.
LEMMA DownKeeps ==
  ASSUME MoveInv, fn \in Moving, move_down, left # 0
  PROVE  (Arguments /\ Progress)'
<1> USE CopyAssumption
<1>1. Arguments /\ Progress /\ back /\ Overlaps
  BY DEF MoveInv, move_down, Arguments
<1>2. /\ mem' = Bytes(s - by, d - by, by)
      /\ s' = s - by /\ d' = d - by /\ left' = left - by
      /\ UNCHANGED <<fn, dst, src, n, c, mem0, by, back, at>>
  BY DEF move_down, Goes, call
<1>3. by <= left /\ (by = 4 => \E q \in Nat : left - by = 4 * q)
  <2>1. left \in Nat /\ by \in {1, 4} /\ (by = 4 => \E q \in Nat : left = 4 * q)
    BY <1>1 DEF Arguments, Progress
  <2> QED
    BY <2>1, Fours
<1>4. /\ dst \in Nat /\ src \in Nat /\ n \in Nat /\ dst + n <= N /\ src + n <= N
      /\ mem \in [Address -> Byte] /\ mem0 \in [Address -> Byte] /\ by \in {1, 4} /\ left \in 0..n
      /\ d = dst + left /\ s = src + left /\ MovedTo(dst + left, dst + n) /\ src < dst
  BY <1>1 DEF Arguments, Progress, Overlaps
<1>5. ASSUME NEW a \in Address
      PROVE  /\ mem'[a] = IF a \in (dst + left - by)..(dst + n - 1) THEN mem0[src + (a - dst)]
                                                                ELSE mem0[a]
             /\ mem'[a] \in Byte
  <2>1. mem'[a] = IF a \in (d - by)..(d - by + by - 1) THEN mem[s - by + (a - (d - by))] ELSE mem[a]
    BY <1>2 DEF Bytes
  <2>2. CASE a \in (d - by)..(d - 1)
    <3>1. s - by + (a - (d - by)) = src + (a - dst)
      BY <1>4, <2>2 DEF Address
    <3>2. src + (a - dst) \in Address /\ src + (a - dst) < dst + left
      BY <1>3, <1>4, <2>2, CopyAssumption DEF Address
    <3>3. mem[src + (a - dst)] = mem0[src + (a - dst)]
      BY <1>4, <3>2 DEF MovedTo, Address
    <3>4. mem'[a] = mem0[src + (a - dst)]
      BY <1>4, <2>1, <2>2, <3>1, <3>3
    <3>5. a \in (dst + left - by)..(dst + n - 1)
      BY <1>4, <2>2
    <3> QED
      BY <1>4, <3>2, <3>4, <3>5
  <2>3. CASE a \notin (d - by)..(d - 1)
    <3>1. mem'[a] = mem[a]
      BY <1>4, <2>1, <2>3
    <3>2. mem[a] = IF a \in (dst + left)..(dst + n - 1) THEN mem0[src + (a - dst)] ELSE mem0[a]
      BY <1>4 DEF MovedTo
    <3>3. a \in (dst + left)..(dst + n - 1) <=> a \in (dst + left - by)..(dst + n - 1)
      BY <1>3, <1>4, <2>3 DEF Address
    <3> QED
      BY <1>4, <3>1, <3>2, <3>3
  <2> QED
    BY <2>2, <2>3
<1>6. mem' \in [Address -> Byte]
  BY <1>2, <1>5 DEF Bytes
<1>7. left' \in 0..n' /\ d' = dst' + left' /\ s' = src' + left'
  BY <1>2, <1>3, <1>4
<1>8. MovedTo(dst + left, dst + n)'
  <2>1. \A a \in Address : mem'[a] = IF a \in (dst + left - by)..(dst + n - 1)
                                     THEN mem0[src + (a - dst)] ELSE mem0[a]
    BY <1>5
  <2>2. dst' + left' = dst + left - by
    BY <1>2, <1>3, <1>4
  <2> QED
    BY <1>2, <1>4, <2>1, <2>2 DEF MovedTo
<1>9. Arguments'
  BY <1>1, <1>2, <1>6 DEF Arguments, Overlaps
<1>10. at' \in {"turn", "returned"} /\ (at' = "returned" => left' = 0)
  BY <1>1, <1>2 DEF move_down, Turn
<1>11. by' = 4 => \E q \in Nat : left' = 4 * q
  BY <1>2, <1>3
<1>12. back'
  BY <1>1, <1>2
<1> QED
  BY <1>7, <1>8, <1>9, <1>10, <1>11, <1>12 DEF Progress

\* One turn upwards: what it reads lies above all that has been written, or has
\* nothing to do with it.
LEMMA UpKeeps ==
  ASSUME MoveInv, fn \in Moving, move_up, left # 0
  PROVE  (Arguments /\ Progress)'
<1> USE CopyAssumption
<1>1. Arguments /\ Progress /\ ~back /\ ~Overlaps
  BY DEF MoveInv, move_up, Arguments
<1>2. /\ mem' = Bytes(s, d, by)
      /\ s' = s + by /\ d' = d + by /\ left' = left - by
      /\ UNCHANGED <<fn, dst, src, n, c, mem0, by, back, at>>
  BY DEF move_up, Goes, call
<1>3. by <= left /\ (by = 4 => \E q \in Nat : left - by = 4 * q)
  <2>1. left \in Nat /\ by \in {1, 4} /\ (by = 4 => \E q \in Nat : left = 4 * q)
    BY <1>1 DEF Arguments, Progress
  <2> QED
    BY <2>1, Fours
<1>4. /\ dst \in Nat /\ src \in Nat /\ n \in Nat /\ dst + n <= N /\ src + n <= N
      /\ mem \in [Address -> Byte] /\ mem0 \in [Address -> Byte] /\ by \in {1, 4} /\ left \in 0..n
      /\ d = dst + (n - left) /\ s = src + (n - left) /\ MovedTo(dst, dst + (n - left))
      /\ (src >= dst \/ src + n <= dst)
  BY <1>1 DEF Arguments, Progress, Overlaps
<1>5. ASSUME NEW a \in Address
      PROVE  /\ mem'[a] = IF a \in dst..(dst + (n - left) + by - 1) THEN mem0[src + (a - dst)]
                                                                    ELSE mem0[a]
             /\ mem'[a] \in Byte
  <2>1. mem'[a] = IF a \in d..(d + by - 1) THEN mem[s + (a - d)] ELSE mem[a]
    BY <1>2 DEF Bytes
  <2>2. CASE a \in d..(d + by - 1)
    <3>1. s + (a - d) = src + (a - dst)
      BY <1>4, <2>2 DEF Address
    <3>2. src + (a - dst) \in Address /\ src + (a - dst) \notin dst..(dst + (n - left) - 1)
      BY <1>3, <1>4, <2>2, CopyAssumption DEF Address
    <3>3. mem[src + (a - dst)] = mem0[src + (a - dst)]
      BY <1>4, <3>2 DEF MovedTo, Address
    <3>4. mem'[a] = mem0[src + (a - dst)]
      BY <1>4, <2>1, <2>2, <3>1, <3>3
    <3>5. a \in dst..(dst + (n - left) + by - 1)
      BY <1>4, <2>2
    <3> QED
      BY <1>4, <3>2, <3>4, <3>5
  <2>3. CASE a \notin d..(d + by - 1)
    <3>1. mem'[a] = mem[a]
      BY <1>4, <2>1, <2>3
    <3>2. mem[a] = IF a \in dst..(dst + (n - left) - 1) THEN mem0[src + (a - dst)] ELSE mem0[a]
      BY <1>4 DEF MovedTo
    <3>3. a \in dst..(dst + (n - left) - 1) <=> a \in dst..(dst + (n - left) + by - 1)
      BY <1>3, <1>4, <2>3 DEF Address
    <3> QED
      BY <1>4, <3>1, <3>2, <3>3
  <2> QED
    BY <2>2, <2>3
<1>6. mem' \in [Address -> Byte]
  BY <1>2, <1>5 DEF Bytes
<1>7. left' \in 0..n' /\ d' = dst' + (n' - left') /\ s' = src' + (n' - left')
  BY <1>2, <1>3, <1>4
<1>8. MovedTo(dst, dst + (n - left))'
  <2>1. \A a \in Address : mem'[a] = IF a \in dst..(dst + (n - left) + by - 1)
                                     THEN mem0[src + (a - dst)] ELSE mem0[a]
    BY <1>5
  <2>2. dst' + (n' - left') = dst + (n - left) + by
    BY <1>2, <1>3, <1>4
  <2> QED
    BY <1>2, <1>4, <2>1, <2>2 DEF MovedTo
<1>9. Arguments'
  BY <1>1, <1>2, <1>6 DEF Arguments, Overlaps
<1>10. at' \in {"turn", "returned"} /\ (at' = "returned" => left' = 0)
  BY <1>1, <1>2 DEF move_up, Turn
<1>11. by' = 4 => \E q \in Nat : left' = 4 * q
  BY <1>2, <1>3
<1>12. ~back'
  BY <1>1, <1>2
<1> QED
  BY <1>7, <1>8, <1>9, <1>10, <1>11, <1>12 DEF Progress

LEMMA MoveStep == MoveInv /\ [CopyNext]_copy => MoveInv'
<1> SUFFICES ASSUME MoveInv, [CopyNext]_copy, fn' \in Moving
             PROVE  (Arguments /\ Progress)'
  BY DEF MoveInv
<1>1. fn \in Moving
  BY DEF Moving, CopyNext, move_down, move_up, set, strcpy, strncpy, strlcpy, Ends, Goes, call, copy
<1>2. CASE move_down
  <2>1. CASE left = 0
    BY <1>1, <1>2, <2>1 DEF MoveInv, move_down, Ends, call, Arguments, Progress, MovedTo, Overlaps
  <2> QED
    BY <1>1, <1>2, <2>1, DownKeeps
<1>3. CASE move_up
  <2>1. CASE left = 0
    BY <1>1, <1>3, <2>1 DEF MoveInv, move_up, Ends, call, Arguments, Progress, MovedTo, Overlaps
  <2> QED
    BY <1>1, <1>3, <2>1, UpKeeps
<1>4. CASE set \/ strcpy \/ strncpy \/ strlcpy
  BY <1>1, <1>4 DEF Moving, set, strcpy, strncpy, strlcpy, Turn
<1>5. CASE UNCHANGED copy
  BY <1>1, <1>5 DEF MoveInv, copy, call, Arguments, Progress, MovedTo, Overlaps
<1> QED
  BY <1>2, <1>3, <1>4, <1>5 DEF CopyNext

LEMMA MoveDone == MoveInv => Moved
<1> SUFFICES ASSUME MoveInv, at = "returned", fn \in Moving
             PROVE  mem = [a \in Address |-> IF a \in dst..(dst + n - 1) THEN mem0[src + (a - dst)]
                                                                       ELSE mem0[a]]
  BY DEF Moved
<1>1. Arguments /\ Progress /\ left = 0
  BY DEF MoveInv, Progress
<1>2. mem \in [Address -> Byte] /\ dst \in Nat /\ n \in Nat
  BY <1>1 DEF Arguments
<1>3. MovedTo(dst, dst + n)
  <2>1. dst + 0 = dst /\ n - 0 = n
    BY <1>2
  <2> QED
    BY <1>1, <2>1 DEF Progress
<1> QED
  BY <1>2, <1>3 DEF MovedTo

\* memmove and memcpy: the bytes at dst are those that were at src, and no other byte
\* has changed (module StringCopy, Moved).
THEOREM MovedAlways == CopySpec => []Moved
<1>1. CopySpec => []MoveInv
  BY MoveInit, MoveStep, PTL DEF CopySpec
<1> QED
  BY <1>1, MoveDone, PTL

-----------------------------------------------------------------------------
(* Induction *)

\* A set of natural numbers that is not empty has a least element.
LEMMA Smallest ==
  ASSUME NEW S \in SUBSET Nat, S # {}
  PROVE  \E k \in S : \A m \in S : k <= m
<1> DEFINE Lesser == OpToRel(<, Nat)
<1>1. IsWellFoundedOn(Lesser, Nat)
  BY NatLessThanWellFounded
<1>2. \A m, k \in Nat : m < k => <<m, k>> \in Lesser
  BY DEF OpToRel
<1> HIDE DEF Lesser
<1>3. PICK k \in S : \A m \in S : ~(<<m, k>> \in Lesser)
  BY <1>1, WFMin
<1>4. \A m \in S : ~(m < k)
  BY <1>2, <1>3
<1> QED
  BY <1>4

\* A set that has 0 and, with each number, the next one has them all.
LEMMA Induct ==
  ASSUME NEW S, 0 \in S, \A k \in Nat : k \in S => k + 1 \in S
  PROVE  Nat \subseteq S
<1> SUFFICES ASSUME Nat \ S # {} PROVE FALSE
  OBVIOUS
<1>1. PICK k \in Nat \ S : \A m \in Nat \ S : k <= m
  BY Smallest
<1>2. k # 0 /\ k - 1 \in Nat /\ k - 1 \notin Nat \ S
  BY <1>1
<1>3. (k - 1) + 1 \in S
  BY <1>2
<1> QED
  BY <1>1, <1>3

-----------------------------------------------------------------------------
(* Loops that read memory until they find what ends them *)

\* The next place from x on where a loop stops.
Next_(Stop, x) == CHOOSE k \in Nat : x + k \in Stop /\ \A j \in 0..(k - 1) : x + j \notin Stop

LEMMA NextIs ==
  ASSUME NEW Stop, NEW x \in Nat, NEW k \in Nat, x + k \in Stop, \A j \in 0..(k - 1) : x + j \notin Stop
  PROVE  Next_(Stop, x) = k
<1>1. \A m \in Nat : x + m \in Stop /\ (\A j \in 0..(m - 1) : x + j \notin Stop) => m = k
  <2> SUFFICES ASSUME NEW m \in Nat, x + m \in Stop, \A j \in 0..(m - 1) : x + j \notin Stop PROVE m = k
    OBVIOUS
  <2>1. ~(m < k) /\ ~(k < m)
    OBVIOUS
  <2> QED
    BY <2>1
<1>2. \E m \in Nat : x + m \in Stop /\ \A j \in 0..(m - 1) : x + j \notin Stop
  OBVIOUS
<1> QED
  BY <1>1, <1>2 DEF Next_

LEMMA NextExists ==
  ASSUME NEW Stop, NEW x \in Nat, NEW m \in Nat, x + m \in Stop
  PROVE  LET k == Next_(Stop, x) IN k \in Nat /\ x + k \in Stop /\ \A j \in 0..(k - 1) : x + j \notin Stop
<1> DEFINE S == {k \in Nat : x + k \in Stop}
<1>1. PICK k \in S : \A j \in S : k <= j
  <2>1. S \in SUBSET Nat /\ S # {}
    OBVIOUS
  <2> HIDE DEF S
  <2> QED
    BY <2>1, Smallest
<1>2. k \in Nat /\ x + k \in Stop /\ \A j \in 0..(k - 1) : x + j \notin Stop
  BY <1>1
<1> QED
  BY <1>2, NextIs

\* A loop that goes on by one until it stops
IsLoop(f, Stop, V) == f = [i \in Nat |-> IF i \in Stop THEN V[i] ELSE f[i + 1]]

\* has a value,
LEMMA LoopIs ==
  ASSUME NEW Stop, NEW V, NEW f, f = [x \in Nat |-> IF x \in Stop THEN V[x] ELSE f[x + 1]],
         NEW a \in Nat, NEW k \in Nat, a + k \in Stop, \A j \in 0..(k - 1) : a + j \notin Stop
  PROVE  f[a] = V[a + k]
<1> DEFINE S == {j \in Nat : j <= k => f[a + (k - j)] = V[a + k]}
<1>1. 0 \in S
  OBVIOUS
<1>2. ASSUME NEW j \in Nat, j \in S PROVE j + 1 \in S
  <2> SUFFICES ASSUME j + 1 <= k PROVE f[a + (k - (j + 1))] = V[a + k]
    OBVIOUS
  <2> DEFINE b_ == a + (k - (j + 1))
  <2>1. b_ \in Nat /\ b_ + 1 = a + (k - j) /\ k - (j + 1) \in 0..(k - 1) /\ f[a + (k - j)] = V[a + k]
    BY <1>2
  <2>2. b_ \notin Stop
    BY <2>1
  <2>3. f[b_] = f[b_ + 1]
    <3> HIDE DEF b_
    <3> QED
      BY <2>1, <2>2
  <2> QED
    BY <2>1, <2>3
<1>3. k \in S
  <2> HIDE DEF S
  <2> QED
    BY <1>1, <1>2, Induct
<1> QED
  BY <1>3

\* and there is one.
LEMMA LoopExists ==
  ASSUME NEW Stop, NEW V
  PROVE  \E f : IsLoop(f, Stop, V)
<1> DEFINE f == [x \in Nat |-> IF \E m \in Nat : x + m \in Stop THEN V[x + Next_(Stop, x)] ELSE 0]
<1> SUFFICES ASSUME NEW x \in Nat PROVE f[x] = IF x \in Stop THEN V[x] ELSE f[x + 1]
  <2>1. \A x \in Nat : f[x] = IF x \in Stop THEN V[x] ELSE f[x + 1]
    OBVIOUS
  <2>2. f = [x \in Nat |-> f[x]]
    OBVIOUS
  <2>3. f = [x \in Nat |-> IF x \in Stop THEN V[x] ELSE f[x + 1]]
    <3> HIDE DEF f
    <3> QED
      BY <2>1, <2>2
  <2> HIDE DEF f
  <2> QED
    BY <2>3 DEF IsLoop
<1>1. CASE x \in Stop
  <2>1. x + 0 \in Stop /\ x + 0 = x /\ \A j \in 0..(0 - 1) : x + j \notin Stop
    BY <1>1
  <2>2. Next_(Stop, x) = 0
    BY <2>1, NextIs
  <2> QED
    BY <1>1, <2>1, <2>2
<1>2. CASE x \notin Stop
  <2>1. CASE \E m \in Nat : x + m \in Stop
    <3> DEFINE k == Next_(Stop, x)
    <3>1. k \in Nat /\ x + k \in Stop /\ \A j \in 0..(k - 1) : x + j \notin Stop
      BY <2>1, NextExists
    <3> HIDE DEF k
    <3>2. k # 0 /\ k - 1 \in Nat /\ (x + 1) + (k - 1) = x + k
      BY <1>2, <3>1
    <3>3. \A j \in 0..((k - 1) - 1) : (x + 1) + j \notin Stop
      <4> SUFFICES ASSUME NEW j \in 0..((k - 1) - 1) PROVE (x + 1) + j \notin Stop
        OBVIOUS
      <4>1. j + 1 \in 0..(k - 1) /\ x + (j + 1) = (x + 1) + j
        BY <3>1
      <4> QED
        BY <3>1, <4>1
    <3>4. Next_(Stop, x + 1) = k - 1
      <4>1. x + 1 \in Nat /\ k - 1 \in Nat /\ (x + 1) + (k - 1) \in Stop
        BY <3>1, <3>2
      <4> QED
        BY <3>3, <4>1, NextIs
    <3>5. f[x] = V[x + k]
      BY <2>1 DEF k
    <3>6. f[x + 1] = V[(x + 1) + (k - 1)]
      <4>1. x + 1 \in Nat /\ \E m \in Nat : (x + 1) + m \in Stop
        BY <3>1, <3>2
      <4> QED
        BY <3>4, <4>1
    <3> HIDE DEF f
    <3> QED
      BY <1>2, <3>2, <3>5, <3>6
  <2>2. CASE ~\E m \in Nat : x + m \in Stop
    <3>1. ~\E m \in Nat : (x + 1) + m \in Stop
      <4> SUFFICES ASSUME NEW m \in Nat, (x + 1) + m \in Stop PROVE FALSE
        OBVIOUS
      <4>1. m + 1 \in Nat /\ x + (m + 1) = (x + 1) + m
        OBVIOUS
      <4> QED
        BY <2>2, <4>1
    <3>2. f[x] = 0 /\ f[x + 1] = 0
      BY <2>2, <3>1
    <3> HIDE DEF f
    <3> QED
      BY <1>2, <3>2
  <2> QED
    BY <2>1, <2>2
<1> QED
  BY <1>1, <1>2

\* The first place where a loop stops that begins at 0. Its value is that of this place.
Stops(Stop, k) == k \in Nat /\ k \in Stop /\ \A j \in 0..(k - 1) : j \notin Stop

LEMMA StopsSomewhere ==
  ASSUME NEW Stop \in SUBSET Nat, NEW z \in Stop
  PROVE  \E k \in 0..z : Stops(Stop, k)
<1>1. PICK k \in Stop : \A j \in Stop : k <= j
  BY Smallest
<1> QED
  BY <1>1 DEF Stops

LEMMA Scans ==
  ASSUME NEW Stop, NEW V, NEW f, IsLoop(f, Stop, V), NEW k, Stops(Stop, k)
  PROVE  f[0] = V[k]
<1>1. k \in Nat /\ k \in Stop /\ \A j \in 0..(k - 1) : j \notin Stop
  BY DEF Stops
<1>2. 0 \in Nat /\ 0 + k = k /\ \A j \in 0..(k - 1) : 0 + j = j
  BY <1>1
<1>3. 0 + k \in Stop /\ \A j \in 0..(k - 1) : 0 + j \notin Stop
  BY <1>1, <1>2
<1>4. f[0] = V[0 + k]
  BY <1>1, <1>2, <1>3, LoopIs DEF IsLoop
<1> QED
  BY <1>2, <1>4

-----------------------------------------------------------------------------
(* The functions that only read memory *)

\* strlen counts the characters before the NUL, strnlen no further than it may.
AtNul(m, a) == {i \in Nat : m[a + i] = 0}

LEMMA StrlenIs ==
  ASSUME NEW m, NEW a, NEW k, Stops(AtNul(m, a), k)
  PROVE  strlen(m, a) = k
<1> DEFINE V == [i \in Nat |-> i]
           loop == CHOOSE g : g = [i \in Nat |-> IF m[a + i] = 0 THEN i ELSE g[i + 1]]
<1>1. \A g : g = [i \in Nat |-> IF m[a + i] = 0 THEN i ELSE g[i + 1]]
              <=> IsLoop(g, AtNul(m, a), V)
  BY DEF IsLoop, AtNul
<1>2. IsLoop(loop, AtNul(m, a), V)
  <2>1. \E g : IsLoop(g, AtNul(m, a), V)
    <3> HIDE DEF V, loop
    <3> QED
      BY LoopExists
  <2>2. loop = [i \in Nat |-> IF m[a + i] = 0 THEN i ELSE loop[i + 1]]
    BY <1>1, <2>1, Zenon
  <2> HIDE DEF loop
  <2> QED
    BY <1>1, <2>2, Zenon
<1>3. strlen(m, a) = loop[0]
  BY DEF strlen
<1>4. loop[0] = V[k]
  <2> HIDE DEF loop, V
  <2> QED
    BY <1>2, Scans
<1> HIDE DEF loop
<1> QED
  BY <1>3, <1>4 DEF Stops

AtNulOr(m, a, z) == {i \in Nat : i = z \/ m[a + i] = 0}

LEMMA StrnlenIs ==
  ASSUME NEW m, NEW a, NEW z, NEW k, Stops(AtNulOr(m, a, z), k)
  PROVE  strnlen(m, a, z) = k
<1> DEFINE V == [i \in Nat |-> i]
           loop == CHOOSE g : g = [i \in Nat |-> IF i = z \/ m[a + i] = 0 THEN i ELSE g[i + 1]]
<1>1. \A g : g = [i \in Nat |-> IF i = z \/ m[a + i] = 0 THEN i ELSE g[i + 1]]
              <=> IsLoop(g, AtNulOr(m, a, z), V)
  BY DEF IsLoop, AtNulOr
<1>2. IsLoop(loop, AtNulOr(m, a, z), V)
  <2>1. \E g : IsLoop(g, AtNulOr(m, a, z), V)
    <3> HIDE DEF V, loop
    <3> QED
      BY LoopExists
  <2>2. loop = [i \in Nat |-> IF i = z \/ m[a + i] = 0 THEN i ELSE loop[i + 1]]
    BY <1>1, <2>1, Zenon
  <2> HIDE DEF loop
  <2> QED
    BY <1>1, <2>2, Zenon
<1>3. strnlen(m, a, z) = loop[0]
  BY DEF strnlen
<1>4. loop[0] = V[k]
  <2> HIDE DEF loop, V
  <2> QED
    BY <1>2, Scans
<1> HIDE DEF loop
<1> QED
  BY <1>3, <1>4 DEF Stops

\* strcmp, strncmp and memcmp stop where the two differ, or one ends.
AtDifference(m, p, q) == {i \in Nat : m[p + i] = 0 \/ m[p + i] # m[q + i]}

LEMMA StrcmpIs ==
  ASSUME NEW m, NEW p, NEW q, NEW k, Stops(AtDifference(m, p, q), k)
  PROVE  strcmp(m, p, q) = m[p + k] - m[q + k]
<1> DEFINE V == [i \in Nat |-> m[p + i] - m[q + i]]
           loop == CHOOSE g : g = [i \in Nat |-> IF m[p + i] = 0 \/ m[p + i] # m[q + i] THEN m[p + i] - m[q + i] ELSE g[i + 1]]
<1>1. \A g : g = [i \in Nat |-> IF m[p + i] = 0 \/ m[p + i] # m[q + i] THEN m[p + i] - m[q + i] ELSE g[i + 1]]
              <=> IsLoop(g, AtDifference(m, p, q), V)
  BY DEF IsLoop, AtDifference
<1>2. IsLoop(loop, AtDifference(m, p, q), V)
  <2>1. \E g : IsLoop(g, AtDifference(m, p, q), V)
    <3> HIDE DEF V, loop
    <3> QED
      BY LoopExists
  <2>2. loop = [i \in Nat |-> IF m[p + i] = 0 \/ m[p + i] # m[q + i] THEN m[p + i] - m[q + i] ELSE loop[i + 1]]
    BY <1>1, <2>1, Zenon
  <2> HIDE DEF loop
  <2> QED
    BY <1>1, <2>2, Zenon
<1>3. strcmp(m, p, q) = loop[0]
  BY DEF strcmp
<1>4. loop[0] = V[k]
  <2> HIDE DEF loop, V
  <2> QED
    BY <1>2, Scans
<1> HIDE DEF loop
<1> QED
  BY <1>3, <1>4 DEF Stops

AtDifferenceOr(m, p, q, z) == {i \in Nat : i = z \/ m[p + i] = 0 \/ m[p + i] # m[q + i]}

LEMMA StrncmpIs ==
  ASSUME NEW m, NEW p, NEW q, NEW z, NEW k, Stops(AtDifferenceOr(m, p, q, z), k)
  PROVE  strncmp(m, p, q, z) = IF k = z THEN 0 ELSE m[p + k] - m[q + k]
<1> DEFINE V == [i \in Nat |-> IF i = z THEN 0 ELSE m[p + i] - m[q + i]]
           loop == CHOOSE g : g = [i \in Nat |-> IF i = z \/ m[p + i] = 0 \/ m[p + i] # m[q + i] THEN IF i = z THEN 0 ELSE m[p + i] - m[q + i] ELSE g[i + 1]]
<1>1. \A g : g = [i \in Nat |-> IF i = z \/ m[p + i] = 0 \/ m[p + i] # m[q + i] THEN IF i = z THEN 0 ELSE m[p + i] - m[q + i] ELSE g[i + 1]]
              <=> IsLoop(g, AtDifferenceOr(m, p, q, z), V)
  BY DEF IsLoop, AtDifferenceOr
<1>2. IsLoop(loop, AtDifferenceOr(m, p, q, z), V)
  <2>1. \E g : IsLoop(g, AtDifferenceOr(m, p, q, z), V)
    <3> HIDE DEF V, loop
    <3> QED
      BY LoopExists
  <2>2. loop = [i \in Nat |-> IF i = z \/ m[p + i] = 0 \/ m[p + i] # m[q + i] THEN IF i = z THEN 0 ELSE m[p + i] - m[q + i] ELSE loop[i + 1]]
    BY <1>1, <2>1, Zenon
  <2> HIDE DEF loop
  <2> QED
    BY <1>1, <2>2, Zenon
<1>3. strncmp(m, p, q, z) = loop[0]
  BY DEF strncmp
<1>4. loop[0] = V[k]
  <2> HIDE DEF loop, V
  <2> QED
    BY <1>2, Scans
<1> HIDE DEF loop
<1> QED
  BY <1>3, <1>4 DEF Stops

AtByte(m, p, q, z) == {i \in Nat : i = z \/ m[p + i] # m[q + i]}

LEMMA MemcmpIs ==
  ASSUME NEW m, NEW p, NEW q, NEW z, NEW k, Stops(AtByte(m, p, q, z), k)
  PROVE  memcmp(m, p, q, z) = IF k = z THEN 0 ELSE m[p + k] - m[q + k]
<1> DEFINE V == [i \in Nat |-> IF i = z THEN 0 ELSE m[p + i] - m[q + i]]
           loop == CHOOSE g : g = [i \in Nat |-> IF i = z \/ m[p + i] # m[q + i] THEN IF i = z THEN 0 ELSE m[p + i] - m[q + i] ELSE g[i + 1]]
<1>1. \A g : g = [i \in Nat |-> IF i = z \/ m[p + i] # m[q + i] THEN IF i = z THEN 0 ELSE m[p + i] - m[q + i] ELSE g[i + 1]]
              <=> IsLoop(g, AtByte(m, p, q, z), V)
  BY DEF IsLoop, AtByte
<1>2. IsLoop(loop, AtByte(m, p, q, z), V)
  <2>1. \E g : IsLoop(g, AtByte(m, p, q, z), V)
    <3> HIDE DEF V, loop
    <3> QED
      BY LoopExists
  <2>2. loop = [i \in Nat |-> IF i = z \/ m[p + i] # m[q + i] THEN IF i = z THEN 0 ELSE m[p + i] - m[q + i] ELSE loop[i + 1]]
    BY <1>1, <2>1, Zenon
  <2> HIDE DEF loop
  <2> QED
    BY <1>1, <2>2, Zenon
<1>3. memcmp(m, p, q, z) = loop[0]
  BY DEF memcmp
<1>4. loop[0] = V[k]
  <2> HIDE DEF loop, V
  <2> QED
    BY <1>2, Scans
<1> HIDE DEF loop
<1> QED
  BY <1>3, <1>4 DEF Stops

\* strchr, strfind and memfind stop at the character, or where there is no more to search.
AtChar(m, a, char_) == {i \in Nat : m[a + i] \in {0, char_}}

LEMMA StrchrIs ==
  ASSUME NEW m, NEW a, NEW char_, NEW k, Stops(AtChar(m, a, char_), k)
  PROVE  strchr(m, a, char_) = IF m[a + k] = 0 THEN NULL ELSE a + k
<1> DEFINE V == [i \in Nat |-> IF m[a + i] = 0 THEN NULL ELSE a + i]
           loop == CHOOSE g : g = [i \in Nat |-> IF m[a + i] \in {0, char_} THEN IF m[a + i] = 0 THEN NULL ELSE a + i ELSE g[i + 1]]
<1>1. \A g : g = [i \in Nat |-> IF m[a + i] \in {0, char_} THEN IF m[a + i] = 0 THEN NULL ELSE a + i ELSE g[i + 1]]
              <=> IsLoop(g, AtChar(m, a, char_), V)
  BY DEF IsLoop, AtChar
<1>2. IsLoop(loop, AtChar(m, a, char_), V)
  <2>1. \E g : IsLoop(g, AtChar(m, a, char_), V)
    <3> HIDE DEF V, loop
    <3> QED
      BY LoopExists
  <2>2. loop = [i \in Nat |-> IF m[a + i] \in {0, char_} THEN IF m[a + i] = 0 THEN NULL ELSE a + i ELSE loop[i + 1]]
    BY <1>1, <2>1, Zenon
  <2> HIDE DEF loop
  <2> QED
    BY <1>1, <2>2, Zenon
<1>3. strchr(m, a, char_) = loop[0]
  BY DEF strchr
<1>4. loop[0] = V[k]
  <2> HIDE DEF loop, V
  <2> QED
    BY <1>2, Scans
<1> HIDE DEF loop
<1> QED
  BY <1>3, <1>4 DEF Stops

LEMMA StrfindIs ==
  ASSUME NEW m, NEW a, NEW char_, NEW k, Stops(AtChar(m, a, char_), k)
  PROVE  strfind(m, a, char_) = a + k
<1> DEFINE V == [i \in Nat |-> a + i]
           loop == CHOOSE g : g = [i \in Nat |-> IF m[a + i] \in {0, char_} THEN a + i ELSE g[i + 1]]
<1>1. \A g : g = [i \in Nat |-> IF m[a + i] \in {0, char_} THEN a + i ELSE g[i + 1]]
              <=> IsLoop(g, AtChar(m, a, char_), V)
  BY DEF IsLoop, AtChar
<1>2. IsLoop(loop, AtChar(m, a, char_), V)
  <2>1. \E g : IsLoop(g, AtChar(m, a, char_), V)
    <3> HIDE DEF V, loop
    <3> QED
      BY LoopExists
  <2>2. loop = [i \in Nat |-> IF m[a + i] \in {0, char_} THEN a + i ELSE loop[i + 1]]
    BY <1>1, <2>1, Zenon
  <2> HIDE DEF loop
  <2> QED
    BY <1>1, <2>2, Zenon
<1>3. strfind(m, a, char_) = loop[0]
  BY DEF strfind
<1>4. loop[0] = V[k]
  <2> HIDE DEF loop, V
  <2> QED
    BY <1>2, Scans
<1> HIDE DEF loop
<1> QED
  BY <1>3, <1>4 DEF Stops

AtCharOr(m, a, char_, z) == {i \in Nat : i = z \/ m[a + i] = char_ % 256}

LEMMA MemfindIs ==
  ASSUME NEW m, NEW a, NEW char_, NEW z, NEW k, Stops(AtCharOr(m, a, char_, z), k)
  PROVE  memfind(m, a, char_, z) = a + k
<1> DEFINE V == [i \in Nat |-> a + i]
           loop == CHOOSE g : g = [i \in Nat |-> IF i = z \/ m[a + i] = char_ % 256 THEN a + i ELSE g[i + 1]]
<1>1. \A g : g = [i \in Nat |-> IF i = z \/ m[a + i] = char_ % 256 THEN a + i ELSE g[i + 1]]
              <=> IsLoop(g, AtCharOr(m, a, char_, z), V)
  BY DEF IsLoop, AtCharOr
<1>2. IsLoop(loop, AtCharOr(m, a, char_, z), V)
  <2>1. \E g : IsLoop(g, AtCharOr(m, a, char_, z), V)
    <3> HIDE DEF V, loop
    <3> QED
      BY LoopExists
  <2>2. loop = [i \in Nat |-> IF i = z \/ m[a + i] = char_ % 256 THEN a + i ELSE loop[i + 1]]
    BY <1>1, <2>1, Zenon
  <2> HIDE DEF loop
  <2> QED
    BY <1>1, <2>2, Zenon
<1>3. memfind(m, a, char_, z) = loop[0]
  BY DEF memfind
<1>4. loop[0] = V[k]
  <2> HIDE DEF loop, V
  <2> QED
    BY <1>2, Scans
<1> HIDE DEF loop
<1> QED
  BY <1>3, <1>4 DEF Stops


-----------------------------------------------------------------------------
(* memset *)

\* So much is set so far.
SetTo(to) == \A a \in Address : mem[a] = IF a \in dst..(to - 1) THEN c % 256 ELSE mem0[a]

SetInv ==
  fn = "memset" =>
    /\ dst \in Nat /\ n \in Nat /\ dst + n <= N /\ by \in {1, 4} /\ DOMAIN mem = Address
    /\ mem = [a \in Address |-> mem[a]]
    /\ left \in 0..n /\ (by = 4 => \E q \in Nat : left = 4 * q)
    /\ d = dst + (n - left) /\ SetTo(d)
    /\ at \in {"turn", "returned"} /\ (at = "returned" => left = 0)

LEMMA SetInit == Fits /\ Enter => SetInv
<1> SUFFICES ASSUME Fits, Enter, fn = "memset" PROVE SetInv
  BY DEF SetInv
<1>1. enter_memset
  BY DEF Enter, enter_memmove, enter_str, Moving, OfStrings
<1>2. /\ dst \in Nat /\ n \in Nat /\ dst + n <= N /\ DOMAIN mem = Address
      /\ mem = [a \in Address |-> mem[a]]
  BY CopyAssumption DEF Fits, Fitting, Address
<1>3. left = n /\ d = dst /\ mem0 = mem /\ at = "turn" /\ by \in {1, 4} /\ (by = 4 => n % 4 = 0)
  BY <1>1 DEF enter_memset, Enter, Aligned4
<1>4. by = 4 => \E q \in Nat : left = 4 * q
  <2> SUFFICES ASSUME n % 4 = 0 PROVE \E q \in Nat : n = 4 * q
    BY <1>3
  <2>1. n \div 4 \in Nat /\ n = 4 * (n \div 4)
    BY <1>2
  <2> QED
    BY <2>1
<1>5. SetTo(d)
  BY <1>2, <1>3 DEF SetTo
<1> QED
  BY <1>2, <1>3, <1>4, <1>5 DEF SetInv

LEMMA SetStep == SetInv /\ [CopyNext]_copy => SetInv'
<1> SUFFICES ASSUME SetInv, [CopyNext]_copy, fn' = "memset" PROVE SetInv'
  BY DEF SetInv
<1>1. fn = "memset"
  BY DEF CopyNext, move_down, move_up, set, strcpy, strncpy, strlcpy, Ends, Goes, call, copy
<1>2. CASE set
  <2>1. CASE left = 0
    BY <1>1, <1>2, <2>1 DEF SetInv, set, Ends, call, SetTo
  <2>2. CASE left # 0
    <3>1. /\ dst \in Nat /\ n \in Nat /\ dst + n <= N /\ by \in {1, 4} /\ left \in 0..n
          /\ (by = 4 => \E q \in Nat : left = 4 * q)
          /\ d = dst + (n - left) /\ SetTo(d) /\ DOMAIN mem = Address
      BY <1>1 DEF SetInv
    <3>2. /\ mem' = [a \in Address |-> IF a \in d..(d + by - 1) THEN c % 256 ELSE mem[a]]
          /\ d' = d + by /\ left' = left - by /\ at = "turn"
          /\ UNCHANGED <<fn, dst, src, n, c, mem0, by, back, at>>
      BY <1>2, <2>2 DEF set, Goes, call, Turn
    <3>3. by <= left /\ (by = 4 => \E q \in Nat : left - by = 4 * q)
      BY <2>2, <3>1, Fours
    <3>4. left' \in 0..n' /\ d' = dst' + (n' - left')
      BY <3>1, <3>2, <3>3
    <3>5. SetTo(d)'
      <4>1. ASSUME NEW a \in Address PROVE mem'[a] = IF a \in dst..(d + by - 1) THEN c % 256 ELSE mem0[a]
        <5>1. mem[a] = IF a \in dst..(d - 1) THEN c % 256 ELSE mem0[a]
          BY <3>1 DEF SetTo
        <5>2. a \in dst..(d + by - 1) <=> a \in dst..(d - 1) \/ a \in d..(d + by - 1)
          BY <3>1 DEF Address
        <5> QED
          BY <3>2, <5>1, <5>2
      <4>2. d' - 1 = d + by - 1 /\ dst' = dst /\ c' = c /\ mem0' = mem0
        <5>1. d' = d + by /\ d \in Int /\ by \in Int
          BY <3>1, <3>2
        <5>2. dst' = dst /\ c' = c /\ mem0' = mem0
          BY <3>2
        <5> QED
          BY <5>1, <5>2
      <4>3. \A a \in Address : mem'[a] = IF a \in dst'..(d' - 1) THEN c' % 256 ELSE mem0'[a]
        BY <4>1, <4>2, Zenon
      <4> QED
        BY <4>3, Zenon DEF SetTo
    <3>6. DOMAIN mem' = Address /\ mem' = [a \in Address |-> mem'[a]]
      BY <3>2
    <3> QED
      BY <3>1, <3>2, <3>3, <3>4, <3>5, <3>6 DEF SetInv
  <2> QED
    BY <2>1, <2>2
<1>3. CASE move_down \/ move_up \/ strcpy \/ strncpy \/ strlcpy
  BY <1>1, <1>3 DEF move_down, move_up, strcpy, strncpy, strlcpy, Turn, Moving
<1>4. CASE UNCHANGED copy
  BY <1>4 DEF SetInv, copy, call, SetTo
<1> QED
  BY <1>2, <1>3, <1>4 DEF CopyNext

-----------------------------------------------------------------------------
(* strcpy, strcat, strncpy, strlcpy *)

\* What there is to copy, and where to; o is where strcat begins.
Given(len, o) ==
  /\ dst \in Nat /\ src \in Nat /\ n \in Nat /\ mem0 \in [Address -> Byte]
  /\ HasLength(mem0, src, len)
  /\ IF fn = "strcat" THEN HasLength(mem0, dst, o) ELSE o = 0
  /\ IF fn \in {"strcpy", "strcat"} THEN dst + o + len < N ELSE dst + n <= N
  /\ ~(src < dst + o /\ dst + o <= src + len)

\* The first k characters are copied, with zeros behind the string.
Taken(m, m0, from, to, len, k) ==
  /\ DOMAIN m = Address /\ m = [a \in Address |-> m[a]]
  /\ \A a \in Address : m[a] = IF a \in to..(to + k - 1)
                               THEN IF a - to < len THEN m0[from + (a - to)] ELSE 0
                               ELSE m0[a]

SoFar(len, to, k) == Taken(mem, mem0, src, to, len, k)

Smaller(i, j) == IF i < j THEN i ELSE j

StrProgress(len, o) ==
  /\ at \in {"turn", "returned"}
  /\ fn \in {"strcpy", "strcat"} =>
       IF at = "turn" THEN \E k \in 0..len : d = dst + o + k /\ s = src + k /\ SoFar(len, dst + o, k)
                      ELSE SoFar(len, dst + o, len + 1)
  /\ fn = "strncpy" =>
       /\ left \in 0..n /\ d = dst + (n - left) /\ s = src + Smaller(n - left, len)
       /\ SoFar(len, dst, n - left)
       /\ at = "returned" => left = 0
  /\ fn = "strlcpy" =>
       IF at = "turn" THEN /\ left \in 0..n /\ n - left <= len /\ (n > 0 => left > 0)
                           /\ d = dst + (n - left) /\ s = src + (n - left)
                           /\ SoFar(len, dst, n - left)
       ELSE IF n = 0 THEN SoFar(len, dst, 0)
       ELSE LET k == Smaller(len, n - 1) IN SoFar(k, dst, k + 1)

StrInv == fn \in OfStrings => \E len, o \in Nat : Given(len, o) /\ StrProgress(len, o)

LEMMA StrInit == Fits /\ Enter => StrInv
<1> SUFFICES ASSUME Fits, Enter, fn \in OfStrings
             PROVE  \E len, o \in Nat : Given(len, o) /\ StrProgress(len, o)
  BY DEF StrInv
<1>1. enter_str
  BY DEF Enter, enter_memmove, enter_memset, Moving, OfStrings
<1>2. /\ mem \in [Address -> Byte] /\ dst \in Nat /\ src \in Nat /\ n \in Nat /\ N \in Nat
      /\ fn \notin {"strcpy", "strcat"} => dst + n <= N
  BY CopyAssumption DEF Fits, Fitting, Address
<1>3. PICK len \in 0..N, o \in 0..N :
        /\ HasLength(mem, src, len)
        /\ IF fn = "strcat" THEN HasLength(mem, dst, o) ELSE o = 0
        /\ fn \in {"strcpy", "strcat"} => dst + o + len < N
        /\ ~(src < dst + o /\ dst + o <= src + len)
  BY DEF Fits, Fitting
<1>4. mem0 = mem /\ at = "turn" /\ s = src /\ left = n
  BY <1>1 DEF Enter, enter_str
<1>5. Given(len, o)
  BY <1>2, <1>3, <1>4 DEF Given
<1>6. d = dst + o
  <2>1. CASE fn = "strcat"
    <3>1. Stops(AtNul(mem, dst), o)
      BY <1>2, <1>3, <2>1 DEF HasLength, Stops, AtNul
    <3>2. strlen(mem, dst) = o
      BY <3>1, StrlenIs
    <3> QED
      BY <1>1, <2>1, <3>2 DEF enter_str
  <2>2. CASE fn # "strcat"
    BY <1>1, <1>3, <2>2 DEF enter_str
  <2> QED
    BY <2>1, <2>2
<1>7. \A to \in Nat : SoFar(len, to, 0)
  BY <1>2, <1>4 DEF SoFar, Taken, Address
<1>8. StrProgress(len, o)
  <2>1. len \in Nat /\ o \in Nat /\ n - left = 0 /\ dst + o \in Nat
    BY <1>2, <1>4
  <2>2. fn \in {"strcpy", "strcat"} => \E k \in 0..len : d = dst + o + k /\ s = src + k /\ SoFar(len, dst + o, k)
    <3>1. 0 \in 0..len /\ d = dst + o + 0 /\ s = src + 0 /\ SoFar(len, dst + o, 0)
      BY <1>2, <1>4, <1>6, <1>7, <2>1
    <3> QED
      BY <3>1
  <2>3. fn \notin {"strcpy", "strcat"} => d = dst
    <3>1. fn # "strcat" => o = 0
      BY <1>3
    <3> QED
      BY <1>2, <1>6, <3>1
  <2>4. left \in 0..n /\ n - left <= len /\ (n > 0 => left > 0) /\ s = src + (n - left) /\ Smaller(n - left, len) = 0
    BY <1>2, <1>4, <2>1 DEF Smaller
  <2>5. SoFar(len, dst, n - left)
    BY <1>2, <1>7, <2>1
  <2> QED
    BY <1>2, <1>4, <2>1, <2>2, <2>3, <2>4, <2>5 DEF StrProgress
<1> QED
  BY <1>5, <1>8

\* What is still to be read of the string is as it was.
LEMMA Unread ==
  ASSUME NEW len \in Nat, NEW o \in Nat, Given(len, o), NEW k \in Nat, SoFar(len, dst + o, k),
         NEW j \in 0..len, j >= k \/ j = len
  PROVE  /\ src + j \in Address /\ mem[src + j] = mem0[src + j] /\ mem0[src + j] \in Byte
         /\ mem[src + j] = 0 <=> j = len
<1>1. /\ src \in Nat /\ dst \in Nat /\ N \in Nat /\ src + len \in Address /\ src + len < N /\ mem0[src + len] = 0
      /\ \A i \in 0..(len - 1) : mem0[src + i] # 0
      /\ mem0 \in [Address -> Byte] /\ ~(src < dst + o /\ dst + o <= src + len)
  BY CopyAssumption DEF Given, HasLength, Address
<1>2. src + j \in Address
  BY <1>1 DEF Address
<1>3. mem[src + j] = mem0[src + j]
  <2> DEFINE to == dst + o
             a == src + j
  <2>1. mem[a] = IF a \in to..(to + k - 1) THEN IF a - to < len THEN mem0[src + (a - to)] ELSE 0 ELSE mem0[a]
    BY <1>2 DEF SoFar, Taken
  <2>2. CASE a \in to..(to + k - 1)
    <3>1. src >= to
      BY <1>1, <2>2
    <3>2. j = len
      BY <1>1, <2>2, <3>1
    <3>3. ~(a - to < len) /\ mem0[a] = 0
      BY <1>1, <3>1, <3>2
    <3> QED
      BY <2>1, <2>2, <3>3
  <2>3. CASE a \notin to..(to + k - 1)
    BY <2>1, <2>3
  <2> QED
    BY <2>2, <2>3
<1>4. j = len \/ j \in 0..(len - 1)
  OBVIOUS
<1> QED
  BY <1>1, <1>2, <1>3, <1>4

\* One more character.
LEMMA Further ==
  ASSUME NEW m, NEW m_, NEW m0, NEW from, NEW len \in Nat, NEW to \in Nat, NEW k \in Nat, NEW v,
         Taken(m, m0, from, to, len, k), to + k \in Address,
         m_ = [m EXCEPT ![to + k] = v],
         v = IF k < len THEN m0[from + k] ELSE 0
  PROVE  Taken(m_, m0, from, to, len, k + 1)
<1>1. DOMAIN m_ = Address /\ m_ = [a \in Address |-> m_[a]]
  BY DEF Taken
<1>2. ASSUME NEW a \in Address
      PROVE  m_[a] = IF a \in to..(to + (k + 1) - 1)
                     THEN IF a - to < len THEN m0[from + (a - to)] ELSE 0
                     ELSE m0[a]
  <2>0. a \in Int
    BY CopyAssumption DEF Address
  <2>1. CASE a = to + k
    <3>1. m_[a] = v /\ a - to = k /\ a \in to..(to + (k + 1) - 1)
      BY <2>1 DEF Taken
    <3> QED
      BY <3>1
  <2>2. CASE a # to + k
    <3>1. m_[a] = m[a] /\ (a \in to..(to + (k + 1) - 1) <=> a \in to..(to + k - 1))
      BY <2>0, <2>2 DEF Taken
    <3> QED
      BY <3>1 DEF Taken
  <2> QED
    BY <2>1, <2>2
<1> QED
  BY <1>1, <1>2 DEF Taken

LEMMA StrcpyKeeps ==
  ASSUME NEW len \in Nat, NEW o \in Nat, Given(len, o), StrProgress(len, o), strcpy
  PROVE  (Given(len, o) /\ StrProgress(len, o))'
<1>1. /\ at = "turn" /\ fn \in {"strcpy", "strcat"} /\ mem' = [mem EXCEPT ![d] = mem[s]]
      /\ d' = d + 1 /\ s' = s + 1 /\ at' = IF mem[s] = 0 THEN "returned" ELSE "turn"
      /\ UNCHANGED <<fn, dst, src, n, mem0>>
  BY DEF strcpy, Turn, call
<1>2. Given(len, o)'
  BY <1>1 DEF Given, HasLength
<1>3. PICK k \in 0..len : d = dst + o + k /\ s = src + k /\ SoFar(len, dst + o, k)
  BY <1>1 DEF StrProgress
<1>4. dst \in Nat /\ src \in Nat /\ dst + o + len < N /\ N \in Nat /\ k \in Nat
  BY <1>1, CopyAssumption DEF Given
<1>5. mem[s] = mem0[src + k] /\ (mem[s] = 0 <=> k = len) /\ mem0[src + len] = 0
  <2>1. k >= k
    BY <1>4
  <2>2. mem[src + k] = mem0[src + k] /\ (mem[src + k] = 0 <=> k = len)
    BY <1>3, <1>4, <2>1, Unread
  <2>3. mem0[src + len] = 0
    BY DEF Given, HasLength
  <2> QED
    BY <1>3, <2>2, <2>3
<1>6. SoFar(len, dst + o, k + 1)'
  <2>1. mem[s] = IF k < len THEN mem0[src + k] ELSE 0
    BY <1>3, <1>4, <1>5
  <2>2. dst + o \in Nat /\ (dst + o) + k \in Address /\ d = (dst + o) + k
    BY <1>3, <1>4 DEF Address
  <2>3. mem' = [mem EXCEPT ![(dst + o) + k] = mem[s]]
    BY <1>1, <2>2
  <2>4. Taken(mem, mem0, src, dst + o, len, k)
    BY <1>3 DEF SoFar
  <2>5. Taken(mem', mem0, src, dst + o, len, k + 1)
    BY <1>4, <2>1, <2>2, <2>3, <2>4, Further
  <2> QED
    BY <1>1, <2>5 DEF SoFar
<1>8. CASE k = len
  <2>1. at' = "returned" /\ SoFar(len, dst + o, len + 1)'
    BY <1>1, <1>5, <1>6, <1>8
  <2> QED
    BY <1>1, <1>2, <2>1 DEF StrProgress
<1>9. CASE k # len
  <2>1. at' = "turn" /\ k + 1 \in 0..len /\ d' = dst' + o + (k + 1) /\ s' = src' + (k + 1)
    BY <1>1, <1>3, <1>4, <1>5, <1>9
  <2> QED
    BY <1>1, <1>2, <1>6, <2>1 DEF StrProgress
<1> QED
  BY <1>8, <1>9

LEMMA StrncpyKeeps ==
  ASSUME NEW len \in Nat, NEW o \in Nat, Given(len, o), StrProgress(len, o), strncpy
  PROVE  (Given(len, o) /\ StrProgress(len, o))'
<1>1. at = "turn" /\ fn = "strncpy"
  BY DEF strncpy, Turn
<1>2. UNCHANGED <<fn, dst, src, n, mem0>>
  BY DEF strncpy, Ends, Goes, call
<1>3. Given(len, o)'
  BY <1>2 DEF Given, HasLength
<1>4. /\ dst \in Nat /\ src \in Nat /\ n \in Nat /\ N \in Nat /\ dst + n <= N /\ o = 0
  BY <1>1, CopyAssumption DEF Given
<1>5. left \in 0..n /\ d = dst + (n - left) /\ s = src + Smaller(n - left, len) /\ SoFar(len, dst, n - left)
  BY <1>1 DEF StrProgress
<1>6. CASE left = 0
  <2>1. at' = "returned" /\ UNCHANGED <<mem, d, s, left>>
    BY <1>6 DEF strncpy, Ends
  <2>2. SoFar(len, dst, n - left)'
    BY <1>2, <1>5, <2>1 DEF SoFar, Taken
  <2> QED
    BY <1>1, <1>2, <1>3, <1>5, <1>6, <2>1, <2>2 DEF StrProgress
<1>7. CASE left # 0
  <2> DEFINE k == n - left
             j == Smaller(k, len)
  <2>1. k \in Nat /\ k < n /\ j \in 0..len /\ (j >= k \/ j = len) /\ dst + o = dst
    BY <1>4, <1>5, <1>7 DEF Smaller
  <2>2. /\ mem' = [mem EXCEPT ![d] = mem[s]] /\ d' = d + 1 /\ s' = (IF mem'[s] # 0 THEN s + 1 ELSE s)
        /\ left' = left - 1 /\ at' = at
    BY <1>7 DEF strncpy, Goes
  <2>3. d = dst + k /\ s = src + j /\ SoFar(len, dst, k)
    BY <1>5
  <2> HIDE DEF k, j
  <2>4. s \in Address /\ mem[s] = mem0[src + j] /\ (mem[s] = 0 <=> j = len)
    BY <2>1, <2>3, Unread
  <2>5. dst + k \in Address
    BY <1>4, <2>1 DEF Address
  <2>6. mem[s] = IF k < len THEN mem0[src + k] ELSE 0
    BY <1>4, <2>1, <2>4 DEF j, Smaller
  <2>7. Taken(mem', mem0, src, dst, len, k + 1)
    <3>1. mem' = [mem EXCEPT ![dst + k] = mem[s]] /\ Taken(mem, mem0, src, dst, len, k)
      BY <2>2, <2>3 DEF SoFar
    <3> QED
      BY <1>4, <2>1, <2>5, <2>6, <3>1, Further
  <2>8. mem'[s] = mem[s]
    <3>1. DOMAIN mem = Address
      BY <2>3 DEF SoFar, Taken
    <3> QED
      BY <2>2, <2>4, <3>1
  <2>9. s' = src + Smaller(k + 1, len)
    BY <1>4, <2>1, <2>2, <2>3, <2>4, <2>8 DEF j, Smaller
  <2>10. n - left' = k + 1 /\ left' \in 0..n /\ d' = dst + (k + 1)
    BY <1>4, <1>5, <1>7, <2>1, <2>2, <2>3 DEF k
  <2>11. SoFar(len, dst, n - left)'
    BY <1>2, <2>7, <2>10 DEF SoFar
  <2> QED
    BY <1>1, <1>2, <1>3, <2>2, <2>9, <2>10, <2>11 DEF StrProgress
<1> QED
  BY <1>6, <1>7

\* strlcpy's copy is a prefix of the string.
LEMMA Shortened ==
  ASSUME NEW len \in Nat, NEW to \in Nat, NEW k \in 0..len, SoFar(len, to, k)
  PROVE  SoFar(k, to, k)
<1>1. ASSUME NEW a \in Address, a \in to..(to + k - 1) PROVE a - to < len /\ a - to < k
  BY <1>1
<1> QED
  BY <1>1 DEF SoFar, Taken

LEMMA StrlcpyKeeps ==
  ASSUME NEW len \in Nat, NEW o \in Nat, Given(len, o), StrProgress(len, o), strlcpy
  PROVE  (Given(len, o) /\ StrProgress(len, o))'
<1>1. at = "turn" /\ fn = "strlcpy"
  BY DEF strlcpy, Turn
<1>2. UNCHANGED <<fn, dst, src, n, mem0>>
  BY DEF strlcpy, Ends, Goes, call
<1>3. Given(len, o)'
  BY <1>2 DEF Given, HasLength
<1>4. dst \in Nat /\ src \in Nat /\ n \in Nat /\ N \in Nat /\ dst + n <= N /\ o = 0
  BY <1>1, CopyAssumption DEF Given
<1> DEFINE k == n - left
<1>5. /\ left \in 0..n /\ k \in 0..len /\ (n > 0 => left > 0) /\ d = dst + k /\ s = src + k
      /\ SoFar(len, dst, k)
  <2>1. /\ left \in 0..n /\ n - left <= len /\ (n > 0 => left > 0)
        /\ d = dst + (n - left) /\ s = src + (n - left) /\ SoFar(len, dst, n - left)
    BY <1>1 DEF StrProgress
  <2>2. n - left \in 0..len
    BY <1>4, <2>1
  <2> QED
    BY <2>1, <2>2
<1>6. CASE left = 0
  <2>1. at' = "returned" /\ mem' = mem
    BY <1>6 DEF strlcpy, Ends
  <2>2. n = 0 /\ k = 0
    BY <1>4, <1>5, <1>6
  <2>3. SoFar(len, dst, 0)'
    BY <1>2, <1>5, <2>1, <2>2 DEF SoFar, Taken
  <2> QED
    BY <1>1, <1>2, <1>3, <2>1, <2>2, <2>3 DEF StrProgress
<1>7. CASE left # 0
  <2>1. k < n /\ n # 0 /\ dst + k \in Address /\ dst + o = dst /\ k \in Nat
    BY <1>4, <1>5, <1>7 DEF Address
  <2>2. mem[s] = mem0[src + k] /\ (mem[s] = 0 <=> k = len)
    <3> HIDE DEF k
    <3> QED
      BY <1>5, <2>1, Unread
  <2>3. CASE left > 1 /\ mem[s] # 0
    <3>1. mem' = [mem EXCEPT ![d] = mem[s]] /\ d' = d + 1 /\ s' = s + 1 /\ left' = left - 1 /\ at' = at
      BY <1>7, <2>3 DEF strlcpy, Goes
    <3>2. k < len /\ n - left' = k + 1 /\ left' \in 0..n /\ left' > 0
      BY <1>4, <1>5, <2>2, <2>3, <3>1
    <3>3. Taken(mem', mem0, src, dst, len, k + 1)
      <4>1. mem' = [mem EXCEPT ![dst + k] = mem[s]] /\ Taken(mem, mem0, src, dst, len, k)
        BY <1>5, <3>1 DEF SoFar
      <4>2. mem[s] = IF k < len THEN mem0[src + k] ELSE 0
        BY <2>2, <3>2
      <4> HIDE DEF k
      <4> QED
        BY <1>4, <2>1, <4>1, <4>2, Further
    <3>4. d' = dst + (k + 1) /\ s' = src + (k + 1) /\ k + 1 <= len
      BY <1>4, <1>5, <2>1, <3>1, <3>2
    <3>5. SoFar(len, dst, n - left)'
      BY <1>2, <3>2, <3>3 DEF SoFar
    <3> HIDE DEF k
    <3> QED
      BY <1>1, <1>2, <1>3, <3>1, <3>2, <3>4, <3>5 DEF StrProgress
  <2>4. CASE ~(left > 1 /\ mem[s] # 0)
    <3>1. mem' = [mem EXCEPT ![d] = 0] /\ at' = "returned"
      BY <1>7, <2>4 DEF strlcpy
    <3>2. k = Smaller(len, n - 1)
      BY <1>4, <1>5, <2>1, <2>2, <2>4 DEF Smaller
    <3>3. SoFar(k, dst, k)
      <4> HIDE DEF k
      <4> QED
        BY <1>4, <1>5, Shortened
    <3>4. Taken(mem', mem0, src, dst, k, k + 1)
      <4>1. mem' = [mem EXCEPT ![dst + k] = 0] /\ Taken(mem, mem0, src, dst, k, k)
        BY <1>5, <3>1, <3>3 DEF SoFar
      <4>2. 0 = IF k < k THEN mem0[src + k] ELSE 0
        BY <2>1
      <4> HIDE DEF k
      <4> QED
        BY <1>4, <2>1, <4>1, <4>2, Further
    <3>5. (LET k_ == Smaller(len, n - 1) IN SoFar(k_, dst, k_ + 1))'
      BY <1>2, <3>2, <3>4 DEF SoFar, Smaller
    <3> HIDE DEF k
    <3> QED
      BY <1>1, <1>2, <1>3, <2>1, <3>1, <3>5 DEF StrProgress, Smaller
  <2> QED
    BY <2>3, <2>4
<1> QED
  BY <1>6, <1>7

LEMMA StrStep == StrInv /\ [CopyNext]_copy => StrInv'
<1> SUFFICES ASSUME StrInv, [CopyNext]_copy, fn' \in OfStrings
             PROVE  \E len, o \in Nat : (Given(len, o) /\ StrProgress(len, o))'
  BY DEF StrInv
<1>1. fn \in OfStrings
  BY DEF CopyNext, move_down, move_up, set, strcpy, strncpy, strlcpy, Ends, Goes, call, copy
<1>2. PICK len \in Nat, o \in Nat : Given(len, o) /\ StrProgress(len, o)
  BY <1>1 DEF StrInv
<1>3. CASE strcpy \/ strncpy \/ strlcpy
  BY <1>2, <1>3, StrcpyKeeps, StrncpyKeeps, StrlcpyKeeps
<1>4. CASE move_down \/ move_up \/ set
  BY <1>1, <1>4 DEF move_down, move_up, set, Turn, Moving, OfStrings
<1>5. CASE UNCHANGED copy
  <2>1. Given(len, o)'
    BY <1>2, <1>5 DEF copy, call, Given, HasLength
  <2>2. StrProgress(len, o)'
    BY <1>2, <1>5 DEF copy, call, StrProgress, SoFar, Taken, Smaller
  <2> QED
    BY <2>1, <2>2
<1> QED
  BY <1>3, <1>4, <1>5 DEF CopyNext

-----------------------------------------------------------------------------
(* What they leave in memory *)

LEMMA LengthIs ==
  ASSUME NEW m, NEW a \in Nat, NEW k \in Nat, HasLength(m, a, k)
  PROVE  Length(m, a) = k
<1>1. k \in 0..(N - 1 - a)
  BY CopyAssumption DEF HasLength, Address
<1>2. ASSUME NEW i \in 0..(N - 1 - a), HasLength(m, a, i) PROVE i = k
  <2>1. i \in Nat /\ ~(i < k) /\ ~(k < i)
    BY <1>2 DEF HasLength
  <2> QED
    BY <2>1
<1> HIDE DEF HasLength
<1> QED
  BY <1>1, <1>2 DEF Length

LEMMA SetDone == SetInv /\ at = "returned" /\ fn = "memset" =>
                   mem = [a \in Address |-> IF a \in dst..(dst + n - 1) THEN c % 256 ELSE mem0[a]]
<1> SUFFICES ASSUME SetInv, at = "returned", fn = "memset"
             PROVE  mem = [a \in Address |-> IF a \in dst..(dst + n - 1) THEN c % 256 ELSE mem0[a]]
  OBVIOUS
<1>1. mem = [a \in Address |-> mem[a]] /\ SetTo(d) /\ d - 1 = dst + n - 1
  BY DEF SetInv
<1>2. \A a \in Address : mem[a] = IF a \in dst..(dst + n - 1) THEN c % 256 ELSE mem0[a]
  BY <1>1 DEF SetTo
<1> QED
  BY <1>1, <1>2, Zenon

\* A string copied whole, or as much of it as there is room for, and its NUL.
LEMMA Whole ==
  ASSUME NEW to \in Nat, NEW len \in Nat, SoFar(len, to, len + 1)
  PROVE  Copied(to, len)
<1>1. ASSUME NEW a \in Address
      PROVE  mem[a] = IF a \in to..(to + len - 1) THEN mem0[src + (a - to)]
                      ELSE IF a = to + len THEN 0 ELSE mem0[a]
  <2>1. a \in Int
    BY CopyAssumption DEF Address
  <2>2. mem[a] = IF a \in to..(to + (len + 1) - 1)
                 THEN IF a - to < len THEN mem0[src + (a - to)] ELSE 0 ELSE mem0[a]
    BY DEF SoFar, Taken
  <2> QED
    BY <2>1, <2>2
<1>2. mem = [a \in Address |-> mem[a]]
  BY DEF SoFar, Taken
<1> QED
  BY <1>1, <1>2, Zenon DEF Copied

LEMMA StrDone == StrInv /\ at = "returned" =>
  /\ fn = "strcpy" => Copied(dst, Length0(src))
  /\ fn = "strcat" => Copied(dst + Length0(dst), Length0(src))
  /\ fn = "strlcpy" => IF n = 0 THEN mem = mem0
                       ELSE Copied(dst, IF Length0(src) < n THEN Length0(src) ELSE n - 1)
  /\ fn = "strncpy" =>
       mem = [a \in Address |-> IF a \notin dst..(dst + n - 1) THEN mem0[a]
                               ELSE IF a - dst < Length0(src) THEN mem0[src + (a - dst)] ELSE 0]
<1> SUFFICES ASSUME StrInv, at = "returned", fn \in OfStrings
             PROVE  /\ fn = "strcpy" => Copied(dst, Length0(src))
                    /\ fn = "strcat" => Copied(dst + Length0(dst), Length0(src))
                    /\ fn = "strlcpy" => IF n = 0 THEN mem = mem0
                                         ELSE Copied(dst, IF Length0(src) < n THEN Length0(src) ELSE n - 1)
                    /\ fn = "strncpy" =>
                         mem = [a \in Address |-> IF a \notin dst..(dst + n - 1) THEN mem0[a]
                                 ELSE IF a - dst < Length0(src) THEN mem0[src + (a - dst)] ELSE 0]
  BY DEF OfStrings
<1>1. PICK len \in Nat, o \in Nat : Given(len, o) /\ StrProgress(len, o)
  BY DEF StrInv
<1>2. dst \in Nat /\ src \in Nat /\ n \in Nat /\ mem0 \in [Address -> Byte]
  BY <1>1 DEF Given
<1>3. Length0(src) = len
  BY <1>1, <1>2, LengthIs DEF Given, Length0
<1>4. ASSUME fn = "strcpy" PROVE Copied(dst, Length0(src))
  <2>1. SoFar(len, dst + o, len + 1) /\ dst + o = dst
    BY <1>1, <1>2, <1>4 DEF StrProgress, Given
  <2>2. SoFar(len, dst, len + 1)
    BY <2>1
  <2> QED
    BY <1>2, <1>3, <2>2, Whole
<1>5. ASSUME fn = "strcat" PROVE Copied(dst + Length0(dst), Length0(src))
  <2>1. SoFar(len, dst + o, len + 1) /\ HasLength(mem0, dst, o)
    BY <1>1, <1>5 DEF StrProgress, Given
  <2>2. Length0(dst) = o /\ dst + o \in Nat
    BY <1>2, <2>1, LengthIs DEF Length0
  <2>3. Copied(dst + o, len)
    BY <2>1, <2>2, Whole
  <2> QED
    BY <1>3, <2>2, <2>3
<1>6. ASSUME fn = "strlcpy"
      PROVE  IF n = 0 THEN mem = mem0 ELSE Copied(dst, IF Length0(src) < n THEN Length0(src) ELSE n - 1)
  <2>1. CASE n = 0
    <3>1. SoFar(len, dst, 0)
      BY <1>1, <1>6, <2>1 DEF StrProgress
    <3>2. mem = [a \in Address |-> mem[a]]
      BY <3>1 DEF SoFar, Taken
    <3>3. \A a \in Address : mem[a] = mem0[a]
      BY <1>2, <3>1 DEF SoFar, Taken
    <3> QED
      BY <1>2, <2>1, <3>2, <3>3
  <2>2. CASE n # 0
    <3> DEFINE k == Smaller(len, n - 1)
    <3>1. SoFar(k, dst, k + 1)
      BY <1>1, <1>6, <2>2 DEF StrProgress
    <3>2. k \in Nat /\ k = IF len < n THEN len ELSE n - 1
      BY <1>2, <2>2 DEF Smaller
    <3> HIDE DEF k
    <3>3. Copied(dst, k)
      BY <1>2, <3>1, <3>2, Whole
    <3> QED
      BY <1>3, <2>2, <3>2, <3>3
  <2> QED
    BY <2>1, <2>2
<1>7. ASSUME fn = "strncpy"
      PROVE  mem = [a \in Address |-> IF a \notin dst..(dst + n - 1) THEN mem0[a]
                                     ELSE IF a - dst < len THEN mem0[src + (a - dst)] ELSE 0]
  <2>1. SoFar(len, dst, n - left) /\ left = 0
    BY <1>1, <1>7 DEF StrProgress
  <2>2. SoFar(len, dst, n)
    <3>1. n - left = n
      BY <1>2, <2>1
    <3> QED
      BY <2>1, <3>1
  <2> QED
    BY <2>2 DEF SoFar, Taken
<1> QED
  BY <1>3, <1>4, <1>5, <1>6, <1>7

\* memset, strcpy, strcat, strncpy and strlcpy leave in memory what they are for, and
\* change no other byte, for every memory and all arguments that fit (module StringCopy,
\* Written).
THEOREM WrittenAlways == CopySpec => []Written
<1>1. CopySpec => [](SetInv /\ StrInv)
  BY SetInit, SetStep, StrInit, StrStep, PTL DEF CopySpec
<1>2. SetInv /\ StrInv => Written
  BY SetDone, StrDone DEF Written
<1> QED
  BY <1>1, <1>2, PTL

-----------------------------------------------------------------------------
(* Comparing and searching *)

LEMMA LeastIs ==
  ASSUME NEW S \in SUBSET Int, NEW a \in S, \A e \in S : a <= e
  PROVE  Least(S) = a
<1>1. \A e \in S : (\A e_ \in S : e <= e_) => e = a
  OBVIOUS
<1> QED
  BY <1>1 DEF Least

\* The bytes from an address on.
Run(a, k) == [j \in 1..k |-> mem[a + j - 1]]

LEMMA RunHas ==
  ASSUME mem \in [Address -> Byte], NEW a \in Nat, NEW k \in Nat, a + k <= N
  PROVE  /\ Run(a, k) \in Seq(Int) /\ Len(Run(a, k)) = k
         /\ \A j \in 1..k : Run(a, k)[j] = mem[a + (j - 1)]
<1>1. \A j \in 1..k : a + j - 1 \in Address /\ a + j - 1 = a + (j - 1)
  BY CopyAssumption DEF Address
<1>2. \A j \in 1..k : mem[a + j - 1] \in Int
  BY <1>1 DEF Byte
<1> QED
  BY <1>1, <1>2 DEF Run

LEMMA StringIs ==
  ASSUME mem \in [Address -> Byte], NEW a \in Nat, NEW k \in Nat, HasLength(mem, a, k)
  PROVE  StringAt(a) = Run(a, k) /\ a + k < N
<1>1. Length(mem, a) = k
  BY LengthIs
<1>2. a + k < N
  BY CopyAssumption DEF HasLength, Address
<1> QED
  BY <1>1, <1>2 DEF StringAt, Run

LEMMA FirstIs ==
  ASSUME mem \in [Address -> Byte], NEW a \in Nat, NEW k \in Nat, a + k <= N, NEW z \in Nat
  PROVE  First(Run(a, k), z) = Run(a, IF z < k THEN z ELSE k)
<1> DEFINE i == IF z < k THEN z ELSE k
<1>1. i \in 0..k /\ Len(Run(a, k)) = k /\ Run(a, k) \in Seq(Int)
  BY RunHas
<1>2. First(Run(a, k), z) = SubSeq(Run(a, k), 1, i)
  BY <1>1 DEF First
<1>3. SubSeq(Run(a, k), 1, i) = [j \in 1..i |-> Run(a, k)[j]]
  <2> HIDE DEF i
  <2> QED
    BY <1>1
<1>4. \A j \in 1..i : Run(a, k)[j] = mem[a + j - 1]
  <2>1. \A j \in 1..i : j \in 1..k
    BY <1>1
  <2> QED
    BY <2>1 DEF Run
<1>5. SubSeq(Run(a, k), 1, i) = [j \in 1..i |-> mem[a + j - 1]]
  <2> HIDE DEF i
  <2> QED
    BY <1>3, <1>4
<1> QED
  BY <1>2, <1>5 DEF Run

\* Where two sequences differ first decides their order.
LEMMA LessIs ==
  ASSUME NEW t \in Seq(Int), NEW u \in Seq(Int), NEW k \in Nat, k <= Len(t), k < Len(u),
         \A j \in 1..k : t[j] = u[j], k = Len(t) \/ t[k + 1] < u[k + 1]
  PROVE  Less(t, u) /\ ~Less(u, t) /\ t # u
<1>1. Less(t, u)
  <2>1. k + 1 \in 1..Len(u) /\ \A j \in 1..((k + 1) - 1) : j <= Len(t) /\ t[j] = u[j]
    OBVIOUS
  <2>2. k + 1 > Len(t) \/ t[k + 1] < u[k + 1]
    OBVIOUS
  <2> QED
    BY <2>1, <2>2 DEF Less
<1>2. ~Less(u, t)
  <2> SUFFICES ASSUME NEW i \in 1..Len(t), \A j \in 1..(i - 1) : j <= Len(u) /\ u[j] = t[j],
                      i > Len(u) \/ u[i] < t[i]
               PROVE  FALSE
    BY DEF Less
  <2>0. \A j \in 1..Len(u) : u[j] \in Int
    OBVIOUS
  <2>1. CASE i <= k
    <3>1. i \in 1..k
      BY <2>1
    <3> QED
      BY <2>0, <3>1
  <2>2. CASE i = k + 1
    <3>1. t[k + 1] < u[k + 1] /\ t[k + 1] \in Int /\ u[k + 1] \in Int
      BY <2>0, <2>2
    <3> QED
      BY <2>2, <3>1
  <2>3. CASE i > k + 1
    <3>1. k + 1 \in 1..(i - 1) /\ k # Len(t)
      BY <2>3
    <3>2. u[k + 1] = t[k + 1] /\ t[k + 1] < u[k + 1] /\ u[k + 1] \in Int
      BY <2>0, <3>1
    <3> QED
      BY <3>2
  <2> QED
    BY <2>1, <2>2, <2>3
<1>3. t # u
  <2> SUFFICES ASSUME t = u PROVE FALSE
    OBVIOUS
  <2>1. t[k + 1] < t[k + 1] /\ t[k + 1] \in Int
    OBVIOUS
  <2> QED
    BY <2>1
<1> QED
  BY <1>1, <1>2, <1>3

LEMMA NotLess ==
  ASSUME NEW t \in Seq(Int)
  PROVE  ~Less(t, t)
<1> SUFFICES ASSUME NEW i \in 1..Len(t), i > Len(t) \/ t[i] < t[i] PROVE FALSE
  BY DEF Less
<1>1. t[i] \in Int
  OBVIOUS
<1> QED
  BY <1>1

\* What a comparison returns is the order of what it compares.
LEMMA Compared ==
  ASSUME mem \in [Address -> Byte], NEW p \in Nat, NEW q \in Nat, NEW lt \in Nat, NEW lu \in Nat,
         p + lt <= N, q + lu <= N, NEW k \in Nat, k <= lt, k <= lu,
         \A j \in 0..(k - 1) : mem[p + j] = mem[q + j], NEW cmp \in Int,
         \/ k = lt /\ k = lu /\ cmp = 0
         \/ k = lt /\ k < lu /\ cmp < 0
         \/ k < lt /\ k = lu /\ cmp > 0
         \/ k < lt /\ k < lu /\ mem[p + k] # mem[q + k] /\ cmp = mem[p + k] - mem[q + k]
  PROVE  Orders(cmp, Run(p, lt), Run(q, lu))
<1> DEFINE t == Run(p, lt)
           u == Run(q, lu)
<1>1. /\ t \in Seq(Int) /\ Len(t) = lt /\ \A j \in 1..lt : t[j] = mem[p + (j - 1)]
      /\ u \in Seq(Int) /\ Len(u) = lu /\ \A j \in 1..lu : u[j] = mem[q + (j - 1)]
  BY RunHas
<1> HIDE DEF t, u
<1>2. ASSUME NEW j \in 1..k PROVE t[j] = u[j]
  <2>1. j \in 1..lt /\ j \in 1..lu /\ j - 1 \in 0..(k - 1)
    OBVIOUS
  <2> QED
    BY <1>1, <2>1
<1>3. CASE k = lt /\ k = lu /\ cmp = 0
  <2>1. t = u
    BY <1>1, <1>2, <1>3
  <2> QED
    BY <1>1, <1>3, <2>1, NotLess DEF Orders, t, u
<1>4. CASE k < lu /\ cmp < 0 /\ (k = lt \/ (k < lt /\ mem[p + k] # mem[q + k] /\ cmp = mem[p + k] - mem[q + k]))
  <2>1. k = Len(t) \/ t[k + 1] < u[k + 1]
    <3>1. CASE k = lt
      BY <1>1, <3>1
    <3>2. CASE k < lt
      <4>1. k + 1 \in 1..lt /\ k + 1 \in 1..lu /\ (k + 1) - 1 = k /\ p + k \in Address /\ q + k \in Address
        BY <1>4, <3>2, CopyAssumption DEF Address
      <4>2. t[k + 1] = mem[p + ((k + 1) - 1)] /\ u[k + 1] = mem[q + ((k + 1) - 1)]
        BY <1>1, <4>1
      <4>3. mem[p + k] \in Byte /\ mem[q + k] \in Byte
        BY <4>1
      <4>4. t[k + 1] = mem[p + k] /\ u[k + 1] = mem[q + k] /\ t[k + 1] \in Int /\ u[k + 1] \in Int
        BY <4>1, <4>2, <4>3 DEF Byte
      <4> QED
        BY <1>4, <3>2, <4>4
    <3> QED
      BY <3>1, <3>2
  <2>2. Less(t, u) /\ ~Less(u, t) /\ t # u
    BY <1>1, <1>2, <1>4, <2>1, LessIs
  <2> QED
    BY <1>4, <2>2 DEF Orders, t, u
<1>5. CASE k < lt /\ cmp > 0 /\ (k = lu \/ (k < lu /\ mem[p + k] # mem[q + k] /\ cmp = mem[p + k] - mem[q + k]))
  <2>1. k = Len(u) \/ u[k + 1] < t[k + 1]
    <3>1. CASE k = lu
      BY <1>1, <3>1
    <3>2. CASE k < lu
      <4>1. k + 1 \in 1..lt /\ k + 1 \in 1..lu /\ (k + 1) - 1 = k /\ p + k \in Address /\ q + k \in Address
        BY <1>5, <3>2, CopyAssumption DEF Address
      <4>2. t[k + 1] = mem[p + ((k + 1) - 1)] /\ u[k + 1] = mem[q + ((k + 1) - 1)]
        BY <1>1, <4>1
      <4>3. mem[p + k] \in Byte /\ mem[q + k] \in Byte
        BY <4>1
      <4>4. t[k + 1] = mem[p + k] /\ u[k + 1] = mem[q + k] /\ t[k + 1] \in Int /\ u[k + 1] \in Int
        BY <4>1, <4>2, <4>3 DEF Byte
      <4> QED
        BY <1>5, <3>2, <4>4
    <3> QED
      BY <3>1, <3>2
  <2>2. \A j \in 1..k : u[j] = t[j]
    BY <1>2
  <2>3. Less(u, t) /\ ~Less(t, u) /\ u # t
    BY <1>1, <1>5, <2>1, <2>2, LessIs
  <2> QED
    BY <1>5, <2>3 DEF Orders, t, u
<1>6. k < lt /\ k < lu /\ mem[p + k] # mem[q + k] /\ cmp = mem[p + k] - mem[q + k] => cmp # 0
  <2> SUFFICES ASSUME k < lt, k < lu, mem[p + k] # mem[q + k] PROVE mem[p + k] - mem[q + k] # 0
    OBVIOUS
  <2>1. p + k \in Address /\ q + k \in Address
    BY CopyAssumption DEF Address
  <2>2. mem[p + k] \in Int /\ mem[q + k] \in Int
    BY <2>1 DEF Byte
  <2> QED
    BY <2>2
<1> QED
  BY <1>3, <1>4, <1>5, <1>6

LEMMA Difference == \A x, y \in 0..255 : x - y \in Int
OBVIOUS

LEMMA Strcmps ==
  ASSUME mem \in [Address -> Byte], NEW p \in Nat, NEW q \in Nat, NEW lp \in Nat, NEW lq \in Nat,
         HasLength(mem, p, lp), HasLength(mem, q, lq)
  PROVE  Orders(strcmp(mem, p, q), Run(p, lp), Run(q, lq))
<1>0. /\ p + lp < N /\ mem[p + lp] = 0 /\ \A j \in 0..(lp - 1) : mem[p + j] # 0
      /\ q + lq < N /\ mem[q + lq] = 0 /\ \A j \in 0..(lq - 1) : mem[q + j] # 0
  BY CopyAssumption DEF HasLength, Address
<1>1. PICK k \in 0..lp : Stops(AtDifference(mem, p, q), k)
  <2>1. AtDifference(mem, p, q) \in SUBSET Nat /\ lp \in AtDifference(mem, p, q)
    BY <1>0 DEF AtDifference
  <2> QED
    BY <2>1, StopsSomewhere
<1>2. k \in Nat /\ k <= lp /\ (mem[p + k] = 0 \/ mem[p + k] # mem[q + k])
  BY <1>1 DEF Stops, AtDifference
<1>3. \A j \in 0..(k - 1) : ~(mem[p + j] = 0 \/ mem[p + j] # mem[q + j])
  BY <1>1 DEF Stops, AtDifference
<1>4. strcmp(mem, p, q) = mem[p + k] - mem[q + k]
  BY <1>1, StrcmpIs
<1>5. k <= lq
  <2> SUFFICES ASSUME lq < k PROVE FALSE
    BY <1>2
  <2>1. lq \in 0..(k - 1)
    BY <1>2
  <2> QED
    BY <1>0, <1>3, <2>1
<1>6. /\ (mem[p + k] = 0 <=> k = lp) /\ (mem[q + k] = 0 <=> k = lq)
      /\ mem[p + k] \in 0..255 /\ mem[q + k] \in 0..255
  <2>1. (k = lp \/ k \in 0..(lp - 1)) /\ (k = lq \/ k \in 0..(lq - 1))
    BY <1>2, <1>5
  <2>2. p + k \in Address /\ q + k \in Address
    BY <1>0, <1>2, <1>5, CopyAssumption DEF Address
  <2> QED
    BY <1>0, <2>1, <2>2 DEF Byte
<1> DEFINE x == mem[p + k]
           y == mem[q + k]
           cmp == x - y
<1>7. cmp \in Int
  <2>1. x \in 0..255 /\ y \in 0..255
    BY <1>6
  <2> HIDE DEF x, y
  <2> QED
    BY <2>1
<1>8. \/ k = lp /\ k = lq /\ cmp = 0
      \/ k = lp /\ k < lq /\ cmp < 0
      \/ k < lp /\ k = lq /\ cmp > 0
      \/ k < lp /\ k < lq /\ mem[p + k] # mem[q + k] /\ cmp = mem[p + k] - mem[q + k]
  BY <1>2, <1>5, <1>6
<1>9. \A j \in 0..(k - 1) : mem[p + j] = mem[q + j]
  BY <1>3
<1>10. p + lp <= N /\ q + lq <= N
  BY <1>0, CopyAssumption
<1> HIDE DEF cmp
<1>11. Orders(cmp, Run(p, lp), Run(q, lq))
  BY <1>2, <1>5, <1>7, <1>8, <1>9, <1>10, Compared
<1> QED
  BY <1>4, <1>11 DEF cmp

LEMMA Strncmps ==
  ASSUME mem \in [Address -> Byte], NEW p \in Nat, NEW q \in Nat, NEW lp \in Nat, NEW lq \in Nat,
         HasLength(mem, p, lp), HasLength(mem, q, lq), NEW z \in Nat
  PROVE  Orders(strncmp(mem, p, q, z), Run(p, IF z < lp THEN z ELSE lp), Run(q, IF z < lq THEN z ELSE lq))
<1>0. /\ p + lp < N /\ mem[p + lp] = 0 /\ \A j \in 0..(lp - 1) : mem[p + j] # 0
      /\ q + lq < N /\ mem[q + lq] = 0 /\ \A j \in 0..(lq - 1) : mem[q + j] # 0
  BY CopyAssumption DEF HasLength, Address
<1>1. PICK k \in 0..lp : Stops(AtDifferenceOr(mem, p, q, z), k)
  <2>1. AtDifferenceOr(mem, p, q, z) \in SUBSET Nat /\ lp \in AtDifferenceOr(mem, p, q, z)
    BY <1>0 DEF AtDifferenceOr
  <2> QED
    BY <2>1, StopsSomewhere
<1>2. k \in Nat /\ k <= lp /\ (k = z \/ mem[p + k] = 0 \/ mem[p + k] # mem[q + k])
  BY <1>1 DEF Stops, AtDifferenceOr
<1>3. k <= z /\ \A j \in 0..(k - 1) : ~(j = z \/ mem[p + j] = 0 \/ mem[p + j] # mem[q + j])
  BY <1>1 DEF Stops, AtDifferenceOr
<1> DEFINE cmp == IF k = z THEN 0 ELSE mem[p + k] - mem[q + k]
           lt == IF z < lp THEN z ELSE lp
           lu == IF z < lq THEN z ELSE lq
<1>4. strncmp(mem, p, q, z) = cmp
  BY <1>1, StrncmpIs
<1>5. k <= lq
  <2> SUFFICES ASSUME lq < k PROVE FALSE
    BY <1>2
  <2>1. lq \in 0..(k - 1)
    BY <1>2
  <2> QED
    BY <1>0, <1>3, <2>1
<1>6. /\ (mem[p + k] = 0 <=> k = lp) /\ (mem[q + k] = 0 <=> k = lq)
      /\ mem[p + k] \in 0..255 /\ mem[q + k] \in 0..255
  <2>1. (k = lp \/ k \in 0..(lp - 1)) /\ (k = lq \/ k \in 0..(lq - 1))
    BY <1>2, <1>5
  <2>2. p + k \in Address /\ q + k \in Address
    BY <1>0, <1>2, <1>5, CopyAssumption DEF Address
  <2> QED
    BY <1>0, <2>1, <2>2 DEF Byte
<1>7. /\ cmp \in Int /\ lt \in Nat /\ lu \in Nat /\ k <= lt /\ k <= lu /\ p + lt <= N /\ q + lu <= N
  <2>1. lt \in Nat /\ lu \in Nat /\ k <= lt /\ k <= lu /\ p + lt <= N /\ q + lu <= N
    BY <1>0, <1>2, <1>3, <1>5, CopyAssumption
  <2>2. mem[p + k] - mem[q + k] \in Int
    BY <1>6, Difference
  <2> QED
    BY <2>1, <2>2
<1>8. \/ k = lt /\ k = lu /\ cmp = 0
      \/ k = lt /\ k < lu /\ cmp < 0
      \/ k < lt /\ k = lu /\ cmp > 0
      \/ k < lt /\ k < lu /\ mem[p + k] # mem[q + k] /\ cmp = mem[p + k] - mem[q + k]
  BY <1>2, <1>3, <1>5, <1>6
<1>9. \A j \in 0..(k - 1) : mem[p + j] = mem[q + j]
  BY <1>3
<1> HIDE DEF cmp, lt, lu
<1>10. Orders(cmp, Run(p, lt), Run(q, lu))
  BY <1>2, <1>7, <1>8, <1>9, Compared
<1> QED
  BY <1>4, <1>10 DEF lt, lu

LEMMA Memcmps ==
  ASSUME mem \in [Address -> Byte], NEW p \in Nat, NEW q \in Nat, NEW z \in Nat, p + z <= N, q + z <= N
  PROVE  Orders(memcmp(mem, p, q, z), Run(p, z), Run(q, z))
<1>1. PICK k \in 0..z : Stops(AtByte(mem, p, q, z), k)
  <2>1. AtByte(mem, p, q, z) \in SUBSET Nat /\ z \in AtByte(mem, p, q, z)
    BY DEF AtByte
  <2> QED
    BY <2>1, StopsSomewhere
<1>2. k \in Nat /\ k <= z /\ (k = z \/ mem[p + k] # mem[q + k])
  BY <1>1 DEF Stops, AtByte
<1>3. \A j \in 0..(k - 1) : ~(j = z \/ mem[p + j] # mem[q + j])
  BY <1>1 DEF Stops, AtByte
<1> DEFINE cmp == IF k = z THEN 0 ELSE mem[p + k] - mem[q + k]
<1>4. memcmp(mem, p, q, z) = cmp
  BY <1>1, MemcmpIs
<1>5. k < z => mem[p + k] \in 0..255 /\ mem[q + k] \in 0..255
  <2>1. k < z => p + k \in Address /\ q + k \in Address
    BY <1>2, CopyAssumption DEF Address
  <2> QED
    BY <2>1 DEF Byte
<1>6. /\ cmp \in Int
      /\ \/ k = z /\ k = z /\ cmp = 0
         \/ k = z /\ k < z /\ cmp < 0
         \/ k < z /\ k = z /\ cmp > 0
         \/ k < z /\ k < z /\ mem[p + k] # mem[q + k] /\ cmp = mem[p + k] - mem[q + k]
  <2>1. k < z => mem[p + k] - mem[q + k] \in Int
    BY <1>5, Difference
  <2> QED
    BY <1>2, <2>1
<1>7. \A j \in 0..(k - 1) : mem[p + j] = mem[q + j]
  BY <1>3
<1> HIDE DEF cmp
<1>8. Orders(cmp, Run(p, z), Run(q, z))
  BY <1>2, <1>6, <1>7, Compared
<1> QED
  BY <1>4, <1>8

\* Where a character is.
Found(a, k, char_) == {e \in a..(a + k - 1) : mem[e] = char_}

LEMMA Searches ==
  ASSUME mem \in [Address -> Byte], NEW p \in Nat, NEW lp \in Nat, HasLength(mem, p, lp), NEW char_
  PROVE  /\ strchr(mem, p, char_) = IF Found(p, lp, char_) = {} THEN NULL ELSE Least(Found(p, lp, char_))
         /\ strfind(mem, p, char_) = IF Found(p, lp, char_) = {} THEN p + lp ELSE Least(Found(p, lp, char_))
<1> DEFINE there == Found(p, lp, char_)
<1>0. mem[p + lp] = 0 /\ \A j \in 0..(lp - 1) : mem[p + j] # 0
  BY DEF HasLength
<1>1. PICK k \in 0..lp : Stops(AtChar(mem, p, char_), k)
  <2>1. AtChar(mem, p, char_) \in SUBSET Nat /\ lp \in AtChar(mem, p, char_)
    BY <1>0 DEF AtChar
  <2> QED
    BY <2>1, StopsSomewhere
<1>2. mem[p + k] \in {0, char_} /\ \A j \in 0..(k - 1) : mem[p + j] \notin {0, char_}
  BY <1>1 DEF Stops, AtChar
<1>3. strchr(mem, p, char_) = IF mem[p + k] = 0 THEN NULL ELSE p + k
  BY <1>1, StrchrIs
<1>4. strfind(mem, p, char_) = p + k
  BY <1>1, StrfindIs
<1>5. ASSUME NEW a \in there PROVE a >= p + k /\ k # lp
  <2>1. a - p \in 0..(lp - 1) /\ p + (a - p) = a /\ mem[a] = char_ /\ a \in Int
    BY DEF Found
  <2>2. a - p \notin 0..(k - 1)
    BY <1>2, <2>1
  <2> QED
    BY <2>1, <2>2
<1>6. CASE k = lp
  <2>1. there = {}
    BY <1>5, <1>6
  <2> HIDE DEF there
  <2>2. strchr(mem, p, char_) = NULL /\ strfind(mem, p, char_) = p + lp
    BY <1>0, <1>3, <1>4, <1>6
  <2> QED
    BY <2>1, <2>2 DEF there
<1>7. CASE k # lp
  <2>1. k \in 0..(lp - 1) /\ mem[p + k] # 0
    BY <1>0, <1>7
  <2>2. p + k \in there
    BY <1>2, <2>1 DEF Found
  <2>3. there \in SUBSET Int /\ \A a \in there : p + k <= a
    BY <1>5 DEF Found
  <2> HIDE DEF there
  <2>4. Least(there) = p + k
    BY <2>2, <2>3, LeastIs
  <2>5. strchr(mem, p, char_) = p + k /\ there # {}
    BY <1>3, <2>1, <2>2
  <2> QED
    BY <1>4, <2>4, <2>5 DEF there
<1> QED
  BY <1>6, <1>7

LEMMA Memfinds ==
  ASSUME mem \in [Address -> Byte], NEW p \in Nat, NEW z \in Nat, p + z <= N, NEW char_ \in Byte
  PROVE  memfind(mem, p, char_, z) = IF Found(p, z, char_) = {} THEN p + z ELSE Least(Found(p, z, char_))
<1> DEFINE within == Found(p, z, char_)
<1>0. char_ % 256 = char_
  BY DEF Byte
<1>1. PICK k \in 0..z : Stops(AtCharOr(mem, p, char_, z), k)
  <2>1. AtCharOr(mem, p, char_, z) \in SUBSET Nat /\ z \in AtCharOr(mem, p, char_, z)
    BY DEF AtCharOr
  <2> QED
    BY <2>1, StopsSomewhere
<1>2. (k = z \/ mem[p + k] = char_) /\ \A j \in 0..(k - 1) : ~(j = z \/ mem[p + j] = char_)
  BY <1>0, <1>1 DEF Stops, AtCharOr
<1>3. memfind(mem, p, char_, z) = p + k
  BY <1>1, MemfindIs
<1>4. ASSUME NEW a \in within PROVE a >= p + k /\ k # z
  <2>1. a - p \in 0..(z - 1) /\ p + (a - p) = a /\ mem[a] = char_ /\ a \in Int
    BY DEF Found
  <2>2. a - p \notin 0..(k - 1)
    BY <1>2, <2>1
  <2> QED
    BY <2>1, <2>2
<1>5. CASE k = z
  <2>1. within = {}
    BY <1>4, <1>5
  <2> HIDE DEF within
  <2> QED
    BY <1>3, <1>5, <2>1 DEF within
<1>6. CASE k # z
  <2>1. p + k \in within
    BY <1>2, <1>6 DEF Found
  <2>2. within \in SUBSET Int /\ \A a \in within : p + k <= a
    BY <1>4 DEF Found
  <2> HIDE DEF within
  <2>3. Least(within) = p + k /\ within # {}
    BY <2>1, <2>2, LeastIs
  <2> QED
    BY <1>3, <2>3 DEF within
<1> QED
  BY <1>5, <1>6

LEMMA Lengths ==
  ASSUME mem \in [Address -> Byte], NEW p \in Nat, NEW lp \in Nat, HasLength(mem, p, lp), NEW z \in Nat
  PROVE  strlen(mem, p) = lp /\ strnlen(mem, p, z) = IF z < lp THEN z ELSE lp
<1> DEFINE k == IF z < lp THEN z ELSE lp
<1>1. mem[p + lp] = 0 /\ \A j \in 0..(lp - 1) : mem[p + j] # 0
  BY DEF HasLength
<1>2. Stops(AtNul(mem, p), lp)
  BY <1>1 DEF Stops, AtNul
<1>3. k \in Nat /\ k \in AtNulOr(mem, p, z)
  BY <1>1 DEF AtNulOr
<1>4. \A j \in 0..(k - 1) : j \notin AtNulOr(mem, p, z)
  <2> SUFFICES ASSUME NEW j \in 0..(k - 1) PROVE j # z /\ mem[p + j] # 0
    BY DEF AtNulOr
  <2>1. j \in 0..(lp - 1) /\ j # z
    OBVIOUS
  <2> QED
    BY <1>1, <2>1
<1>5. Stops(AtNulOr(mem, p, z), k)
  BY <1>3, <1>4 DEF Stops
<1> HIDE DEF k
<1>6. strnlen(mem, p, z) = k
  BY <1>5, StrnlenIs
<1>7. strlen(mem, p) = lp
  BY <1>2, StrlenIs
<1> QED
  BY <1>6, <1>7 DEF k

\* The functions that only read agree with their reference, wherever strings end and the
\* bytes that are compared or searched are in memory.
THEOREM ReadersRight ==
  ASSUME mem \in [Address -> Byte], NEW p \in Nat, NEW q \in Nat, NEW k \in Nat, NEW char_ \in Byte,
         \E i \in Nat : HasLength(mem, p, i), \E i \in Nat : HasLength(mem, q, i), p + k <= N, q + k <= N
  PROVE  Readers(p, q, k, char_)
<1>1. PICK lp \in Nat : HasLength(mem, p, lp)
  OBVIOUS
<1>2. PICK lq \in Nat : HasLength(mem, q, lq)
  OBVIOUS
<1> DEFINE t == Run(p, lp)
           u == Run(q, lq)
<1>3. StringAt(p) = t /\ StringAt(q) = u /\ p + lp <= N /\ q + lq <= N
  <2>1. StringAt(p) = Run(p, lp) /\ p + lp < N
    BY <1>1, StringIs
  <2>2. StringAt(q) = Run(q, lq) /\ q + lq < N
    BY <1>2, StringIs
  <2> QED
    BY <2>1, <2>2, CopyAssumption
<1> DEFINE kp == IF k < lp THEN k ELSE lp
           kq == IF k < lq THEN k ELSE lq
<1>4. kp \in Nat /\ kq \in Nat /\ p + kp <= N /\ q + kq <= N
  BY <1>3, CopyAssumption
<1>5. First(t, k) = Run(p, kp) /\ First(u, k) = Run(q, kq)
  BY <1>3, FirstIs
<1>6. Len(t) = lp /\ Len(First(t, k)) = kp
  <2> HIDE DEF kp, kq
  <2> QED
    BY <1>3, <1>4, <1>5, RunHas
<1>7. strlen(mem, p) = Len(t) /\ strnlen(mem, p, k) = Len(First(t, k))
  BY <1>1, <1>6, Lengths
<1>8. Orders(strcmp(mem, p, q), t, u)
  BY <1>1, <1>2, Strcmps
<1>9. Orders(strncmp(mem, p, q, k), First(t, k), First(u, k))
  BY <1>1, <1>2, <1>5, Strncmps
<1>10. Orders(memcmp(mem, p, q, k), Run(p, k), Run(q, k))
  BY Memcmps
<1>11. /\ strchr(mem, p, char_) = IF Found(p, lp, char_) = {} THEN NULL ELSE Least(Found(p, lp, char_))
       /\ strfind(mem, p, char_) = IF Found(p, lp, char_) = {} THEN p + lp ELSE Least(Found(p, lp, char_))
  BY <1>1, Searches
<1>12. memfind(mem, p, char_, k) = IF Found(p, k, char_) = {} THEN p + k ELSE Least(Found(p, k, char_))
  BY Memfinds
<1> HIDE DEF t, u
<1> QED
  BY <1>3, <1>6, <1>7, <1>8, <1>9, <1>10, <1>11, <1>12 DEF Readers, Run, Found

-----------------------------------------------------------------------------
(* Numbers that wrap *)

LEMMA Divided ==
  ASSUME NEW M \in Nat \ {0}, NEW v \in Int
  PROVE  \E q \in Int, r \in 0..(M - 1) : v = (M * q) + r /\ v % M = r
<1>1. (v % M) \in 0..(M - 1) /\ v = (M * (v \div M)) + (v % M) /\ (v \div M) \in Int
  OBVIOUS
<1> QED
  BY <1>1

LEMMA OneRest ==
  ASSUME NEW M \in Nat \ {0}, NEW r \in 0..(M - 1), NEW r_ \in 0..(M - 1), NEW q \in Int, NEW q_ \in Int,
         (M * q) + r = (M * q_) + r_
  PROVE  r = r_
<1>1. ASSUME q < q_ PROVE FALSE
  <2>1. M * (q_ - q) >= M
    BY <1>1
  <2> QED
    BY <2>1
<1>2. ASSUME q_ < q PROVE FALSE
  <2>1. M * (q - q_) >= M
    BY <1>2
  <2> QED
    BY <2>1
<1> QED
  BY <1>1, <1>2

LEMMA SameRest ==
  ASSUME NEW M \in Nat \ {0}, NEW v \in Int, NEW i \in Int
  PROVE  (v + (M * i)) % M = v % M
<1>1. PICK q \in Int, r \in 0..(M - 1) : v = (M * q) + r /\ v % M = r
  BY Divided
<1>2. PICK w \in Int : w = v + (M * i)
  OBVIOUS
<1>3. PICK q_ \in Int, r_ \in 0..(M - 1) : w = (M * q_) + r_ /\ w % M = r_
  BY Divided
<1>4. w = (M * (q + i)) + r
  BY <1>1, <1>2
<1>5. q + i \in Int /\ (M * (q + i)) + r = (M * q_) + r_
  BY <1>3, <1>4
<1>6. r = r_
  BY <1>5, OneRest
<1> QED
  BY <1>1, <1>2, <1>3, <1>6

LEMMA SignedOff ==
  ASSUME NEW M \in Nat \ {0}, NEW v \in Int
  PROVE  \E q \in Int : Signed(v, M) = v - (M * q)
<1>1. PICK h \in Int : h = M \div 2
  OBVIOUS
<1>2. PICK q \in Int, r \in 0..(M - 1) : v + h = (M * q) + r /\ (v + h) % M = r
  <2>1. v + h \in Int
    OBVIOUS
  <2> QED
    BY <2>1, Divided
<1>3. Signed(v, M) = r - h
  BY <1>1, <1>2 DEF Signed
<1> QED
  BY <1>2, <1>3

LEMMA SignedSame ==
  ASSUME NEW M \in Nat \ {0}, NEW v \in Int, NEW q \in Int
  PROVE  Signed(v - (M * q), M) = Signed(v, M)
<1>1. PICK h \in Int : h = M \div 2
  OBVIOUS
<1>2. ((v + h) + (M * (-q))) % M = (v + h) % M
  <2>1. v + h \in Int /\ -q \in Int
    OBVIOUS
  <2> QED
    BY <2>1, SameRest
<1>3. (v - (M * q)) + h = (v + h) + (M * (-q))
  OBVIOUS
<1> QED
  BY <1>1, <1>2, <1>3 DEF Signed

\* What wraps at every step is what wraps once.
LEMMA SignedStep ==
  ASSUME NEW M \in Nat \ {0}, NEW v \in Int, NEW r \in Int, NEW e \in Int
  PROVE  /\ Signed((Signed(v, M) * r) + e, M) = Signed((v * r) + e, M)
         /\ Signed(-Signed(v, M), M) = Signed(-v, M)
<1>1. PICK q \in Int : Signed(v, M) = v - (M * q)
  BY SignedOff
<1>2. Signed(((v * r) + e) - (M * (q * r)), M) = Signed((v * r) + e, M)
  <2>1. (v * r) + e \in Int /\ q * r \in Int
    OBVIOUS
  <2> QED
    BY <2>1, SignedSame
<1>3. ((v - (M * q)) * r) + e = ((v * r) + e) - (M * (q * r))
  OBVIOUS
<1>4. Signed((-v) - (M * (-q)), M) = Signed(-v, M)
  <2>1. -v \in Int /\ -q \in Int
    OBVIOUS
  <2> QED
    BY <2>1, SignedSame
<1>5. -(v - (M * q)) = (-v) - (M * (-q))
  OBVIOUS
<1> QED
  BY <1>1, <1>2, <1>3, <1>4, <1>5

LEMMA SignedZero == \A M \in Nat \ {0} : Signed(0, M) = 0
<1> SUFFICES ASSUME NEW M \in Nat \ {0} PROVE Signed(0, M) = 0
  OBVIOUS
<1>1. PICK h \in 0..(M - 1) : h = M \div 2
  OBVIOUS
<1>2. (0 + h) % M = h
  OBVIOUS
<1> QED
  BY <1>1, <1>2 DEF Signed

-----------------------------------------------------------------------------
(* Loops that count up *)

\* A value that is computed from the one before it.
IsCount(f, v, G) == f = [k \in Nat |-> IF k = 0 THEN v ELSE G[k][f[k - 1]]]

\* As far as n_.
Upto(v, G, n_, f) == f[0] = v /\ \A k \in 1..n_ : f[k] = G[k][f[k - 1]]

LEMMA UptoOne ==
  ASSUME NEW v, NEW G, NEW n_ \in Nat, NEW f, Upto(v, G, n_, f), NEW g, Upto(v, G, n_, g)
  PROVE  f[n_] = g[n_]
<1> DEFINE S == {k \in Nat : k <= n_ => f[k] = g[k]}
<1>1. 0 \in S
  BY DEF Upto
<1>2. ASSUME NEW k \in Nat, k \in S PROVE k + 1 \in S
  <2> SUFFICES ASSUME k + 1 <= n_ PROVE f[k + 1] = g[k + 1]
    OBVIOUS
  <2>1. k + 1 \in 1..n_ /\ (k + 1) - 1 = k /\ f[k] = g[k]
    BY <1>2
  <2>2. f[k + 1] = G[k + 1][f[(k + 1) - 1]] /\ g[k + 1] = G[k + 1][g[(k + 1) - 1]]
    BY <2>1 DEF Upto
  <2> QED
    BY <2>1, <2>2
<1>3. n_ \in S
  <2> HIDE DEF S
  <2> QED
    BY <1>1, <1>2, Induct
<1> QED
  BY <1>3

LEMMA CountExists ==
  ASSUME NEW v, NEW G
  PROVE  \E f : IsCount(f, v, G)
<1> DEFINE S == {k \in Nat : \E g : Upto(v, G, k, g)}
           one(k) == CHOOSE g : Upto(v, G, k, g)
           f == [k \in Nat |-> one(k)[k]]
<1>1. 0 \in S
  <2>1. Upto(v, G, 0, [k \in {0} |-> v])
    BY DEF Upto
  <2> QED
    BY <2>1
<1>2. ASSUME NEW k \in Nat, k \in S PROVE k + 1 \in S
  <2>1. PICK g : Upto(v, G, k, g)
    BY <1>2
  <2> DEFINE h == [j \in 0..(k + 1) |-> IF j = k + 1 THEN G[k + 1][g[k]] ELSE g[j]]
  <2>2. h[0] = v
    BY <2>1 DEF Upto
  <2>3. ASSUME NEW j \in 1..(k + 1) PROVE h[j] = G[j][h[j - 1]]
    <3>1. CASE j = k + 1
      <4>1. h[j] = G[k + 1][g[k]] /\ j - 1 = k /\ h[k] = g[k]
        BY <3>1
      <4> QED
        BY <3>1, <4>1
    <3>2. CASE j # k + 1
      <4>1. j \in 1..k /\ h[j] = g[j] /\ h[j - 1] = g[j - 1]
        BY <3>2
      <4>2. g[j] = G[j][g[j - 1]]
        BY <2>1, <4>1 DEF Upto
      <4> QED
        BY <4>1, <4>2
    <3> QED
      BY <3>1, <3>2
  <2> HIDE DEF h
  <2>4. Upto(v, G, k + 1, h)
    BY <2>2, <2>3 DEF Upto
  <2> QED
    BY <2>4
<1>3. ASSUME NEW k \in Nat PROVE Upto(v, G, k, one(k))
  <2>1. k \in S
    <3> HIDE DEF S
    <3> QED
      BY <1>1, <1>2, Induct
  <2>2. \E g : Upto(v, G, k, g)
    BY <2>1
  <2> QED
    BY <2>2, Zenon
<1> HIDE DEF S, one
<1>4. f[0] = v
  <2>1. Upto(v, G, 0, one(0))
    BY <1>3
  <2> QED
    BY <2>1 DEF Upto
<1>5. ASSUME NEW k \in Nat, k # 0 PROVE f[k] = G[k][f[k - 1]]
  <2>1. k - 1 \in Nat /\ k \in 1..k
    BY <1>5
  <2>2. Upto(v, G, k, one(k)) /\ Upto(v, G, k - 1, one(k - 1))
    BY <1>3, <2>1
  <2>3. Upto(v, G, k - 1, one(k))
    BY <2>1, <2>2 DEF Upto
  <2>4. one(k)[k - 1] = one(k - 1)[k - 1]
    BY <2>1, <2>2, <2>3, UptoOne
  <2>5. one(k)[k] = G[k][one(k)[k - 1]]
    BY <2>1, <2>2 DEF Upto
  <2> QED
    BY <2>1, <2>4, <2>5
<1>6. f = [k \in Nat |-> f[k]]
  OBVIOUS
<1> HIDE DEF f
<1>7. f = [k \in Nat |-> IF k = 0 THEN v ELSE G[k][f[k - 1]]]
  BY <1>4, <1>5, <1>6
<1> QED
  BY <1>7 DEF IsCount

\* An integer that is computed from the one before it.
LEMMA CountsInt ==
  ASSUME NEW v \in Int, NEW G, \A k \in Nat \ {0} : \A e \in Int : G[k][e] \in Int,
         NEW f, IsCount(f, v, G)
  PROVE  /\ f[0] = v
         /\ \A k \in Nat : f[k] \in Int /\ f[k + 1] = G[k + 1][f[k]]
<1> DEFINE S == {k \in Nat : f[k] \in Int}
<1>0. f = [k \in Nat |-> IF k = 0 THEN v ELSE G[k][f[k - 1]]]
  BY DEF IsCount
<1>1. f[0] = v
  BY <1>0
<1>2. ASSUME NEW k \in Nat PROVE f[k + 1] = G[k + 1][f[k]]
  <2>1. k + 1 \in Nat /\ k + 1 # 0 /\ (k + 1) - 1 = k
    OBVIOUS
  <2>2. f[k + 1] = G[k + 1][f[(k + 1) - 1]]
    BY <1>0, <2>1
  <2> QED
    BY <2>1, <2>2
<1>3. 0 \in S
  BY <1>1
<1>4. ASSUME NEW k \in Nat, k \in S PROVE k + 1 \in S
  <2>1. k + 1 \in Nat \ {0} /\ f[k] \in Int
    BY <1>4
  <2>2. G[k + 1][f[k]] \in Int
    BY <2>1
  <2> QED
    BY <1>2, <2>1, <2>2
<1>5. Nat \subseteq S
  <2> HIDE DEF S
  <2> QED
    BY <1>3, <1>4, Induct
<1> QED
  BY <1>1, <1>2, <1>5

-----------------------------------------------------------------------------
(* strtol *)

LEMMA DigIs == \A e : dig(e) \in 0..99
BY DEF dig

LEMMA PowerIs ==
  ASSUME NEW r \in Int
  PROVE  /\ Power(r, 0) = 1
         /\ \A k \in Nat : Power(r, k) \in Int /\ Power(r, k + 1) = r * Power(r, k)
<1> DEFINE G == [k \in Nat |-> [x \in Int |-> r * x]]
           power == CHOOSE g : g = [k \in Nat |-> IF k = 0 THEN 1 ELSE r * g[k - 1]]
<1>0. \A k \in Nat \ {0} : \A e \in Int : G[k][e] \in Int
  OBVIOUS
<1>1. PICK f : IsCount(f, 1, G)
  <2> HIDE DEF G
  <2> QED
    BY CountExists
<1>2. f[0] = 1 /\ \A k \in Nat : f[k] \in Int /\ f[k + 1] = G[k + 1][f[k]]
  <2> HIDE DEF G
  <2> QED
    BY <1>0, <1>1, CountsInt
<1>3. f = [k \in Nat |-> IF k = 0 THEN 1 ELSE r * f[k - 1]]
  <2>1. f = [k \in Nat |-> f[k]]
    BY <1>1 DEF IsCount
  <2>2. ASSUME NEW k \in Nat PROVE f[k] = IF k = 0 THEN 1 ELSE r * f[k - 1]
    <3>1. CASE k # 0
      <4>1. k - 1 \in Nat /\ (k - 1) + 1 = k /\ k \in Nat
        BY <3>1
      <4>2. f[k - 1] \in Int /\ f[(k - 1) + 1] = G[(k - 1) + 1][f[k - 1]]
        BY <1>2, <4>1
      <4> QED
        BY <3>1, <4>1, <4>2
    <3> QED
      BY <1>2, <3>1
  <2> HIDE DEF G
  <2> QED
    BY <2>1, <2>2
<1>4. power = [k \in Nat |-> IF k = 0 THEN 1 ELSE r * power[k - 1]]
  BY <1>3, Zenon
<1>5. \A k : Power(r, k) = power[k]
  BY DEF Power
<1> HIDE DEF power, G
<1>6. power[0] = 1
  BY <1>4
<1>7. \A k \in Nat : power[k + 1] = r * power[k]
  <2> SUFFICES ASSUME NEW k \in Nat PROVE power[k + 1] = r * power[k]
    OBVIOUS
  <2>1. k + 1 \in Nat /\ k + 1 # 0 /\ (k + 1) - 1 = k
    OBVIOUS
  <2>2. power[k + 1] = r * power[(k + 1) - 1]
    BY <1>4, <2>1
  <2> QED
    BY <2>1, <2>2
<1>8. Nat \subseteq {k \in Nat : power[k] \in Int}
  <2> DEFINE S == {k \in Nat : power[k] \in Int}
  <2>1. 0 \in S
    BY <1>6
  <2>2. ASSUME NEW k \in Nat, k \in S PROVE k + 1 \in S
    BY <1>7, <2>2
  <2> HIDE DEF S
  <2>3. Nat \subseteq S
    BY <2>1, <2>2, Induct
  <2> QED
    BY <2>3 DEF S
<1> QED
  BY <1>5, <1>6, <1>7, <1>8

\* Where the blanks end, and the digits.
AtBlanksEnd(m, a) == {i \in Nat : m[a + i] \notin {SPACE, TAB}}
AtDigitsEnd(m, a, radix) == {i \in Nat : dig(m[a + i]) >= radix}

LEMMA SkippedIs ==
  ASSUME NEW m, NEW a, NEW k, Stops(AtBlanksEnd(m, a), k)
  PROVE  skipped(m, a) = a + k
<1> DEFINE V == [i \in Nat |-> a + i]
           loop == CHOOSE g : g = [i \in Nat |-> IF m[a + i] \notin {SPACE, TAB} THEN a + i ELSE g[i + 1]]
<1>1. \A g : g = [i \in Nat |-> IF m[a + i] \notin {SPACE, TAB} THEN a + i ELSE g[i + 1]]
              <=> IsLoop(g, AtBlanksEnd(m, a), V)
  BY DEF IsLoop, AtBlanksEnd
<1>2. IsLoop(loop, AtBlanksEnd(m, a), V)
  <2>1. \E g : IsLoop(g, AtBlanksEnd(m, a), V)
    <3> HIDE DEF V, loop
    <3> QED
      BY LoopExists
  <2>2. loop = [i \in Nat |-> IF m[a + i] \notin {SPACE, TAB} THEN a + i ELSE loop[i + 1]]
    BY <1>1, <2>1, Zenon
  <2> HIDE DEF loop
  <2> QED
    BY <1>1, <2>2, Zenon
<1>3. skipped(m, a) = loop[0]
  BY DEF skipped
<1>4. loop[0] = V[k]
  <2> HIDE DEF loop, V
  <2> QED
    BY <1>2, Scans
<1> HIDE DEF loop
<1> QED
  BY <1>3, <1>4 DEF Stops

LEMMA DigitRunIs ==
  ASSUME NEW m, NEW a, NEW radix, NEW k, Stops(AtDigitsEnd(m, a, radix), k)
  PROVE  digit_run(m, a, radix) = k
<1> DEFINE V == [i \in Nat |-> i]
           loop == CHOOSE g : g = [i \in Nat |-> IF dig(m[a + i]) >= radix THEN i ELSE g[i + 1]]
<1>1. \A g : g = [i \in Nat |-> IF dig(m[a + i]) >= radix THEN i ELSE g[i + 1]]
              <=> IsLoop(g, AtDigitsEnd(m, a, radix), V)
  BY DEF IsLoop, AtDigitsEnd
<1>2. IsLoop(loop, AtDigitsEnd(m, a, radix), V)
  <2>1. \E g : IsLoop(g, AtDigitsEnd(m, a, radix), V)
    <3> HIDE DEF V, loop
    <3> QED
      BY LoopExists
  <2>2. loop = [i \in Nat |-> IF dig(m[a + i]) >= radix THEN i ELSE loop[i + 1]]
    BY <1>1, <2>1, Zenon
  <2> HIDE DEF loop
  <2> QED
    BY <1>1, <2>2, Zenon
<1>3. digit_run(m, a, radix) = loop[0]
  BY DEF digit_run
<1>4. loop[0] = V[k]
  <2> HIDE DEF loop, V
  <2> QED
    BY <1>2, Scans
<1> HIDE DEF loop
<1> QED
  BY <1>3, <1>4 DEF Stops

\* A number by its digits from the first one on, without wrapping; there is one,
IsHorner(h, m, from, radix) ==
  /\ h[0] = 0
  /\ \A k \in Nat : h[k] \in Int /\ h[k + 1] = (h[k] * radix) + dig(m[from + k])

LEMMA HornerExists ==
  ASSUME NEW m, NEW from \in Nat, NEW radix \in Int
  PROVE  \E h : IsHorner(h, m, from, radix)
<1> DEFINE G == [k \in Nat |-> [x \in Int |-> (x * radix) + dig(m[from + k - 1])]]
<1>1. \A k \in Nat \ {0} : \A e \in Int : G[k][e] \in Int
  <2> SUFFICES ASSUME NEW k \in Nat, NEW e \in Int PROVE G[k][e] \in Int
    OBVIOUS
  <2>1. dig(m[from + k - 1]) \in 0..99
    BY DigIs
  <2>2. (e * radix) + dig(m[from + k - 1]) \in Int
    BY <2>1
  <2> QED
    BY <2>2
<1>2. PICK h : IsCount(h, 0, G)
  <2> HIDE DEF G
  <2> QED
    BY CountExists
<1>3. h[0] = 0 /\ \A k \in Nat : h[k] \in Int /\ h[k + 1] = G[k + 1][h[k]]
  <2> HIDE DEF G
  <2> QED
    BY <1>1, <1>2, CountsInt
<1>4. ASSUME NEW k \in Nat PROVE h[k + 1] = (h[k] * radix) + dig(m[from + k])
  <2>1. k + 1 \in Nat /\ from + (k + 1) - 1 = from + k /\ h[k] \in Int
    <3> HIDE DEF G
    <3> QED
      BY <1>3
  <2>2. G[k + 1][h[k]] = (h[k] * radix) + dig(m[from + (k + 1) - 1])
    BY <2>1
  <2> QED
    BY <1>3, <2>1, <2>2
<1> HIDE DEF G
<1> QED
  BY <1>3, <1>4 DEF IsHorner

\* strtol's value is the same, wrapped,
LEMMA ValuedIs ==
  ASSUME NEW m, NEW from \in Nat, NEW radix \in Int, NEW M \in Nat \ {0},
         NEW h, IsHorner(h, m, from, radix), NEW n_ \in Nat
  PROVE  valued(m, from, radix, n_, M) = Signed(h[n_], M)
<1> DEFINE Form(g) == g = [k \in Nat |-> IF k = 0 THEN 0
                                         ELSE Signed(g[k - 1] * radix + dig(m[from + k - 1]), M)]
           val == CHOOSE g : Form(g)
           w == [k \in Nat |-> Signed(h[k], M)]
<1>1. \A k \in Nat : w[k] = Signed(h[k], M)
  OBVIOUS
<1>2. ASSUME NEW k \in Nat
      PROVE  w[k] = IF k = 0 THEN 0 ELSE Signed(w[k - 1] * radix + dig(m[from + k - 1]), M)
  <2>1. CASE k = 0
    BY <2>1, SignedZero DEF IsHorner
  <2>2. CASE k # 0
    <3>1. k - 1 \in Nat /\ (k - 1) + 1 = k /\ from + (k - 1) = from + k - 1
      BY <2>2
    <3>2. h[k - 1] \in Int /\ h[(k - 1) + 1] = (h[k - 1] * radix) + dig(m[from + (k - 1)])
      BY <3>1 DEF IsHorner
    <3>3. dig(m[from + (k - 1)]) \in Int
      BY DigIs
    <3>4. Signed((Signed(h[k - 1], M) * radix) + dig(m[from + (k - 1)]), M)
            = Signed((h[k - 1] * radix) + dig(m[from + (k - 1)]), M)
      BY <3>2, <3>3, SignedStep
    <3>5. w[k] = Signed(h[k], M) /\ w[k - 1] = Signed(h[k - 1], M)
      BY <3>1
    <3> HIDE DEF w
    <3> QED
      BY <2>2, <3>1, <3>2, <3>4, <3>5
  <2> QED
    BY <2>1, <2>2
<1>3. Form(w)
  <2>1. w = [k \in Nat |-> w[k]]
    OBVIOUS
  <2> HIDE DEF w
  <2> QED
    BY <1>2, <2>1
<1>4. Form(val)
  <2>1. \E g : Form(g)
    BY <1>3
  <2> HIDE DEF Form
  <2> QED
    BY <2>1, Zenon
<1>5. valued(m, from, radix, n_, M) = val[n_]
  BY DEF valued
<1> HIDE DEF val, w
<1> DEFINE S == {k \in Nat : val[k] = w[k]}
<1>6. 0 \in S
  BY <1>3, <1>4
<1>7. ASSUME NEW k \in Nat, k \in S PROVE k + 1 \in S
  <2>1. k + 1 \in Nat /\ k + 1 # 0 /\ (k + 1) - 1 = k
    OBVIOUS
  <2>2. /\ val[k + 1] = Signed(val[(k + 1) - 1] * radix + dig(m[from + (k + 1) - 1]), M)
        /\ w[k + 1] = Signed(w[(k + 1) - 1] * radix + dig(m[from + (k + 1) - 1]), M)
    BY <1>3, <1>4, <2>1
  <2>3. val[k] = w[k]
    BY <1>7
  <2> QED
    BY <2>1, <2>2, <2>3
<1>8. n_ \in S
  <2> HIDE DEF S
  <2> QED
    BY <1>6, <1>7, Induct
<1> QED
  BY <1>1, <1>5, <1>8

\* and so is what the digits are worth, each in its place.
Spells(t, m, from, many) == \A k \in 1..many : t[from + k] = m[from + (k - 1)]

LEMMA WorthIs ==
  ASSUME NEW m, NEW from \in Nat, NEW radix \in Int, NEW many \in Nat, NEW t, Spells(t, m, from, many),
         NEW h, IsHorner(h, m, from, radix)
  PROVE  Worth(t, from, many, radix) = h[many]
<1> DEFINE Form(g) == g = [k \in 0..many |-> IF k = 0 THEN 0
                                     ELSE g[k - 1] + dig(t[from + k]) * Power(radix, many - k)]
           sum == CHOOSE g : Form(g)
           w == [k \in 0..many |-> h[k] * Power(radix, many - k)]
<1>1. ASSUME NEW k \in 0..many
      PROVE  w[k] = IF k = 0 THEN 0 ELSE w[k - 1] + dig(t[from + k]) * Power(radix, many - k)
  <2>0. many - k \in Nat /\ Power(radix, many - k) \in Int /\ k \in Nat
    BY PowerIs
  <2>1. CASE k = 0
    BY <2>0, <2>1 DEF IsHorner
  <2>2. CASE k # 0
    <3>1. /\ k - 1 \in Nat /\ k - 1 \in 0..many /\ (k - 1) + 1 = k /\ k \in 1..many
          /\ many - (k - 1) = (many - k) + 1
      BY <2>2
    <3>2. h[k - 1] \in Int /\ h[(k - 1) + 1] = (h[k - 1] * radix) + dig(m[from + (k - 1)])
      BY <3>1 DEF IsHorner
    <3>3. t[from + k] = m[from + (k - 1)]
      BY <3>1 DEF Spells
    <3>4. dig(t[from + k]) \in Int
      BY DigIs
    <3>5. Power(radix, (many - k) + 1) = radix * Power(radix, many - k)
      BY <2>0, PowerIs
    <3>6. w[k] = h[k] * Power(radix, many - k) /\ w[k - 1] = h[k - 1] * Power(radix, many - (k - 1))
      BY <3>1
    <3>7. h[k] = (h[k - 1] * radix) + dig(t[from + k])
      BY <3>1, <3>2, <3>3
    <3>8. \A x, e, y, z \in Int : ((x * y) + e) * z = (x * (y * z)) + (e * z)
      OBVIOUS
    <3>9. ((h[k - 1] * radix) + dig(t[from + k])) * Power(radix, many - k)
            = (h[k - 1] * (radix * Power(radix, many - k))) + (dig(t[from + k]) * Power(radix, many - k))
      BY <2>0, <3>2, <3>4, <3>8
    <3> HIDE DEF w
    <3> QED
      BY <2>2, <3>1, <3>5, <3>6, <3>7, <3>9
  <2> QED
    BY <2>1, <2>2
<1>2. Form(w)
  <2>1. w = [k \in 0..many |-> w[k]]
    OBVIOUS
  <2> HIDE DEF w
  <2> QED
    BY <1>1, <2>1
<1>3. Form(sum)
  <2>1. \E g : Form(g)
    BY <1>2
  <2> HIDE DEF Form
  <2> QED
    BY <2>1, Zenon
<1>4. Worth(t, from, many, radix) = sum[many]
  BY DEF Worth
<1>5. w[many] = h[many]
  <2>1. w[many] = h[many] * Power(radix, many - many) /\ many - many = 0 /\ h[many] \in Int
    BY DEF IsHorner
  <2>2. Power(radix, 0) = 1
    BY PowerIs
  <2>3. Power(radix, many - many) = 1
    BY <2>1, <2>2
  <2> HIDE DEF w
  <2> QED
    BY <2>1, <2>3
<1> HIDE DEF sum, w
<1> DEFINE S == {k \in Nat : k <= many => sum[k] = w[k]}
<1>6. 0 \in S
  <2>1. 0 \in 0..many
    OBVIOUS
  <2> QED
    BY <1>2, <1>3, <2>1
<1>7. ASSUME NEW k \in Nat, k \in S PROVE k + 1 \in S
  <2> SUFFICES ASSUME k + 1 <= many PROVE sum[k + 1] = w[k + 1]
    OBVIOUS
  <2>1. k + 1 \in 0..many /\ k + 1 # 0 /\ (k + 1) - 1 = k
    OBVIOUS
  <2>2. /\ sum[k + 1] = sum[(k + 1) - 1] + dig(t[from + (k + 1)]) * Power(radix, many - (k + 1))
        /\ w[k + 1] = w[(k + 1) - 1] + dig(t[from + (k + 1)]) * Power(radix, many - (k + 1))
    BY <1>2, <1>3, <2>1
  <2>3. sum[k] = w[k]
    BY <1>7
  <2> QED
    BY <2>1, <2>2, <2>3
<1>8. many \in S
  <2> HIDE DEF S
  <2> QED
    BY <1>6, <1>7, Induct
<1> QED
  BY <1>4, <1>5, <1>8

\* A place where a loop stops first is the least of those within a string.
Within(S, Stop, f, l) == \A e \in Int : e \in S <=> e \in f..l /\ e - f \in Stop

LEMMA LeastStop ==
  ASSUME NEW Stop \in SUBSET Nat, NEW k, Stops(Stop, k), NEW S \in SUBSET Int, NEW l \in Nat, NEW f \in Nat,
         k <= l - f, Within(S, Stop, f, l)
  PROVE  Least(S) = f + k
<1> USE DEF Within
<1>1. k \in Nat /\ k \in Stop /\ \A j \in 0..(k - 1) : j \notin Stop
  BY DEF Stops
<1>2. f + k \in Int /\ f + k \in f..l /\ (f + k) - f = k
  BY <1>1
<1>3. f + k \in S
  BY <1>1, <1>2
<1>4. ASSUME NEW e \in S PROVE f + k <= e
  <2>1. e \in Int /\ e \in f..l /\ e - f \in Stop
    OBVIOUS
  <2>2. e - f \notin 0..(k - 1)
    BY <1>1, <2>1
  <2> QED
    BY <1>1, <2>1, <2>2
<1> QED
  BY <1>3, <1>4, LeastIs

\* The characters of a string in memory.
LEMMA CharsAre ==
  ASSUME mem \in [Address -> Byte], NEW l \in Nat, HasLength(mem, 0, l)
  PROVE  /\ Len(Run(0, l)) = l /\ l < N /\ mem[l] = 0 /\ \A j \in 0..(l - 1) : mem[j] # 0
         /\ \A j \in 0..l : CharAt(Run(0, l), j + 1) = mem[j] /\ mem[j] \in 0..255
         /\ \A j \in 1..l : Run(0, l)[j] = mem[j - 1]
<1>1. l \in Address /\ 0 + l = l /\ mem[l] = 0 /\ 0 + l <= N /\ l < N
  BY CopyAssumption DEF HasLength, Address
<1>2. \A j \in 0..(l - 1) : mem[j] # 0
  <2>1. \A j \in 0..(l - 1) : mem[0 + j] # 0 /\ 0 + j = j
    BY DEF HasLength
  <2> QED
    BY <2>1
<1>3. Len(Run(0, l)) = l
  BY <1>1, RunHas
<1>4. ASSUME NEW j \in 1..l PROVE Run(0, l)[j] = mem[j - 1]
  <2>1. Run(0, l)[j] = mem[0 + (j - 1)] /\ 0 + (j - 1) = j - 1
    BY <1>1, RunHas
  <2> QED
    BY <2>1
<1>5. ASSUME NEW j \in 0..l PROVE CharAt(Run(0, l), j + 1) = mem[j] /\ mem[j] \in 0..255
  <2>1. j \in Address
    BY <1>1, CopyAssumption DEF Address
  <2>2. mem[j] \in 0..255
    BY <2>1 DEF Byte
  <2>3. CASE j = l
    BY <1>1, <1>3, <2>2, <2>3 DEF CharAt
  <2>4. CASE j # l
    <3>1. j + 1 \in 1..l /\ (j + 1) - 1 = j
      BY <2>4
    <3>2. Run(0, l)[j + 1] = mem[(j + 1) - 1]
      BY <1>4, <3>1
    <3> QED
      BY <1>3, <2>2, <3>1, <3>2 DEF CharAt
  <2> QED
    BY <2>3, <2>4
<1> QED
  BY <1>1, <1>2, <1>3, <1>4, <1>5

LEMMA BlanksAre ==
  ASSUME mem \in [Address -> Byte], NEW l \in Nat, HasLength(mem, 0, l)
  PROVE  Blanks(Run(0, l)) \in 0..l /\ skipped(mem, 0) = Blanks(Run(0, l))
<1> DEFINE Stop == AtBlanksEnd(mem, 0)
           S == {k \in 0..Len(Run(0, l)) : CharAt(Run(0, l), k + 1) \notin {SPACE, TAB}}
<1>1. Len(Run(0, l)) = l /\ mem[l] = 0 /\ \A j \in 0..l : CharAt(Run(0, l), j + 1) = mem[j]
  BY CharsAre
<1>2. \A j \in Nat : j \in Stop <=> mem[j] \notin {SPACE, TAB}
  <2>1. \A j \in Nat : 0 + j = j
    OBVIOUS
  <2> QED
    BY <2>1 DEF AtBlanksEnd
<1>3. Stop \in SUBSET Nat /\ l \in Stop
  <2>1. mem[l] \notin {SPACE, TAB}
    BY <1>1 DEF SPACE, TAB
  <2> QED
    BY <1>2, <2>1 DEF AtBlanksEnd
<1>4. S \in SUBSET Int /\ Within(S, Stop, 0, l)
  <2>1. S \in SUBSET Int
    BY <1>1
  <2>2. ASSUME NEW e \in Int PROVE e \in S <=> e \in 0..l /\ e - 0 \in Stop
    <3>1. e \in 0..l => e \in Nat /\ e - 0 = e /\ CharAt(Run(0, l), e + 1) = mem[e]
      BY <1>1
    <3>2. e \in S <=> e \in 0..l /\ CharAt(Run(0, l), e + 1) \notin {SPACE, TAB}
      BY <1>1
    <3> HIDE DEF S, Stop
    <3> QED
      BY <1>2, <3>1, <3>2
  <2> QED
    BY <2>1, <2>2 DEF Within
<1>5. Blanks(Run(0, l)) = Least(S)
  BY DEF Blanks
<1> HIDE DEF S
<1>6. PICK k \in 0..l : Stops(Stop, k)
  BY <1>3, StopsSomewhere
<1>7. PICK f \in Nat : f = 0
  OBVIOUS
<1>8. skipped(mem, 0) = 0 + k /\ 0 + k = k
  BY <1>6, SkippedIs
<1> HIDE DEF Stop
<1>9. k <= l - f /\ Within(S, Stop, f, l)
  BY <1>4, <1>7
<1>10. Least(S) = f + k
  BY <1>3, <1>4, <1>6, <1>9, LeastStop
<1> QED
  BY <1>5, <1>7, <1>8, <1>10

LEMMA DigitsAre ==
  ASSUME mem \in [Address -> Byte], NEW l \in Nat, HasLength(mem, 0, l),
         NEW from \in 0..l, NEW radix \in 2..36
  PROVE  /\ DigitsEnd(Run(0, l), from, radix) \in from..l
         /\ digit_run(mem, from, radix) = DigitsEnd(Run(0, l), from, radix) - from
<1> DEFINE Stop == AtDigitsEnd(mem, from, radix)
           S == {k \in from..Len(Run(0, l)) : dig(CharAt(Run(0, l), k + 1)) >= radix}
<1>1. Len(Run(0, l)) = l /\ mem[l] = 0 /\ \A j \in 0..l : CharAt(Run(0, l), j + 1) = mem[j]
  BY CharsAre
<1>2. \A j \in Nat : j \in Stop <=> dig(mem[from + j]) >= radix
  BY DEF AtDigitsEnd
<1>3. Stop \in SUBSET Nat /\ l - from \in Stop
  <2>1. dig(0) = 99
    BY DEF dig
  <2>2. l - from \in Nat /\ from + (l - from) = l
    OBVIOUS
  <2>3. dig(mem[l]) >= radix
    BY <1>1, <2>1
  <2>4. l - from \in Stop
    BY <1>2, <2>2, <2>3
  <2> QED
    BY <2>4 DEF AtDigitsEnd
<1>4. S \in SUBSET Int /\ Within(S, Stop, from, l)
  <2>1. S \in SUBSET Int
    BY <1>1
  <2>2. ASSUME NEW e \in Int PROVE e \in S <=> e \in from..l /\ e - from \in Stop
    <3>1. e \in from..l => e - from \in Nat /\ from + (e - from) = e /\ CharAt(Run(0, l), e + 1) = mem[e]
      BY <1>1
    <3>2. e \in S <=> e \in from..l /\ dig(CharAt(Run(0, l), e + 1)) >= radix
      BY <1>1
    <3> HIDE DEF S, Stop
    <3> QED
      BY <1>2, <3>1, <3>2
  <2> QED
    BY <2>1, <2>2 DEF Within
<1>5. DigitsEnd(Run(0, l), from, radix) = Least(S)
  BY DEF DigitsEnd
<1> HIDE DEF S
<1>6. PICK k \in 0..(l - from) : Stops(Stop, k)
  BY <1>3, StopsSomewhere
<1>7. k <= l - from /\ from + k \in from..l /\ from \in Nat
  OBVIOUS
<1>8. digit_run(mem, from, radix) = k
  BY <1>6, DigitRunIs
<1> HIDE DEF Stop
<1>9. Least(S) = from + k
  BY <1>3, <1>4, <1>6, <1>7, LeastStop
<1> QED
  BY <1>5, <1>7, <1>8, <1>9

\* strtol, for every string and base: where it stops, and what it returns.
LEMMA LongReads ==
  ASSUME mem \in [Address -> Byte], NEW l \in Nat, HasLength(mem, 0, l),
         NEW base \in {0} \cup 2..36
  PROVE  LongRead(base)
<1> DEFINE t == StringAt(0)
           blanks == Blanks(t)
           sign == CharAt(t, blanks + 1)
           o == blanks + (IF sign \in {PLUS, MINUS} THEN 1 ELSE 0)
           hex == base \in {0, 16} /\ CharAt(t, o + 1) = ZERO /\ CharAt(t, o + 2) = LowerX
           octal == base = 0 /\ ~hex /\ CharAt(t, o + 1) = ZERO
           radix == IF hex THEN 16 ELSE IF octal THEN 8 ELSE IF base = 0 THEN 10 ELSE base
           from == o + (IF hex THEN 2 ELSE IF octal THEN 1 ELSE 0)
           to == DigitsEnd(t, from, radix)
           worth == Worth(t, from, to - from, radix)
<1>1. t = Run(0, l)
  BY StringIs
<1>2. /\ Len(t) = l /\ mem[l] = 0
      /\ \A j \in 0..l : CharAt(t, j + 1) = mem[j]
      /\ \A j \in 1..l : t[j] = mem[j - 1]
  <2> HIDE DEF t
  <2> QED
    BY <1>1, CharsAre
<1> HIDE DEF t
<1>3. blanks \in 0..l /\ skipped(mem, 0) = blanks
  BY <1>1, BlanksAre
<1> HIDE DEF blanks
<1>4. sign = mem[blanks]
  BY <1>2, <1>3
<1> HIDE DEF sign
<1>5. o \in 0..l
  <2>1. sign \in {PLUS, MINUS} => blanks # l
    BY <1>2, <1>4 DEF PLUS, MINUS
  <2> QED
    BY <1>3, <2>1
<1> HIDE DEF o
<1>6. Prefix(mem, o, base) = <<from, radix>> /\ from \in 0..l /\ radix \in 2..36
  <2>1. CharAt(t, o + 1) = mem[o]
    BY <1>2, <1>5
  <2>2. mem[o] = ZERO => o + 1 \in 0..l /\ CharAt(t, o + 2) = mem[o + 1]
    <3> SUFFICES ASSUME mem[o] = ZERO PROVE o + 1 \in 0..l /\ CharAt(t, o + 2) = mem[o + 1]
      OBVIOUS
    <3>1. o # l
      BY <1>2 DEF ZERO
    <3>2. o + 1 \in 0..l /\ (o + 1) + 1 = o + 2
      BY <1>5, <3>1
    <3> QED
      BY <1>2, <3>2
  <2>3. mem[o] = ZERO /\ mem[o + 1] = LowerX => o + 2 \in 0..l
    <3>1. mem[o] = ZERO /\ mem[o + 1] = LowerX => o + 1 # l
      BY <1>2 DEF LowerX
    <3> QED
      BY <1>5, <2>2, <3>1
  <2>4. hex <=> base \in {0, 16} /\ mem[o] = ZERO /\ mem[o + 1] = LowerX
    BY <2>1, <2>2
  <2> HIDE DEF hex
  <2>5. octal <=> base = 0 /\ ~hex /\ mem[o] = ZERO
    BY <2>1
  <2> HIDE DEF octal
  <2>6. CASE hex
    BY <1>5, <2>3, <2>4, <2>5, <2>6 DEF Prefix
  <2>7. CASE ~hex /\ octal
    BY <1>5, <2>2, <2>4, <2>5, <2>7 DEF Prefix
  <2>8. CASE ~hex /\ ~octal
    <3>1. base = 0 => mem[o] # ZERO
      BY <2>5, <2>8
    <3>2. from = o /\ radix = (IF base = 0 THEN 10 ELSE base)
      BY <1>5, <2>8
    <3>3. Prefix(mem, o, base) = <<o, IF base = 0 THEN 10 ELSE base>>
      BY <2>4, <2>8, <3>1 DEF Prefix
    <3> QED
      BY <1>5, <3>2, <3>3
  <2> QED
    BY <2>6, <2>7, <2>8
<1> HIDE DEF from, radix
<1>7. to \in from..l /\ digit_run(mem, from, radix) = to - from
  BY <1>1, <1>6, DigitsAre
<1> HIDE DEF to
<1>8. PICK many \in 0..l : many = to - from /\ from + many = to
  BY <1>6, <1>7
<1>9. PICK h : IsHorner(h, mem, from, radix)
  <2>1. from \in Nat /\ radix \in Int
    BY <1>6
  <2> QED
    BY <2>1, HornerExists
<1>10. h[many] \in Int /\ UINTS \in Nat \ {0}
  BY <1>8, <1>9, PrintfmtAssumption DEF IsHorner
<1>11. valued(mem, from, radix, many, UINTS) = Signed(h[many], UINTS)
  <2>1. from \in Nat /\ radix \in Int /\ many \in Nat
    BY <1>6, <1>8
  <2> QED
    BY <1>9, <1>10, <2>1, ValuedIs
<1>12. Worth(t, from, many, radix) = h[many]
  <2>1. from \in Nat /\ radix \in Int /\ many \in Nat
    BY <1>6, <1>8
  <2>2. Spells(t, mem, from, many)
    <3> SUFFICES ASSUME NEW k \in 1..many PROVE t[from + k] = mem[from + (k - 1)]
      BY DEF Spells
    <3>1. from + k \in 1..l /\ (from + k) - 1 = from + (k - 1)
      BY <1>6, <1>7, <1>8
    <3> QED
      BY <1>2, <3>1
  <2> QED
    BY <1>9, <2>1, <2>2, WorthIs
<1>13. worth = h[many]
  BY <1>8, <1>12
<1> HIDE DEF worth
<1>14. strtol(mem, 0, base, UINTS)
         = <<IF sign = MINUS THEN Signed(-Signed(h[many], UINTS), UINTS) ELSE Signed(h[many], UINTS), to>>
  <2>1. mem[skipped(mem, 0)] = sign /\ skipped(mem, 0) = blanks
    BY <1>3, <1>4
  <2>2. blanks + (IF sign \in {PLUS, MINUS} THEN 1 ELSE 0) = o
    BY DEF o
  <2>3. <<from, radix>>[1] = from /\ <<from, radix>>[2] = radix
    OBVIOUS
  <2>4. digit_run(mem, from, radix) = many
    BY <1>7, <1>8
  <2> QED
    BY <1>6, <1>8, <1>11, <2>1, <2>2, <2>3, <2>4 DEF strtol
<1>15. Signed(-Signed(h[many], UINTS), UINTS) = Signed(-h[many], UINTS)
  <2>1. 0 \in Int
    OBVIOUS
  <2> QED
    BY <1>10, <2>1, SignedStep
<1>16. strtol(mem, 0, base, UINTS) = <<Signed(IF sign = MINUS THEN -worth ELSE worth, UINTS), to>>
  BY <1>13, <1>14, <1>15
<1>17. LongRead(base) <=>
         strtol(mem, 0, base, UINTS) = <<Signed(IF sign = MINUS THEN -worth ELSE worth, UINTS), to>>
  BY DEF LongRead, t, blanks, sign, o, hex, octal, from, radix, to, worth
<1> QED
  BY <1>16, <1>17
-----------------------------------------------------------------------------
(* vsnprintf *)

Stored == IF Len(text) < size THEN Len(text) ELSE size - 1

\* A call that writes to its buffer.
Buffers == sink = "vsnprintf" /\ buf # NULL /\ size > 0

Untouched == \A k \in 0..MaxBuf : k >= size \/ buf = NULL => cell[k] = Old

Filled == /\ cnt = Len(text) /\ b = Stored
          /\ \A k \in 0..(b - 1) : cell[k] = text[k + 1]
          /\ fpc = "returned" => cell[b] = "NUL" /\ ret = Len(text) /\ todo = <<>>

Buffer == /\ size \in Int /\ size <= MaxBuf + 1
          /\ \E T : text \in Seq(T)
          /\ DOMAIN cell = 0..MaxBuf /\ Untouched
          /\ Buffers => Filled
          /\ ~Buffers => b = 0
          /\ sink = "vsnprintf" /\ ~Buffers => fpc = "returned" /\ todo = <<>> /\ ret = -E_INVAL

LEMMA Longer ==
  ASSUME NEW T, NEW t \in Seq(T), NEW e
  PROVE  /\ \E U : Append(t, e) \in Seq(U)
         /\ Len(Append(t, e)) = Len(t) + 1 /\ Len(t) \in Nat
         /\ \A k \in 1..Len(t) : Append(t, e)[k] = t[k]
         /\ Append(t, e)[Len(t) + 1] = e
<1> DEFINE U == T \cup {e}
<1>1. t \in Seq(U) /\ e \in U
  OBVIOUS
<1>2. Append(t, e) \in Seq(U)
  BY <1>1
<1> QED
  BY <1>1, <1>2

LEMMA Starts ==
  ASSUME Called, size \in Int, size <= MaxBuf + 1
  PROVE  Buffer
<1>1. text = <<>> /\ cell = [k \in 0..MaxBuf |-> Old] /\ b = 0 /\ cnt = 0 /\ todo = <<>>
  BY DEF Called
<1>2. text \in Seq({}) /\ Len(text) = 0
  BY <1>1
<1>3. /\ Refused => fpc = "returned" /\ ret = -E_INVAL
      /\ ~Refused => fpc = "text"
  BY Zenon DEF Called
<1>4. Buffers => Filled
  BY <1>1, <1>2, <1>3 DEF Buffers, Filled, Stored, Refused
<1>5. sink = "vsnprintf" /\ ~Buffers => fpc = "returned" /\ ret = -E_INVAL
  BY <1>3 DEF Buffers, Refused
<1> QED
  BY <1>1, <1>2, <1>4, <1>5 DEF Buffer, Untouched

\* The cases of the switch print nothing themselves and do not return.
LEMMA Silent ==
  ASSUME vprintfmt, ~return
  PROVE  /\ UNCHANGED <<sink, buf, size, buffer, ret, text>>
         /\ fpc # "returned" /\ fpc' # "returned"
<1>1. CASE plain \/ percent
  BY <1>1 DEF plain, percent, At, Same
<1>2. CASE pad \/ dot \/ sharp \/ long
  BY <1>2 DEF pad, dot, sharp, long, Case, reswitch, At, Same
<1>3. CASE digits
  <2>1. fpc = "switch"
    BY <1>3, Zenon DEF digits, Case, At
  <2>2. UNCHANGED <<fmt, args, sink, buf, size, buffer, ret, text, <<ap, todo, fpc>>>>
    BY <1>3, Zenon DEF digits, Same
  <2> QED
    BY <2>1, <2>2
<1>4. CASE star
  <2>1. fpc = "switch" /\ Same(<<todo, fpc>>)
    BY <1>4, Zenon DEF star, Case, At
  <2> QED
    BY <2>1 DEF Same
<1>5. CASE char \/ string \/ escaped
  BY <1>5 DEF char, string, escaped, Case, At, Prints, Same
<1>6. CASE error
  BY <1>6 DEF error, Case, At, Prints, Same
<1>7. CASE numeric
  BY <1>7 DEF numeric, number, Case, At, Prints, Same
<1>8. CASE unknown
  BY <1>8 DEF unknown, At, Same
<1> QED
  BY <1>1, <1>2, <1>3, <1>4, <1>5, <1>6, <1>7, <1>8 DEF vprintfmt

LEMMA Returns ==
  ASSUME Buffer, return
  PROVE  Buffer'
<1>1. fpc = "text" /\ todo = <<>> /\ fpc' = "returned" /\ UNCHANGED <<sink, buf, size, b, cnt, text, todo>>
  BY DEF return, At
<1>2. CASE sink = "vsnprintf"
  <2>1. Buffers /\ Filled
    BY <1>1, <1>2 DEF Buffer
  <2>2. cell' = [cell EXCEPT ![b] = "NUL"] /\ ret' = cnt
    BY <1>2 DEF return
  <2>3. b \in 0..MaxBuf /\ b < size
    <3>1. PICK T : text \in Seq(T)
      BY DEF Buffer
    <3>2. Len(text) \in Nat
      BY <3>1
    <3> QED
      BY <2>1, <3>2, PrintfmtAssumption DEF Buffer, Buffers, Filled, Stored
  <2>4. cell'[b] = "NUL" /\ DOMAIN cell' = DOMAIN cell
        /\ \A k \in 0..MaxBuf : k # b => cell'[k] = cell[k]
    BY <2>2, <2>3 DEF Buffer
  <2>5. Untouched'
    BY <1>1, <2>1, <2>3, <2>4 DEF Buffer, Buffers, Untouched
  <2>6. Filled'
    BY <1>1, <2>1, <2>2, <2>3, <2>4 DEF Filled, Stored
  <2> QED
    BY <1>1, <2>1, <2>4, <2>5, <2>6 DEF Buffer, Buffers
<1>3. CASE sink # "vsnprintf"
  <2>1. UNCHANGED cell
    BY <1>3 DEF return
  <2> QED
    BY <1>1, <1>3, <2>1 DEF Buffer, Buffers, Untouched
<1> QED
  BY <1>2, <1>3

LEMMA Puts ==
  ASSUME Buffer, sprintputch
  PROVE  Buffer'
<1>1. /\ sink = "vsnprintf" /\ todo # <<>>
      /\ text' = Append(text, Head(todo)) /\ cnt' = cnt + 1
      /\ UNCHANGED <<sink, buf, size, fpc, ret>>
  BY DEF sprintputch, Passed
<1>2. Buffers /\ Filled /\ fpc # "returned"
  BY <1>1 DEF Buffer, Filled
<1>3. PICK T : text \in Seq(T)
  BY DEF Buffer
<1>4. /\ \E U : text' \in Seq(U)
      /\ Len(text') = Len(text) + 1 /\ Len(text) \in Nat
      /\ \A k \in 1..Len(text) : text'[k] = text[k]
      /\ text'[Len(text) + 1] = Head(todo)
  <2>1. PICK x : x = Head(todo)
    OBVIOUS
  <2>2. text' = Append(text, x)
    BY <1>1, <2>1
  <2>3. /\ \E U : Append(text, x) \in Seq(U)
        /\ Len(Append(text, x)) = Len(text) + 1 /\ Len(text) \in Nat
        /\ \A k \in 1..Len(text) : Append(text, x)[k] = text[k]
        /\ Append(text, x)[Len(text) + 1] = x
    BY <1>3, Longer
  <2> QED
    BY <2>1, <2>2, <2>3
<1>5. b = Stored /\ b \in Nat /\ b <= Len(text) /\ size \in Int /\ size > 0
  BY <1>2, <1>4 DEF Buffer, Buffers, Filled, Stored
<1>6. cnt' = Len(text')
  BY <1>1, <1>2, <1>4 DEF Filled
<1>7. CASE b < size - 1
  <2>1. cell' = [cell EXCEPT ![b] = Head(todo)] /\ b' = b + 1
    BY <1>7 DEF sprintputch
  <2>2. b \in 0..MaxBuf /\ b = Len(text)
    BY <1>4, <1>5, <1>7, PrintfmtAssumption DEF Buffer, Stored
  <2>3. /\ DOMAIN cell' = 0..MaxBuf /\ cell'[b] = Head(todo)
        /\ \A k \in 0..MaxBuf : k # b => cell'[k] = cell[k]
    BY <2>1, <2>2 DEF Buffer
  <2>4. Untouched'
    BY <1>1, <1>2, <1>5, <1>7, <2>3 DEF Buffer, Buffers, Untouched
  <2>5. \A k \in 0..(b' - 1) : cell'[k] = text'[k + 1]
    <3> SUFFICES ASSUME NEW k \in 0..b PROVE cell'[k] = text'[k + 1]
      BY <1>5, <2>1
    <3>1. CASE k = b
      BY <1>4, <2>2, <2>3, <3>1
    <3>2. CASE k # b
      <4>1. k \in 0..(b - 1) /\ k \in 0..MaxBuf /\ k + 1 \in 1..Len(text)
        BY <1>5, <2>2, <3>2, PrintfmtAssumption
      <4> QED
        BY <1>2, <1>4, <2>3, <3>2, <4>1 DEF Filled
    <3> QED
      BY <3>1, <3>2
  <2>6. b' = Stored'
    BY <1>1, <1>4, <1>5, <1>7, <2>1, <2>2 DEF Stored
  <2> QED
    BY <1>1, <1>2, <1>4, <1>6, <2>3, <2>4, <2>5, <2>6 DEF Buffer, Buffers, Filled
<1>8. CASE ~(b < size - 1)
  <2>1. UNCHANGED <<cell, b>>
    BY <1>8 DEF sprintputch
  <2>2. b' = Stored'
    BY <1>1, <1>4, <1>5, <1>8, <2>1 DEF Stored
  <2>3. \A k \in 0..(b' - 1) : cell'[k] = text'[k + 1]
    <3> SUFFICES ASSUME NEW k \in 0..(b - 1) PROVE cell[k] = text'[k + 1]
      BY <2>1
    <3>1. k + 1 \in 1..Len(text)
      BY <1>4, <1>5
    <3> QED
      BY <1>2, <1>4, <3>1 DEF Filled
  <2>4. Untouched' /\ DOMAIN cell' = 0..MaxBuf
    BY <1>1, <2>1 DEF Buffer, Untouched
  <2> QED
    BY <1>1, <1>2, <1>4, <1>6, <2>2, <2>3, <2>4 DEF Buffer, Buffers, Filled
<1> QED
  BY <1>7, <1>8

LEMMA Steps == Buffer /\ [PrintNext]_print => Buffer'
<1> SUFFICES ASSUME Buffer, [PrintNext]_print PROVE Buffer'
  OBVIOUS
<1>1. CASE vprintfmt
  <2>1. CASE return
    BY <2>1, Returns
  <2>2. CASE ~return
    <3>1. /\ UNCHANGED <<sink, buf, size, cell, b, cnt, ret, text>>
          /\ fpc # "returned" /\ fpc' # "returned"
      BY <1>1, <2>2, Silent DEF buffer
    <3> QED
      BY <3>1 DEF Buffer, Buffers, Filled, Stored, Untouched
  <2> QED
    BY <2>1, <2>2
<1>2. CASE sprintputch
  BY <1>2, Puts
<1>3. CASE putch
  <2>1. /\ sink = "vcprintf" /\ text' = Append(text, Head(todo))
        /\ UNCHANGED <<sink, buf, size, cell, b, fpc>>
    BY <1>3 DEF putch, Passed, buffer
  <2>2. \E U : text' \in Seq(U)
    BY <2>1, Longer DEF Buffer
  <2> QED
    BY <2>1, <2>2 DEF Buffer, Buffers, Untouched
<1>4. CASE UNCHANGED print
  BY <1>4 DEF Buffer, Buffers, Filled, Stored, Untouched, print, buffer
<1> QED
  BY <1>1, <1>2, <1>3, <1>4 DEF PrintNext

LEMMA Enough == Buffer => Truncated
<1> SUFFICES ASSUME Buffer PROVE Truncated
  OBVIOUS
<1>1. PICK T : text \in Seq(T)
  BY DEF Buffer
<1>2. Len(text) \in Nat
  BY <1>1
<1>3. \A k \in 0..MaxBuf : k >= size \/ buf = NULL => cell[k] = Old
  BY DEF Buffer, Untouched
<1>4. b = 0 \/ b < size
  BY <1>2 DEF Buffer, Buffers, Filled, Stored
<1>5. sink = "vsnprintf" /\ fpc = "returned" /\ ~Refused =>
        /\ \A k \in 0..(Stored - 1) : cell[k] = text[k + 1]
        /\ cell[Stored] = "NUL"
        /\ ret = Len(text)
  BY DEF Buffer, Buffers, Filled, Refused
<1>6. Refused => fpc = "returned" /\ ret = -E_INVAL
  BY DEF Buffer, Buffers, Refused
<1> QED
  BY <1>3, <1>4, <1>5, <1>6 DEF Truncated, Stored

\* vsnprintf leaves a string in its buffer, of what fits, writes nothing outside it and
\* returns the length of the whole text (module Printfmt, Truncated).
THEOREM AlwaysTruncated == PrintSpec => []Truncated
<1>1. Called /\ size \in Int /\ size <= MaxBuf + 1 => Buffer
  BY Starts
<1>2. PrintSpec => []Buffer
  BY <1>1, Steps, PTL DEF PrintSpec
<1> QED
  BY <1>2, Enough, PTL

-----------------------------------------------------------------------------
(* The port *)

Durations == Nat \cup {Never}

\* How long the device takes, and how long it has been waited for: together no longer
\* than it has ever taken.
Polled ==
  /\ busy \in Durations /\ speed \in Durations /\ spins \in Nat
  /\ busy = Never => speed = Never
  /\ busy # Never /\ speed # Never => busy <= speed /\ (polling => busy + spins <= speed)
  /\ SlowEnough

LEMMA PollInit == PortInit => Polled
BY TxPortAssumption DEF PortInit, Polled, Durations, SlowEnough

LEMMA PollStep == Polled /\ [PortNext]_port => Polled'
<1> SUFFICES ASSUME Polled, [PortNext]_port PROVE Polled'
  OBVIOUS
<1> USE TxPortAssumption
<1>1. CASE putc
  BY <1>1 DEF putc, Polled, Durations, SlowEnough
<1>2. CASE delay
  BY <1>2 DEF delay, Waits, Ready, Polled, Durations, SlowEnough
<1>3. CASE write
  <2>1. PICK t \in 0..MaxTime \cup {Never} :
          /\ busy' = t
          /\ speed' = IF speed = Never \/ t = Never THEN Never ELSE IF t > speed THEN t ELSE speed
    BY <1>3 DEF write
  <2>2. spins' = spins /\ polling' = FALSE /\ polling /\ (busy # 0 => spins >= SPIN)
        /\ lost' = (lost \/ busy # 0)
    BY <1>3 DEF write, Waits, Ready, Polled
  <2>3. t \in Durations
    BY <2>1 DEF Durations
  <2>4. busy # 0 => speed = Never \/ speed > SPIN
    BY <2>2 DEF Polled, Durations
  <2>5. speed = Never => speed' = Never
    BY <2>1
  <2>6. speed' \in Durations /\ (speed # Never /\ speed' # Never => speed' >= speed /\ t <= speed')
    BY <2>1, <2>3 DEF Polled, Durations
  <2>7. SlowEnough'
    <3>1. lost' => speed = Never \/ speed > SPIN
      BY <2>2, <2>4, Zenon DEF SlowEnough, Polled
    <3>2. (speed = Never \/ speed > SPIN) => speed' = Never \/ speed' > SPIN
      BY <2>5, <2>6 DEF Polled, Durations
    <3> QED
      BY <3>1, <3>2, Zenon DEF SlowEnough
  <2> QED
    <3>1. busy' \in Durations /\ speed' \in Durations /\ spins' \in Nat
      BY <2>1, <2>2, <2>3, <2>6 DEF Polled
    <3>2. busy' = Never => speed' = Never
      BY <2>1
    <3>3. busy' # Never /\ speed' # Never => busy' <= speed' /\ ~polling'
      <4>1. ASSUME t # Never, speed # Never, speed' # Never PROVE t <= speed'
        BY <2>6, <4>1
      <4> QED
        BY <2>1, <2>2, <2>5, <4>1
    <3> QED
      BY <2>7, <3>1, <3>2, <3>3 DEF Polled
<1>4. CASE work
  BY <1>4 DEF work, Polled, Durations, SlowEnough
<1>5. CASE UNCHANGED port
  BY <1>5 DEF port, Polled, Durations, SlowEnough
<1> QED
  BY <1>1, <1>2, <1>3, <1>4, <1>5 DEF PortNext

\* No byte is written over one that is not sent yet, if the device takes no more than
\* SPIN delays over a byte, for every SPIN (module TxPort, SlowEnough).
THEOREM NothingLost == PortSpec => []SlowEnough
<1>1. PortSpec => []Polled
  BY PollInit, PollStep, PTL DEF PortSpec
<1>2. Polled => SlowEnough
  BY DEF Polled
<1> QED
  BY <1>1, <1>2, PTL

-----------------------------------------------------------------------------
(* The library as a whole *)

LEMMA Parts == [LibNext]_lib => [PortNext]_port /\ [CopyNext]_copy /\ [PrintNext]_print
<1> SUFFICES ASSUME [LibNext]_lib PROVE [PortNext]_port /\ [CopyNext]_copy /\ [PrintNext]_print
  OBVIOUS
<1>1. CASE vprintfmt /\ UNCHANGED <<port, copy, items>>
  BY <1>1 DEF PrintNext
<1>2. CASE sprintputch /\ UNCHANGED <<port, copy, items>>
  BY <1>2 DEF PrintNext
<1>3. CASE begin_putch
  BY <1>3 DEF begin_putch, PortNext
<1>4. CASE wait
  BY <1>4 DEF wait, PortNext
<1>5. CASE end_putch
  BY <1>5 DEF end_putch, PortNext, PrintNext
<1>6. CASE CopyNext /\ UNCHANGED <<port, print, items>>
  BY <1>6
<1>7. CASE Device
  BY <1>7 DEF Device, PortNext
<1>8. CASE UNCHANGED lib
  BY <1>8 DEF lib
<1> QED
  BY <1>1, <1>2, <1>3, <1>4, <1>5, <1>6, <1>7, <1>8 DEF LibNext, Library

LEMMA LibCalls == LibInit => Buffer
<1> SUFFICES ASSUME LibInit PROVE Buffer
  OBVIOUS
<1>1. CASE \E f \in Formats : Formatting(f)
  <2>1. PICK f \in Formats : Formatting(f)
    BY <1>1
  <2>2. Called /\ size \in Int /\ size <= MaxBuf + 1
    BY <2>1, LibAssumption DEF Formatting
  <2> QED
    BY <2>2, Starts
<1>2. CASE NoFormatting
  <2>1. Called /\ size = 0
    BY <1>2 DEF NoFormatting, Formatting
  <2> QED
    BY <2>1, Starts, PrintfmtAssumption
<1> QED
  BY <1>1, <1>2 DEF LibInit

LEMMA LibCopies == LibInit => MoveInv /\ SetInv /\ StrInv
<1> SUFFICES ASSUME LibInit PROVE MoveInv /\ SetInv /\ StrInv
  OBVIOUS
<1>1. CASE fn \in {"none", "readers", "strtol"}
  BY <1>1 DEF MoveInv, SetInv, StrInv, Moving, OfStrings
<1>2. CASE Enter /\ \E k \in Copies : /\ mem = k.mem /\ fn = k.fn /\ dst = k.dst /\ src = k.src
                                      /\ n = k.n /\ c = k.c
  <2>1. PICK k \in Copies : mem = k.mem /\ fn = k.fn /\ dst = k.dst /\ src = k.src /\ n = k.n /\ c = k.c
    BY <1>2
  <2>2. Fitting(k)
    BY LibAssumption
  <2>3. Fits
    BY <2>1, <2>2 DEF Fits, Fitting
  <2> QED
    BY <1>2, <2>3, MoveInit, SetInit, StrInit
<1> QED
  BY <1>1, <1>2 DEF LibInit, NoCopying

\* While a function reads, memory is what the callers gave it.
Given0 ==
  /\ fn \in Moving \cup {"memset"} \cup OfStrings \/ (fn = "none" \/ fn = "readers" \/ fn = "strtol")
  /\ fn = "readers" => mem \in Memories
  /\ fn = "strtol" => mem \in Numerals

LEMMA LibReads == LibInit => Given0
<1> SUFFICES ASSUME LibInit PROVE Given0
  OBVIOUS
<1>1. CASE \E k \in Copies : mem = k.mem /\ fn = k.fn
  <2>1. PICK k \in Copies : mem = k.mem /\ fn = k.fn
    BY <1>1
  <2>2. Fitting(k)
    BY LibAssumption
  <2>3. fn \in Moving \cup {"memset"} \cup OfStrings
    BY <2>1, <2>2 DEF Fitting
  <2> QED
    BY <2>3 DEF Given0, Moving, OfStrings
<1> QED
  BY <1>1 DEF LibInit, NoCopying, Given0

LEMMA ReadStep == Given0 /\ [CopyNext]_copy => Given0'
<1> SUFFICES ASSUME Given0, [CopyNext]_copy PROVE Given0'
  OBVIOUS
<1>1. CASE CopyNext
  <2>1. fn \in Moving \cup {"memset"} \cup OfStrings /\ fn' = fn
    BY <1>1 DEF CopyNext, move_down, move_up, set, strcpy, strncpy, strlcpy, Turn, Ends, Goes, call, Moving,
                OfStrings
  <2> QED
    BY <2>1 DEF Given0, Moving, OfStrings
<1>2. CASE UNCHANGED copy
  BY <1>2 DEF copy, call, Given0
<1> QED
  BY <1>1, <1>2

LEMMA ReadRight == Given0 => ReadersAgree
<1> SUFFICES ASSUME Given0 PROVE ReadersAgree
  OBVIOUS
<1>1. ASSUME fn = "readers", NEW p \in Places, NEW q \in Places, NEW k \in Sizes, NEW char_ \in Chars
      PROVE  Readers(p, q, k, char_)
  <2>1. mem \in Memories /\ mem \in [Address -> Byte]
    BY <1>1, LibAssumption DEF Given0
  <2>2. (\E i \in 0..N : HasLength(mem, p, i)) /\ (\E i \in 0..N : HasLength(mem, q, i))
    BY <2>1, LibAssumption
  <2>3. PICK lp \in Nat : HasLength(mem, p, lp)
    BY <2>2
  <2>4. PICK lq \in Nat : HasLength(mem, q, lq)
    BY <2>2
  <2>5. p \in Nat /\ q \in Nat /\ k \in Nat /\ char_ \in Byte /\ p + k <= N /\ q + k <= N
    BY LibAssumption DEF Address
  <2> QED
    BY <2>1, <2>3, <2>4, <2>5, ReadersRight
<1>2. ASSUME fn = "strtol", NEW base \in Bases PROVE LongRead(base)
  <2>1. mem \in Numerals /\ mem \in [Address -> Byte] /\ base \in {0} \cup 2..36
    BY <1>2, LibAssumption DEF Given0
  <2>2. \E i \in 0..N : HasLength(mem, 0, i)
    BY <2>1, LibAssumption
  <2>3. PICK l \in Nat : HasLength(mem, 0, l)
    BY <2>2
  <2> QED
    BY <2>1, <2>3, LongReads
<1> QED
  BY <1>1, <1>2 DEF ReadersAgree

\* The same of the library whose parts share nothing: whichever of its functions is
\* called, with whatever the callers may give it (module Lib).
THEOREM LibraryRight == LibSpec => [](Moved /\ Written /\ ReadersAgree /\ Truncated /\ SlowEnough)
<1>1. LibInit => Polled
  BY PollInit DEF LibInit
<1>2. LibSpec => [](Polled /\ Buffer /\ MoveInv /\ SetInv /\ StrInv /\ Given0)
  BY <1>1, LibCalls, LibCopies, LibReads, Parts, PollStep, Steps, MoveStep, SetStep, StrStep, ReadStep, PTL
     DEF LibSpec
<1>3. Polled => SlowEnough
  BY DEF Polled
<1>4. SetInv /\ StrInv => Written
  BY SetDone, StrDone DEF Written
<1> QED
  BY <1>2, <1>3, <1>4, MoveDone, ReadRight, Enough, PTL

\* strlen, strcmp, strchr and the others that only read memory, and strtol, return what
\* they are for, on every memory and all arguments the callers may give them (module Lib,
\* ReadersAgree).
THEOREM ReadersAlways == LibSpec => []ReadersAgree
BY LibraryRight, PTL

-----------------------------------------------------------------------------
(* Texts *)

\* All there is to print: strings, of which the provers know no single one.
Glyphs == STRING \cup Known \cup {Digits[k] : k \in 1..16} \cup {" ", "?", "error ", "(null)"}
            \cup {"unspecified error", "bad environment", "invalid parameter", "out of memory",
                  "out of environments", "segmentation fault"}
Text   == Seq(Glyphs)

\* What there is to print.
LEMMA GlyphsAre ==
  /\ STRING \subseteq Glyphs /\ Known \subseteq Glyphs
  /\ \A k \in 1..16 : Digits[k] \in Glyphs
  /\ {"unspecified error", "bad environment", "invalid parameter", "out of memory",
      "out of environments", "segmentation fault"} \subseteq Glyphs
  /\ " " \in Glyphs /\ "?" \in Glyphs /\ "error " \in Glyphs /\ "(null)" \in Glyphs
BY DEF Glyphs

\* A character so many times.
LEMMA TimesIn ==
  ASSUME NEW S, NEW char_ \in S, NEW many \in Int
  PROVE  /\ Times(char_, many) \in Seq(S)
         /\ Len(Times(char_, many)) = IF many > 0 THEN many ELSE 0
         /\ \A k \in 1..Len(Times(char_, many)) : Times(char_, many)[k] = char_
<1>1. PICK m \in Nat : m = IF many > 0 THEN many ELSE 0
  OBVIOUS
<1>2. Times(char_, many) = [k \in 1..m |-> char_]
  BY <1>1 DEF Times
<1>3. Times(char_, many) \in [1..m -> S]
  BY <1>2
<1>4. Times(char_, many) \in Seq(S) /\ Len(Times(char_, many)) = m
  BY <1>2, <1>3
<1>5. \A k \in 1..m : Times(char_, many)[k] = char_
  BY <1>2
<1> QED
  BY <1>1, <1>4, <1>5

\* The same as a text.
LEMMA TimesAre ==
  ASSUME NEW char_ \in Glyphs, NEW many \in Int
  PROVE  /\ Times(char_, many) \in Text
         /\ Len(Times(char_, many)) = IF many > 0 THEN many ELSE 0
         /\ \A k \in 1..Len(Times(char_, many)) : Times(char_, many)[k] = char_
BY TimesIn DEF Text

\* The texts of the program.
LEMMA WordsOfIt ==
  /\ ErrorText \in Text /\ NullText \in Text
  /\ \A k \in 1..6 : error_string[k] \in Text
<1>1. ASSUME NEW char_ \in Glyphs
      PROVE  /\ Times(char_, 6) \in Text /\ Times(char_, 13) \in Text /\ Times(char_, 15) \in Text
             /\ Times(char_, 17) \in Text /\ Times(char_, 18) \in Text /\ Times(char_, 19) \in Text
  <2>1. \A many \in Int : Times(char_, many) \in Text
    BY TimesAre
  <2> QED
    BY <2>1
<1>2. /\ "error " \in Glyphs /\ "(null)" \in Glyphs
      /\ "unspecified error" \in Glyphs /\ "bad environment" \in Glyphs /\ "invalid parameter" \in Glyphs
      /\ "out of memory" \in Glyphs /\ "out of environments" \in Glyphs /\ "segmentation fault" \in Glyphs
  BY DEF Glyphs
<1>3. Times("error ", 6) \in Text /\ Times("(null)", 6) \in Text
  BY <1>1, <1>2
<1>4. /\ Times("unspecified error", 17) \in Text /\ Times("bad environment", 15) \in Text
      /\ Times("invalid parameter", 17) \in Text /\ Times("out of memory", 13) \in Text
      /\ Times("out of environments", 19) \in Text /\ Times("segmentation fault", 18) \in Text
  BY <1>1, <1>2
<1>5. ASSUME NEW t1, NEW t2, NEW t3, NEW t4, NEW t5, NEW t6,
             t1 \in Text, t2 \in Text, t3 \in Text, t4 \in Text, t5 \in Text, t6 \in Text,
             NEW k \in 1..6
      PROVE  <<t1, t2, t3, t4, t5, t6>>[k] \in Text
  <2>1. k = 1 \/ k = 2 \/ k = 3 \/ k = 4 \/ k = 5 \/ k = 6
    OBVIOUS
  <2> QED
    BY <1>5, <2>1
<1>6. \A k \in 1..6 : error_string[k] \in Text
  BY <1>4, <1>5 DEF error_string
<1> QED
  BY <1>3, <1>6 DEF ErrorText, NullText

-----------------------------------------------------------------------------
(* Numbers and their digits *)

\* Powers of a base grow with the exponent, and past it.
LEMMA PowerGrows ==
  ASSUME NEW base \in Nat, base > 1
  PROVE  /\ \A k \in Nat : Power(base, k) \in Nat \ {0} /\ Power(base, k + 1) = base * Power(base, k)
         /\ \A k \in Nat : Power(base, k) > k
         /\ \A j, k \in Nat : j <= k => Power(base, j) <= Power(base, k)
<1>1. base \in Int /\ Power(base, 0) = 1
  BY PowerIs
<1>2. \A k \in Nat : Power(base, k + 1) = base * Power(base, k)
  BY <1>1, PowerIs
<1> DEFINE S == {k \in Nat : Power(base, k) \in Nat /\ Power(base, k) > k}
<1>3. Nat \subseteq S
  <2>1. 0 \in S
    BY <1>1
  <2>2. ASSUME NEW k \in Nat, k \in S PROVE k + 1 \in S
    <3>1. PICK p_ \in Nat : p_ = Power(base, k) /\ p_ > k
      BY <2>2
    <3>2. base * p_ \in Nat /\ base * p_ >= 2 * p_
      OBVIOUS
    <3>3. base * p_ > k + 1
      BY <3>1, <3>2
    <3> QED
      BY <1>2, <3>1, <3>2, <3>3
  <2> HIDE DEF S
  <2> QED
    BY <2>1, <2>2, Induct
<1>4. \A k \in Nat : Power(base, k) \in Nat \ {0} /\ Power(base, k) > k
  BY <1>3
<1>5. ASSUME NEW j \in Nat, NEW k \in Nat, j <= k PROVE Power(base, j) <= Power(base, k)
  <2> DEFINE T == {i \in Nat : Power(base, j) <= Power(base, j + i)}
  <2>1. 0 \in T
    BY <1>4
  <2>2. ASSUME NEW i \in Nat, i \in T PROVE i + 1 \in T
    <3>1. PICK p_ \in Nat : p_ = Power(base, j + i) /\ Power(base, j) <= p_
      BY <1>4, <2>2
    <3>2. base * p_ \in Nat /\ base * p_ >= p_
      OBVIOUS
    <3>3. j + i \in Nat /\ (j + i) + 1 = j + (i + 1) /\ Power(base, (j + i) + 1) = base * Power(base, j + i)
      BY <1>2
    <3>4. Power(base, j) \in Nat
      BY <1>4
    <3> QED
      BY <3>1, <3>2, <3>3, <3>4
  <2>3. k - j \in T
    <3> HIDE DEF T
    <3>1. Nat \subseteq T
      BY <2>1, <2>2, Induct
    <3>2. k - j \in Nat
      BY <1>5
    <3> QED
      BY <3>1, <3>2
  <2>4. j + (k - j) = k
    OBVIOUS
  <2> QED
    BY <2>3, <2>4
<1> QED
  BY <1>2, <1>4, <1>5

\* A number of so many digits; each has some, and only so many.
TakesDigits(v, base, k) == k \in Nat \ {0} /\ v < Power(base, k) /\ (k > 1 => v >= Power(base, k - 1))

\* There is a number of digits that a value takes,
LEMMA DigitsNeeded ==
  ASSUME NEW base \in Nat, base > 1, NEW v \in Nat
  PROVE  \E k \in 1..(v + 1) : TakesDigits(v, base, k)
<1> DEFINE S == {k \in Nat : k > 0 /\ v < Power(base, k)}
<1>1. v + 1 \in S
  BY PowerGrows
<1>2. PICK k \in S : \A j \in S : k <= j
  <2>1. S \in SUBSET Nat /\ S # {}
    BY <1>1
  <2> HIDE DEF S
  <2> QED
    BY <2>1, Smallest
<1>3. k \in 1..(v + 1) /\ v < Power(base, k)
  BY <1>1, <1>2
<1>4. ASSUME k > 1 PROVE v >= Power(base, k - 1)
  <2>1. k - 1 \in Nat /\ k - 1 > 0 /\ k - 1 < k
    BY <1>3, <1>4
  <2>2. k - 1 \notin S
    BY <1>2, <2>1
  <2>3. Power(base, k - 1) \in Nat
    BY <2>1, PowerGrows
  <2> QED
    BY <2>1, <2>2, <2>3
<1> QED
  BY <1>3, <1>4 DEF TakesDigits

\* only one,
LEMMA DigitsOnce ==
  ASSUME NEW base \in Nat, base > 1, NEW v \in Nat, NEW j, TakesDigits(v, base, j), NEW k,
    TakesDigits(v, base, k)
  PROVE  j = k
<1>1. ASSUME NEW x, NEW y, TakesDigits(v, base, x), TakesDigits(v, base, y) PROVE ~(x < y)
  <2> SUFFICES ASSUME x < y PROVE FALSE
    OBVIOUS
  <2>1. x \in Nat /\ y \in Nat /\ y - 1 \in Nat /\ x <= y - 1 /\ v < Power(base, x)
          /\ v >= Power(base, y - 1)
    BY <1>1 DEF TakesDigits
  <2>2. Power(base, x) <= Power(base, y - 1)
    BY <2>1, PowerGrows
  <2>3. Power(base, x) \in Nat /\ Power(base, y - 1) \in Nat
    BY <2>1, PowerGrows
  <2> QED
    BY <2>1, <2>2, <2>3
<1>2. ~(j < k) /\ ~(k < j)
  BY <1>1
<1> QED
  BY <1>2 DEF TakesDigits

\* and the numeral has that many.
LEMMA NumeralIs ==
  ASSUME NEW base \in Nat, base > 1, NEW v \in Nat, NEW k, TakesDigits(v, base, k)
  PROVE  Numeral(v, base) = [i \in 1..k |-> Digits[((v \div Power(base, k - i)) % base) + 1]]
<1> DEFINE len == CHOOSE i \in 1..(v + 1) : v < Power(base, i) /\ (i > 1 => v >= Power(base, i - 1))
<1>1. \A i \in 1..(v + 1) : TakesDigits(v, base, i) <=> v < Power(base, i)
        /\ (i > 1 => v >= Power(base, i - 1))
  BY DEF TakesDigits
<1>2. \E i \in 1..(v + 1) : v < Power(base, i) /\ (i > 1 => v >= Power(base, i - 1))
  BY <1>1, DigitsNeeded
<1>3. len \in 1..(v + 1) /\ v < Power(base, len) /\ (len > 1 => v >= Power(base, len - 1))
  BY <1>2, Zenon
<1>4. Numeral(v, base) = [i \in 1..len |-> Digits[((v \div Power(base, len - i)) % base) + 1]]
  BY DEF Numeral
<1> HIDE DEF len
<1>5. TakesDigits(v, base, len)
  BY <1>1, <1>3
<1>6. len = k
  BY <1>5, DigitsOnce
<1> QED
  BY <1>4, <1>6

\* Dividing by two numbers is dividing by their product.
LEMMA DivDiv ==
  ASSUME NEW a_ \in Nat, NEW e \in Nat \ {0}, NEW f \in Nat \ {0}
  PROVE  (a_ \div e) \div f = a_ \div (e * f)
<1>1. PICK q \in Nat, r \in 0..(e - 1) : a_ = (e * q) + r /\ a_ \div e = q
  OBVIOUS
<1>2. PICK q_ \in Nat, r_ \in 0..(f - 1) : q = (f * q_) + r_ /\ q \div f = q_
  OBVIOUS
<1>3. PICK g \in Nat \ {0} : g = e * f
  OBVIOUS
<1>4. PICK p_ \in Nat, s_ \in 0..(g - 1) : a_ = (g * p_) + s_ /\ a_ \div g = p_
  OBVIOUS
<1>5. e * q = (e * (f * q_)) + (e * r_)
  <2>1. \A x, y, z \in Int : x * (y + z) = (x * y) + (x * z)
    OBVIOUS
  <2> QED
    BY <1>2, <2>1
<1>6. e * (f * q_) = g * q_
  BY <1>3
<1>7. PICK w \in Nat : w = (e * r_) + r
  OBVIOUS
<1>8. a_ = (g * q_) + w
  BY <1>1, <1>5, <1>6, <1>7
<1>9. w < g
  <2>1. r_ <= f - 1 /\ r <= e - 1
    OBVIOUS
  <2>2. e * r_ <= e * (f - 1)
    BY <2>1
  <2>3. e * (f - 1) = g - e
    BY <1>3
  <2> QED
    BY <1>3, <1>7, <2>1, <2>2, <2>3
<1>10. q_ = p_
  <2>1. ~(q_ < p_)
    <3> SUFFICES ASSUME q_ < p_ PROVE FALSE
      OBVIOUS
    <3>1. g * (p_ - q_) >= g
      OBVIOUS
    <3>2. g * (p_ - q_) = (g * p_) - (g * q_)
      OBVIOUS
    <3> QED
      BY <1>4, <1>8, <1>9, <3>1, <3>2
  <2>2. ~(p_ < q_)
    <3> SUFFICES ASSUME p_ < q_ PROVE FALSE
      OBVIOUS
    <3>1. g * (q_ - p_) >= g
      OBVIOUS
    <3>2. g * (q_ - p_) = (g * q_) - (g * p_)
      OBVIOUS
    <3> QED
      BY <1>4, <1>8, <3>1, <3>2
  <2> QED
    BY <2>1, <2>2
<1> QED
  BY <1>1, <1>2, <1>3, <1>4, <1>10

\* Strong induction over the numbers, with a set for what is to be shown.
LEMMA Strongly ==
  ASSUME NEW S, \A k \in Nat : (\A j \in 0..(k - 1) : j \in S) => k \in S
  PROVE  Nat \subseteq S
<1> SUFFICES ASSUME Nat \ S # {} PROVE FALSE
  OBVIOUS
<1>1. PICK k \in Nat \ S : \A m \in Nat \ S : k <= m
  BY Smallest
<1>2. \A j \in 0..(k - 1) : j \in S
  BY <1>1
<1> QED
  BY <1>1, <1>2

\* A numeral is a text of digits,
LEMMA NumeralText ==
  ASSUME NEW base \in 2..16, NEW v \in Nat
  PROVE  Numeral(v, base) \in Seq(Glyphs) /\ Len(Numeral(v, base)) \in Nat \ {0}
<1>1. base \in Nat /\ base > 1
  OBVIOUS
<1>2. PICK k : TakesDigits(v, base, k)
  BY <1>1, DigitsNeeded
<1>3. k \in Nat \ {0}
  BY <1>2 DEF TakesDigits
<1>4. Numeral(v, base) = [i \in 1..k |-> Digits[((v \div Power(base, k - i)) % base) + 1]]
  BY <1>1, <1>2, NumeralIs
<1>5. ASSUME NEW i \in 1..k PROVE Digits[((v \div Power(base, k - i)) % base) + 1] \in Glyphs
  <2>1. Power(base, k - i) \in Nat \ {0}
    BY <1>1, <1>3, PowerGrows
  <2>2. PICK q \in Nat : q = v \div Power(base, k - i)
    BY <2>1
  <2>3. (q % base) + 1 \in 1..16
    OBVIOUS
  <2> QED
    BY <2>2, <2>3, GlyphsAre
<1>6. Numeral(v, base) \in [1..k -> Glyphs]
  BY <1>4, <1>5
<1> QED
  BY <1>3, <1>6

\* of one, when the value is one,
LEMMA NumeralSmall ==
  ASSUME NEW base \in 2..16, NEW v \in Nat, v < base
  PROVE  Numeral(v, base) = <<Digits[v + 1]>>
<1>1. base \in Nat /\ base > 1
  OBVIOUS
<1>2. Power(base, 0) = 1 /\ Power(base, 1) = base
  <2>1. Power(base, 0) = 1 /\ Power(base, 0 + 1) = base * Power(base, 0)
    BY <1>1, PowerIs
  <2> QED
    BY <2>1
<1>3. ASSUME NEW k, TakesDigits(v, base, k)
      PROVE  Numeral(v, base) = [i \in 1..k |-> Digits[((v \div Power(base, k - i)) % base) + 1]]
  BY <1>1, <1>3, NumeralIs
<1>4. PICK k : TakesDigits(v, base, k) /\ k = 1
  BY <1>2 DEF TakesDigits
<1>5. Digits[((v \div Power(base, 1 - 1)) % base) + 1] = Digits[v + 1]
  <2>1. v \div 1 = v /\ v % base = v /\ 1 - 1 = 0
    OBVIOUS
  <2> QED
    BY <1>2, <2>1
<1> DEFINE D(i) == Digits[((v \div Power(base, 1 - i)) % base) + 1]
<1>6. Numeral(v, base) = [i \in 1..1 |-> D(i)] /\ D(1) = Digits[v + 1]
  <2>1. Numeral(v, base) = [i \in 1..k |-> Digits[((v \div Power(base, k - i)) % base) + 1]]
    BY <1>3, <1>4
  <2> QED
    BY <1>4, <1>5, <2>1
<1> HIDE DEF D
<1> QED
  BY <1>6

\* and else the digits before the last, and the last.
LEMMA NumeralMore ==
  ASSUME NEW base \in 2..16, NEW v \in Nat, v >= base
  PROVE  Numeral(v, base) = Append(Numeral(v \div base, base), Digits[(v % base) + 1])
<1>1. base \in Nat /\ base > 1
  OBVIOUS
<1>2. PICK q \in Nat : q = v \div base
  OBVIOUS
<1>3. PICK k : TakesDigits(q, base, k)
  BY <1>1, DigitsNeeded
<1>4. k \in Nat \ {0} /\ q < Power(base, k) /\ (k > 1 => q >= Power(base, k - 1))
  BY <1>3 DEF TakesDigits
<1>5. TakesDigits(v, base, k + 1)
  <2>1. PICK r \in 0..(base - 1) : v = (base * q) + r
    BY <1>2
  <2>2. PICK p_ \in Nat : p_ = Power(base, k) /\ Power(base, k + 1) = base * p_
    BY <1>1, <1>4, PowerGrows
  <2>3. v < base * p_
    <3>1. base * (q + 1) <= base * p_
      BY <1>4, <2>2
    <3>2. base * (q + 1) = (base * q) + base
      OBVIOUS
    <3> QED
      BY <2>1, <3>1, <3>2
  <2>4. v >= p_
    <3>1. CASE k > 1
      <4>1. PICK s_ \in Nat : s_ = Power(base, k - 1) /\ Power(base, (k - 1) + 1) = base * s_ /\ q >= s_
        BY <1>1, <1>4, <3>1, PowerGrows
      <4>2. (k - 1) + 1 = k /\ base * q >= base * s_
        BY <1>4, <4>1
      <4> QED
        BY <2>1, <2>2, <4>1, <4>2
    <3>2. CASE k = 1
      <4>1. Power(base, 0 + 1) = base * Power(base, 0) /\ Power(base, 0) = 1
        BY <1>1, PowerIs
      <4> QED
        BY <2>2, <3>2, <4>1
    <3> QED
      BY <1>4, <3>1, <3>2
  <2> QED
    BY <1>4, <2>2, <2>3, <2>4 DEF TakesDigits
<1> DEFINE D(i) == Digits[((v \div Power(base, (k + 1) - i)) % base) + 1]
           E(i) == Digits[((q \div Power(base, k - i)) % base) + 1]
           last == Digits[(v % base) + 1]
<1>6. Numeral(v, base) = [i \in 1..(k + 1) |-> D(i)]
  BY <1>1, <1>5, NumeralIs
<1>7. Numeral(q, base) = [i \in 1..k |-> E(i)]
  BY <1>1, <1>3, NumeralIs
<1>8. ASSUME NEW i \in 1..k PROVE D(i) = E(i)
  <2>1. PICK j \in Nat : j = k - i /\ j + 1 = (k + 1) - i
    BY <1>4
  <2>2. Power(base, j) \in Nat \ {0} /\ Power(base, j + 1) = base * Power(base, j)
    BY <1>1, <2>1, PowerGrows
  <2>3. (v \div base) \div Power(base, j) = v \div (base * Power(base, j))
    BY <2>2, DivDiv
  <2> QED
    BY <1>2, <2>1, <2>2, <2>3
<1>9. D(k + 1) = last
  <2>1. Power(base, 0) = 1 /\ v \div 1 = v /\ (k + 1) - (k + 1) = 0
    BY <1>1, <1>4, PowerIs
  <2> QED
    BY <2>1
<1>10. last \in Glyphs
  <2>1. (v % base) + 1 \in 1..16
    OBVIOUS
  <2> QED
    BY <2>1, GlyphsAre
<1>11. Numeral(q, base) \in Seq(Glyphs) /\ Numeral(v, base) \in Seq(Glyphs)
  BY NumeralText
<1> HIDE DEF D, E, last
<1>12. Numeral(v, base) = Append(Numeral(q, base), last)
  <2> DEFINE s_ == Numeral(q, base)
             t_ == Numeral(v, base)
  <2>1. Len(s_) = k /\ Len(t_) = k + 1
    BY <1>4, <1>6, <1>7
  <2>2. (\A i \in 1..k : t_[i] = s_[i]) /\ t_[k + 1] = last
    <3>1. \A i \in 1..k : t_[i] = D(i) /\ s_[i] = E(i)
      BY <1>4, <1>6, <1>7
    <3>2. t_[k + 1] = D(k + 1)
      BY <1>4, <1>6
    <3> QED
      BY <1>8, <1>9, <3>1, <3>2
  <2>3. /\ Append(s_, last) \in Seq(Glyphs) /\ Len(Append(s_, last)) = k + 1
        /\ (\A i \in 1..k : Append(s_, last)[i] = s_[i]) /\ Append(s_, last)[k + 1] = last
    <3>1. s_ \in Seq(Glyphs)
      BY <1>11
    <3> HIDE DEF s_, t_
    <3> QED
      BY <1>10, <2>1, <3>1, AppendProperties
  <2>4. \A i \in 1..Len(t_) : t_[i] = Append(s_, last)[i]
    <3> SUFFICES ASSUME NEW i \in 1..Len(t_) PROVE t_[i] = Append(s_, last)[i]
      OBVIOUS
    <3>1. i \in 1..k \/ i = k + 1
      BY <1>4, <2>1
    <3> HIDE DEF s_, t_
    <3> QED
      BY <2>2, <2>3, <3>1
  <2>5. t_ \in Seq(Glyphs)
    BY <1>11
  <2> HIDE DEF s_, t_
  <2>6. t_ = Append(s_, last)
    BY <2>1, <2>3, <2>4, <2>5, SeqEqual
  <2> QED
    BY <2>6 DEF s_, t_
<1> QED
  BY <1>2, <1>12 DEF last

\* A text and a character more.
LEMMA Regrouped ==
  ASSUME NEW s_ \in Text, NEW t_ \in Text, NEW x \in Glyphs
  PROVE  (s_ \o t_) \o <<x>> = s_ \o Append(t_, x)
<1>1. s_ \in Seq(Glyphs) /\ t_ \in Seq(Glyphs) /\ <<x>> \in Seq(Glyphs)
  BY DEF Text
<1>2. (s_ \o t_) \o <<x>> = s_ \o (t_ \o <<x>>)
  BY <1>1, ConcatAssociative
<1>3. t_ \o <<x>> = Append(t_, x)
  BY <1>1, AppendIsConcat
<1> QED
  BY <1>2, <1>3

\* printnum prints the numeral, with what it lacks of the width before it.
LEMMA PrintnumIs ==
  ASSUME NEW base \in 2..16, NEW v \in Nat, NEW wide \in Int, NEW char_ \in Glyphs
  PROVE  printnum(v, base, wide, char_)
           = Times(char_, wide - Len(Numeral(v, base))) \o Numeral(v, base)
<1> DEFINE LastDigit(k) == Digits[(k % base) + 1]
           Form(g) == g = [k \in Nat |-> [w \in Int |->
                             (IF k >= base THEN g[k \div base][w - 1] ELSE Times(char_, w - 1)) \o <<LastDigit(k)>>]]
           Lacks(k, w) == Times(char_, w - Len(Numeral(k, base))) \o Numeral(k, base)
           h == [k \in Nat |-> [w \in Int |-> Lacks(k, w)]]
           num == CHOOSE g : Form(g)
<1>1. ASSUME NEW k \in Nat, NEW w \in Int, k < base PROVE Times(char_, w - 1) \o <<LastDigit(k)>> = Lacks(k, w)
  <2>1. k % base = k
    BY <1>1
  <2>2. Numeral(k, base) = <<Digits[k + 1]>> /\ k % base = k
    <3> HIDE DEF LastDigit, Lacks, h, num, Form
    <3> QED
      BY <1>1, <2>1, NumeralSmall
  <2>3. Len(Numeral(k, base)) = 1
    BY <2>2
  <2> QED
    BY <2>2, <2>3
<1>2. ASSUME NEW k \in Nat, NEW w \in Int, k >= base
      PROVE  Lacks(k \div base, w - 1) \o <<LastDigit(k)>> = Lacks(k, w)
  <2>1. PICK q \in Nat : q = k \div base
    OBVIOUS
  <2>2. Numeral(k, base) = Append(Numeral(q, base), LastDigit(k))
    BY <1>2, <2>1, NumeralMore
  <2>3. PICK m \in Nat : m = Len(Numeral(q, base)) /\ Numeral(q, base) \in Text
    BY NumeralText DEF Text
  <2>4. LastDigit(k) \in Glyphs
    <3>1. (k % base) + 1 \in 1..16
      OBVIOUS
    <3> QED
      BY <3>1, GlyphsAre
  <2> HIDE DEF LastDigit
  <2>5. Len(Numeral(k, base)) = m + 1
    BY <2>2, <2>3, <2>4, AppendProperties DEF Text
  <2>6. Times(char_, (w - 1) - m) \in Text
    BY TimesAre
  <2>7. (Times(char_, (w - 1) - m) \o Numeral(q, base)) \o <<LastDigit(k)>>
          = Times(char_, (w - 1) - m) \o Append(Numeral(q, base), LastDigit(k))
    BY <2>3, <2>4, <2>6, Regrouped
  <2>8. (w - 1) - m = w - (m + 1)
    OBVIOUS
  <2> QED
    BY <2>1, <2>2, <2>3, <2>5, <2>7, <2>8
<1> HIDE DEF Lacks, LastDigit
<1>3. ASSUME NEW k \in Nat, NEW w \in Int
      PROVE  h[k][w] = (IF k >= base THEN h[k \div base][w - 1] ELSE Times(char_, w - 1)) \o <<LastDigit(k)>>
  <2>1. k \div base \in Nat /\ w - 1 \in Int
    OBVIOUS
  <2>2. h[k][w] = Lacks(k, w) /\ h[k \div base][w - 1] = Lacks(k \div base, w - 1)
    BY <2>1
  <2> HIDE DEF h
  <2>3. CASE k < base
    <3>1. ~(k >= base)
      BY <2>3
    <3> QED
      BY <1>1, <2>2, <2>3, <3>1
  <2>4. CASE k >= base
    BY <1>2, <2>2, <2>4
  <2>5. k < base \/ k >= base
    OBVIOUS
  <2> QED
    BY <2>3, <2>4, <2>5, Zenon
<1>4. Form(h)
  <2>1. h = [k \in Nat |-> [w \in Int |-> h[k][w]]]
    OBVIOUS
  <2> HIDE DEF h
  <2>2. [k \in Nat |-> [w \in Int |-> h[k][w]]] = [k \in Nat |-> [w \in Int |->
           (IF k >= base THEN h[k \div base][w - 1] ELSE Times(char_, w - 1)) \o <<LastDigit(k)>>]]
    BY <1>3
  <2> QED
    BY <2>1, <2>2
<1>5. Form(num)
  <2>1. \E g : Form(g)
    BY <1>4
  <2> HIDE DEF Form
  <2> QED
    BY <2>1, Zenon
<1>6. printnum(v, base, wide, char_) = num[v][wide]
  BY DEF printnum, LastDigit
<1> HIDE DEF num
<1>7. \A k \in Nat : \A w \in Int : h[k][w] = Lacks(k, w)
  OBVIOUS
<1> HIDE DEF h
<1> DEFINE S == {k \in Nat : \A w \in Int : num[k][w] = h[k][w]}
<1>8. ASSUME NEW k \in Nat, \A j \in 0..(k - 1) : j \in S PROVE k \in S
  <2> SUFFICES ASSUME NEW w \in Int PROVE num[k][w] = h[k][w]
    OBVIOUS
  <2>1. num[k][w] = (IF k >= base THEN num[k \div base][w - 1] ELSE Times(char_, w - 1)) \o <<LastDigit(k)>>
    <3>1. num = [i \in Nat |-> [z \in Int |->
             (IF i >= base THEN num[i \div base][z - 1] ELSE Times(char_, z - 1)) \o <<LastDigit(i)>>]]
      BY <1>5
    <3>2. num[k] = [z \in Int |->
             (IF k >= base THEN num[k \div base][z - 1] ELSE Times(char_, z - 1)) \o <<LastDigit(k)>>]
      BY <3>1
    <3> QED
      BY <3>2
  <2>2. h[k][w] = (IF k >= base THEN h[k \div base][w - 1] ELSE Times(char_, w - 1)) \o <<LastDigit(k)>>
    BY <1>3
  <2>3. CASE k >= base
    <3>1. PICK q \in Nat : q = k \div base /\ q < k
      <4>1. k \div base \in Nat /\ k \div base < k
        BY <2>3
      <4> QED
        BY <4>1
    <3>2. q \in S
      BY <1>8, <3>1
    <3>3. num[q][w - 1] = h[q][w - 1]
      BY <3>2
    <3> QED
      BY <2>1, <2>2, <2>3, <3>1, <3>3
  <2>4. CASE ~(k >= base)
    BY <2>1, <2>2, <2>4
  <2> QED
    BY <2>3, <2>4
<1>9. v \in S
  <2> HIDE DEF S
  <2> QED
    BY <1>8, Strongly
<1> QED
  BY <1>6, <1>7, <1>9 DEF Lacks


-----------------------------------------------------------------------------
(* Sequences of sequences, one after the other *)

\* A sequence is one over any larger set.
LEMMA SeqWider ==
  ASSUME NEW S, NEW T, S \subseteq T, NEW s_ \in Seq(S)
  PROVE  s_ \in Seq(T)
<1>1. s_ \in [1..Len(s_) -> T] /\ Len(s_) \in Nat
  OBVIOUS
<1> QED
  BY <1>1

PartsOf(ss, m, S) == m \in Nat /\ Len(ss) = m /\ \A k \in 1..m : ss[k] \in Seq(S)

Grows(all, ss, m, S) ==
  /\ all[0] = <<>>
  /\ \A k \in 0..m : all[k] \in Seq(S)
  /\ \A k \in 1..m : all[k] = all[k - 1] \o ss[k]

\* Each sequence is joined to those before it.
LEMMA JoinedIs ==
  ASSUME NEW S, NEW m, NEW ss, PartsOf(ss, m, S)
  PROVE  Grows(Joined(ss), ss, m, S)
<1> DEFINE G == [k \in Nat |-> [x \in Seq(S) |-> x \o ss[k]]]
           Form(g) == g = [k \in 0..m |-> IF k = 0 THEN <<>> ELSE g[k - 1] \o ss[k]]
           all == CHOOSE g : Form(g)
<1>1. m \in Nat /\ Len(ss) = m /\ (\A k \in 1..m : ss[k] \in Seq(S)) /\ <<>> \in Seq(S)
  BY DEF PartsOf
<1>2. PICK f : IsCount(f, <<>>, G)
  <2> HIDE DEF G
  <2> QED
    BY CountExists
<1>3. f = [k \in Nat |-> IF k = 0 THEN <<>> ELSE G[k][f[k - 1]]]
  BY <1>2 DEF IsCount
<1>4. f[0] = <<>> /\ \A k \in Nat \ {0} : f[k] = G[k][f[k - 1]]
  <2> HIDE DEF G
  <2> QED
    BY <1>3
<1>5. \A k \in Nat : \A x \in Seq(S) : G[k][x] = x \o ss[k]
  OBVIOUS
<1> HIDE DEF G
<1> DEFINE Good == {k \in Nat : k <= m => f[k] \in Seq(S)}
<1>6. Nat \subseteq Good
  <2>1. 0 \in Good
    BY <1>1, <1>4
  <2>2. ASSUME NEW k \in Nat, k \in Good PROVE k + 1 \in Good
    <3> SUFFICES ASSUME k + 1 <= m PROVE f[k + 1] \in Seq(S)
      OBVIOUS
    <3>1. k + 1 \in Nat \ {0} /\ (k + 1) - 1 = k /\ k + 1 \in 1..m /\ f[k] \in Seq(S)
      BY <1>1, <2>2
    <3>2. f[k + 1] = G[k + 1][f[(k + 1) - 1]]
      BY <1>4, <3>1
    <3>3. G[k + 1][f[k]] = f[k] \o ss[k + 1] /\ ss[k + 1] \in Seq(S)
      BY <1>1, <1>5, <3>1
    <3>4. f[k] \o ss[k + 1] \in Seq(S)
      BY <3>1, <3>3
    <3> QED
      BY <3>1, <3>2, <3>3, <3>4
  <2> HIDE DEF Good
  <2> QED
    BY <2>1, <2>2, Induct
<1>7. \A k \in 0..m : f[k] \in Seq(S)
  BY <1>6
<1> HIDE DEF Good
<1> DEFINE g_ == [k \in 0..m |-> f[k]]
<1> USE <1>1
<1>8. ASSUME NEW k \in 0..m PROVE g_[k] = IF k = 0 THEN <<>> ELSE g_[k - 1] \o ss[k]
  <2>1. CASE k = 0
    BY <1>4, <2>1
  <2>2. CASE k # 0
    <3>1. k \in Nat \ {0} /\ k - 1 \in 0..m /\ k \in 1..m
      BY <2>2
    <3>2. f[k] = G[k][f[k - 1]] /\ G[k][f[k - 1]] = f[k - 1] \o ss[k]
      BY <1>4, <1>5, <1>7, <3>1
    <3>3. g_[k] = f[k] /\ g_[k - 1] = f[k - 1]
      BY <3>1
    <3> QED
      BY <2>2, <3>2, <3>3
  <2> QED
    BY <2>1, <2>2
<1>9. Form(g_)
  <2>1. g_ = [k \in 0..m |-> g_[k]]
    OBVIOUS
  <2> HIDE DEF g_
  <2> QED
    BY <1>8, <2>1
<1>10. Form(all)
  <2>1. \E g : Form(g)
    BY <1>9
  <2> HIDE DEF Form
  <2> QED
    BY <2>1, Zenon
<1>11. Joined(ss) = all
  BY <1>1 DEF Joined
<1> HIDE DEF all
<1>12. all[0] = <<>>
  BY <1>10
<1>13. ASSUME NEW k \in 1..m PROVE all[k] = all[k - 1] \o ss[k]
  <2>1. k \in 0..m /\ k # 0
    OBVIOUS
  <2> QED
    BY <1>10, <2>1
<1> HIDE DEF Form
<1> DEFINE Fine == {k \in Nat : k <= m => all[k] \in Seq(S)}
<1>14. Nat \subseteq Fine
  <2>1. 0 \in Fine
    BY <1>1, <1>12
  <2>2. ASSUME NEW k \in Nat, k \in Fine PROVE k + 1 \in Fine
    <3> SUFFICES ASSUME k + 1 <= m PROVE all[k + 1] \in Seq(S)
      OBVIOUS
    <3>1. (k + 1) - 1 = k /\ k + 1 \in 1..m /\ all[k] \in Seq(S)
      BY <2>2
    <3>2. all[k + 1] = all[(k + 1) - 1] \o ss[k + 1] /\ ss[k + 1] \in Seq(S)
      BY <1>1, <1>13, <3>1
    <3> QED
      BY <3>1, <3>2
  <2> HIDE DEF Fine
  <2> QED
    BY <2>1, <2>2, Induct
<1>15. \A k \in 0..m : all[k] \in Seq(S)
  BY <1>14
<1> QED
  BY <1>11, <1>12, <1>13, <1>15 DEF Grows

\* One sequence begins with another.
StartsWith(t_, s_) == Len(s_) <= Len(t_) /\ \A i \in 1..Len(s_) : t_[i] = s_[i]

\* What has been joined stays where it is.
LEMMA JoinedStays ==
  ASSUME NEW S, NEW m, NEW ss, PartsOf(ss, m, S),
         NEW j \in 0..m
  PROVE  \A k \in j..m : StartsWith(Joined(ss)[k], Joined(ss)[j])
<1> DEFINE J == Joined(ss)
           Kept(k) == /\ Len(J[j]) <= Len(J[k])
                       /\ \A i \in 1..Len(J[j]) : J[k][i] = J[j][i]
           T == {e \in Nat : j + e <= m => Kept(j + e)}
<1>1. m \in Nat /\ \A k \in 1..m : ss[k] \in Seq(S)
  BY DEF PartsOf
<1>2. Grows(J, ss, m, S)
  BY JoinedIs
<1>3. \A k \in 0..m : J[k] \in Seq(S)
  BY <1>2 DEF Grows
<1>4. \A k \in 1..m : J[k] = J[k - 1] \o ss[k]
  BY <1>2 DEF Grows
<1> USE <1>1
<1> HIDE DEF J
<1>5. 0 \in T
  <2>1. J[j] \in Seq(S) /\ j + 0 = j
    BY <1>3
  <2>2. Len(J[j]) \in Nat
    BY <2>1
  <2> QED
    BY <2>1, <2>2
<1>6. ASSUME NEW e \in Nat, e \in T PROVE e + 1 \in T
  <2> SUFFICES ASSUME j + (e + 1) <= m PROVE Kept(j + (e + 1))
    OBVIOUS
  <2>1. PICK k \in Nat : k = j + e /\ k + 1 = j + (e + 1) /\ k + 1 \in 1..m /\ k \in 0..m /\ (k + 1) - 1 = k
    OBVIOUS
  <2>2. Kept(k)
    BY <1>6, <2>1
  <2>3. J[k + 1] = J[k] \o ss[k + 1] /\ J[k] \in Seq(S) /\ ss[k + 1] \in Seq(S) /\ J[j] \in Seq(S)
    <3>1. J[k + 1] = J[(k + 1) - 1] \o ss[k + 1]
      BY <1>4, <2>1
    <3> QED
      BY <1>3, <2>1, <3>1
  <2>4. PICK x, y, z : x = J[k] /\ y = ss[k + 1] /\ z = J[j]
    OBVIOUS
  <2>5. x \in Seq(S) /\ y \in Seq(S) /\ z \in Seq(S)
    BY <2>3, <2>4
  <2>6. /\ Len(x \o y) = Len(x) + Len(y)
        /\ \A i \in 1..Len(x) : (x \o y)[i] = x[i]
        /\ Len(x) \in Nat /\ Len(y) \in Nat /\ Len(z) \in Nat
    BY <2>5
  <2>7. /\ Len(J[k] \o ss[k + 1]) = Len(J[k]) + Len(ss[k + 1])
        /\ \A i \in 1..Len(J[k]) : (J[k] \o ss[k + 1])[i] = J[k][i]
        /\ Len(J[k]) \in Nat /\ Len(ss[k + 1]) \in Nat /\ Len(J[j]) \in Nat
    BY <2>4, <2>6
  <2>8. Len(J[j]) <= Len(J[k + 1])
    <3>1. Len(J[k + 1]) = Len(x) + Len(y)
      BY <2>3, <2>4, <2>6
    <3>2. Len(z) <= Len(x)
      BY <2>2, <2>4
    <3>3. Len(z) <= Len(x) + Len(y)
      BY <2>6, <3>2
    <3> HIDE DEF Kept, T
    <3> QED
      BY <2>4, <3>1, <3>3
  <2>9. ASSUME NEW i \in 1..Len(J[j]) PROVE J[k + 1][i] = J[j][i]
    <3>1. i \in 1..Len(J[k]) /\ J[k][i] = J[j][i]
      BY <2>2, <2>7
    <3> QED
      BY <2>3, <2>7, <3>1
  <2> QED
    BY <2>1, <2>8, <2>9
<1>7. Nat \subseteq T
  <2> HIDE DEF T
  <2> QED
    BY <1>5, <1>6, Induct
<1>8. ASSUME NEW k \in j..m PROVE Kept(k)
  <2>1. k - j \in Nat /\ j + (k - j) = k /\ k <= m
    OBVIOUS
  <2>2. k - j \in T
    BY <1>7, <2>1
  <2> QED
    BY <2>1, <2>2
<1> QED
  BY <1>8 DEF J, StartsWith

\* What follows a place in a sequence.
Ahead(sq, place, rest) == \A i \in 1..Len(rest) : sq[place + i - 1] = rest[i]

\* Each part follows those before it.
LEMMA JoinedAhead ==
  ASSUME NEW S, NEW m, NEW ss, PartsOf(ss, m, S),
         NEW k \in 1..m
  PROVE  /\ Ahead(Joined(ss)[m], Len(Joined(ss)[k - 1]) + 1, ss[k])
         /\ Len(Joined(ss)[k]) = Len(Joined(ss)[k - 1]) + Len(ss[k])
         /\ Len(Joined(ss)[k]) <= Len(Joined(ss)[m])
<1> DEFINE J == Joined(ss)
<1>1. m \in Nat /\ \A i \in 1..m : ss[i] \in Seq(S)
  BY DEF PartsOf
<1>2. Grows(J, ss, m, S)
  BY JoinedIs
<1>3. \A i \in 0..m : J[i] \in Seq(S)
  BY <1>2 DEF Grows
<1>4. J[k] = J[k - 1] \o ss[k]
  BY <1>2 DEF Grows
<1> USE <1>1
<1>5. k \in 0..m /\ k - 1 \in 0..m /\ m \in k..m
  OBVIOUS
<1>6. \A e \in k..m : StartsWith(J[e], J[k])
  BY <1>5, JoinedStays
<1> HIDE DEF J
<1>7. Len(J[k]) <= Len(J[m]) /\ \A i \in 1..Len(J[k]) : J[m][i] = J[k][i]
  BY <1>5, <1>6 DEF StartsWith
<1>8. PICK x, y : x = J[k - 1] /\ y = ss[k]
  OBVIOUS
<1>9. x \in Seq(S) /\ y \in Seq(S) /\ J[k] = x \o y
  BY <1>3, <1>4, <1>5, <1>8
<1>10. Len(J[k]) = Len(x) + Len(y) /\ Len(x) \in Nat /\ Len(y) \in Nat
  BY <1>9
<1>11. ASSUME NEW i \in 1..Len(y) PROVE J[m][(Len(x) + 1) + i - 1] = y[i]
  <2>1. Len(x) + i \in 1..Len(J[k]) /\ (Len(x) + 1) + i - 1 = Len(x) + i
    BY <1>10
  <2>2. (x \o y)[Len(x) + i] = y[i]
    BY <1>9, <1>10
  <2> QED
    BY <1>7, <1>9, <2>1, <2>2
<1> QED
  BY <1>7, <1>8, <1>10, <1>11 DEF Ahead, J

\* Of a sequence that lies ahead, its parts do.
LEMMA AheadSplit ==
  ASSUME NEW S, NEW sq, NEW place \in Nat, NEW x \in Seq(S), NEW y \in Seq(S), Ahead(sq, place, x \o y)
  PROVE  /\ Ahead(sq, place, x) /\ Ahead(sq, place + Len(x), y)
         /\ Len(x \o y) = Len(x) + Len(y)
<1>1. Len(x \o y) = Len(x) + Len(y) /\ Len(x) \in Nat /\ Len(y) \in Nat
  OBVIOUS
<1>2. ASSUME NEW i \in 1..Len(x) PROVE sq[place + i - 1] = x[i]
  <2>1. i \in 1..Len(x \o y) /\ (x \o y)[i] = x[i]
    BY <1>1
  <2> QED
    BY <2>1 DEF Ahead
<1>3. ASSUME NEW i \in 1..Len(y) PROVE sq[(place + Len(x)) + i - 1] = y[i]
  <2>1. Len(x) + i \in 1..Len(x \o y) /\ (x \o y)[Len(x) + i] = y[i]
    BY <1>1
  <2>2. (place + Len(x)) + i - 1 = place + (Len(x) + i) - 1
    BY <1>1
  <2> QED
    BY <2>1, <2>2 DEF Ahead
<1> QED
  BY <1>1, <1>2, <1>3 DEF Ahead

-----------------------------------------------------------------------------
(* How a directive is spelled *)

\* A numeral of base ten is a text of decimal digits.
LEMMA DecimalText ==
  ASSUME NEW v \in Nat
  PROVE  Numeral(v, 10) \in Seq(Decimal)
<1>1. PICK base \in Nat : base = 10
  OBVIOUS
<1>2. base > 1 /\ base \in 2..16
  BY <1>1
<1>3. PICK k : TakesDigits(v, base, k)
  BY <1>2, DigitsNeeded
<1>4. k \in Nat \ {0}
  BY <1>3 DEF TakesDigits
<1>5. Numeral(v, base) = [i \in 1..k |-> Digits[((v \div Power(base, k - i)) % base) + 1]]
  BY <1>2, <1>3, NumeralIs
<1>6. ASSUME NEW i \in 1..k PROVE Digits[((v \div Power(base, k - i)) % base) + 1] \in Decimal
  <2>1. Power(base, k - i) \in Nat \ {0}
    BY <1>2, <1>4, PowerGrows
  <2>2. PICK q \in Nat : q = v \div Power(base, k - i)
    BY <2>1
  <2>3. (q % base) + 1 \in 1..10
    BY <1>1
  <2>4. \A x \in 1..10 : Digits[x] \in Decimal
    BY DEF Digits, Decimal
  <2> QED
    BY <2>2, <2>3, <2>4
<1>7. Numeral(v, base) \in [1..k -> Decimal]
  BY <1>5, <1>6
<1> QED
  BY <1>1, <1>4, <1>7

\* The letter of a conversion is printable.
LEMMA ConvGlyph ==
  ASSUME NEW item, Takes(item.conv, item.long, item.words)
  PROVE  item.conv \in Glyphs
<1>1. Integral \subseteq Known /\ {"p", "e", "c", "s", "%"} \subseteq Known
  BY DEF Integral, Known
<1>2. item.conv \in Known \/ item.conv \in STRING
  BY <1>1 DEF Takes, Unknown
<1> QED
  BY <1>2, GlyphsAre

\* A width or a precision is spelled with decimal digits or a star,
LEMMA NumberIn ==
  ASSUME NEW S, Decimal \cup {"*"} \subseteq S, NEW f, ProperNumber(f)
  PROVE  Number(f) \in Seq(S)
<1>1. CASE ~f.given
  BY <1>1 DEF Number
<1>2. CASE f.given /\ f.star
  <2>1. <<"*">> \in Seq(S)
    OBVIOUS
  <2> QED
    BY <1>2, <2>1 DEF Number
<1>3. CASE f.given /\ ~f.star
  <2>1. f.value \in Nat
    BY <1>3 DEF ProperNumber
  <2>2. Numeral(f.value, 10) \in Seq(Decimal)
    BY <2>1, DecimalText
  <2>3. Numeral(f.value, 10) \in Seq(S)
    BY <2>2
  <2> QED
    BY <1>3, <2>3 DEF Number
<1> QED
  BY <1>1, <1>2, <1>3

\* A directive, from any of its parts on.
SpelledIn(item, S) ==
  /\ \A many \in Nat : FromLong(item, many) \in Seq(S) /\ Times("l", many) \in Seq(S)
  /\ FromPrec(item) \in Seq(S) /\ FromDot(item) \in Seq(S) /\ FromWidth(item) \in Seq(S)
  /\ FromAlt(item) \in Seq(S) /\ FromZero(item) \in Seq(S) /\ FromMinus(item) \in Seq(S)
  /\ Number(item.width) \in Seq(S) /\ Number(item.prec) \in Seq(S)
  /\ \A given_ \in BOOLEAN, char_ \in S : Flag(given_, char_) \in Seq(S)

\* a directive from any of its parts on with those, the flags and its letter,
LEMMA SpelledAre ==
  ASSUME NEW S, Known \ {"%"} \subseteq S, NEW item, ProperDirective(item), item.conv \in S
  PROVE  SpelledIn(item, S)
<1>1. /\ "l" \in S /\ "." \in S /\ "#" \in S /\ "0" \in S /\ "-" \in S
      /\ Decimal \cup {"*"} \subseteq S
  BY DEF Known, Decimal
<1>2. /\ ProperNumber(item.width) /\ ProperNumber(item.prec) /\ item.long \in Nat
      /\ item.minus \in BOOLEAN /\ item.zero \in BOOLEAN /\ item.alt \in BOOLEAN
  BY DEF ProperDirective
<1>3. Number(item.width) \in Seq(S) /\ Number(item.prec) \in Seq(S)
  BY <1>1, <1>2, NumberIn
<1>4. \A given_ \in BOOLEAN, char_ \in S : Flag(given_, char_) \in Seq(S)
  BY DEF Flag
<1>5. ASSUME NEW many \in Nat PROVE FromLong(item, many) \in Seq(S) /\ Times("l", many) \in Seq(S)
  <2>1. Times("l", many) \in Seq(S)
    BY <1>1, TimesIn
  <2>2. <<item.conv>> \in Seq(S)
    OBVIOUS
  <2> QED
    BY <2>1, <2>2 DEF FromLong
<1>6. item.prec.given \in BOOLEAN
  BY <1>2 DEF ProperNumber
<1>7. FromPrec(item) \in Seq(S)
  <2>1. FromLong(item, item.long) \in Seq(S)
    BY <1>2, <1>5
  <2> QED
    BY <1>3, <2>1 DEF FromPrec
<1>8. FromDot(item) \in Seq(S)
  <2>1. Flag(item.prec.given, ".") \in Seq(S)
    BY <1>1, <1>4, <1>6
  <2> QED
    BY <1>7, <2>1 DEF FromDot
<1>9. FromWidth(item) \in Seq(S)
  BY <1>3, <1>8 DEF FromWidth
<1>10. FromAlt(item) \in Seq(S)
  <2>1. Flag(item.alt, "#") \in Seq(S)
    BY <1>1, <1>2, <1>4
  <2> QED
    BY <1>9, <2>1 DEF FromAlt
<1>11. FromZero(item) \in Seq(S)
  <2>1. Flag(item.zero, "0") \in Seq(S)
    BY <1>1, <1>2, <1>4
  <2> QED
    BY <1>10, <2>1 DEF FromZero
<1>12. FromMinus(item) \in Seq(S)
  <2>1. Flag(item.minus, "-") \in Seq(S)
    BY <1>1, <1>2, <1>4
  <2> QED
    BY <1>11, <2>1 DEF FromMinus
<1> QED
  BY <1>3, <1>4, <1>5, <1>7, <1>8, <1>9, <1>10, <1>11, <1>12 DEF SpelledIn

\* An item that is printed as it is spelled.
Literal(item) == item.conv = "text" \/ Unknown(item.conv)

Clean == Glyphs \ {"%", "NUL"}

\* and every item is spelled as a text that is not empty.
LEMMA SpelledText ==
  ASSUME NEW item, Proper(item)
  PROVE  /\ Spelled(item) \in Text /\ Len(Spelled(item)) \in Nat \ {0}
         /\ item.conv # "text" => SpelledIn(item, Glyphs)
<1>1. CASE item.conv = "text"
  <2>1. item.chars \in Seq(STRING) \ {<<>>}
    BY <1>1 DEF Proper, ProperText
  <2>2. item.chars \in Seq(Glyphs) /\ Len(item.chars) \in Nat \ {0}
    <3>1. item.chars \in Seq(Glyphs)
      BY <2>1, GlyphsAre, SeqWider
    <3> QED
      BY <2>1, <3>1, EmptySeq
  <2> QED
    BY <1>1, <2>2 DEF Spelled, Text
<1>2. CASE item.conv # "text"
  <2>1. ProperDirective(item)
    BY <1>2 DEF Proper
  <2>2. item.conv \in Glyphs
    BY <2>1, ConvGlyph DEF ProperDirective
  <2>3. Known \ {"%"} \subseteq Glyphs /\ "%" \in Glyphs
    BY GlyphsAre DEF Known
  <2>4. SpelledIn(item, Glyphs)
    BY <2>1, <2>2, <2>3, SpelledAre
  <2>5. FromMinus(item) \in Seq(Glyphs)
    BY <2>4 DEF SpelledIn
  <2>6. <<"%">> \o FromMinus(item) \in Seq(Glyphs)
          /\ Len(<<"%">> \o FromMinus(item)) = 1 + Len(FromMinus(item))
    BY <2>3, <2>5
  <2>7. Spelled(item) = <<"%">> \o FromMinus(item)
    BY <1>2 DEF Spelled
  <2> QED
    BY <2>4, <2>5, <2>6, <2>7, <1>2 DEF Text
<1> QED
  BY <1>1, <1>2

\* After its first character such an item has no %, and a text has none at all.
LEMMA LiteralPlain ==
  ASSUME NEW item, Proper(item), Literal(item)
  PROVE  /\ \A i \in 2..Len(Spelled(item)) : Spelled(item)[i] \notin {"%", "NUL"}
         /\ item.conv = "text" => Spelled(item)[1] \notin {"%", "NUL"}
         /\ item.conv # "text" => Spelled(item)[1] = "%"
<1>1. Len(Spelled(item)) \in Nat \ {0}
  BY SpelledText
<1>2. CASE item.conv = "text"
  <2>1. Spelled(item) = item.chars /\ \A i \in DOMAIN item.chars : item.chars[i] \notin {"%", "NUL"}
    BY <1>2 DEF Proper, ProperText, Spelled
  <2>2. DOMAIN item.chars = 1..Len(item.chars)
    BY <1>2 DEF Proper, ProperText
  <2> QED
    BY <1>1, <1>2, <2>1, <2>2
<1>3. CASE item.conv # "text"
  <2>1. ProperDirective(item) /\ Unknown(item.conv)
    BY <1>3 DEF Proper, Literal
  <2>2. item.conv \in Clean
    <3>1. item.conv \in STRING /\ item.conv \notin Known /\ item.conv # "NUL"
      BY <2>1 DEF Unknown
    <3>2. "%" \in Known
      BY DEF Known
    <3> QED
      BY <3>1, <3>2, GlyphsAre DEF Clean
  <2>3. Known \ {"%"} \subseteq Clean
    <3>1. "NUL" \notin Known
      BY DEF Known, Decimal
    <3> QED
      BY <3>1, GlyphsAre DEF Clean
  <2>4. SpelledIn(item, Clean)
    BY <2>1, <2>2, <2>3, SpelledAre
  <2>5. FromMinus(item) \in Seq(Clean)
    BY <2>4 DEF SpelledIn
  <2>6. Spelled(item) = <<"%">> \o FromMinus(item)
    BY <1>3 DEF Spelled
  <2>7. PICK x : x = FromMinus(item) /\ x \in Seq(Clean) /\ Len(x) \in Nat
    BY <2>5
  <2>8. <<"%">> \in Seq({"%"} \cup Clean) /\ x \in Seq({"%"} \cup Clean)
    BY <2>7
  <2>9. /\ Len(<<"%">> \o x) = 1 + Len(x) /\ (<<"%">> \o x)[1] = "%"
        /\ \A i \in 2..(1 + Len(x)) : (<<"%">> \o x)[i] = x[i - 1]
    BY <2>7, <2>8
  <2>10. ASSUME NEW i \in 2..(1 + Len(x)) PROVE (<<"%">> \o x)[i] \notin {"%", "NUL"}
    <3>1. i - 1 \in 1..Len(x)
      BY <2>7
    <3>2. x[i - 1] \in Clean
      BY <2>7, <3>1
    <3> QED
      BY <2>9, <3>2 DEF Clean
  <2> QED
    BY <1>3, <2>6, <2>7, <2>9, <2>10
<1> QED
  BY <1>2, <1>3

-----------------------------------------------------------------------------
(* What is read of a format *)

\* The characters the directive is read from are those that lie ahead.
LEMMA CharsAhead ==
  ASSUME NEW place \in Nat \ {0}, NEW m \in Nat, NEW rest, Len(rest) = m,
         Ahead(fmt, place, rest), place + m <= Len(fmt) + 1, Len(fmt) \in Nat
  PROVE  \A i \in 1..m : Char(place + i - 1) = rest[i]
<1> SUFFICES ASSUME NEW i \in 1..m PROVE Char(place + i - 1) = rest[i]
  OBVIOUS
<1>1. fmt[place + i - 1] = rest[i]
  BY DEF Ahead
<1>2. place + i - 1 \in 1..Len(fmt)
  OBVIOUS
<1> QED
  BY <1>1, <1>2 DEF Char

\* The digit a character stands for.
LEMMA DigitIs ==
  ASSUME NEW e \in 0..9
  PROVE  Digits[e + 1] \in Decimal /\ DigitOf(Digits[e + 1]) = e /\ (e # 0 => Digits[e + 1] # "0")
<1>1. \A i, j \in 0..9 : Digits[i + 1] = Digits[j + 1] => i = j
  BY DEF Digits
<1>2. Digits[e + 1] \in Decimal /\ (e # 0 => Digits[e + 1] # "0")
  BY DEF Digits, Decimal
<1>3. \E i \in 0..9 : Digits[i + 1] = Digits[e + 1]
  OBVIOUS
<1>4. DigitOf(Digits[e + 1]) \in 0..9 /\ Digits[DigitOf(Digits[e + 1]) + 1] = Digits[e + 1]
  BY <1>3, Zenon DEF DigitOf
<1>5. DigitOf(Digits[e + 1]) = e
  BY <1>1, <1>4
<1> QED
  BY <1>2, <1>5

\* A numeral of base ten: its digits make the value, one by one.
LEMMA DecimalDigits ==
  ASSUME NEW v \in Nat \ {0}
  PROVE  \E k \in Nat \ {0} : \E g \in [0..k -> Nat] :
           /\ Len(Numeral(v, 10)) = k /\ g[0] = 0 /\ g[k] = v
           /\ \A i \in 1..k : /\ Numeral(v, 10)[i] \in Decimal
                              /\ g[i] = (10 * g[i - 1]) + DigitOf(Numeral(v, 10)[i])
           /\ Numeral(v, 10)[1] # "0"
<1>1. PICK base \in Nat : base = 10
  OBVIOUS
<1>2. base > 1 /\ base \in 2..16 /\ v \in Nat
  BY <1>1
<1>3. PICK k : TakesDigits(v, base, k)
  BY <1>2, DigitsNeeded
<1>4. k \in Nat \ {0} /\ v < Power(base, k) /\ (k > 1 => v >= Power(base, k - 1))
  BY <1>3 DEF TakesDigits
<1> DEFINE q(i) == v \div Power(base, k - i)
           D(i) == Digits[(q(i) % base) + 1]
           g == [i \in 0..k |-> q(i)]
<1>5. Numeral(v, base) = [i \in 1..k |-> D(i)]
  BY <1>2, <1>3, NumeralIs
<1>6. ASSUME NEW i \in 0..k PROVE Power(base, k - i) \in Nat \ {0} /\ q(i) \in Nat
  <2>1. k - i \in Nat
    BY <1>4
  <2>2. Power(base, k - i) \in Nat \ {0}
    BY <1>2, <2>1, PowerGrows
  <2> QED
    BY <2>2
<1>7. g[0] = 0
  <2>1. Power(base, k - 0) \in Nat \ {0} /\ k - 0 = k
    BY <1>4, <1>6
  <2>2. \A x \in Nat, y \in Nat \ {0} : x < y => x \div y = 0
    OBVIOUS
  <2> QED
    BY <1>4, <2>1, <2>2
<1>8. g[k] = v
  <2>1. Power(base, 0) = 1 /\ k - k = 0 /\ v \div 1 = v
    BY <1>2, <1>4, PowerIs
  <2> QED
    BY <1>4, <2>1
<1>9. ASSUME NEW i \in 1..k PROVE q(i) = (base * q(i - 1)) + (q(i) % base)
  <2>1. PICK j \in Nat : j = k - i /\ j + 1 = k - (i - 1)
    BY <1>4
  <2>2. PICK p_ \in Nat \ {0} : p_ = Power(base, j) /\ Power(base, j + 1) = base * p_
    BY <1>2, <2>1, PowerGrows
  <2>3. (v \div p_) \div base = v \div (p_ * base)
    BY <1>2, DivDiv
  <2>4. PICK x \in Nat : x = q(i) /\ x \div base = q(i - 1)
    <3>1. p_ * base = base * p_ /\ v \div p_ \in Nat
      OBVIOUS
    <3> QED
      BY <2>1, <2>2, <2>3, <3>1
  <2>5. x = (base * (x \div base)) + (x % base)
    BY <1>2
  <2> QED
    BY <2>4, <2>5
<1>10. q(1) \in 1..9
  <2>1. PICK j \in Nat : j = k - 1 /\ j + 1 = k
    BY <1>4
  <2>2. PICK p_ \in Nat \ {0} : p_ = Power(base, j) /\ Power(base, j + 1) = base * p_
    BY <1>2, <2>1, PowerGrows
  <2>3. v < 10 * p_ /\ v >= p_
    <3>1. CASE k > 1
      BY <1>1, <1>4, <2>1, <2>2, <3>1
    <3>2. CASE k = 1
      <4>1. Power(base, 0) = 1 /\ j = 0
        BY <1>2, <2>1, <3>2, PowerIs
      <4> QED
        BY <1>1, <1>4, <2>1, <2>2, <4>1
    <3> QED
      BY <1>4, <3>1, <3>2
  <2>4. PICK x \in Nat, r \in 0..(p_ - 1) : v = (p_ * x) + r /\ v \div p_ = x
    OBVIOUS
  <2>5. x > 0
    <3> SUFFICES ASSUME x = 0 PROVE FALSE
      OBVIOUS
    <3>1. p_ * x = 0
      OBVIOUS
    <3> QED
      BY <2>3, <2>4, <3>1
  <2>6. x < 10
    <3> SUFFICES ASSUME x >= 10 PROVE FALSE
      OBVIOUS
    <3>1. p_ * x >= 10 * p_
      OBVIOUS
    <3> QED
      BY <2>3, <2>4, <3>1
  <2> QED
    <3>1. q(1) = v \div p_
      BY <2>1, <2>2
    <3>2. x \in 1..9
      BY <2>5, <2>6
    <3> QED
      BY <2>4, <3>1, <3>2
<1>11. ASSUME NEW i \in 1..k PROVE D(i) \in Decimal /\ DigitOf(D(i)) = q(i) % base
  <2>1. PICK x \in Nat : x = q(i)
    BY <1>6
  <2>2. x % base \in 0..9
    BY <1>1
  <2> QED
    BY <2>1, <2>2, DigitIs
<1>12. D(1) # "0"
  <2>1. PICK x \in 1..9 : x = q(1)
    BY <1>10
  <2>2. x % base = x /\ x \in 0..9 /\ x # 0
    BY <1>1
  <2>3. Digits[x + 1] # "0"
    BY <2>2, DigitIs
  <2> QED
    BY <2>1, <2>2, <2>3
<1>13. g \in [0..k -> Nat]
  BY <1>6
<1>14. \A i \in 1..k : g[i] = q(i) /\ g[i - 1] = q(i - 1)
  BY <1>4
<1> HIDE DEF q, D, g
<1>15. Len(Numeral(v, base)) = k /\ \A i \in 1..k : Numeral(v, base)[i] = D(i)
  BY <1>4, <1>5
<1>16. \A i \in 1..k : /\ Numeral(v, base)[i] \in Decimal
                       /\ g[i] = (base * g[i - 1]) + DigitOf(Numeral(v, base)[i])
  <2> SUFFICES ASSUME NEW i \in 1..k
               PROVE  /\ Numeral(v, base)[i] \in Decimal
                      /\ g[i] = (base * g[i - 1]) + DigitOf(Numeral(v, base)[i])
    OBVIOUS
  <2>1. Numeral(v, base)[i] = D(i) /\ D(i) \in Decimal /\ DigitOf(D(i)) = q(i) % base
    BY <1>11, <1>15
  <2>2. q(i) = (base * q(i - 1)) + (q(i) % base) /\ g[i] = q(i) /\ g[i - 1] = q(i - 1)
    BY <1>9, <1>14
  <2> QED
    BY <2>1, <2>2
<1>17. Numeral(v, base)[1] # "0"
  BY <1>4, <1>12, <1>15
<1> QED
  BY <1>1, <1>4, <1>7, <1>8, <1>13, <1>15, <1>16, <1>17

\* What digits makes of so many characters.
ValueRead(place, many) ==
  LET value[k \in 0..many] ==
        IF k = 0 THEN 0 ELSE 10 * value[k - 1] + DigitOf(Char(place + k - 1))
  IN  value[many]

\* Where a numeral of base ten lies ahead, its digits are read, up to its end, and its value comes out.
LEMMA ReadsNumber ==
  ASSUME NEW v \in Nat \ {0}, NEW place \in Nat \ {0}, Len(fmt) \in Nat,
         Ahead(fmt, place, Numeral(v, 10)), place + Len(Numeral(v, 10)) <= Len(fmt) + 1,
         Char(place + Len(Numeral(v, 10))) \notin Decimal
  PROVE  /\ Char(place) \in Decimal \ {"0"}
         /\ \A many \in Nat \ {0} :
              /\ \A k \in place..(place + many - 1) : Char(k) \in Decimal
              /\ Char(place + many) \notin Decimal
              => many = Len(Numeral(v, 10)) /\ ValueRead(place, many) = v
<1>1. PICK k \in Nat \ {0} : \E g \in [0..k -> Nat] :
           /\ Len(Numeral(v, 10)) = k /\ g[0] = 0 /\ g[k] = v
           /\ \A i \in 1..k : /\ Numeral(v, 10)[i] \in Decimal
                              /\ g[i] = (10 * g[i - 1]) + DigitOf(Numeral(v, 10)[i])
           /\ Numeral(v, 10)[1] # "0"
  BY DecimalDigits
<1>2. PICK g \in [0..k -> Nat] :
           /\ Len(Numeral(v, 10)) = k /\ g[0] = 0 /\ g[k] = v
           /\ \A i \in 1..k : /\ Numeral(v, 10)[i] \in Decimal
                              /\ g[i] = (10 * g[i - 1]) + DigitOf(Numeral(v, 10)[i])
           /\ Numeral(v, 10)[1] # "0"
  BY <1>1
<1>3. \A i \in 1..k : Char(place + i - 1) = Numeral(v, 10)[i]
  <2>1. PICK t_ : t_ = Numeral(v, 10)
    OBVIOUS
  <2>2. Len(t_) = k /\ Ahead(fmt, place, t_) /\ place + k <= Len(fmt) + 1
    BY <1>2, <2>1
  <2>3. \A i \in 1..k : Char(place + i - 1) = t_[i]
    BY <2>2, CharsAhead
  <2> QED
    BY <2>1, <2>3
<1>4. Char(place) \in Decimal \ {"0"}
  <2>1. 1 \in 1..k /\ place + 1 - 1 = place
    OBVIOUS
  <2> QED
    BY <1>2, <1>3, <2>1
<1>5. ASSUME NEW many \in Nat \ {0}, \A i \in place..(place + many - 1) : Char(i) \in Decimal,
             Char(place + many) \notin Decimal
      PROVE  many = k
  <2>1. ~(many < k)
    <3> SUFFICES ASSUME many < k PROVE FALSE
      OBVIOUS
    <3>1. many + 1 \in 1..k /\ place + (many + 1) - 1 = place + many
      OBVIOUS
    <3> QED
      BY <1>2, <1>3, <1>5, <3>1
  <2>2. ~(many > k)
    <3> SUFFICES ASSUME many > k PROVE FALSE
      OBVIOUS
    <3>1. place + k \in place..(place + many - 1)
      OBVIOUS
    <3> QED
      BY <1>2, <1>5, <3>1
  <2> QED
    BY <2>1, <2>2
<1>6. ValueRead(place, k) = v
  <2> DEFINE Form(f) == f = [i \in 0..k |-> IF i = 0 THEN 0 ELSE 10 * f[i - 1] + DigitOf(Char(place + i - 1))]
             value == CHOOSE f : Form(f)
  <2>1. ASSUME NEW i \in 0..k
        PROVE  g[i] = IF i = 0 THEN 0 ELSE 10 * g[i - 1] + DigitOf(Char(place + i - 1))
    <3>1. CASE i = 0
      BY <1>2, <3>1
    <3>2. CASE i # 0
      <4>1. i \in 1..k
        BY <3>2
      <4>2. g[i] = (10 * g[i - 1]) + DigitOf(Numeral(v, 10)[i]) /\ Char(place + i - 1) = Numeral(v, 10)[i]
        BY <1>2, <1>3, <4>1
      <4> QED
        BY <3>2, <4>2
    <3> QED
      BY <3>1, <3>2
  <2>2. g = [i \in 0..k |-> g[i]]
    OBVIOUS
  <2>3. Form(g)
    BY <2>1, <2>2
  <2>4. Form(value)
    <3>1. \E f : Form(f)
      BY <2>3
    <3> HIDE DEF Form
    <3> QED
      BY <3>1, Zenon
  <2>5. ValueRead(place, k) = value[k]
    BY DEF ValueRead
  <2> HIDE DEF value
  <2> DEFINE S == {i \in Nat : i <= k => value[i] = g[i]}
  <2>6. 0 \in S
    BY <1>2, <2>4
  <2>7. ASSUME NEW i \in Nat, i \in S PROVE i + 1 \in S
    <3> SUFFICES ASSUME i + 1 <= k PROVE value[i + 1] = g[i + 1]
      OBVIOUS
    <3>1. i + 1 \in 0..k /\ i + 1 # 0 /\ (i + 1) - 1 = i /\ value[i] = g[i]
      BY <2>7
    <3>2. value[i + 1] = 10 * value[(i + 1) - 1] + DigitOf(Char(place + (i + 1) - 1))
      BY <2>4, <3>1
    <3>3. g[i + 1] = 10 * g[(i + 1) - 1] + DigitOf(Char(place + (i + 1) - 1))
      BY <2>1, <3>1
    <3> QED
      BY <3>1, <3>2, <3>3
  <2>8. k \in S
    <3> HIDE DEF S
    <3> QED
      BY <2>6, <2>7, Induct
  <2> QED
    BY <1>2, <2>5, <2>8
<1> QED
  BY <1>2, <1>4, <1>5, <1>6

-----------------------------------------------------------------------------
(* What a directive prints *)

Held(f) == IF f.given THEN f.value ELSE -1
Widened(item) == IF item.prec.given /\ Held(item.width) < 0 THEN 0 ELSE Held(item.width)

\* What vprintfmt does with a directive: numbers are padded on the left, with - for the
\* flag -, and strings on the right if - is the last flag.
PadCode(item) == IF item.zero THEN "0" ELSE IF item.minus THEN "-" ELSE " "
LeftPadded(item, numeral) == Times(PadCode(item), Field(item) - Len(numeral)) \o numeral

Does(item) ==
  CASE item.conv = "text" -> item.chars
    [] item.conv = "d" -> (IF SignedValue(item) < 0 THEN <<"-">> ELSE <<>>)
          \o LeftPadded(item, Numeral(IF SignedValue(item) < 0 THEN -SignedValue(item)
                                                               ELSE SignedValue(item), 10))
    [] item.conv = "u" -> LeftPadded(item, Numeral(Unsigned(item), 10))
    [] item.conv = "o" -> LeftPadded(item, Numeral(Unsigned(item), 8))
    [] item.conv = "x" -> LeftPadded(item, Numeral(Unsigned(item), 16))
    [] item.conv = "p" -> <<"0", "x">> \o LeftPadded(item, Numeral(Unsigned(item), 16))
    [] item.conv = "c" -> <<Texts[item.words[1]][1]>>
    [] item.conv = "s" ->
          LET blanks == Field(item) - Len(Shown(item))
          IN  IF item.minus /\ ~item.zero THEN Shown(item) \o Times(" ", blanks)
              ELSE Times(IF item.zero THEN "0" ELSE " ", blanks) \o Shown(item)
    [] item.conv = "e" -> MeantError(SignedValue(item))
    [] item.conv = "%" -> <<"%">>
    [] OTHER -> Spelled(item)

\* Width, precision and padding of a directive have their types.
LEMMA HeldIs ==
  ASSUME NEW item, ProperDirective(item)
  PROVE  /\ Held(item.width) \in Int /\ Held(item.prec) \in Int
         /\ Widened(item) \in Int /\ Field(item) \in Int
         /\ Widened(item) = Field(item) \/ (Widened(item) <= 0 /\ Field(item) <= 0)
         /\ PadCode(item) \in Glyphs
<1>1. /\ item.width.given \in BOOLEAN /\ item.width.value \in Int
      /\ item.prec.given \in BOOLEAN /\ item.prec.value \in Int
  BY DEF ProperDirective, ProperNumber
<1>2. PadCode(item) \in Glyphs
  <2>1. "0" \in Glyphs /\ "-" \in Glyphs /\ " " \in Glyphs
    BY GlyphsAre DEF Known, Decimal
  <2> QED
    BY <2>1 DEF PadCode
<1> QED
  BY <1>1, <1>2 DEF Held, Widened, Field

\* Blanks that are not needed are none.
LEMMA NoTimes ==
  ASSUME NEW char_ \in Glyphs, NEW i \in Int, NEW j \in Int, i = j \/ (i <= 0 /\ j <= 0)
  PROVE  Times(char_, i) = Times(char_, j) /\ (i <= 0 => Times(char_, i) = <<>>)
<1>1. PICK m \in Nat : m = IF i > 0 THEN i ELSE 0
  OBVIOUS
<1>2. m = IF j > 0 THEN j ELSE 0
  BY <1>1
<1>3. Times(char_, i) = [k \in 1..m |-> char_] /\ Times(char_, j) = [k \in 1..m |-> char_]
  BY <1>1, <1>2 DEF Times
<1>4. ASSUME i <= 0 PROVE Times(char_, i) = <<>>
  <2>1. Times(char_, i) \in Seq(Glyphs) /\ Len(Times(char_, i)) = 0
    BY <1>4, TimesAre DEF Text
  <2> QED
    BY <2>1, EmptySeq
<1> QED
  BY <1>3, <1>4

\* printnum with the width and padding of a directive prints the digits, padded on the left.
LEMMA PaddedIs ==
  ASSUME NEW item, ProperDirective(item), NEW base \in 2..16, NEW v \in Nat
  PROVE  /\ printnum(v, base, Widened(item), PadCode(item)) = LeftPadded(item, Numeral(v, base))
         /\ LeftPadded(item, Numeral(v, base)) \in Text
<1>1. Numeral(v, base) \in Seq(Glyphs) /\ Len(Numeral(v, base)) \in Nat \ {0}
  BY NumeralText
<1>2. PICK w \in Int, f \in Int, char_ \in Glyphs, m \in Nat :
        w = Widened(item) /\ f = Field(item) /\ char_ = PadCode(item) /\ m = Len(Numeral(v, base)) /\ m > 0
  BY <1>1, HeldIs
<1>3. w = f \/ (w <= 0 /\ f <= 0)
  BY <1>2, HeldIs
<1>4. printnum(v, base, w, char_) = Times(char_, w - Len(Numeral(v, base))) \o Numeral(v, base)
  BY <1>3, PrintnumIs
<1>5. w - m = f - m \/ (w - m <= 0 /\ f - m <= 0)
  BY <1>3
<1>6. Times(char_, w - m) = Times(char_, f - m)
  <2>1. w - m \in Int /\ f - m \in Int
    BY <1>3
  <2> QED
    BY <1>3, <1>5, <2>1, NoTimes
<1>7. Times(char_, f - m) \in Seq(Glyphs)
  BY <1>3, TimesAre DEF Text
<1>8. LeftPadded(item, Numeral(v, base)) = Times(char_, f - m) \o Numeral(v, base)
  BY <1>2 DEF LeftPadded
<1>9. Times(char_, f - m) \o Numeral(v, base) \in Seq(Glyphs)
  BY <1>1, <1>7
<1> QED
  BY <1>2, <1>4, <1>6, <1>8, <1>9 DEF Text

\* A word, and a pair of words, as a signed number.
LEMMA SignedIs ==
  ASSUME NEW h \in Nat \ {0}, NEW M, M = 2 * h, NEW u \in 0..(M - 1)
  PROVE  Signed(u, M) = IF u < h THEN u ELSE u - M
<1>1. M \in Nat \ {0} /\ M \div 2 = h
  OBVIOUS
<1>2. PICK x \in Nat : x = u + h
  OBVIOUS
<1>3. CASE u < h
  <2>1. x \in 0..(M - 1)
    BY <1>2, <1>3
  <2>2. x % M = x
    BY <1>1, <2>1
  <2> QED
    BY <1>1, <1>2, <1>3, <2>2 DEF Signed
<1>4. CASE ~(u < h)
  <2>1. x - M \in 0..(M - 1) /\ x = (M * 1) + (x - M)
    BY <1>1, <1>2, <1>4
  <2>2. PICK q \in Int, r \in 0..(M - 1) : x = (M * q) + r /\ x % M = r
    BY <1>1, Divided
  <2>3. x % M = x - M
    <3>1. (M * q) + r = (M * 1) + (x - M) /\ 1 \in Int
      BY <2>1, <2>2
    <3>2. r = x - M
      BY <1>1, <2>1, <3>1, OneRest
    <3> QED
      BY <2>2, <3>2
  <2> QED
    BY <1>1, <1>2, <1>4, <2>3 DEF Signed
<1> QED
  BY <1>3, <1>4

\* An argument that is an int, as a word, is that int again.
LEMMA StarIs ==
  ASSUME NEW h \in Nat \ {0}, NEW M, M = 2 * h, NEW v \in (-h)..(h - 1)
  PROVE  Signed(v % M, M) = v
<1>1. M \in Nat \ {0} /\ v \in Int
  OBVIOUS
<1>2. PICK q \in Int, r \in 0..(M - 1) : v = (M * q) + r /\ v % M = r
  BY <1>1, Divided
<1>3. Signed(r, M) = IF r < h THEN r ELSE r - M
  BY <1>2, SignedIs
<1>4. CASE v >= 0
  <2>1. (M * q) + r = (M * 0) + v /\ v \in 0..(M - 1) /\ 0 \in Int
    BY <1>2, <1>4
  <2>2. r = v
    BY <1>1, <2>1, OneRest
  <2> QED
    BY <1>2, <1>3, <2>2
<1>5. CASE v < 0
  <2>1. (M * q) + r = (M * (-1)) + (v + M) /\ v + M \in 0..(M - 1) /\ -1 \in Int
    BY <1>2, <1>5
  <2>2. r = v + M
    BY <1>1, <2>1, OneRest
  <2> QED
    BY <1>2, <1>3, <1>5, <2>2
<1> QED
  BY <1>4, <1>5

\* A word has a highest bit.
LEMMA HalfInt == \E h \in Nat \ {0} : UINTS = 2 * h /\ UINTS \div 2 = h
<1>1. PICK h \in Nat : h = UINTS \div 2 /\ UINTS = (2 * h) + (UINTS % 2)
  BY PrintfmtAssumption
<1> QED
  BY <1>1, PrintfmtAssumption

\* What a word or a pair of words is, as an unsigned number and as a signed one.
LEMMA ValueIs ==
  ASSUME NEW item, ProperDirective(item), Len(item.words) \in {1, 2}
  PROVE  \E h \in Nat \ {0}, M \in Nat :
           /\ M = 2 * h /\ M = (IF Len(item.words) = 2 THEN UINTS * UINTS ELSE UINTS)
           /\ Unsigned(item) \in 0..(M - 1)
           /\ Signed(Unsigned(item), M) = SignedValue(item)
           /\ SignedValue(item) \in (-h)..(h - 1)
<1>1. PICK h \in Nat \ {0} : UINTS = 2 * h /\ UINTS \div 2 = h
  BY HalfInt
<1>2. PICK ws, U : ws = item.words /\ U = UINTS /\ ws \in Seq(0..(U - 1)) /\ U \in Nat \ {0}
  BY PrintfmtAssumption DEF ProperDirective
<1>3. PICK M, k \in Nat \ {0} : /\ M = (IF Len(item.words) = 2 THEN UINTS * UINTS ELSE UINTS)
                                /\ M = 2 * k /\ Unsigned(item) \in 0..(M - 1)
  <2>1. CASE Len(item.words) = 1
    <3>1. ws[1] \in 0..(U - 1)
      BY <1>2, <2>1
    <3> QED
      BY <1>1, <1>2, <2>1, <3>1 DEF Unsigned
  <2>2. CASE Len(item.words) = 2
    <3>1. PICK x, y \in 0..(U - 1) : x = item.words[1] /\ y = item.words[2]
      <4>1. Len(ws) = 2 /\ ws[1] \in 0..(U - 1) /\ ws[2] \in 0..(U - 1)
        BY <1>2, <2>2
      <4> QED
        BY <1>2, <4>1
    <3>2. U = UINTS /\ U = 2 * h /\ U \in Nat \ {0}
      BY <1>1, <1>2
    <3>3. U * U = 2 * (h * U) /\ h * U \in Nat \ {0}
      BY <3>2
    <3>4. U * y <= U * (U - 1) /\ U * (U - 1) = (U * U) - U /\ U * y \in Nat
      BY <3>2
    <3>5. x + (U * y) \in 0..((U * U) - 1)
      BY <3>2, <3>3, <3>4
    <3>6. Unsigned(item) = x + (U * y)
      BY <2>2, <3>1, <3>2 DEF Unsigned
    <3> QED
      <4>1. PICK k, M \in Nat \ {0} : k = h * U /\ M = U * U /\ M = 2 * k /\ x + (U * y) \in 0..(M - 1)
        BY <3>2, <3>3, <3>5
      <4>2. M = (IF Len(item.words) = 2 THEN UINTS * UINTS ELSE UINTS)
        BY <2>2, <3>2, <4>1
      <4> QED
        BY <3>6, <4>1, <4>2
  <2> QED
    BY <2>1, <2>2
<1>4. PICK u \in 0..(M - 1) : u = Unsigned(item)
  BY <1>3
<1>5. Signed(u, M) = IF u < k THEN u ELSE u - M
  BY <1>3, SignedIs
<1>6. SignedValue(item) = IF u < k THEN u ELSE u - M
  <2>1. M \div 2 = k
    BY <1>3
  <2> QED
    BY <1>3, <1>4, <2>1 DEF SignedValue
<1>7. SignedValue(item) \in (-k)..(k - 1)
  BY <1>3, <1>6
<1> QED
  BY <1>3, <1>4, <1>5, <1>6, <1>7

\* A directive that has been read up to its letter.
Prepared(item) ==
  /\ ProperDirective(item) /\ item.conv # "text"
  /\ ap \in Nat /\ Ahead(args, ap, item.words) /\ ch = item.conv
  /\ padc = PadCode(item) /\ width = Widened(item) /\ precision = Held(item.prec)
  /\ lflag = item.long /\ altflag = item.alt

\* vprintfmt does what is said of it, and its words are used up.
Outcome(item) ==
  \/ Prints(Does(item), Len(item.words)) /\ Does(item) \in Text
  \/ fpc' = "wild" /\ Same(<<fp, ap, directive, todo>>) /\ Nameless(item)

\* The words of the directive are the next arguments.
LEMMA WordsAre ==
  ASSUME NEW item, Prepared(item)
  PROVE  /\ Len(item.words) \in Nat
         /\ Len(item.words) > 0 => args[ap] = item.words[1]
         /\ Len(item.words) > 1 => args[ap + 1] = item.words[2]
         /\ item.long \in Nat
<1>1. PICK ws, S : ws = item.words /\ ws \in Seq(S) /\ item.long \in Nat
  BY DEF Prepared, ProperDirective
<1>2. PICK m \in Nat : ws = item.words /\ m = Len(ws) /\ item.long \in Nat
  BY <1>1
<1>3. ap \in Nat /\ \A i \in 1..m : args[ap + i - 1] = ws[i]
  BY <1>2 DEF Prepared, Ahead
<1>4. m > 0 => args[ap] = ws[1]
  <2>1. m > 0 => 1 \in 1..m /\ ap + 1 - 1 = ap
    BY <1>2, <1>3
  <2> QED
    BY <1>3, <2>1
<1>5. m > 1 => args[ap + 1] = ws[2]
  <2>1. m > 1 => 2 \in 1..m /\ ap + 2 - 1 = ap + 1
    BY <1>2, <1>3
  <2> QED
    BY <1>3, <2>1
<1> QED
  BY <1>2, <1>4, <1>5

\* Which conversion a letter stands for, and how many words it takes.
LEMMA TakesWords ==
  ASSUME NEW item, Prepared(item)
  PROVE  /\ item.conv \in Integral => Len(item.words) = (IF item.long >= 2 THEN 2 ELSE 1)
         /\ item.conv \in {"p", "e", "c", "s"} => Len(item.words) = 1
         /\ item.conv = "c" => item.words[1] \in DOMAIN Texts /\ Texts[item.words[1]] # <<>>
         /\ item.conv = "s" => item.words[1] \in {0} \cup DOMAIN Texts
         /\ item.conv = "%" => item.words = <<>>
         /\ item.conv \notin Known => Unknown(item.conv) /\ item.words = <<>>
<1>1. Takes(item.conv, item.long, item.words)
  BY DEF Prepared, ProperDirective
<1>2. Unknown(item.conv) => item.conv \notin Known /\ item.conv # "text"
  BY DEF Unknown
<1>3. {"d", "u", "o", "x", "p", "e", "c", "s", "%"} \subseteq Known
  BY DEF Known
<1>4. item.conv \in Integral \/ item.conv \in {"p", "e", "c", "s", "%"} \/ Unknown(item.conv)
  BY <1>1 DEF Takes
<1> QED
  BY <1>1, <1>2, <1>3, <1>4 DEF Takes, Integral

\* What vprintfmt does, one conversion after the other.
LEMMA DoesIs ==
  ASSUME NEW item
  PROVE  /\ item.conv = "text" => Does(item) = item.chars
         /\ item.conv = "d" => Does(item) = (IF SignedValue(item) < 0 THEN <<"-">> ELSE <<>>)
              \o LeftPadded(item, Numeral(IF SignedValue(item) < 0 THEN -SignedValue(item)
                                                               ELSE SignedValue(item), 10))
         /\ item.conv = "u" => Does(item) = LeftPadded(item, Numeral(Unsigned(item), 10))
         /\ item.conv = "o" => Does(item) = LeftPadded(item, Numeral(Unsigned(item), 8))
         /\ item.conv = "x" => Does(item) = LeftPadded(item, Numeral(Unsigned(item), 16))
         /\ item.conv = "p" => Does(item) = <<"0", "x">> \o LeftPadded(item, Numeral(Unsigned(item), 16))
         /\ item.conv = "c" => Does(item) = <<Texts[item.words[1]][1]>>
         /\ item.conv = "e" => Does(item) = MeantError(SignedValue(item))
         /\ item.conv = "%" => Does(item) = <<"%">>
         /\ item.conv \notin Known \cup {"text"} => Does(item) = Spelled(item)
<1>1. {"d", "u", "o", "x", "p", "e", "c", "s", "%"} \subseteq Known
  BY DEF Known
<1>2. CASE item.conv \notin Known \cup {"text"}
  <2>1. item.conv \notin {"text", "d", "u", "o", "x", "p", "e", "c", "s", "%"}
    BY <1>1, <1>2
  <2>2. Does(item) = Spelled(item)
    BY <2>1 DEF Does
  <2> QED
    BY <1>2, <2>1, <2>2
<1>3. CASE item.conv \in Known \cup {"text"}
  BY <1>3 DEF Does
<1> QED
  BY <1>2, <1>3

\* The words, as a number.
LEMMA NumbersAre ==
  ASSUME NEW item, Prepared(item), item.conv \in Integral
  PROVE  /\ getuint = Unsigned(item) /\ getint = SignedValue(item) /\ Words = Len(item.words)
         /\ Unsigned(item) \in Nat /\ SignedValue(item) \in Int
<1>1. Len(item.words) = (IF item.long >= 2 THEN 2 ELSE 1) /\ lflag = item.long /\ item.long \in Nat
  BY TakesWords, WordsAre DEF Prepared
<1>2. args[ap] = item.words[1] /\ (item.long >= 2 => args[ap + 1] = item.words[2])
  BY <1>1, WordsAre
<1>3. getuint = Unsigned(item) /\ Words = Len(item.words)
  BY <1>1, <1>2 DEF getuint, Words, Unsigned
<1>4. ProperDirective(item) /\ Len(item.words) \in {1, 2}
  BY <1>1 DEF Prepared
<1>5. PICK h \in Nat \ {0}, M \in Nat :
           /\ M = 2 * h /\ M = (IF Len(item.words) = 2 THEN UINTS * UINTS ELSE UINTS)
           /\ Unsigned(item) \in 0..(M - 1)
           /\ Signed(Unsigned(item), M) = SignedValue(item)
           /\ SignedValue(item) \in (-h)..(h - 1)
  BY <1>4, ValueIs
<1>6. getint = SignedValue(item)
  <2>1. getint = Signed(Unsigned(item), M)
    BY <1>1, <1>3, <1>5 DEF getint
  <2> QED
    BY <1>5, <2>1
<1> QED
  BY <1>3, <1>5, <1>6

\* %d, %u, %o, %x and %p print what they mean.
LEMMA NumericSays ==
  ASSUME NEW item, Prepared(item), numeric
  PROVE  Outcome(item)
<1>1. ProperDirective(item) /\ width = Widened(item) /\ padc = PadCode(item) /\ ch = item.conv
  BY DEF Prepared
<1>2. PICK eight, ten, sixteen \in 2..16 : eight = 8 /\ ten = 10 /\ sixteen = 16
  OBVIOUS
<1>3. \A v \in Nat : \A base \in 2..16 :
        /\ printnum(v, base, width, padc) = LeftPadded(item, Numeral(v, base))
        /\ LeftPadded(item, Numeral(v, base)) \in Seq(Glyphs)
  BY <1>1, PaddedIs DEF Text
<1>4. \A s_, t_ \in Seq(Glyphs) : s_ \o t_ \in Seq(Glyphs) /\ <<>> \o t_ = t_
  OBVIOUS
<1>5. "-" \in Glyphs /\ "0" \in Glyphs /\ "x" \in Glyphs
  BY GlyphsAre DEF Known, Decimal
<1>6. <<"-">> \in Seq(Glyphs) /\ <<"0", "x">> \in Seq(Glyphs) /\ <<>> \in Seq(Glyphs)
  BY <1>5
<1>7. CASE ch = "d"
  <2>1. item.conv \in Integral
    BY <1>1, <1>7 DEF Integral
  <2>2. getint = SignedValue(item) /\ Words = Len(item.words) /\ SignedValue(item) \in Int
    BY <2>1, NumbersAre
  <2>3. PICK v \in Int : v = SignedValue(item)
    BY <2>2
  <2>4. Does(item) = (IF v < 0 THEN <<"-">> ELSE <<>>) \o LeftPadded(item, Numeral(IF v < 0 THEN -v ELSE v, ten))
    BY <1>1, <1>2, <1>7, <2>3, DoesIs
  <2>5. CASE v < 0
    <3>1. number(<<"-">>, -v, ten, Len(item.words))
      BY <1>2, <1>7, <2>2, <2>3, <2>5 DEF numeric, Case
    <3>2. -v \in Nat
      BY <2>5
    <3>3. <<"-">> \o printnum(-v, ten, width, padc) = Does(item) /\ Does(item) \in Text
      BY <1>3, <1>4, <1>6, <2>4, <2>5, <3>2 DEF Text
    <3> QED
      BY <3>1, <3>3 DEF number, Outcome
  <2>6. CASE ~(v < 0)
    <3>1. number(<<>>, v, ten, Len(item.words))
      BY <1>2, <1>7, <2>2, <2>3, <2>6 DEF numeric, Case
    <3>2. v \in Nat
      BY <2>6
    <3>3. <<>> \o printnum(v, ten, width, padc) = Does(item) /\ Does(item) \in Text
      BY <1>3, <1>4, <1>6, <2>4, <2>6, <3>2 DEF Text
    <3> QED
      BY <3>1, <3>3 DEF number, Outcome
  <2> QED
    BY <2>5, <2>6
<1>8. ASSUME NEW v \in Nat, NEW base \in 2..16, number(<<>>, v, base, Len(item.words)),
             Does(item) = LeftPadded(item, Numeral(v, base))
      PROVE  Outcome(item)
  <2>1. <<>> \o printnum(v, base, width, padc) = Does(item) /\ Does(item) \in Text
    BY <1>3, <1>4, <1>6, <1>8 DEF Text
  <2> QED
    BY <1>8, <2>1 DEF number, Outcome
<1>9. ASSUME ch \in {"u", "o", "x"}
      PROVE  getuint = Unsigned(item) /\ Words = Len(item.words) /\ Unsigned(item) \in Nat
  <2>1. item.conv \in Integral
    BY <1>1, <1>9 DEF Integral
  <2> QED
    BY <2>1, NumbersAre
<1>10. CASE ch = "u"
  <2>1. number(<<>>, Unsigned(item), ten, Len(item.words))
    BY <1>2, <1>9, <1>10 DEF numeric, Case
  <2>2. Does(item) = LeftPadded(item, Numeral(Unsigned(item), ten))
    BY <1>1, <1>2, <1>10, DoesIs
  <2> QED
    BY <1>8, <1>9, <1>10, <2>1, <2>2
<1>11. CASE ch = "o"
  <2>1. number(<<>>, Unsigned(item), eight, Len(item.words))
    BY <1>2, <1>9, <1>11 DEF numeric, Case
  <2>2. Does(item) = LeftPadded(item, Numeral(Unsigned(item), eight))
    BY <1>1, <1>2, <1>11, DoesIs
  <2> QED
    BY <1>8, <1>9, <1>11, <2>1, <2>2
<1>12. CASE ch = "x"
  <2>1. number(<<>>, Unsigned(item), sixteen, Len(item.words))
    BY <1>2, <1>9, <1>12 DEF numeric, Case
  <2>2. Does(item) = LeftPadded(item, Numeral(Unsigned(item), sixteen))
    BY <1>1, <1>2, <1>12, DoesIs
  <2> QED
    BY <1>8, <1>9, <1>12, <2>1, <2>2
<1>13. CASE ch = "p"
  <2>1. Len(item.words) = 1 /\ args[ap] = item.words[1]
    <3>1. item.conv \in {"p", "e", "c", "s"}
      BY <1>1, <1>13
    <3>2. Len(item.words) = 1
      BY <3>1, TakesWords
    <3>3. Len(item.words) > 0
      BY <3>2
    <3> QED
      BY <3>2, <3>3, WordsAre
  <2>2. PICK v \in Nat : v = Unsigned(item) /\ v = args[ap]
    <3>1. Unsigned(item) = item.words[1]
      BY <2>1 DEF Unsigned
    <3>2. PICK ws, U : ws = item.words /\ ws \in Seq(0..(U - 1)) /\ U \in Nat
      BY <1>1, PrintfmtAssumption DEF ProperDirective
    <3>3. ws[1] \in 0..(U - 1)
      BY <2>1, <3>2
    <3> QED
      BY <2>1, <3>1, <3>2, <3>3
  <2>3. number(<<"0", "x">>, v, sixteen, Len(item.words))
    BY <1>2, <1>13, <2>1, <2>2 DEF numeric, Case
  <2>4. Does(item) = <<"0", "x">> \o LeftPadded(item, Numeral(v, sixteen))
    BY <1>1, <1>2, <1>13, <2>2, DoesIs
  <2>5. <<"0", "x">> \o printnum(v, sixteen, width, padc) = Does(item) /\ Does(item) \in Text
    BY <1>3, <1>4, <1>6, <2>4 DEF Text
  <2> QED
    BY <2>3, <2>5 DEF number, Outcome
<1> QED
  BY <1>7, <1>10, <1>11, <1>12, <1>13 DEF numeric, Case

\* Texts joined are texts.
LEMMA TextParts ==
  /\ \A g \in Glyphs : <<g>> \in Text
  /\ \A s_, t_ \in Text : s_ \o t_ \in Text /\ <<>> \o t_ = t_ /\ t_ \o <<>> = t_
BY DEF Text

\* Without a width there is only the numeral.
LEMMA PlainNumber ==
  ASSUME NEW base \in 2..16, NEW v \in Nat, NEW wide \in Int, wide <= 0, NEW char_ \in Glyphs
  PROVE  printnum(v, base, wide, char_) = Numeral(v, base)
<1>1. Numeral(v, base) \in Text /\ Len(Numeral(v, base)) \in Nat
  BY NumeralText DEF Text
<1>2. printnum(v, base, wide, char_) = Times(char_, wide - Len(Numeral(v, base))) \o Numeral(v, base)
  BY PrintnumIs
<1>3. PICK i \in Int : i = wide - Len(Numeral(v, base)) /\ i <= 0
  BY <1>1
<1>4. Times(char_, i) = <<>>
  BY <1>3, NoTimes
<1> QED
  BY <1>1, <1>2, <1>3, <1>4, TextParts

\* The strings that pointers point to are texts.
LEMMA TextsAre ==
  ASSUME NEW k \in DOMAIN Texts
  PROVE  Texts[k] \in Seq(STRING) /\ Texts[k] \in Text
<1>1. Texts[k] \in Seq(STRING)
  <2>1. PICK S : S = Seq(STRING) /\ Texts \in Seq(S)
    BY PrintfmtAssumption
  <2> QED
    BY <2>1
<1>2. Texts[k] \in Seq(Glyphs)
  BY <1>1, GlyphsAre, SeqWider
<1> QED
  BY <1>1, <1>2 DEF Text

\* %c prints the character.
LEMMA CharSays ==
  ASSUME NEW item, Prepared(item), char
  PROVE  Outcome(item)
<1>1. item.conv = "c"
  BY DEF Prepared, char, Case
<1>2. Len(item.words) = 1 /\ item.words[1] \in DOMAIN Texts /\ Texts[item.words[1]] # <<>>
  BY <1>1, TakesWords
<1>3. args[ap] = item.words[1]
  BY <1>2, WordsAre
<1>4. PICK t_ : t_ = Texts[item.words[1]] /\ t_ \in Seq(Glyphs) /\ t_ # <<>>
  BY <1>2, TextsAre DEF Text
<1>5. t_[1] \in Glyphs
  <2>1. Len(t_) \in Nat \ {0}
    BY <1>4, EmptySeq
  <2> QED
    BY <1>4, <2>1
<1>6. Does(item) = <<t_[1]>>
  BY <1>1, <1>4, DoesIs
<1>7. <<t_[1]>> \in Text
  BY <1>5 DEF Text
<1>8. Prints(<<t_[1]>>, 1)
  BY <1>3, <1>4 DEF char
<1> QED
  BY <1>2, <1>6, <1>7, <1>8 DEF Outcome

\* %% prints %.
LEMMA EscapedSays ==
  ASSUME NEW item, Prepared(item), escaped
  PROVE  Outcome(item)
<1>1. item.conv = "%"
  BY DEF Prepared, escaped, Case
<1>2. item.words = <<>> /\ Len(item.words) = 0
  <2>1. item.words = <<>>
    BY <1>1, TakesWords
  <2> QED
    BY <2>1
<1>3. Does(item) = <<"%">>
  BY <1>1, DoesIs
<1>4. <<"%">> \in Text
  <2>1. "%" \in Glyphs
    BY GlyphsAre DEF Known
  <2> QED
    BY <2>1 DEF Text
<1>5. Prints(<<"%">>, 0)
  BY DEF escaped
<1> QED
  BY <1>2, <1>3, <1>4, <1>5 DEF Outcome

\* %e prints the name of the error, or its number.
LEMMA ErrorSays ==
  ASSUME NEW item, Prepared(item), error
  PROVE  Outcome(item)
<1>1. item.conv = "e" /\ ProperDirective(item)
  BY DEF Prepared, error, Case
<1>2. Len(item.words) = 1
  BY <1>1, TakesWords
<1>3. args[ap] = item.words[1]
  BY <1>2, WordsAre
<1>4. PICK h \in Nat \ {0} : UINTS = 2 * h /\ UINTS \div 2 = h
  BY HalfInt
<1>5. PICK u \in 0..(UINTS - 1), v \in (-h)..(h - 1) :
        u = Unsigned(item) /\ v = SignedValue(item) /\ Signed(u, UINTS) = v
  <2>1. PICK i \in Nat \ {0}, M \in Nat :
           /\ M = 2 * i /\ M = (IF Len(item.words) = 2 THEN UINTS * UINTS ELSE UINTS)
           /\ Unsigned(item) \in 0..(M - 1)
           /\ Signed(Unsigned(item), M) = SignedValue(item)
           /\ SignedValue(item) \in (-i)..(i - 1)
    BY <1>1, <1>2, ValueIs
  <2>2. M = UINTS /\ i = h
    BY <1>2, <1>4, <2>1
  <2> QED
    BY <2>1, <2>2
<1>6. int = v
  <2>1. Unsigned(item) = item.words[1]
    BY <1>2 DEF Unsigned
  <2> QED
    BY <1>3, <1>5, <2>1 DEF int
<1> DEFINE err == IF int < 0 THEN Signed(-int, UINTS) ELSE int
<1>7. err = IF v = -h THEN -h ELSE IF v < 0 THEN -v ELSE v
  <2>1. CASE v < 0
    <3>1. PICK M \in Nat : M = UINTS /\ M = 2 * h
      BY <1>4
    <3>2. -v \in 0..(M - 1)
      BY <2>1, <3>1
    <3>3. Signed(-v, M) = IF -v < h THEN -v ELSE (-v) - M
      BY <3>1, <3>2, SignedIs
    <3> QED
      BY <1>6, <2>1, <3>1, <3>3
  <2>2. CASE ~(v < 0)
    BY <1>6, <2>2
  <2> QED
    BY <2>1, <2>2
<1>8. IF err < 0 THEN fpc' = "wild" /\ Same(<<fp, ap, directive, todo>>)
      ELSE IF err >= MAXERROR \/ err = 0
      THEN Prints(ErrorText \o printnum(err, 10, -1, " "), 1)
      ELSE Prints(error_string[err], 1)
  BY DEF error
<1> HIDE DEF err
<1>9. CASE v = -h
  <2>1. Nameless(item)
    BY <1>1, <1>4, <1>5, <1>9 DEF Nameless
  <2>2. err < 0
    BY <1>7, <1>9
  <2> QED
    BY <1>8, <2>1, <2>2 DEF Outcome
<1>10. CASE v # -h
  <2>1. PICK code \in Nat : code = (IF v < 0 THEN -v ELSE v) /\ err = code
    BY <1>7, <1>10
  <2>2. Does(item) = MeantError(v)
    BY <1>1, <1>5, DoesIs
  <2>3. MeantError(v) = IF code \in 1..6 THEN error_string[code] ELSE ErrorText \o Numeral(code, 10)
    <3>1. MAXERROR - 1 = 6
      BY DEF MAXERROR
    <3> QED
      BY <2>1, <3>1 DEF MeantError
  <2>4. CASE code \in 1..6
    <3>1. Prints(error_string[code], 1)
      <4>1. ~(err < 0) /\ ~(err >= MAXERROR \/ err = 0)
        BY <2>1, <2>4 DEF MAXERROR
      <4>2. Prints(error_string[err], 1)
        BY <1>8, <4>1, Zenon
      <4> QED
        BY <2>1, <4>2
    <3>2. MeantError(v) = error_string[code]
      BY <2>3, <2>4, Zenon
    <3>3. error_string[code] \in Text
      BY <2>4, WordsOfIt
    <3> QED
      BY <1>2, <2>2, <3>1, <3>2, <3>3 DEF Outcome
  <2>5. CASE ~(code \in 1..6)
    <3>1. Prints(ErrorText \o printnum(code, 10, -1, " "), 1)
      <4>1. ~(err < 0) /\ (err >= MAXERROR \/ err = 0)
        BY <2>1, <2>5 DEF MAXERROR
      <4>2. Prints(ErrorText \o printnum(err, 10, -1, " "), 1)
        BY <1>8, <4>1, Zenon
      <4> QED
        BY <2>1, <4>2
    <3>2. MeantError(v) = ErrorText \o Numeral(code, 10)
      BY <2>3, <2>5, Zenon
    <3>3. " " \in Glyphs /\ ErrorText \in Text
      BY GlyphsAre, WordsOfIt
    <3>4. PICK base \in 2..16, wide \in Int : base = 10 /\ wide = -1 /\ wide <= 0
      OBVIOUS
    <3>5. PICK char_ \in Glyphs : base = 10 /\ wide = -1 /\ char_ = " "
      BY <3>3, <3>4
    <3>6. printnum(code, base, wide, char_) = Numeral(code, base)
      BY <3>4, PlainNumber
    <3>7. ErrorText \o Numeral(code, base) \in Text
      <4>1. Numeral(code, base) \in Text
        BY NumeralText DEF Text
      <4> QED
        BY <3>3, <4>1, TextParts
    <3>8. Prints(ErrorText \o Numeral(code, base), 1)
      BY <3>1, <3>5, <3>6
    <3> QED
      BY <1>2, <2>2, <3>2, <3>5, <3>7, <3>8 DEF Outcome
  <2> QED
    BY <2>4, <2>5
<1> QED
  BY <1>9, <1>10

\* %s prints the string, padded and cut as its width and precision say.
LEMMA StringSays ==
  ASSUME NEW item, Prepared(item), string
  PROVE  Outcome(item)
<1>1. /\ item.conv = "s" /\ ProperDirective(item) /\ padc = PadCode(item) /\ width = Widened(item)
      /\ precision = Held(item.prec) /\ altflag = item.alt
  BY DEF Prepared, string, Case
<1>2. Len(item.words) = 1 /\ item.words[1] \in {0} \cup DOMAIN Texts
  BY <1>1, TakesWords
<1>3. args[ap] = item.words[1]
  BY <1>2, WordsAre
<1> DEFINE p == IF args[ap] = 0 THEN NullText ELSE Texts[args[ap]]
           shown == IF precision < 0 \/ precision > Len(p) THEN p ELSE SubSeq(p, 1, precision)
           left_ == IF width > 0 /\ padc # "-" THEN width - Len(shown) ELSE 0
           right == (IF width > 0 /\ padc # "-" THEN 0 ELSE width) - Len(shown)
           seen == [k \in 1..Len(shown) |-> IF altflag /\ shown[k] \in Unprintable THEN "?" ELSE shown[k]]
<1>4. Prints(Times(padc, left_) \o seen \o Times(" ", right), 1)
  BY DEF string
<1>5. p \in Seq(Glyphs)
  <2>1. NullText \in Seq(Glyphs)
    BY WordsOfIt DEF Text
  <2> QED
    BY <1>2, <1>3, <2>1, TextsAre DEF Text
<1> DEFINE str == IF item.words[1] = 0 THEN NullText ELSE Texts[item.words[1]]
           cut == IF item.prec.given /\ item.prec.value >= 0 /\ item.prec.value < Len(str)
                  THEN SubSeq(str, 1, item.prec.value) ELSE str
<1>6. Shown(item) = [k \in 1..Len(cut) |-> IF item.alt /\ cut[k] \in Unprintable THEN "?" ELSE cut[k]]
  BY DEF Shown
<1>7. str = p
  BY <1>3
<1> HIDE DEF p, str
<1>8. item.prec.given \in BOOLEAN /\ item.prec.value \in Int
  BY <1>1 DEF ProperDirective, ProperNumber
<1>9. shown = cut /\ shown \in Seq(Glyphs)
  <2>1. PICK m \in Nat : m = Len(p)
    BY <1>5
  <2>2. SubSeq(p, 1, m) = p
    BY <1>5, <2>1
  <2>3. ASSUME NEW i \in 0..m PROVE SubSeq(p, 1, i) \in Seq(Glyphs)
    BY <1>5, <2>1
  <2>4. PICK i \in Int : i = precision /\ i = (IF item.prec.given THEN item.prec.value ELSE -1)
    BY <1>1, <1>8 DEF Held
  <2>5. CASE i < 0 \/ i > m
    BY <1>5, <1>7, <1>8, <2>1, <2>4, <2>5
  <2>6. CASE i = m
    BY <1>5, <1>7, <1>8, <2>1, <2>2, <2>4, <2>6
  <2>7. CASE i >= 0 /\ i < m
    <3>1. shown = SubSeq(p, 1, i) /\ cut = SubSeq(p, 1, i)
      BY <1>7, <1>8, <2>1, <2>4, <2>7
    <3>2. i \in 0..m
      BY <2>7
    <3>3. SubSeq(p, 1, i) \in Seq(Glyphs)
      BY <2>3, <3>2
    <3> QED
      BY <3>1, <3>3
  <2> QED
    BY <2>5, <2>6, <2>7
<1> HIDE DEF shown, cut
<1>10. PICK m \in Nat : m = Len(shown)
  BY <1>9
<1>11. seen = Shown(item) /\ seen \in Seq(Glyphs) /\ Len(seen) = m
  <2>1. seen = Shown(item)
    BY <1>1, <1>6, <1>9
  <2>2. seen \in [1..m -> Glyphs]
    <3>1. \A k \in 1..m : shown[k] \in Glyphs
      BY <1>9, <1>10
    <3>2. "?" \in Glyphs
      BY GlyphsAre
    <3> QED
      BY <1>10, <3>1, <3>2
  <2>3. seen \in Seq(Glyphs) /\ Len(seen) = m
    <3> HIDE DEF seen
    <3> QED
      BY <2>2
  <2> QED
    BY <2>1, <2>3
<1> HIDE DEF seen
<1>12. PICK w \in Int, f \in Int : w = width /\ f = Field(item)
  BY <1>1, HeldIs
<1>13. w = f \/ (w <= 0 /\ f <= 0)
  BY <1>1, <1>12, HeldIs
<1>14. " " \in Glyphs /\ "0" \in Glyphs /\ padc \in Glyphs
  BY <1>1, HeldIs, GlyphsAre DEF Known, Decimal
<1>15. Does(item) = IF item.minus /\ ~item.zero THEN seen \o Times(" ", f - m)
                     ELSE Times(IF item.zero THEN "0" ELSE " ", f - m) \o seen
  BY <1>1, <1>11, <1>12 DEF Does
<1>16. item.minus \in BOOLEAN /\ item.zero \in BOOLEAN
  BY <1>1 DEF ProperDirective
<1>17. w - m \in Int /\ f - m \in Int
  OBVIOUS
<1> HIDE DEF left_, right
<1>18. CASE item.minus /\ ~item.zero
  <2>1. left_ = 0 /\ right = w - m
    BY <1>1, <1>10, <1>12, <1>18 DEF PadCode, left_, right
  <2>2. Times(padc, left_) = <<>>
    <3>1. left_ \in Int /\ left_ <= 0
      BY <2>1
    <3> QED
      BY <1>14, <3>1, NoTimes
  <2>3. Times(" ", right) = Times(" ", f - m)
    <3>1. w - m = f - m \/ (w - m <= 0 /\ f - m <= 0)
      BY <1>13
    <3> QED
      BY <1>14, <1>17, <2>1, <3>1, NoTimes
  <2>4. PICK t_ \in Text : t_ = Times(" ", f - m)
    BY <1>14, <1>17, TimesAre
  <2>5. (<<>> \o seen) \o t_ = seen \o t_ /\ seen \o t_ \in Text
    BY <1>11, TextParts DEF Text
  <2>6. Does(item) = seen \o t_
    BY <1>15, <1>18, <2>4
  <2> QED
    BY <1>2, <1>4, <2>2, <2>3, <2>4, <2>5, <2>6 DEF Outcome
<1>19. CASE ~(item.minus /\ ~item.zero)
  <2>1. padc # "-" /\ padc = (IF item.zero THEN "0" ELSE " ")
    BY <1>1, <1>16, <1>19 DEF PadCode
  <2>2. right <= 0 /\ right \in Int
    <3>1. right = (IF w > 0 THEN 0 ELSE w) - m
      BY <1>10, <1>12, <2>1 DEF right
    <3> QED
      BY <3>1
  <2>3. Times(" ", right) = <<>>
    BY <1>14, <2>2, NoTimes
  <2>4. left_ \in Int /\ (left_ = f - m \/ (left_ <= 0 /\ f - m <= 0))
    <3>1. left_ = IF w > 0 THEN w - m ELSE 0
      BY <1>10, <1>12, <2>1 DEF left_
    <3> QED
      BY <1>13, <3>1
  <2>5. Times(padc, left_) = Times(padc, f - m)
    BY <1>14, <1>17, <2>4, NoTimes
  <2>6. PICK t_ \in Text : t_ = Times(padc, f - m)
    BY <1>14, <1>17, TimesAre
  <2>7. (t_ \o seen) \o <<>> = t_ \o seen /\ t_ \o seen \in Text
    BY <1>11, TextParts DEF Text
  <2>8. Does(item) = t_ \o seen
    BY <1>15, <1>19, <2>1, <2>6
  <2> QED
    BY <1>2, <1>4, <2>3, <2>5, <2>6, <2>7, <2>8 DEF Outcome
<1> QED
  BY <1>18, <1>19

\* What is shown of a string is a text.
LEMMA ShownText ==
  ASSUME NEW item, Proper(item), item.conv = "s"
  PROVE  Shown(item) \in Text
<1>1. ProperDirective(item) /\ Takes(item.conv, item.long, item.words)
  BY DEF Proper, ProperDirective
<1>2. item.words[1] \in {0} \cup DOMAIN Texts
  <2>1. ~Unknown(item.conv)
    BY DEF Unknown, Known
  <2> QED
    BY <1>1, <2>1 DEF Takes, Integral
<1> DEFINE str == IF item.words[1] = 0 THEN NullText ELSE Texts[item.words[1]]
           cut == IF item.prec.given /\ item.prec.value >= 0 /\ item.prec.value < Len(str)
                  THEN SubSeq(str, 1, item.prec.value) ELSE str
<1>3. str \in Seq(Glyphs)
  BY <1>2, TextsAre, WordsOfIt DEF Text
<1>4. Shown(item) = [k \in 1..Len(cut) |-> IF item.alt /\ cut[k] \in Unprintable THEN "?" ELSE cut[k]]
  BY DEF Shown
<1> HIDE DEF str
<1>5. cut \in Seq(Glyphs)
  <2>1. PICK m \in Nat : m = Len(str)
    BY <1>3
  <2>2. ASSUME NEW i \in 0..m PROVE SubSeq(str, 1, i) \in Seq(Glyphs)
    BY <1>3, <2>1
  <2>3. item.prec.value \in Int
    BY <1>1 DEF ProperDirective, ProperNumber
  <2>4. CASE item.prec.given /\ item.prec.value >= 0 /\ item.prec.value < m
    <3>1. item.prec.value \in 0..m
      BY <2>3, <2>4
    <3> QED
      BY <2>1, <2>2, <2>4, <3>1
  <2>5. CASE ~(item.prec.given /\ item.prec.value >= 0 /\ item.prec.value < m)
    BY <1>3, <2>1, <2>5
  <2> QED
    BY <2>4, <2>5
<1> HIDE DEF cut
<1>6. PICK m \in Nat : m = Len(cut)
  BY <1>5
<1>7. Shown(item) \in [1..m -> Glyphs]
  <2>1. \A k \in 1..m : cut[k] \in Glyphs
    BY <1>5, <1>6
  <2>2. "?" \in Glyphs
    BY GlyphsAre
  <2> QED
    BY <1>4, <1>6, <2>1, <2>2
<1> QED
  BY <1>7 DEF Text

\* What vprintfmt prints is a text.
LEMMA DoesText ==
  ASSUME NEW item, Proper(item)
  PROVE  Does(item) \in Text
<1>1. CASE item.conv = "text"
  <2>1. Spelled(item) = item.chars /\ Spelled(item) \in Text
    BY <1>1, SpelledText DEF Spelled
  <2>2. Does(item) = item.chars
    BY <1>1, DoesIs
  <2> QED
    BY <2>1, <2>2
<1> SUFFICES ASSUME item.conv # "text" PROVE Does(item) \in Text
  BY <1>1
<1>2. ProperDirective(item) /\ Takes(item.conv, item.long, item.words)
  BY DEF Proper, ProperDirective
<1>3. ASSUME NEW v \in Nat, NEW base \in 2..16 PROVE LeftPadded(item, Numeral(v, base)) \in Text
  BY <1>2, <1>3, PaddedIs
<1>4. "-" \in Glyphs /\ "0" \in Glyphs /\ "x" \in Glyphs /\ "%" \in Glyphs
      /\ " " \in Glyphs /\ "?" \in Glyphs
  BY GlyphsAre DEF Known, Decimal
<1>5. PICK eight, ten, sixteen \in 2..16 : eight = 8 /\ ten = 10 /\ sixteen = 16
  OBVIOUS
<1>6. <<"-">> \in Text /\ <<"0", "x">> \in Text /\ <<>> \in Text /\ <<"%">> \in Text
      /\ ErrorText \in Text /\ NullText \in Text
  <2>1. "0" \in Glyphs /\ "x" \in Glyphs
    BY <1>4
  <2>2. <<"0", "x">> \in Seq(Glyphs) /\ <<>> \in Seq(Glyphs)
    BY <2>1
  <2> QED
    BY <1>4, <2>2, TextParts, WordsOfIt DEF Text
<1>7. ASSUME Len(item.words) \in {1, 2} PROVE Unsigned(item) \in Nat /\ SignedValue(item) \in Int
  <2>1. PICK i \in Nat \ {0}, M \in Nat :
           /\ M = 2 * i /\ M = (IF Len(item.words) = 2 THEN UINTS * UINTS ELSE UINTS)
           /\ Unsigned(item) \in 0..(M - 1)
           /\ Signed(Unsigned(item), M) = SignedValue(item)
           /\ SignedValue(item) \in (-i)..(i - 1)
    BY <1>2, <1>7, ValueIs
  <2> QED
    BY <2>1
<1>8. CASE item.conv \in Integral \cup {"p", "e"}
  <2>1. Len(item.words) \in {1, 2}
    <3>1. ~Unknown(item.conv)
      BY <1>8 DEF Unknown, Known, Integral
    <3> QED
      BY <1>2, <1>8, <3>1 DEF Takes, Integral
  <2>2. PICK u \in Nat, v \in Int : u = Unsigned(item) /\ v = SignedValue(item)
    BY <1>7, <2>1
  <2>3. CASE item.conv = "d"
    <3>1. Does(item) = (IF v < 0 THEN <<"-">> ELSE <<>>) \o LeftPadded(item, Numeral(IF v < 0 THEN -v ELSE v, ten))
      BY <1>5, <2>2, <2>3, DoesIs
    <3>2. PICK w \in Nat : w = IF v < 0 THEN -v ELSE v
      OBVIOUS
    <3>3. LeftPadded(item, Numeral(w, ten)) \in Text
      BY <1>3
    <3> QED
      BY <1>6, <3>1, <3>2, <3>3, TextParts
  <2>4. CASE item.conv \in {"u", "o", "x"}
    <3>1. \E base \in 2..16 : Does(item) = LeftPadded(item, Numeral(u, base))
      BY <1>5, <2>2, <2>4, DoesIs
    <3> QED
      BY <1>3, <3>1
  <2>5. CASE item.conv = "p"
    <3>1. Does(item) = <<"0", "x">> \o LeftPadded(item, Numeral(u, sixteen))
      BY <1>5, <2>2, <2>5, DoesIs
    <3>2. LeftPadded(item, Numeral(u, sixteen)) \in Text
      BY <1>3
    <3> QED
      BY <1>6, <3>1, <3>2, TextParts
  <2>6. CASE item.conv = "e"
    <3>1. Does(item) = MeantError(v)
      BY <2>2, <2>6, DoesIs
    <3>2. PICK w \in Nat : w = IF v < 0 THEN -v ELSE v
      OBVIOUS
    <3>3. MAXERROR - 1 = 6
      BY DEF MAXERROR
    <3>4. MeantError(v) = IF w \in 1..6 THEN error_string[w] ELSE ErrorText \o Numeral(w, ten)
      BY <1>5, <3>2, <3>3 DEF MeantError
    <3>5. Numeral(w, ten) \in Text
      BY NumeralText DEF Text
    <3>6. w \in 1..6 => error_string[w] \in Text
      BY WordsOfIt
    <3>7. ErrorText \o Numeral(w, ten) \in Text
      BY <1>6, <3>5, TextParts
    <3> QED
      BY <3>1, <3>4, <3>6, <3>7
  <2> QED
    BY <1>8, <2>3, <2>4, <2>5, <2>6 DEF Integral
<1>9. CASE item.conv = "c"
  <2>1. item.words[1] \in DOMAIN Texts /\ Texts[item.words[1]] # <<>>
    <3>1. ~Unknown(item.conv)
      BY <1>9 DEF Unknown, Known
    <3> QED
      BY <1>2, <1>9, <3>1 DEF Takes, Integral
  <2>2. PICK t_ : t_ = Texts[item.words[1]] /\ t_ \in Seq(Glyphs) /\ t_ # <<>>
    BY <2>1, TextsAre DEF Text
  <2>3. t_[1] \in Glyphs
    <3>1. Len(t_) \in Nat \ {0}
      BY <2>2, EmptySeq
    <3> QED
      BY <2>2, <3>1
  <2>4. Does(item) = <<t_[1]>>
    BY <1>9, <2>2, DoesIs
  <2> QED
    BY <2>3, <2>4, TextParts
<1>10. CASE item.conv = "s"
  <2>7. Shown(item) \in Seq(Glyphs) /\ Len(Shown(item)) \in Nat
    BY <1>10, ShownText DEF Text
  <2>8. PICK i \in Int : i = Field(item) - Len(Shown(item))
    BY <1>2, <2>7, HeldIs
  <2>9. Does(item) = IF item.minus /\ ~item.zero THEN Shown(item) \o Times(" ", i)
                      ELSE Times(IF item.zero THEN "0" ELSE " ", i) \o Shown(item)
    BY <1>10, <2>8 DEF Does
  <2>10. Times(" ", i) \in Text /\ Times("0", i) \in Text
    BY <1>4, TimesAre
  <2>11. Times(IF item.zero THEN "0" ELSE " ", i) \in Text
    BY <2>10
  <2> QED
    BY <2>7, <2>9, <2>10, <2>11, TextParts DEF Text
<1>11. CASE item.conv = "%"
  BY <1>6, <1>11, DoesIs
<1>12. CASE Unknown(item.conv)
  <2>1. item.conv \notin Known \cup {"text"}
    BY <1>12 DEF Unknown
  <2> QED
    BY <2>1, DoesIs, SpelledText
<1> QED
  BY <1>2, <1>8, <1>9, <1>10, <1>11, <1>12 DEF Takes

-----------------------------------------------------------------------------
(* What vprintfmt has read of a format, and what is left of it *)

\* The formats, arguments and meanings of the items up to each of them.
FormatUpTo(its) == Joined([k \in 1..Len(its) |-> Spelled(its[k])])
WordsUpTo(its)  == Joined([k \in 1..Len(its) |-> ArgumentWords(its[k])])
DoesUpTo(its)  == Joined([k \in 1..Len(its) |-> Does(its[k])])

\* The format is one that a programmer writes, and its arguments are there.
FormatWritten ==
  /\ Len(items) \in Nat /\ \A k \in 1..Len(items) : Proper(items[k])
  /\ fmt = FormatUpTo(items)[Len(items)] /\ args = WordsUpTo(items)[Len(items)]

Argument == Seq(Int)

\* The arguments of an item are numbers.
LEMMA WordsInt ==
  ASSUME NEW item, Proper(item)
  PROVE  /\ ArgumentWords(item) \in Argument
         /\ item.conv # "text" => /\ PrecWords(item) \in Argument /\ item.words \in Argument
                                  /\ Starred(item.width) \in Argument /\ Starred(item.prec) \in Argument
<1>1. CASE item.conv = "text"
  BY <1>1 DEF ArgumentWords, Argument
<1>2. CASE item.conv # "text"
  <2>1. ProperDirective(item)
    BY <1>2 DEF Proper
  <2>2. ASSUME NEW f, ProperNumber(f) PROVE Starred(f) \in Seq(Int)
    <3>1. f.value % UINTS \in Int
      BY <2>2, PrintfmtAssumption DEF ProperNumber
    <3> QED
      BY <3>1 DEF Starred
  <2>3. Starred(item.width) \in Seq(Int) /\ Starred(item.prec) \in Seq(Int)
    BY <2>1, <2>2 DEF ProperDirective
  <2>4. PICK U \in Nat : U = UINTS /\ item.words \in Seq(0..(U - 1))
    BY <2>1, PrintfmtAssumption DEF ProperDirective
  <2>5. item.words \in Seq(Int)
    <3>1. 0..(U - 1) \subseteq Int
      OBVIOUS
    <3> QED
      BY <2>4, <3>1, SeqWider
  <2>6. PrecWords(item) \in Seq(Int)
    BY <2>3, <2>5 DEF PrecWords
  <2>7. ArgumentWords(item) \in Seq(Int)
    BY <1>2, <2>3, <2>6 DEF ArgumentWords
  <2> QED
    BY <2>3, <2>5, <2>6, <2>7 DEF Argument
<1> QED
  BY <1>1, <1>2

\* Formats, arguments and meanings are joined from those of the items.
LEMMA ItemParts ==
  ASSUME FormatWritten
  PROVE  /\ PartsOf([k \in 1..Len(items) |-> Spelled(items[k])], Len(items), Glyphs)
         /\ PartsOf([k \in 1..Len(items) |-> ArgumentWords(items[k])], Len(items), Int)
         /\ PartsOf([k \in 1..Len(items) |-> Does(items[k])], Len(items), Glyphs)
<1>1. PICK m \in Nat : m = Len(items) /\ \A k \in 1..m : Proper(items[k])
  BY DEF FormatWritten
<1>2. \A k \in 1..m : /\ Spelled(items[k]) \in Seq(Glyphs) /\ ArgumentWords(items[k]) \in Seq(Int)
                      /\ Does(items[k]) \in Seq(Glyphs)
  BY <1>1, SpelledText, WordsInt, DoesText DEF Text, Argument
<1> DEFINE F == [k \in 1..m |-> Spelled(items[k])]
           W == [k \in 1..m |-> ArgumentWords(items[k])]
           M == [k \in 1..m |-> Does(items[k])]
<1>3. Len(F) = m /\ Len(W) = m /\ Len(M) = m
  OBVIOUS
<1>4. \A k \in 1..m : F[k] \in Seq(Glyphs) /\ W[k] \in Seq(Int) /\ M[k] \in Seq(Glyphs)
  BY <1>2
<1>5. PartsOf(F, m, Glyphs) /\ PartsOf(W, m, Int) /\ PartsOf(M, m, Glyphs)
  <2> HIDE DEF F, W, M
  <2> QED
    BY <1>3, <1>4 DEF PartsOf
<1> QED
  BY <1>1, <1>5

\* How it all begins and ends,
LEMMA FormatEnds ==
  ASSUME FormatWritten
  PROVE  /\ FormatUpTo(items)[0] = <<>> /\ WordsUpTo(items)[0] = <<>> /\ DoesUpTo(items)[0] = <<>>
         /\ \A k \in 0..Len(items) : /\ FormatUpTo(items)[k] \in Text /\ WordsUpTo(items)[k] \in Argument
                                     /\ DoesUpTo(items)[k] \in Text
         /\ fmt \in Text /\ args \in Argument
<1>1. Len(items) \in Nat
  BY DEF FormatWritten
<1>2. Grows(FormatUpTo(items), [k \in 1..Len(items) |-> Spelled(items[k])], Len(items), Glyphs)
  BY ItemParts, JoinedIs DEF FormatUpTo
<1>3. Grows(WordsUpTo(items), [k \in 1..Len(items) |-> ArgumentWords(items[k])], Len(items), Int)
  BY ItemParts, JoinedIs DEF WordsUpTo
<1>4. Grows(DoesUpTo(items), [k \in 1..Len(items) |-> Does(items[k])], Len(items), Glyphs)
  BY ItemParts, JoinedIs DEF DoesUpTo
<1>5. FormatUpTo(items)[0] = <<>> /\ \A k \in 0..Len(items) : FormatUpTo(items)[k] \in Text
  BY <1>2 DEF Grows, Text
<1>6. WordsUpTo(items)[0] = <<>> /\ \A k \in 0..Len(items) : WordsUpTo(items)[k] \in Argument
  BY <1>3 DEF Grows, Argument
<1>7. DoesUpTo(items)[0] = <<>> /\ \A k \in 0..Len(items) : DoesUpTo(items)[k] \in Text
  BY <1>4 DEF Grows, Text
<1>8. Len(items) \in 0..Len(items)
  BY <1>1
<1> QED
  BY <1>5, <1>6, <1>7, <1>8 DEF FormatWritten

\* and where each item is.
Lies(k) ==
  /\ Len(fmt) \in Nat /\ Len(FormatUpTo(items)[k]) \in Nat /\ Len(FormatUpTo(items)[k - 1]) \in Nat
  /\ Ahead(fmt, Len(FormatUpTo(items)[k - 1]) + 1, Spelled(items[k]))
  /\ Len(FormatUpTo(items)[k]) = Len(FormatUpTo(items)[k - 1]) + Len(Spelled(items[k]))
  /\ Len(FormatUpTo(items)[k]) <= Len(fmt)
  /\ Len(WordsUpTo(items)[k]) \in Nat /\ Len(WordsUpTo(items)[k - 1]) \in Nat
  /\ Ahead(args, Len(WordsUpTo(items)[k - 1]) + 1, ArgumentWords(items[k]))
  /\ Len(WordsUpTo(items)[k]) = Len(WordsUpTo(items)[k - 1]) + Len(ArgumentWords(items[k]))
  /\ DoesUpTo(items)[k] = DoesUpTo(items)[k - 1] \o Does(items[k])
  /\ DoesUpTo(items)[k] \in Text /\ DoesUpTo(items)[k - 1] \in Text

\* Each item lies where those before it end.
LEMMA Laid ==
  ASSUME FormatWritten, NEW k \in 1..Len(items)
  PROVE  Lies(k) /\ Proper(items[k])
<1>1. PICK m \in Nat : m = Len(items)
  BY DEF FormatWritten
<1>2. k \in 0..m /\ k - 1 \in 0..m /\ m \in 0..m /\ k \in 1..m
  BY <1>1
<1> DEFINE F == [i \in 1..m |-> Spelled(items[i])]
           W == [i \in 1..m |-> ArgumentWords(items[i])]
           M == [i \in 1..m |-> Does(items[i])]
<1>3. F[k] = Spelled(items[k]) /\ W[k] = ArgumentWords(items[k]) /\ M[k] = Does(items[k])
  BY <1>2
<1>4. PartsOf(F, m, Glyphs) /\ PartsOf(W, m, Int) /\ PartsOf(M, m, Glyphs)
  BY <1>1, ItemParts
<1>5. Joined(F) = FormatUpTo(items) /\ Joined(W) = WordsUpTo(items) /\ Joined(M) = DoesUpTo(items)
  BY <1>1 DEF FormatUpTo, WordsUpTo, DoesUpTo
<1> HIDE DEF F, W, M
<1>6. /\ Ahead(Joined(F)[m], Len(Joined(F)[k - 1]) + 1, F[k])
      /\ Len(Joined(F)[k]) = Len(Joined(F)[k - 1]) + Len(F[k])
      /\ Len(Joined(F)[k]) <= Len(Joined(F)[m])
  BY <1>2, <1>4, JoinedAhead
<1>7. /\ Ahead(Joined(W)[m], Len(Joined(W)[k - 1]) + 1, W[k])
      /\ Len(Joined(W)[k]) = Len(Joined(W)[k - 1]) + Len(W[k])
      /\ Len(Joined(W)[k]) <= Len(Joined(W)[m])
  BY <1>2, <1>4, JoinedAhead
<1>8. Joined(M)[k] = Joined(M)[k - 1] \o M[k]
  <2>1. Grows(Joined(M), M, m, Glyphs)
    BY <1>4, JoinedIs
  <2> QED
    BY <1>2, <2>1 DEF Grows
<1>9. /\ fmt = Joined(F)[m] /\ args = Joined(W)[m] /\ Proper(items[k])
  BY <1>1, <1>5 DEF FormatWritten
<1>10. \A i \in 0..m : /\ Len(FormatUpTo(items)[i]) \in Nat /\ Len(WordsUpTo(items)[i]) \in Nat
                       /\ DoesUpTo(items)[i] \in Text
  BY <1>1, FormatEnds DEF Text, Argument
<1>11. Len(fmt) \in Nat
  BY <1>2, <1>5, <1>9, <1>10
<1> QED
  BY <1>2, <1>3, <1>5, <1>6, <1>7, <1>8, <1>9, <1>10, <1>11 DEF Lies

\* What is expected of the k-th item, a directive: a rest of it, and of its words.
Expects(k, place, rest, from, words) ==
  /\ k \in 1..Len(items) /\ place \in Nat \ {0} /\ from \in Nat
  /\ Ahead(fmt, place, rest) /\ place + Len(rest) = Len(FormatUpTo(items)[k]) + 1
  /\ Ahead(args, from, words) /\ from + Len(words) = Len(WordsUpTo(items)[k]) + 1

\* A part of it is read.
LEMMA Consume ==
  ASSUME FormatWritten, NEW k, NEW place, NEW from, NEW x \in Text, NEW rest \in Text,
         NEW u \in Argument, NEW words \in Argument,
         Expects(k, place, x \o rest, from, u \o words)
  PROVE  /\ Expects(k, place + Len(x), rest, from + Len(u), words)
         /\ Ahead(fmt, place, x) /\ Ahead(args, from, u)
         /\ place + Len(x) <= Len(fmt) + 1 /\ place + Len(x) + Len(rest) <= Len(fmt) + 1
         /\ Len(x) > 0 => Char(place) = x[1]
         /\ Len(rest) > 0 => Char(place + Len(x)) = rest[1]
         /\ Len(u) > 0 => args[from] = u[1]
<1>1. /\ k \in 1..Len(items) /\ place \in Nat \ {0} /\ from \in Nat
      /\ Ahead(fmt, place, x \o rest) /\ place + Len(x \o rest) = Len(FormatUpTo(items)[k]) + 1
      /\ Ahead(args, from, u \o words) /\ from + Len(u \o words) = Len(WordsUpTo(items)[k]) + 1
  BY DEF Expects
<1>2. x \in Seq(Glyphs) /\ rest \in Seq(Glyphs) /\ u \in Seq(Int) /\ words \in Seq(Int)
  BY DEF Text, Argument
<1>3. Ahead(fmt, place, x) /\ Ahead(fmt, place + Len(x), rest) /\ Len(x \o rest) = Len(x) + Len(rest)
  BY <1>1, <1>2, AheadSplit
<1>4. Ahead(args, from, u) /\ Ahead(args, from + Len(u), words) /\ Len(u \o words) = Len(u) + Len(words)
  BY <1>1, <1>2, AheadSplit
<1>5. PICK i, j, e, f \in Nat : i = Len(x) /\ j = Len(rest) /\ e = Len(u) /\ f = Len(words)
  BY <1>2
<1>6. Len(fmt) \in Nat /\ Len(FormatUpTo(items)[k]) \in Nat /\ Len(FormatUpTo(items)[k]) <= Len(fmt)
  BY <1>1, Laid DEF Lies
<1>7. place + i + j = Len(FormatUpTo(items)[k]) + 1 /\ from + e + f = Len(WordsUpTo(items)[k]) + 1
  BY <1>1, <1>3, <1>4, <1>5
<1>8. place + i <= Len(fmt) + 1 /\ place + i + j <= Len(fmt) + 1
  BY <1>1, <1>6, <1>7
<1>9. Expects(k, place + i, rest, from + e, words)
  <2>1. place + i \in Nat \ {0} /\ from + e \in Nat
    BY <1>1
  <2>2. (place + i) + Len(rest) = Len(FormatUpTo(items)[k]) + 1
          /\ (from + e) + Len(words) = Len(WordsUpTo(items)[k]) + 1
    BY <1>5, <1>7
  <2> QED
    BY <1>1, <1>3, <1>4, <1>5, <2>1, <2>2 DEF Expects
<1>10. ASSUME i > 0 PROVE Char(place) = x[1]
  <2>1. Len(x) = i /\ Ahead(fmt, place, x) /\ place + i <= Len(fmt) + 1 /\ place \in Nat \ {0}
          /\ Len(fmt) \in Nat
    BY <1>1, <1>3, <1>5, <1>6, <1>8
  <2>2. \A y \in 1..i : Char(place + y - 1) = x[y]
    BY <2>1, CharsAhead
  <2>3. 1 \in 1..i /\ place + 1 - 1 = place
    BY <1>1, <1>10
  <2> QED
    BY <2>2, <2>3
<1>11. ASSUME j > 0 PROVE Char(place + i) = rest[1]
  <2>1. PICK p_ \in Nat \ {0} : p_ = place + i
    BY <1>1
  <2>2. Len(rest) = j /\ Ahead(fmt, p_, rest) /\ p_ + j <= Len(fmt) + 1
    BY <1>3, <1>5, <1>8, <2>1
  <2>3. \A y \in 1..j : Char(p_ + y - 1) = rest[y]
    BY <1>6, <2>2, CharsAhead
  <2>4. 1 \in 1..j /\ p_ + 1 - 1 = p_
    BY <1>11
  <2> QED
    BY <2>1, <2>3, <2>4
<1>12. ASSUME e > 0 PROVE args[from] = u[1]
  <2>1. 1 \in 1..e /\ from + 1 - 1 = from
    BY <1>1, <1>12
  <2> QED
    BY <1>4, <1>5, <2>1 DEF Ahead
<1> QED
  BY <1>3, <1>4, <1>5, <1>8, <1>9, <1>10, <1>11, <1>12

\* One character of it, and no word.
LEMMA ConsumeOne ==
  ASSUME FormatWritten, NEW k, NEW place, NEW from, NEW x \in Glyphs, NEW rest \in Text,
    NEW words \in Argument,
         Expects(k, place, <<x>> \o rest, from, words)
  PROVE  /\ Char(place) = x /\ Expects(k, place + 1, rest, from, words)
         /\ Len(rest) > 0 => Char(place + 1) = rest[1]
<1>1. PICK t_ \in Text : t_ = <<x>> /\ Len(t_) = 1 /\ t_[1] = x
  BY TextParts
<1>2. PICK u \in Argument : u = <<>> /\ Len(u) = 0 /\ u \o words = words
  <2>1. <<>> \in Seq(Int) /\ Len(<<>>) = 0 /\ \A y \in Seq(Int) : <<>> \o y = y
    OBVIOUS
  <2> QED
    BY <2>1 DEF Argument
<1>3. Expects(k, place, t_ \o rest, from, u \o words)
  BY <1>1, <1>2
<1>4. /\ Expects(k, place + Len(t_), rest, from + Len(u), words)
      /\ Ahead(fmt, place, t_) /\ Ahead(args, from, u)
      /\ place + Len(t_) <= Len(fmt) + 1 /\ place + Len(t_) + Len(rest) <= Len(fmt) + 1
      /\ Len(t_) > 0 => Char(place) = t_[1]
      /\ Len(rest) > 0 => Char(place + Len(t_)) = rest[1]
      /\ Len(u) > 0 => args[from] = u[1]
  BY <1>3, Consume
<1>5. from + 0 = from
  BY DEF Expects
<1> QED
  BY <1>1, <1>2, <1>4, <1>5

\* The l of a directive come one by one.
LEMMA LongIs ==
  ASSUME NEW item, item.conv \in Glyphs, NEW many \in Nat
  PROVE  /\ FromLong(item, many + 1) = <<"l">> \o FromLong(item, many)
         /\ FromLong(item, 0) = <<item.conv>>
         /\ FromLong(item, many) \in Text /\ Len(FromLong(item, many)) = many + 1
<1>1. "l" \in Glyphs /\ <<"l">> \in Seq(Glyphs) /\ <<item.conv>> \in Seq(Glyphs)
  <2>1. "l" \in Glyphs
    BY GlyphsAre DEF Known
  <2> QED
    BY <2>1
<1>2. \A i \in Nat : /\ Times("l", i) \in Seq(Glyphs) /\ Len(Times("l", i)) = i
                     /\ \A j \in 1..i : Times("l", i)[j] = "l"
  BY <1>1, TimesAre DEF Text
<1>3. Times("l", 0) = <<>>
  BY <1>2, EmptySeq
<1>4. Times("l", many + 1) = <<"l">> \o Times("l", many)
  <2>1. PICK s_, t_ \in Seq(Glyphs) : s_ = Times("l", many) /\ t_ = Times("l", many + 1)
    BY <1>2
  <2>2. Len(s_) = many /\ (\A j \in 1..many : s_[j] = "l")
    BY <1>2, <2>1
  <2>3. Len(t_) = many + 1 /\ (\A j \in 1..(many + 1) : t_[j] = "l")
    <3>1. PICK i \in Nat : i = many + 1
      OBVIOUS
    <3>2. Len(Times("l", i)) = i /\ \A j \in 1..i : Times("l", i)[j] = "l"
      BY <1>2
    <3> QED
      BY <2>1, <3>1, <3>2
  <2>4. PICK y \in Seq(Glyphs) : y = <<"l">> \o s_
    <3>1. <<"l">> \o s_ \in Text
      BY <1>1, TextParts DEF Text
    <3> QED
      BY <3>1 DEF Text
  <2>5. Len(y) = many + 1 /\ \A j \in 1..(many + 1) : y[j] = "l"
    <3>1. Len(y) = 1 + many /\ y[1] = "l" /\ \A j \in 2..(many + 1) : y[j] = s_[j - 1]
      BY <1>1, <2>2, <2>4
    <3>2. \A j \in 2..(many + 1) : j - 1 \in 1..many
      OBVIOUS
    <3> QED
      BY <2>2, <3>1, <3>2
  <2>6. y = t_
    BY <2>3, <2>5, SeqEqual
  <2> QED
    BY <2>1, <2>4, <2>6
<1>5. FromLong(item, many + 1) = <<"l">> \o FromLong(item, many)
  <2>1. PICK s_, t_, y \in Seq(Glyphs) : s_ = Times("l", many) /\ t_ = <<"l">> /\ y = <<item.conv>>
    BY <1>1, <1>2
  <2>2. (t_ \o s_) \o y = t_ \o (s_ \o y)
    BY ConcatAssociative
  <2> QED
    BY <1>4, <2>1, <2>2 DEF FromLong
<1>6. FromLong(item, 0) = <<item.conv>>
  <2>1. <<>> \o <<item.conv>> = <<item.conv>>
    BY <1>1
  <2> QED
    BY <1>3, <2>1 DEF FromLong
<1>7. FromLong(item, many) \in Seq(Glyphs) /\ Len(FromLong(item, many)) = many + 1
  <2>1. PICK s_, y \in Seq(Glyphs) : s_ = Times("l", many) /\ y = <<item.conv>> /\ Len(s_) = many
          /\ Len(y) = 1
    BY <1>1, <1>2
  <2>2. s_ \o y \in Seq(Glyphs) /\ Len(s_ \o y) = many + 1
    BY <2>1
  <2> QED
    BY <2>1, <2>2 DEF FromLong
<1> QED
  BY <1>5, <1>6, <1>7 DEF Text

\* Which case of the switch a character is.
LEMMA Which ==
  ASSUME At("switch"), vprintfmt
  PROVE  /\ ch \in {"-", "0"} => pad
         /\ ch \in Decimal \ {"0"} => digits
         /\ ch = "*" => star
         /\ ch = "." => dot
         /\ ch = "#" => sharp
         /\ ch = "l" => long
         /\ ch = "c" => char
         /\ ch = "e" => error
         /\ ch = "s" => string
         /\ ch \in {"d", "u", "o", "x", "p"} => numeric
         /\ ch = "%" => escaped
         /\ ch \notin Known => unknown
<1>1. fpc = "switch"
  BY DEF At
<1>2. ~plain /\ ~percent /\ ~return
  BY <1>1 DEF plain, percent, return, At
<1>3. /\ pad => ch \in {"-", "0"}
      /\ digits => ch \in Decimal \ {"0"}
      /\ star => ch = "*"
      /\ dot => ch = "."
      /\ sharp => ch = "#"
      /\ long => ch = "l"
  BY DEF pad, digits, star, dot, sharp, long, Case
<1>4. /\ char => ch = "c"
      /\ error => ch = "e"
      /\ string => ch = "s"
      /\ numeric => ch \in {"d", "u", "o", "x", "p"}
      /\ escaped => ch = "%"
      /\ unknown => ch \notin Known
  BY DEF char, error, string, numeric, escaped, unknown, Case
<1>5. pad \/ digits \/ star \/ dot \/ sharp \/ long \/ char \/ error \/ string \/ numeric \/ escaped \/ unknown
  BY <1>2 DEF vprintfmt
<1> HIDE DEF ch
<1>6. CASE ch \in Decimal
  BY <1>3, <1>4, <1>5, <1>6 DEF Decimal, Known
<1>7. CASE ch \notin Decimal
  BY <1>3, <1>4, <1>5, <1>7 DEF Decimal, Known
<1> QED
  BY <1>6, <1>7

\* What follows a number is no digit.
LEMMA NoDigit ==
  ASSUME NEW item, ProperDirective(item)
  PROVE  /\ \A many \in Nat : Len(FromLong(item, many)) > 0 /\ FromLong(item, many)[1] \notin Decimal
         /\ Len(FromDot(item)) > 0 /\ FromDot(item)[1] \notin Decimal
         /\ ~item.prec.given => FromDot(item) = FromLong(item, item.long)
<1>1. item.conv \in Glyphs /\ item.conv \notin Decimal
  <2>1. Takes(item.conv, item.long, item.words)
    BY DEF ProperDirective
  <2>2. item.conv \in Integral \cup {"p", "e", "c", "s", "%"} \/ item.conv \notin Known
    BY <2>1 DEF Takes, Unknown
  <2>3. item.conv \notin Decimal
    BY <2>2 DEF Integral, Known, Decimal
  <2> QED
    BY <2>1, <2>3, ConvGlyph
<1>2. "l" \in Glyphs /\ "." \in Glyphs /\ "l" \notin Decimal /\ "." \notin Decimal
  BY GlyphsAre DEF Known, Decimal
<1>3. ASSUME NEW x \in Glyphs, NEW t_ \in Text PROVE Len(<<x>> \o t_) > 0 /\ (<<x>> \o t_)[1] = x
  BY DEF Text
<1>4. ASSUME NEW many \in Nat PROVE Len(FromLong(item, many)) > 0 /\ FromLong(item, many)[1] \notin Decimal
  <2>1. CASE many = 0
    <3>1. FromLong(item, many) = <<item.conv>>
      BY <1>1, <2>1, LongIs
    <3> QED
      BY <1>1, <3>1
  <2>2. CASE many # 0
    <3>1. PICK i \in Nat : i + 1 = many
      <4>1. many - 1 \in Nat /\ (many - 1) + 1 = many
        BY <2>2
      <4> QED
        BY <4>1
    <3>2. FromLong(item, i + 1) = <<"l">> \o FromLong(item, i) /\ FromLong(item, i) \in Text
      BY <1>1, LongIs
    <3>3. FromLong(item, many)[1] = "l" /\ Len(FromLong(item, many)) > 0
      BY <1>2, <1>3, <3>1, <3>2
    <3> QED
      BY <1>2, <3>3
  <2> QED
    BY <2>1, <2>2
<1>5. SpelledIn(item, Glyphs) /\ item.long \in Nat
  <2>1. Known \ {"%"} \subseteq Glyphs
    BY GlyphsAre
  <2> QED
    BY <1>1, <2>1, SpelledAre DEF ProperDirective
<1>6. FromPrec(item) \in Text /\ FromLong(item, item.long) \in Text
  BY <1>5 DEF SpelledIn, Text
<1>7. ASSUME item.prec.given PROVE Len(FromDot(item)) > 0 /\ FromDot(item)[1] = "."
  <2>1. FromDot(item) = <<".">> \o FromPrec(item)
    BY <1>7 DEF FromDot, Flag
  <2> QED
    BY <1>2, <1>3, <1>6, <2>1
<1>8. ASSUME ~item.prec.given PROVE FromDot(item) = FromLong(item, item.long)
  <2>1. FromPrec(item) = <<>> \o FromLong(item, item.long)
    BY <1>8 DEF FromPrec, Number
  <2>2. FromDot(item) = <<>> \o FromPrec(item)
    BY <1>8 DEF FromDot, Flag
  <2> QED
    BY <1>6, <2>1, <2>2, TextParts
<1> QED
  BY <1>2, <1>4, <1>5, <1>7, <1>8

\* A width or a precision that is given is read.
LEMMA NumberStep ==
  ASSUME FormatWritten, At("switch"), vprintfmt, NEW k, NEW f, ProperNumber(f), f.given,
         NEW rest \in Text, NEW words \in Argument, Len(rest) > 0, rest[1] \notin Decimal,
         Expects(k, fp, Number(f) \o rest, ap, Starred(f) \o words)
  PROVE  /\ process_precision(f.value) /\ Expects(k, fp', rest, ap', words)
         /\ Same(<<todo, fpc>>) /\ UNCHANGED <<padc, lflag, altflag>>
<1>1. Number(f) \in Text /\ Starred(f) \in Argument
  <2>1. Decimal \cup {"*"} \subseteq Glyphs
    BY GlyphsAre DEF Known
  <2>2. Number(f) \in Seq(Glyphs)
    BY <2>1, NumberIn
  <2>3. f.value % UINTS \in Int
    BY PrintfmtAssumption DEF ProperNumber
  <2> QED
    BY <2>2, <2>3 DEF Text, Starred, Argument
<1>2. PICK x \in Text, u \in Argument : x = Number(f) /\ u = Starred(f)
  BY <1>1
<1>3. Expects(k, fp, x \o rest, ap, u \o words)
  BY <1>2
<1>4. /\ Expects(k, fp + Len(x), rest, ap + Len(u), words)
      /\ Ahead(fmt, fp, x) /\ Ahead(args, ap, u)
      /\ fp + Len(x) <= Len(fmt) + 1 /\ fp + Len(x) + Len(rest) <= Len(fmt) + 1
      /\ Len(x) > 0 => Char(fp) = x[1]
      /\ Len(rest) > 0 => Char(fp + Len(x)) = rest[1]
      /\ Len(u) > 0 => args[ap] = u[1]
  BY <1>3, Consume
<1>5. fp \in Nat \ {0} /\ ap \in Nat /\ Len(fmt) \in Nat
  BY <1>3, FormatEnds DEF Expects, Text
<1>6. CASE f.star
  <2>1. x = <<"*">> /\ u = <<f.value % UINTS>> /\ Len(x) = 1 /\ Len(u) = 1
    BY <1>2, <1>6 DEF Number, Starred
  <2>2. ch = "*" /\ args[ap] = f.value % UINTS
    BY <1>4, <2>1 DEF ch
  <2>3. star
    BY <2>2, Which
  <2>4. int = f.value
    <3>1. PICK h \in Nat \ {0} : UINTS = 2 * h /\ UINTS \div 2 = h
      BY HalfInt
    <3>2. f.value \in (-h)..(h - 1)
      BY <1>6, <3>1 DEF ProperNumber
    <3>3. Signed(f.value % UINTS, UINTS) = f.value
      BY <3>1, <3>2, StarIs
    <3> QED
      BY <2>2, <3>3 DEF int
  <2>5. fp' = fp + Len(x) /\ ap' = ap + Len(u)
    BY <2>1, <2>3 DEF star
  <2> QED
    BY <1>4, <2>3, <2>4, <2>5 DEF star
<1>7. CASE ~f.star
  <2>1. PICK v \in Nat \ {0} : v = f.value
    BY <1>7 DEF ProperNumber
  <2>2. x = Numeral(v, 10) /\ u = <<>> /\ Len(u) = 0
    BY <1>2, <1>7, <2>1 DEF Number, Starred
  <2>3. /\ Ahead(fmt, fp, Numeral(v, 10)) /\ fp + Len(Numeral(v, 10)) <= Len(fmt) + 1
        /\ Char(fp + Len(Numeral(v, 10))) \notin Decimal
    BY <1>4, <2>2
  <2>4. /\ Char(fp) \in Decimal \ {"0"}
        /\ \A many \in Nat \ {0} :
             /\ \A i \in fp..(fp + many - 1) : Char(i) \in Decimal
             /\ Char(fp + many) \notin Decimal
             => many = Len(Numeral(v, 10)) /\ ValueRead(fp, many) = v
    BY <1>5, <2>3, ReadsNumber
  <2>5. digits
    BY <2>4, Which DEF ch
  <2>6. PICK many \in 1..Len(fmt) :
          /\ \A i \in fp..(fp + many - 1) : Char(i) \in Decimal
          /\ Char(fp + many) \notin Decimal
          /\ process_precision(ValueRead(fp, many))
          /\ fp' = fp + many
    BY <2>5 DEF digits, ValueRead
  <2>7. many = Len(x) /\ ValueRead(fp, many) = f.value
    <3>1. many \in Nat \ {0}
      BY <1>5
    <3> QED
      BY <2>1, <2>2, <2>4, <2>6, <3>1
  <2>8. Same(<<ap, todo, fpc>>) /\ UNCHANGED <<padc, lflag, altflag>>
    BY <2>5 DEF digits
  <2>9. ap' = ap + Len(u) /\ fp' = fp + Len(x) /\ Same(<<todo, fpc>>)
    BY <1>5, <2>2, <2>6, <2>7, <2>8 DEF Same
  <2> QED
    BY <1>4, <2>6, <2>7, <2>8, <2>9
<1> QED
  BY <1>6, <1>7

\* And one that is not given is not there.
LEMMA NoNumber ==
  ASSUME NEW f, ProperNumber(f), ~f.given, NEW rest \in Text, NEW words \in Argument
  PROVE  Number(f) \o rest = rest /\ Starred(f) \o words = words
<1>1. ~f.star
  BY DEF ProperNumber
<1>2. \A t_ \in Seq(Int) : <<>> \o t_ = t_
  OBVIOUS
<1> QED
  BY <1>1, <1>2, TextParts DEF Number, Starred, Argument

\* Where vprintfmt is in a directive, and what it has found there.
Stands(k, rest, words, padc_, width_, precision_, lflag_, altflag_) ==
  /\ Expects(k, fp, rest, ap, words)
  /\ padc = padc_ /\ width = width_ /\ precision = precision_ /\ lflag = lflag_ /\ altflag = altflag_

Begun(k, item)      == Stands(k, FromMinus(item), ArgumentWords(item), " ", -1, -1, 0, FALSE)
AfterMinus(k, item) == Stands(k, FromZero(item), ArgumentWords(item), IF item.minus THEN "-" ELSE " ",
  -1, -1, 0, FALSE)
AfterZero(k, item)  == Stands(k, FromAlt(item), ArgumentWords(item), PadCode(item), -1, -1, 0, FALSE)
AfterAlt(k, item)   == Stands(k, FromWidth(item), ArgumentWords(item), PadCode(item), -1, -1, 0, item.alt)
AfterWidth(k, item) == Stands(k, FromDot(item), PrecWords(item), PadCode(item), Held(item.width), -1, 0,
  item.alt)
AfterDot(k, item)   == Stands(k, FromPrec(item), PrecWords(item), PadCode(item), Widened(item), -1, 0,
  item.alt)
AfterPrec(k, item, more) ==
  Stands(k, FromLong(item, more), item.words, PadCode(item), Widened(item), Held(item.prec),
    item.long - more, item.alt)

Reading(k, item) ==
  \/ Begun(k, item) \/ AfterMinus(k, item) \/ AfterZero(k, item) \/ AfterAlt(k, item)
  \/ AfterWidth(k, item) \/ AfterDot(k, item) \/ \E more \in 0..item.long : AfterPrec(k, item, more)

\* The directive ends, as one or as none.
Closes(k, item) ==
  /\ fp = Len(FormatUpTo(items)[k]) /\ ap + Len(item.words) = Len(WordsUpTo(items)[k]) + 1
  /\ Outcome(item) \/ (Unknown(item.conv) /\ item.words = <<>> /\ unknown)

Proceeds(k, item) == (Same(<<todo, fpc>>) /\ Reading(k, item)') \/ Closes(k, item)

\* vprintfmt takes a step in a directive.
Directs(k, item) ==
  /\ FormatWritten /\ At("switch") /\ vprintfmt /\ UNCHANGED items
  /\ item.conv # "text" /\ ProperDirective(item)

\* One step on in a directive: it stands there in the next state.
LEMMA StandsNext ==
  ASSUME NEW k, NEW rest, NEW words, NEW padc_, NEW width_, NEW precision_, NEW lflag_, NEW altflag_,
         UNCHANGED items, Same(<<todo, fpc>>), Expects(k, fp', rest, ap', words),
         padc' = padc_, width' = width_, precision' = precision_, lflag' = lflag_, altflag' = altflag_
  PROVE  Stands(k, rest, words, padc_, width_, precision_, lflag_, altflag_)'
<1>1. items' = items /\ fmt' = fmt /\ args' = args
  BY DEF Same
<1>2. Expects(k, fp, rest, ap, words)'
  BY <1>1 DEF Expects, Ahead
<1> QED
  BY <1>2 DEF Stands

\* What such a directive is made of.
LEMMA DirectiveParts ==
  ASSUME NEW item, item.conv # "text", ProperDirective(item)
  PROVE  /\ FromPrec(item) \in Text /\ FromDot(item) \in Text /\ FromWidth(item) \in Text
         /\ FromAlt(item) \in Text /\ FromZero(item) \in Text /\ FromMinus(item) \in Text
         /\ FromLong(item, item.long) \in Text /\ item.conv \in Glyphs
         /\ ArgumentWords(item) \in Argument /\ PrecWords(item) \in Argument /\ item.words \in Argument
         /\ item.minus \in BOOLEAN /\ item.zero \in BOOLEAN /\ item.alt \in BOOLEAN
         /\ item.long \in Nat /\ ProperNumber(item.width) /\ ProperNumber(item.prec)
<1>1. Proper(item)
  BY DEF Proper
<1>2. SpelledIn(item, Glyphs)
  BY <1>1, SpelledText
<1>3. /\ item.minus \in BOOLEAN /\ item.zero \in BOOLEAN /\ item.alt \in BOOLEAN
      /\ item.long \in Nat /\ ProperNumber(item.width) /\ ProperNumber(item.prec)
      /\ Takes(item.conv, item.long, item.words)
  BY DEF ProperDirective
<1>4. item.conv \in Glyphs
  BY <1>3, ConvGlyph
<1>5. ArgumentWords(item) \in Argument /\ PrecWords(item) \in Argument /\ item.words \in Argument
  BY <1>1, WordsInt
<1>6. /\ FromPrec(item) \in Text /\ FromDot(item) \in Text /\ FromWidth(item) \in Text
      /\ FromAlt(item) \in Text /\ FromZero(item) \in Text /\ FromMinus(item) \in Text
      /\ FromLong(item, item.long) \in Text
  BY <1>2, <1>3 DEF SpelledIn, Text
<1> QED
  BY <1>3, <1>4, <1>5, <1>6

\* A flag or a point that may be there.
LEMMA FlagIs ==
  ASSUME FormatWritten, NEW k, NEW given_ \in BOOLEAN, NEW x \in Glyphs, NEW rest \in Text,
         NEW words \in Argument, Expects(k, fp, Flag(given_, x) \o rest, ap, words)
  PROVE  /\ given_ => ch = x /\ Expects(k, fp + 1, rest, ap, words)
         /\ ~given_ => Expects(k, fp, rest, ap, words)
<1>1. CASE given_
  <2>1. Expects(k, fp, <<x>> \o rest, ap, words)
    BY <1>1 DEF Flag
  <2> QED
    BY <1>1, <2>1, ConsumeOne DEF ch
<1>2. CASE ~given_
  <2>1. <<>> \o rest = rest
    BY TextParts
  <2> QED
    BY <1>2, <2>1 DEF Flag
<1> QED
  BY <1>1, <1>2

\* Its letter.
LEMMA AtLetter ==
  ASSUME NEW k, NEW item, Directs(k, item), AfterPrec(k, item, 0)
  PROVE  Closes(k, item)
<1>1. /\ item.conv \in Glyphs /\ item.words \in Argument /\ item.long \in Nat
      /\ ProperDirective(item) /\ item.conv # "text" /\ FormatWritten /\ At("switch") /\ vprintfmt
  BY DirectiveParts DEF Directs
<1>2. FromLong(item, 0) = <<item.conv>>
  BY <1>1, LongIs
<1>3. /\ Expects(k, fp, <<item.conv>>, ap, item.words)
      /\ padc = PadCode(item) /\ width = Widened(item) /\ precision = Held(item.prec)
      /\ lflag = item.long /\ altflag = item.alt
  BY <1>1, <1>2 DEF AfterPrec, Stands
<1>4. ch = item.conv
  <2>1. PICK t_ \in Text : t_ = <<>> /\ <<item.conv>> \o t_ = <<item.conv>>
    <3>1. <<>> \in Text /\ <<item.conv>> \in Text
      BY <1>1, TextParts DEF Text
    <3> QED
      BY <3>1, TextParts
  <2>2. Expects(k, fp, <<item.conv>> \o t_, ap, item.words)
    BY <1>3, <2>1
  <2> QED
    BY <1>1, <2>2, ConsumeOne DEF ch
<1>5. Prepared(item)
  BY <1>1, <1>3, <1>4 DEF Prepared, Expects
<1>6. fp = Len(FormatUpTo(items)[k]) /\ ap + Len(item.words) = Len(WordsUpTo(items)[k]) + 1
  <2>1. Len(<<item.conv>>) = 1
    OBVIOUS
  <2>2. k \in 1..Len(items) /\ fp \in Nat
    BY <1>3 DEF Expects
  <2>3. Len(FormatUpTo(items)[k]) \in Nat
    BY <1>1, <2>2, Laid DEF Lies
  <2> QED
    BY <1>3, <2>1, <2>2, <2>3 DEF Expects
<1>7. CASE Unknown(item.conv)
  <2>1. item.conv \notin Known
    BY <1>7 DEF Unknown
  <2>2. unknown /\ item.words = <<>>
    BY <1>1, <1>4, <1>5, <2>1, Which, TakesWords
  <2> QED
    BY <1>6, <1>7, <2>2 DEF Closes
<1>8. CASE ~Unknown(item.conv)
  <2>1. Takes(item.conv, item.long, item.words)
    BY <1>1 DEF ProperDirective
  <2>2. item.conv \in {"d", "u", "o", "x"} \cup {"p", "e", "c", "s", "%"}
    BY <1>8, <2>1 DEF Takes, Integral
  <2>3. numeric \/ error \/ char \/ string \/ escaped
    BY <1>1, <1>4, <2>2, Which
  <2>4. Outcome(item)
    BY <1>5, <2>3, NumericSays, ErrorSays, CharSays, StringSays, EscapedSays
  <2> QED
    BY <1>6, <2>4 DEF Closes
<1> QED
  BY <1>7, <1>8

\* Its l, one by one.
LEMMA FromPrecOn ==
  ASSUME NEW k, NEW item, Directs(k, item), NEW more \in 0..item.long, AfterPrec(k, item, more)
  PROVE  Proceeds(k, item)
<1>1. /\ item.conv \in Glyphs /\ item.words \in Argument /\ item.long \in Nat
      /\ FormatWritten /\ At("switch") /\ vprintfmt /\ UNCHANGED items
  BY DirectiveParts DEF Directs
<1>2. CASE more = 0
  BY <1>2, AtLetter DEF Proceeds
<1>3. CASE more # 0
  <2>1. PICK i \in Nat : i + 1 = more /\ i \in 0..item.long
    <3>1. more - 1 \in Nat /\ (more - 1) + 1 = more /\ more - 1 \in 0..item.long
      BY <1>1, <1>3
    <3> QED
      BY <3>1
  <2>2. FromLong(item, i + 1) = <<"l">> \o FromLong(item, i) /\ FromLong(item, i) \in Text
    BY <1>1, LongIs
  <2>3. "l" \in Glyphs
    BY GlyphsAre DEF Known
  <2>4. /\ Expects(k, fp, <<"l">> \o FromLong(item, i), ap, item.words)
        /\ padc = PadCode(item) /\ width = Widened(item) /\ precision = Held(item.prec)
        /\ lflag = item.long - more /\ altflag = item.alt
    BY <2>1, <2>2 DEF AfterPrec, Stands
  <2>5. ch = "l" /\ Expects(k, fp + 1, FromLong(item, i), ap, item.words)
    BY <1>1, <2>2, <2>3, <2>4, ConsumeOne DEF ch
  <2>6. long
    BY <1>1, <2>5, Which
  <2>7. /\ fp' = fp + 1 /\ ap' = ap /\ Same(<<todo, fpc>>) /\ lflag' = lflag + 1
        /\ UNCHANGED <<padc, width, precision, altflag>>
    BY <2>6 DEF long, reswitch, Same
  <2>8. lflag' = item.long - i
    BY <1>1, <2>1, <2>4, <2>7
  <2>9. Expects(k, fp', FromLong(item, i), ap', item.words)
    BY <2>5, <2>7
  <2>10. AfterPrec(k, item, i)'
    BY <1>1, <2>4, <2>7, <2>8, <2>9, StandsNext DEF AfterPrec
  <2> QED
    BY <2>1, <2>7, <2>10 DEF Proceeds, Reading
<1> QED
  BY <1>2, <1>3

\* The step of a directive, from what has been read of it.
LEMMA FromDotOn ==
  ASSUME NEW k, NEW item, Directs(k, item), AfterDot(k, item)
  PROVE  Proceeds(k, item)
<1>1. /\ item.words \in Argument /\ item.long \in Nat /\ FromLong(item, item.long) \in Text
      /\ ProperNumber(item.prec)
      /\ FormatWritten /\ At("switch") /\ vprintfmt /\ UNCHANGED items /\ ProperDirective(item)
  BY DirectiveParts DEF Directs
<1>2. /\ Expects(k, fp, Number(item.prec) \o FromLong(item, item.long), ap,
         Starred(item.prec) \o item.words)
      /\ padc = PadCode(item) /\ width = Widened(item) /\ precision = -1 /\ lflag = 0 /\ altflag = item.alt
  BY DEF AfterDot, Stands, FromPrec, PrecWords
<1>3. item.long - item.long = 0 /\ item.long \in 0..item.long
  BY <1>1
<1>4. CASE item.prec.given
  <2>1. Len(FromLong(item, item.long)) > 0 /\ FromLong(item, item.long)[1] \notin Decimal
    BY <1>1, NoDigit
  <2>2. /\ process_precision(item.prec.value) /\ Expects(k, fp', FromLong(item, item.long), ap', item.words)
        /\ Same(<<todo, fpc>>) /\ UNCHANGED <<padc, lflag, altflag>>
    BY <1>1, <1>2, <1>4, <2>1, NumberStep
  <2>3. width \in Int /\ width >= 0
    <3>1. Held(item.width) \in Int
      BY <1>1, HeldIs
    <3> QED
      BY <1>2, <1>4, <3>1 DEF Widened
  <2>4. precision' = Held(item.prec) /\ width' = width
    BY <1>4, <2>2, <2>3 DEF process_precision, Held
  <2>5. AfterPrec(k, item, item.long)'
    BY <1>1, <1>2, <1>3, <2>2, <2>4, StandsNext DEF AfterPrec
  <2> QED
    BY <1>3, <2>2, <2>5 DEF Proceeds, Reading
<1>5. CASE ~item.prec.given
  <2>1. Expects(k, fp, FromLong(item, item.long), ap, item.words)
    BY <1>1, <1>2, <1>5, NoNumber
  <2>2. AfterPrec(k, item, item.long)
    BY <1>2, <1>3, <1>5, <2>1 DEF AfterPrec, Stands, Held
  <2> QED
    BY <1>3, <2>2, FromPrecOn
<1> QED
  BY <1>4, <1>5

\* From the width on: a dot, an l or the letter comes next,
LEMMA FromWidthOn ==
  ASSUME NEW k, NEW item, Directs(k, item), AfterWidth(k, item)
  PROVE  Proceeds(k, item)
<1>1. /\ FromPrec(item) \in Text /\ PrecWords(item) \in Argument /\ item.prec.given \in BOOLEAN
      /\ FormatWritten /\ At("switch") /\ vprintfmt /\ UNCHANGED items /\ ProperDirective(item)
  BY DirectiveParts DEF Directs, ProperNumber
<1>2. /\ Expects(k, fp, Flag(item.prec.given, ".") \o FromPrec(item), ap, PrecWords(item))
      /\ padc = PadCode(item) /\ width = Held(item.width) /\ precision = -1 /\ lflag = 0
      /\ altflag = item.alt
  BY DEF AfterWidth, Stands, FromDot
<1>3. "." \in Glyphs
  BY GlyphsAre DEF Known
<1>4. /\ item.prec.given => ch = "." /\ Expects(k, fp + 1, FromPrec(item), ap, PrecWords(item))
      /\ ~item.prec.given => Expects(k, fp, FromPrec(item), ap, PrecWords(item))
  BY <1>1, <1>2, <1>3, FlagIs
<1>5. CASE item.prec.given
  <2>1. dot
    BY <1>1, <1>4, <1>5, Which
  <2>2. /\ fp' = fp + 1 /\ ap' = ap /\ Same(<<todo, fpc>>) /\ width' = (IF width < 0 THEN 0 ELSE width)
        /\ UNCHANGED <<padc, precision, lflag, altflag>>
    BY <2>1 DEF dot, reswitch, Same
  <2>3. width' = Widened(item) /\ Expects(k, fp', FromPrec(item), ap', PrecWords(item))
    BY <1>2, <1>4, <1>5, <2>2 DEF Widened
  <2>4. AfterDot(k, item)'
    BY <1>1, <1>2, <2>2, <2>3, StandsNext DEF AfterDot
  <2> QED
    BY <2>2, <2>4 DEF Proceeds, Reading
<1>6. CASE ~item.prec.given
  <2>1. AfterDot(k, item)
    BY <1>2, <1>4, <1>6 DEF AfterDot, Stands, Widened
  <2> QED
    BY <2>1, FromDotOn
<1> QED
  BY <1>5, <1>6

\* from the # on, the width or what follows it,
LEMMA FromAltOn ==
  ASSUME NEW k, NEW item, Directs(k, item), AfterAlt(k, item)
  PROVE  Proceeds(k, item)
<1>1. /\ FromDot(item) \in Text /\ PrecWords(item) \in Argument /\ ProperNumber(item.width)
      /\ FormatWritten /\ At("switch") /\ vprintfmt /\ UNCHANGED items /\ ProperDirective(item)
      /\ item.conv # "text"
  BY DirectiveParts DEF Directs
<1>2. /\ Expects(k, fp, Number(item.width) \o FromDot(item), ap, Starred(item.width) \o PrecWords(item))
      /\ padc = PadCode(item) /\ width = -1 /\ precision = -1 /\ lflag = 0 /\ altflag = item.alt
  BY <1>1 DEF AfterAlt, Stands, FromWidth, ArgumentWords
<1>3. CASE item.width.given
  <2>1. Len(FromDot(item)) > 0 /\ FromDot(item)[1] \notin Decimal
    BY <1>1, NoDigit
  <2>2. /\ process_precision(item.width.value) /\ Expects(k, fp', FromDot(item), ap', PrecWords(item))
        /\ Same(<<todo, fpc>>) /\ UNCHANGED <<padc, lflag, altflag>>
    BY <1>1, <1>2, <1>3, <2>1, NumberStep
  <2>3. width' = Held(item.width) /\ precision' = -1
    BY <1>2, <1>3, <2>2 DEF process_precision, Held
  <2>4. AfterWidth(k, item)'
    BY <1>1, <1>2, <2>2, <2>3, StandsNext DEF AfterWidth
  <2> QED
    BY <2>2, <2>4 DEF Proceeds, Reading
<1>4. CASE ~item.width.given
  <2>1. Expects(k, fp, FromDot(item), ap, PrecWords(item))
    BY <1>1, <1>2, <1>4, NoNumber
  <2>2. AfterWidth(k, item)
    BY <1>2, <1>4, <2>1 DEF AfterWidth, Stands, Held
  <2> QED
    BY <2>2, FromWidthOn
<1> QED
  BY <1>3, <1>4

\* from the 0 on, the # or what follows it,
LEMMA FromZeroOn ==
  ASSUME NEW k, NEW item, Directs(k, item), AfterZero(k, item)
  PROVE  Proceeds(k, item)
<1>1. /\ FromWidth(item) \in Text /\ ArgumentWords(item) \in Argument /\ item.alt \in BOOLEAN
      /\ FormatWritten /\ At("switch") /\ vprintfmt /\ UNCHANGED items
  BY DirectiveParts DEF Directs
<1>2. /\ Expects(k, fp, Flag(item.alt, "#") \o FromWidth(item), ap, ArgumentWords(item))
      /\ padc = PadCode(item) /\ width = -1 /\ precision = -1 /\ lflag = 0 /\ altflag = FALSE
  BY DEF AfterZero, Stands, FromAlt
<1>3. "#" \in Glyphs
  BY GlyphsAre DEF Known
<1>4. /\ item.alt => ch = "#" /\ Expects(k, fp + 1, FromWidth(item), ap, ArgumentWords(item))
      /\ ~item.alt => Expects(k, fp, FromWidth(item), ap, ArgumentWords(item))
  BY <1>1, <1>2, <1>3, FlagIs
<1>5. CASE item.alt
  <2>1. sharp
    BY <1>1, <1>4, <1>5, Which
  <2>2. /\ fp' = fp + 1 /\ ap' = ap /\ Same(<<todo, fpc>>) /\ altflag' = TRUE
        /\ UNCHANGED <<padc, width, precision, lflag>>
    BY <2>1 DEF sharp, reswitch, Same
  <2>3. altflag' = item.alt /\ Expects(k, fp', FromWidth(item), ap', ArgumentWords(item))
    BY <1>1, <1>4, <1>5, <2>2
  <2>4. AfterAlt(k, item)'
    BY <1>1, <1>2, <2>2, <2>3, StandsNext DEF AfterAlt
  <2> QED
    BY <2>2, <2>4 DEF Proceeds, Reading
<1>6. CASE ~item.alt
  <2>1. AfterAlt(k, item)
    BY <1>1, <1>2, <1>4, <1>6 DEF AfterAlt, Stands
  <2> QED
    BY <2>1, FromAltOn
<1> QED
  BY <1>5, <1>6

\* from the - on, the 0 or what follows it,
LEMMA FromMinusOn ==
  ASSUME NEW k, NEW item, Directs(k, item), AfterMinus(k, item)
  PROVE  Proceeds(k, item)
<1>1. /\ FromAlt(item) \in Text /\ ArgumentWords(item) \in Argument /\ item.zero \in BOOLEAN
      /\ FormatWritten /\ At("switch") /\ vprintfmt /\ UNCHANGED items
  BY DirectiveParts DEF Directs
<1>2. /\ Expects(k, fp, Flag(item.zero, "0") \o FromAlt(item), ap, ArgumentWords(item))
      /\ padc = (IF item.minus THEN "-" ELSE " ") /\ width = -1 /\ precision = -1 /\ lflag = 0
      /\ altflag = FALSE
  BY DEF AfterMinus, Stands, FromZero
<1>3. "0" \in Glyphs
  BY GlyphsAre DEF Known, Decimal
<1>4. /\ item.zero => ch = "0" /\ Expects(k, fp + 1, FromAlt(item), ap, ArgumentWords(item))
      /\ ~item.zero => Expects(k, fp, FromAlt(item), ap, ArgumentWords(item))
  BY <1>1, <1>2, <1>3, FlagIs
<1>5. CASE item.zero
  <2>1. pad /\ ch = "0"
    BY <1>1, <1>4, <1>5, Which
  <2>2. /\ fp' = fp + 1 /\ ap' = ap /\ Same(<<todo, fpc>>) /\ padc' = "0"
        /\ UNCHANGED <<width, precision, lflag, altflag>>
    BY <2>1 DEF pad, reswitch, Same
  <2>3. padc' = PadCode(item) /\ Expects(k, fp', FromAlt(item), ap', ArgumentWords(item))
    BY <1>4, <1>5, <2>2 DEF PadCode
  <2>4. AfterZero(k, item)'
    BY <1>1, <1>2, <2>2, <2>3, StandsNext DEF AfterZero
  <2> QED
    BY <2>2, <2>4 DEF Proceeds, Reading
<1>6. CASE ~item.zero
  <2>1. AfterZero(k, item)
    BY <1>2, <1>4, <1>6 DEF AfterZero, Stands, PadCode
  <2> QED
    BY <2>1, FromZeroOn
<1> QED
  BY <1>5, <1>6

\* and from the % on, any of them.
LEMMA BegunOn ==
  ASSUME NEW k, NEW item, Directs(k, item), Begun(k, item)
  PROVE  Proceeds(k, item)
<1>1. /\ FromZero(item) \in Text /\ ArgumentWords(item) \in Argument /\ item.minus \in BOOLEAN
      /\ FormatWritten /\ At("switch") /\ vprintfmt /\ UNCHANGED items
  BY DirectiveParts DEF Directs
<1>2. /\ Expects(k, fp, Flag(item.minus, "-") \o FromZero(item), ap, ArgumentWords(item))
      /\ padc = " " /\ width = -1 /\ precision = -1 /\ lflag = 0 /\ altflag = FALSE
  BY DEF Begun, Stands, FromMinus
<1>3. "-" \in Glyphs
  BY GlyphsAre DEF Known
<1>4. /\ item.minus => ch = "-" /\ Expects(k, fp + 1, FromZero(item), ap, ArgumentWords(item))
      /\ ~item.minus => Expects(k, fp, FromZero(item), ap, ArgumentWords(item))
  BY <1>1, <1>2, <1>3, FlagIs
<1>5. CASE item.minus
  <2>1. pad /\ ch = "-"
    BY <1>1, <1>4, <1>5, Which
  <2>2. /\ fp' = fp + 1 /\ ap' = ap /\ Same(<<todo, fpc>>) /\ padc' = "-"
        /\ UNCHANGED <<width, precision, lflag, altflag>>
    BY <2>1 DEF pad, reswitch, Same
  <2>3. padc' = (IF item.minus THEN "-" ELSE " ")
          /\ Expects(k, fp', FromZero(item), ap', ArgumentWords(item))
    BY <1>4, <1>5, <2>2
  <2>4. AfterMinus(k, item)'
    BY <1>1, <1>2, <2>2, <2>3, StandsNext DEF AfterMinus
  <2> QED
    BY <2>2, <2>4 DEF Proceeds, Reading
<1>6. CASE ~item.minus
  <2>1. AfterMinus(k, item)
    BY <1>2, <1>4, <1>6 DEF AfterMinus, Stands
  <2> QED
    BY <2>1, FromMinusOn
<1> QED
  BY <1>5, <1>6

\* Whatever has been read of a directive, the next step reads on or prints.
LEMMA DirectiveStep ==
  ASSUME NEW k, NEW item, Directs(k, item), Reading(k, item)
  PROVE  Proceeds(k, item)
BY BegunOn, FromMinusOn, FromZeroOn, FromAltOn, FromWidthOn, FromDotOn, FromPrecOn DEF Reading

-----------------------------------------------------------------------------
(* The text that is printed *)

\* Between two items, and in one that is printed as it is spelled.
Between(k) ==
  /\ k \in 1..(Len(items) + 1)
  /\ fp = Len(FormatUpTo(items)[k - 1]) + 1 /\ ap = Len(WordsUpTo(items)[k - 1]) + 1
  /\ text \o todo = DoesUpTo(items)[k - 1]

Inside(k, j) ==
  /\ k \in 1..Len(items) /\ Literal(items[k]) /\ j \in 1..(Len(Spelled(items[k])) - 1)
  /\ fp = Len(FormatUpTo(items)[k - 1]) + j + 1 /\ ap = Len(WordsUpTo(items)[k]) + 1
  /\ text \o todo = DoesUpTo(items)[k - 1] \o SubSeq(Spelled(items[k]), 1, j)

InText == \/ \E k \in 1..(Len(items) + 1) : Between(k)
          \/ \E k \in 1..Len(items) : \E j \in 1..(Len(Spelled(items[k])) - 1) : Inside(k, j)

\* In a directive.
Directing(k, item) ==
  /\ k \in 1..Len(items) /\ item = items[k] /\ item.conv # "text"
  /\ text = DoesUpTo(items)[k - 1] /\ Reading(k, item)

InDirective == \E k \in 1..Len(items) : \E item \in {items[k]} : Directing(k, item)

Tracked ==
  /\ FormatWritten /\ text \in Text /\ todo \in Text
  /\ fpc \in {"text", "switch", "returned", "wild"}
  /\ fpc # "text" => todo = <<>>
  /\ fpc = "text" => InText
  /\ fpc = "switch" => InDirective
  /\ fpc = "returned" => Refused \/ text = DoesUpTo(items)[Len(items)]
  /\ fpc = "wild" => \E k \in 1..Len(items) : Nameless(items[k])

\* The first characters of a sequence.
LEMMA FirstOf ==
  ASSUME NEW s_ \in Text, NEW j \in 0..(Len(s_) - 1)
  PROVE  /\ SubSeq(s_, 1, j) \in Text /\ s_[j + 1] \in Glyphs
         /\ SubSeq(s_, 1, j) \o <<s_[j + 1]>> = SubSeq(s_, 1, j + 1)
         /\ SubSeq(s_, 1, Len(s_)) = s_ /\ SubSeq(s_, 1, 0) = <<>>
<1>1. PICK m \in Nat : m = Len(s_) /\ s_ \in Seq(Glyphs)
  BY DEF Text
<1>2. j + 1 \in 1..m /\ (j + 1) - 1 = j
  BY <1>1
<1>3. SubSeq(s_, 1, j + 1) = SubSeq(s_, 1, (j + 1) - 1) \o <<s_[j + 1]>>
  BY <1>1, <1>2, SubSeqRecursiveSecond
<1>4. SubSeq(s_, 1, m) = s_ /\ SubSeq(s_, 1, 0) = <<>>
  BY <1>1, SubSeqFull, SubSeqEmpty
<1>5. SubSeq(s_, 1, j) \in Seq(Glyphs)
  BY <1>1, <1>2
<1> QED
  BY <1>1, <1>2, <1>3, <1>4, <1>5 DEF Text

\* What is left to print is printed in the end.
LEMMA PrintedOn ==
  ASSUME NEW t_ \in Text, NEW u \in Text, u # <<>>
  PROVE  Append(t_, Head(u)) \o Tail(u) = t_ \o u /\ Append(t_, Head(u)) \in Text /\ Tail(u) \in Text
<1>1. t_ \in Seq(Glyphs) /\ u \in Seq(Glyphs) /\ Head(u) \in Glyphs /\ Tail(u) \in Seq(Glyphs)
  BY DEF Text
<1>2. Append(t_, Head(u)) \in Seq(Glyphs)
  BY <1>1
<1>3. Append(t_, Head(u)) = t_ \o <<Head(u)>> /\ <<Head(u)>> \in Seq(Glyphs)
  BY <1>1
<1>4. <<Head(u)>> \o Tail(u) = u
  BY <1>1
<1>5. (t_ \o <<Head(u)>>) \o Tail(u) = t_ \o (<<Head(u)>> \o Tail(u))
  BY <1>1, <1>3, ConcatAssociative
<1> QED
  BY <1>1, <1>2, <1>3, <1>4, <1>5 DEF Text

Adds(x_, y_, z_) == (x_ \o y_) \o z_ = x_ \o (y_ \o z_)

\* Joining texts is associative.
LEMMA TextAdds ==
  ASSUME NEW x_ \in Text, NEW y_ \in Text, NEW z_ \in Text
  PROVE  Adds(x_, y_, z_)
<1>1. x_ \in Seq(Glyphs) /\ y_ \in Seq(Glyphs) /\ z_ \in Seq(Glyphs)
  BY DEF Text
<1>2. (x_ \o y_) \o z_ = x_ \o (y_ \o z_)
  BY <1>1, ConcatAssociative
<1> QED
  BY <1>2 DEF Adds

\* A character more of it, after what has been printed before.
LEMMA OneMore ==
  ASSUME NEW b_ \in Text, NEW s_ \in Text, NEW j \in 0..(Len(s_) - 1)
  PROVE  (b_ \o SubSeq(s_, 1, j)) \o <<s_[j + 1]>> = b_ \o SubSeq(s_, 1, j + 1)
<1>1. /\ SubSeq(s_, 1, j) \in Text /\ s_[j + 1] \in Glyphs
      /\ SubSeq(s_, 1, j) \o <<s_[j + 1]>> = SubSeq(s_, 1, j + 1)
  BY FirstOf
<1>2. <<s_[j + 1]>> \in Text
  BY <1>1, TextParts
<1>3. Adds(b_, SubSeq(s_, 1, j), <<s_[j + 1]>>)
  BY <1>1, <1>2, TextAdds
<1> QED
  BY <1>1, <1>3, Zenon DEF Adds

\* The character of an item that is read next.
LEMMA CharOf ==
  ASSUME FormatWritten, NEW k \in 1..Len(items), NEW item, item = items[k],
    NEW j \in 0..(Len(Spelled(item)) - 1),
         fp = Len(FormatUpTo(items)[k - 1]) + j + 1
  PROVE  ch = Spelled(item)[j + 1]
<1>1. Lies(k) /\ Proper(item)
  BY Laid
<1>2. PICK s_ \in Text, m \in Nat : s_ = Spelled(item) /\ m = Len(s_)
  BY <1>1, SpelledText DEF Text
<1>3. PICK f, e \in Nat : f = Len(FormatUpTo(items)[k - 1]) /\ e = Len(fmt) /\ f + m <= e
        /\ Ahead(fmt, f + 1, s_)
  BY <1>1, <1>2 DEF Lies
<1>4. PICK p_ \in Nat \ {0} : p_ = f + 1
  OBVIOUS
<1>5. p_ + m <= e + 1
  BY <1>3, <1>4
<1>6. Len(s_) = m /\ Ahead(fmt, p_, s_) /\ p_ + m <= Len(fmt) + 1 /\ Len(fmt) \in Nat
  BY <1>2, <1>3, <1>4, <1>5
<1>7. \A i \in 1..m : Char(p_ + i - 1) = s_[i]
  BY <1>6, CharsAhead
<1>8. PICK i \in 1..m : i = j + 1
  BY <1>2
<1>9. p_ + i - 1 = fp
  <2>1. fp = f + j + 1
    BY <1>3
  <2> QED
    BY <1>4, <1>8, <2>1
<1> QED
  BY <1>2, <1>7, <1>8, <1>9 DEF ch

LEMMA OneOn ==
  ASSUME NEW many \in Nat, NEW i \in 1..many
  PROVE  i + 1 \in 1..(many + 1) /\ (i + 1) - 1 = i
OBVIOUS

\* A character of an item that is printed as it is spelled.
LEMMA PlainOn ==
  ASSUME FormatWritten, UNCHANGED items, At("text"), vprintfmt,
         NEW k \in 1..Len(items), NEW item, item = items[k], Literal(item),
         NEW j \in 0..(Len(Spelled(item)) - 1), j = 0 => item.conv = "text",
         fp = Len(FormatUpTo(items)[k - 1]) + j + 1, ap = Len(WordsUpTo(items)[k]) + 1,
         text \in Text, text = DoesUpTo(items)[k - 1] \o SubSeq(Spelled(item), 1, j)
  PROVE  (fpc = "text" /\ InText)' /\ Same(<<ap, directive>>) /\ todo' \in Text
<1>1. Lies(k) /\ Proper(item)
  BY Laid
<1>2. PICK s_ \in Text, m \in Nat : s_ = Spelled(item) /\ m = Len(s_)
  BY <1>1, SpelledText DEF Text
<1>3. PICK f, e \in Nat : f = Len(FormatUpTo(items)[k - 1]) /\ e = Len(fmt) /\ f + m <= e
                          /\ Len(FormatUpTo(items)[k]) = f + m /\ Ahead(fmt, f + 1, s_)
  BY <1>1, <1>2 DEF Lies
<1>4. j + 1 \in 1..m /\ (f + 1) + (j + 1) - 1 = fp
  BY <1>2, <1>3
<1>5. ch = s_[j + 1]
  BY <1>2, CharOf
<1>6. s_[j + 1] \notin {"%", "NUL"}
  <2>1. CASE j = 0
    <3>1. s_[1] \notin {"%", "NUL"}
      BY <1>1, <1>2, <2>1, LiteralPlain
    <3> QED
      BY <2>1, <3>1
  <2>2. CASE j # 0
    <3>1. j + 1 \in 2..m
      BY <1>4, <2>2
    <3>2. \A i \in 2..m : s_[i] \notin {"%", "NUL"}
      BY <1>1, <1>2, LiteralPlain
    <3> QED
      BY <3>1, <3>2
  <2> QED
    BY <2>1, <2>2
<1>7. plain
  BY <1>5, <1>6 DEF vprintfmt, plain, percent, pad, digits, star, dot, sharp, long, char, error, string,
     numeric,
                    escaped, unknown, return, Case, At
<1>8. fpc' = "text" /\ todo' = <<s_[j + 1]>> /\ fp' = fp + 1 /\ Same(<<ap, directive>>) /\ text' = text
      /\ ap' = ap /\ items' = items
  BY <1>5, <1>7 DEF plain, Same, At
<1>9. /\ SubSeq(s_, 1, j) \in Text /\ s_[j + 1] \in Glyphs
      /\ SubSeq(s_, 1, j) \o <<s_[j + 1]>> = SubSeq(s_, 1, j + 1) /\ SubSeq(s_, 1, m) = s_
  <2>1. s_ \in Text /\ m = Len(s_) /\ j \in 0..(Len(s_) - 1)
    BY <1>2
  <2> QED
    BY ONLY <2>1, FirstOf, Zenon
<1>10. PICK b_ \in Text : b_ = DoesUpTo(items)[k - 1] /\ DoesUpTo(items)[k] = b_ \o Does(item)
  BY <1>1 DEF Lies
<1>11. todo' \in Text
  BY <1>8, <1>9, TextParts
<1>12. text' \o todo' = b_ \o SubSeq(s_, 1, j + 1)
  <2>1. (b_ \o SubSeq(s_, 1, j)) \o <<s_[j + 1]>> = b_ \o SubSeq(s_, 1, j + 1)
    BY <1>2, OneMore
  <2> QED
    BY <1>2, <1>8, <1>10, <2>1
<1>13. CASE j + 1 = m
  <2>1. Does(item) = s_
    <3>1. CASE item.conv = "text"
      BY <1>2, <3>1, DoesIs DEF Spelled
    <3>2. CASE item.conv # "text"
      <4>1. item.conv \notin Known \cup {"text"}
        BY <3>2 DEF Literal, Unknown
      <4> QED
        BY <1>2, <4>1, DoesIs
    <3> QED
      BY <3>1, <3>2
  <2>2. text' \o todo' = DoesUpTo(items)[k]
    BY <1>9, <1>10, <1>12, <1>13, <2>1
  <2>3. PICK q \in 1..(Len(items) + 1) : q = k + 1 /\ q - 1 = k
    <3>1. Len(items) \in Nat
      BY DEF FormatWritten
    <3>2. k + 1 \in 1..(Len(items) + 1) /\ (k + 1) - 1 = k
      BY <3>1, OneOn, Zenon
    <3> QED
      BY <3>2
  <2>4. fp' = Len(FormatUpTo(items)[k]) + 1 /\ ap' = Len(WordsUpTo(items)[k]) + 1
    <3>1. fp = f + j + 1 /\ ap = Len(WordsUpTo(items)[k]) + 1 /\ f + m = Len(FormatUpTo(items)[k])
      BY <1>3
    <3>2. f + j + 1 = f + m
      BY <1>13
    <3> QED
      BY <1>8, <3>1, <3>2
  <2>5. Between(q)'
    BY <1>8, <2>2, <2>3, <2>4 DEF Between
  <2> QED
    BY <1>8, <1>11, <2>5 DEF InText
<1>14. CASE j + 1 # m
  <2>1. PICK i \in 1..(m - 1) : i = j + 1
    <3>1. j + 1 \in 1..(m - 1)
      BY <1>4, <1>14
    <3> QED
      BY <3>1
  <2>2. fp' = Len(FormatUpTo(items)[k - 1]) + i + 1
    <3>1. fp = f + j + 1 /\ f = Len(FormatUpTo(items)[k - 1])
      BY <1>3
    <3>2. j + 1 = i
      BY <2>1
    <3>3. f + j + 1 = f + i
      BY <3>2
    <3> QED
      BY <1>8, <3>1, <3>3
  <2>3. Inside(k, i)'
    BY <1>2, <1>8, <1>10, <1>12, <2>1, <2>2 DEF Inside
  <2>4. k \in 1..Len(items') /\ i \in 1..(Len(Spelled(items'[k])) - 1)
    BY <1>2, <1>8
  <2> QED
    BY <1>8, <1>11, <2>3, <2>4 DEF InText
<1> QED
  BY <1>13, <1>14

\* A step that leaves the format alone leaves it written.
LEMMA StillWritten ==
  ASSUME FormatWritten, UNCHANGED <<items, fmt, args>>
  PROVE  FormatWritten'
BY DEF FormatWritten

\* Places that follow one another.
LEMMA NextPlace ==
  \A f, e \in Nat : (f + 1) + e = (f + e) + 1 /\ f + 1 \in Nat \ {0} /\ f + 1 \in Nat
OBVIOUS

\* A directive begins.
LEMMA PercentOn ==
  ASSUME FormatWritten, UNCHANGED items, At("text"), vprintfmt,
         NEW k \in 1..Len(items), NEW item, item = items[k], item.conv # "text",
         fp = Len(FormatUpTo(items)[k - 1]) + 1, ap = Len(WordsUpTo(items)[k - 1]) + 1
  PROVE  fpc' = "switch" /\ Same(<<ap, todo>>) /\ Begun(k, item)'
<1>1. Lies(k) /\ Proper(item) /\ ProperDirective(item)
  BY Laid DEF Proper
<1>2. FromMinus(item) \in Text /\ ArgumentWords(item) \in Argument /\ "%" \in Glyphs
  BY <1>1, DirectiveParts, GlyphsAre DEF Known
<1>3. Spelled(item) = <<"%">> \o FromMinus(item)
  BY DEF Spelled
<1>4. Expects(k, fp, <<"%">> \o FromMinus(item), ap, ArgumentWords(item))
  <2>1. PICK f, g, e \in Nat : f = Len(FormatUpTo(items)[k - 1]) /\ g = Len(FormatUpTo(items)[k])
          /\ e = Len(Spelled(item)) /\ g = f + e
    BY <1>1, SpelledText DEF Lies
  <2>2. PICK v, w, u \in Nat : v = Len(WordsUpTo(items)[k - 1]) /\ w = Len(WordsUpTo(items)[k])
          /\ u = Len(ArgumentWords(item)) /\ w = v + u
    <3>1. Len(ArgumentWords(item)) \in Nat
      BY <1>2 DEF Argument
    <3> QED
      BY <1>1, <3>1 DEF Lies
  <2>3. fp = f + 1 /\ ap = v + 1 /\ Ahead(fmt, fp, Spelled(item)) /\ Ahead(args, ap, ArgumentWords(item))
    BY <1>1, <2>1, <2>2 DEF Lies
  <2>4. fp \in Nat \ {0} /\ ap \in Nat /\ fp + e = g + 1 /\ ap + u = w + 1
    <3>1. fp = f + 1 /\ ap = v + 1 /\ g = f + e /\ w = v + u
      BY <2>1, <2>2, <2>3
    <3>2. (f + 1) + e = (f + e) + 1 /\ (v + 1) + u = (v + u) + 1 /\ f + 1 \in Nat \ {0} /\ v + 1 \in Nat
      BY NextPlace, Zenon
    <3> QED
      BY <3>1, <3>2
  <2> QED
    BY <1>3, <2>1, <2>2, <2>3, <2>4 DEF Expects
<1>5. ch = "%" /\ Expects(k, fp + 1, FromMinus(item), ap, ArgumentWords(item))
  BY <1>2, <1>4, ConsumeOne DEF ch
<1>6. percent
  BY <1>5 DEF vprintfmt, plain, percent, pad, digits, star, dot, sharp, long, char, error, string, numeric,
              escaped, unknown, return, Case, At
<1>7. /\ padc' = " " /\ width' = -1 /\ precision' = -1 /\ lflag' = 0 /\ altflag' = FALSE
      /\ fpc' = "switch" /\ fp' = fp + 1 /\ ap' = ap /\ Same(<<ap, todo>>)
      /\ items' = items /\ fmt' = fmt /\ args' = args
  BY <1>6 DEF percent, Same
<1>8. Expects(k, fp, FromMinus(item), ap, ArgumentWords(item))'
  <2>1. Expects(k, fp', FromMinus(item), ap', ArgumentWords(item))
    BY <1>5, <1>7
  <2> QED
    BY <1>7, <2>1 DEF Expects, Ahead
<1> QED
  BY <1>7, <1>8 DEF Begun, Stands

\* The format ends.
LEMMA ReturnOn ==
  ASSUME At("text"), vprintfmt, fp = Len(fmt) + 1, Len(fmt) \in Nat
  PROVE  return
<1>1. ch = "NUL"
  BY DEF ch, Char
<1> QED
  BY <1>1 DEF vprintfmt, plain, percent, pad, digits, star, dot, sharp, long, char, error, string, numeric,
              escaped, unknown, return, Case, At, Decimal

\* Between two items.
LEMMA BetweenOn ==
  ASSUME FormatWritten, UNCHANGED items, At("text"), vprintfmt, text \in Text,
         NEW k \in 1..(Len(items) + 1), Between(k)
  PROVE  /\ UNCHANGED <<fmt, args, text>> /\ todo' \in Text
         /\ \/ (fpc = "text" /\ InText)'
            \/ (fpc = "switch" /\ InDirective)' /\ todo' = <<>>
            \/ fpc' = "returned" /\ todo' = <<>> /\ text = DoesUpTo(items)[Len(items)]
<1>1. todo = <<>> /\ Len(items) \in Nat
  BY DEF At, FormatWritten
<1>2. fp = Len(FormatUpTo(items)[k - 1]) + 1 /\ ap = Len(WordsUpTo(items)[k - 1]) + 1
        /\ text = DoesUpTo(items)[k - 1]
  <2>1. text \o <<>> = text
    BY TextParts
  <2> QED
    BY <1>1, <2>1 DEF Between
<1>3. CASE k = Len(items) + 1
  <2>1. k - 1 = Len(items)
    BY <1>1, <1>3
  <2>2. fmt = FormatUpTo(items)[Len(items)] /\ Len(fmt) \in Nat
    BY FormatEnds DEF FormatWritten, Text
  <2>3. return
    BY <1>2, <2>1, <2>2, ReturnOn
  <2>4. fpc' = "returned" /\ todo' = todo /\ UNCHANGED <<fmt, args, text>>
    BY <2>3 DEF return
  <2>5. <<>> \in Text
    BY DEF Text
  <2> QED
    BY <1>1, <1>2, <2>1, <2>4, <2>5
<1>4. CASE k # Len(items) + 1
  <2>1. k \in 1..Len(items)
    BY <1>1, <1>4
  <2>2. PICK item : item = items[k]
    OBVIOUS
  <2>3. Lies(k) /\ Proper(item)
    BY <2>1, <2>2, Laid
  <2>4. CASE item.conv = "text"
    <3>1. PICK s_ \in Text : s_ = Spelled(item) /\ Len(s_) \in Nat \ {0} /\ 0 \in 0..(Len(s_) - 1)
      BY <2>3, SpelledText
    <3>2. SubSeq(s_, 1, 0) = <<>> /\ DoesUpTo(items)[k - 1] \o <<>> = DoesUpTo(items)[k - 1]
      <4>1. DoesUpTo(items)[k - 1] \in Text
        BY <2>3 DEF Lies
      <4> QED
        BY <3>1, <4>1, FirstOf, TextParts
    <3>3. Len(WordsUpTo(items)[k]) = Len(WordsUpTo(items)[k - 1])
      <4>1. ArgumentWords(item) = <<>> /\ Len(<<>>) = 0
        BY <2>4 DEF ArgumentWords
      <4> QED
        BY <2>2, <2>3, <4>1 DEF Lies
    <3>4. /\ fp = Len(FormatUpTo(items)[k - 1]) + 0 + 1 /\ ap = Len(WordsUpTo(items)[k]) + 1
          /\ text = DoesUpTo(items)[k - 1] \o SubSeq(Spelled(item), 1, 0)
      <4>1. Len(FormatUpTo(items)[k - 1]) \in Nat
        BY <2>3 DEF Lies
      <4>2. PICK f \in Nat : f = Len(FormatUpTo(items)[k - 1]) /\ f + 0 + 1 = f + 1
        BY <4>1
      <4>3. fp = Len(FormatUpTo(items)[k - 1]) + 0 + 1
        BY <1>2, <4>2
      <4> QED
        BY <1>2, <3>1, <3>2, <3>3, <4>3
    <3>5. (fpc = "text" /\ InText)' /\ Same(<<ap, directive>>) /\ todo' \in Text
      <4>1. Literal(item)
        BY <2>4 DEF Literal
      <4>2. PICK j \in 0..(Len(Spelled(item)) - 1) : j = 0
        BY <3>1
      <4>3. /\ fp = Len(FormatUpTo(items)[k - 1]) + j + 1
            /\ text = DoesUpTo(items)[k - 1] \o SubSeq(Spelled(item), 1, j)
            /\ (j = 0 => item.conv = "text")
        BY <2>4, <3>4, <4>2
      <4> QED
        BY <2>1, <2>2, <3>4, <4>1, <4>3, PlainOn
    <3> QED
      BY <3>5 DEF Same
  <2>5. CASE item.conv # "text"
    <3>1. fpc' = "switch" /\ Same(<<ap, todo>>) /\ Begun(k, item)'
      BY <1>2, <2>1, <2>2, <2>5, PercentOn
    <3>2. todo' = <<>> /\ todo' \in Text /\ UNCHANGED <<fmt, args, text>>
      <4>1. <<>> \in Text
        BY DEF Text
      <4> QED
        BY <1>1, <3>1, <4>1 DEF Same
    <3>3. Directing(k, item)'
      BY <1>2, <2>1, <2>2, <2>5, <3>1, <3>2 DEF Directing, Reading
    <3>4. InDirective'
      BY <2>1, <2>2, <3>3 DEF InDirective
    <3> QED
      BY <3>1, <3>2, <3>4
  <2> QED
    BY <2>4, <2>5
<1> QED
  BY <1>3, <1>4

NotEmpty(t_) == t_ \in Seq(Glyphs) /\ Len(t_) \in Nat \ {0}

\* What is not empty stays so when something is put before it.
LEMMA Lengthens ==
  ASSUME NEW s_ \in Seq(Glyphs), NEW t_, NotEmpty(t_)
  PROVE  NotEmpty(s_ \o t_)
<1>1. t_ \in Seq(Glyphs) /\ Len(t_) \in Nat \ {0} /\ Len(s_) \in Nat
  BY DEF NotEmpty
<1>2. s_ \o t_ \in Seq(Glyphs) /\ Len(s_ \o t_) = Len(s_) + Len(t_)
  BY <1>1
<1> QED
  BY <1>1, <1>2 DEF NotEmpty

\* A directive that is none is read again, as text, from after its %.
LEMMA UnknownOn ==
  ASSUME FormatWritten, UNCHANGED items, unknown, NEW k \in 1..Len(items), NEW item, item = items[k],
         item.conv # "text", Unknown(item.conv), text = DoesUpTo(items)[k - 1],
         fp = Len(FormatUpTo(items)[k]), ap = Len(WordsUpTo(items)[k]) + 1
  PROVE  (fpc = "text" /\ InText)' /\ UNCHANGED <<fmt, args, text>> /\ todo' \in Text
<1>1. Lies(k) /\ Proper(item) /\ Literal(item)
  BY Laid DEF Literal
<1>2. PICK x \in Text : x = FromMinus(item) /\ Len(x) \in Nat \ {0}
  <2>1. SpelledIn(item, Glyphs) /\ item.conv \in Glyphs /\ item.long \in Nat
    BY <1>1, SpelledText, ConvGlyph DEF Proper, ProperDirective
  <2>2. /\ FromMinus(item) \in Seq(Glyphs) /\ FromZero(item) \in Seq(Glyphs)
        /\ FromAlt(item) \in Seq(Glyphs)
        /\ FromWidth(item) \in Seq(Glyphs) /\ FromDot(item) \in Seq(Glyphs)
        /\ FromPrec(item) \in Seq(Glyphs)
        /\ FromLong(item, item.long) \in Seq(Glyphs) /\ Number(item.width) \in Seq(Glyphs)
        /\ Number(item.prec) \in Seq(Glyphs)
        /\ Flag(item.minus, "-") \in Seq(Glyphs) /\ Flag(item.zero, "0") \in Seq(Glyphs)
        /\ Flag(item.alt, "#") \in Seq(Glyphs) /\ Flag(item.prec.given, ".") \in Seq(Glyphs)
    <3>1. /\ item.minus \in BOOLEAN /\ item.zero \in BOOLEAN /\ item.alt \in BOOLEAN
          /\ item.prec.given \in BOOLEAN
      BY <1>1 DEF Proper, ProperDirective, ProperNumber
    <3>2. "-" \in Glyphs /\ "0" \in Glyphs /\ "#" \in Glyphs /\ "." \in Glyphs
      BY GlyphsAre DEF Known, Decimal
    <3> QED
      BY <2>1, <3>1, <3>2 DEF SpelledIn
  <2>3. NotEmpty(FromLong(item, item.long))
    <3>1. Len(FromLong(item, item.long)) = item.long + 1
      BY <2>1, LongIs
    <3>2. item.long + 1 \in Nat \ {0}
      BY <2>1
    <3> QED
      BY <2>2, <3>1, <3>2 DEF NotEmpty
  <2>4. NotEmpty(FromPrec(item))
    BY <2>2, <2>3, Lengthens, Zenon DEF FromPrec
  <2>5. NotEmpty(FromDot(item))
    BY <2>2, <2>4, Lengthens, Zenon DEF FromDot
  <2>6. NotEmpty(FromWidth(item))
    BY <2>2, <2>5, Lengthens, Zenon DEF FromWidth
  <2>7. NotEmpty(FromAlt(item))
    BY <2>2, <2>6, Lengthens, Zenon DEF FromAlt
  <2>8. NotEmpty(FromZero(item))
    BY <2>2, <2>7, Lengthens, Zenon DEF FromZero
  <2>9. NotEmpty(FromMinus(item))
    BY <2>2, <2>8, Lengthens, Zenon DEF FromMinus
  <2> QED
    BY <2>9 DEF NotEmpty, Text
<1>3. PICK s_ \in Text, m \in Nat : s_ = Spelled(item) /\ m = Len(s_)
  BY <1>1, SpelledText
<1>4. m >= 2 /\ s_[1] = "%" /\ \A i \in 2..m : s_[i] # "%"
  <2>1. Spelled(item) = <<"%">> \o x /\ Len(<<"%">> \o x) = 1 + Len(x)
    <3>1. x \in Seq(Glyphs) /\ "%" \in Glyphs
      BY GlyphsAre DEF Known, Text
    <3> QED
      BY <1>2, <3>1 DEF Spelled
  <2>2. m >= 2
    <3>1. PICK i \in Nat \ {0} : i = Len(x)
      BY <1>2
    <3>2. m = 1 + i
      BY <1>3, <2>1, <3>1
    <3> QED
      BY <3>2
  <2>3. s_[1] = "%"
    BY <1>1, <1>3, LiteralPlain
  <2>4. \A i \in 2..m : s_[i] # "%"
    BY <1>1, <1>3, LiteralPlain
  <2> QED
    BY <2>2, <2>3, <2>4, Zenon
<1>5. PICK f \in Nat : /\ f = Len(FormatUpTo(items)[k - 1]) /\ fp = f + m
                      /\ \A i \in 1..m : fmt[f + 1 + i - 1] = s_[i]
  <2>1. PICK f \in Nat : f = Len(FormatUpTo(items)[k - 1])
    BY <1>1 DEF Lies
  <2>2. fp = f + m /\ Ahead(fmt, f + 1, s_)
    BY <1>1, <1>3, <2>1 DEF Lies
  <2>3. \A i \in 1..m : fmt[f + 1 + i - 1] = s_[i]
    BY <1>3, <2>2 DEF Ahead
  <2> QED
    BY <2>1, <2>2, <2>3, Zenon
<1>6. fmt[f + 1] = "%" /\ \A i \in (f + 2)..(fp - 1) : fmt[i] # "%"
  <2>1. fmt[f + 1] = "%"
    <3>1. 1 \in 1..m /\ f + 1 + 1 - 1 = f + 1
      BY <1>3, <1>4
    <3>2. fmt[f + 1 + 1 - 1] = s_[1]
      BY <1>5, <3>1
    <3> QED
      BY <1>3, <1>4, <3>1, <3>2
  <2>2. ASSUME NEW i \in (f + 2)..(fp - 1) PROVE fmt[i] # "%"
    <3>1. PICK q \in 2..m : q = i - f
      <4>1. i - f \in 2..m
        BY <1>5, <2>2
      <4> QED
        BY <4>1
    <3>2. q \in 1..m /\ f + 1 + q - 1 = i
      BY <3>1
    <3>3. fmt[f + 1 + q - 1] = s_[q]
      BY <1>5, <3>2
    <3> QED
      BY <1>3, <1>4, <3>2, <3>3
  <2> QED
    BY <2>1, <2>2
<1>7. PICK e \in 1..(fp - 1) : fmt[e] = "%" /\ (\A j \in (e + 1)..(fp - 1) : fmt[j] # "%") /\ fp' = e + 1
  BY DEF unknown
<1>8. e = f + 1
  <2>1. fp \in Nat /\ f + 1 <= fp - 1
    <3>1. fp = f + m /\ m >= 2
      BY <1>3, <1>4, <1>5
    <3> QED
      BY <3>1
  <2>2. ~(e < f + 1)
    <3>1. e < f + 1 => f + 1 \in (e + 1)..(fp - 1)
      BY <2>1
    <3> QED
      BY <1>6, <1>7, <3>1
  <2>3. ~(e > f + 1)
    <3>1. e > f + 1 => e \in (f + 2)..(fp - 1)
      BY <2>1
    <3> QED
      BY <1>6, <1>7, <3>1
  <2> QED
    BY <2>1, <2>2, <2>3
<1>9. todo' = <<"%">> /\ fpc' = "text" /\ ap' = ap /\ UNCHANGED <<fmt, args, text>> /\ items' = items
  BY DEF unknown, Same
<1>10. todo' \in Text
  <2>1. "%" \in Glyphs
    BY GlyphsAre DEF Known
  <2> QED
    BY <1>9, <2>1, TextParts
<1>11. text' \o todo' = DoesUpTo(items)[k - 1] \o SubSeq(s_, 1, 1)
  <2>1. SubSeq(s_, 1, 1) = <<s_[1]>>
    <3>1. PICK j \in 0..(Len(s_) - 1) : j = 0 /\ j + 1 = 1
      BY <1>3, <1>4
    <3>2. SubSeq(s_, 1, j) \o <<s_[j + 1]>> = SubSeq(s_, 1, j + 1) /\ SubSeq(s_, 1, 0) = <<>>
            /\ s_[j + 1] \in Glyphs
      BY FirstOf
    <3>3. <<>> \o <<s_[1]>> = <<s_[1]>>
      BY <3>1, <3>2, TextParts
    <3> QED
      BY <3>1, <3>2, <3>3
  <2> QED
    BY <1>3, <1>4, <1>9, <2>1
<1>12. PICK i \in 1..(m - 1) : i = 1
  BY <1>3, <1>4
<1>13. Inside(k, i)'
  <2>1. fp' = Len(FormatUpTo(items)[k - 1]) + i + 1
    BY <1>5, <1>7, <1>8, <1>12
  <2> QED
    BY <1>1, <1>3, <1>4, <1>9, <1>11, <1>12, <2>1 DEF Inside
<1>14. k \in 1..Len(items') /\ i \in 1..(Len(Spelled(items'[k])) - 1)
  BY <1>3, <1>4, <1>9
<1> QED
  BY <1>9, <1>10, <1>13, <1>14 DEF InText

\* A step outside a directive keeps to what vprintfmt does,
LEMMA TextOn ==
  ASSUME Tracked, UNCHANGED items, At("text"), vprintfmt
  PROVE  Tracked'
<1>1. FormatWritten /\ text \in Text /\ todo = <<>> /\ InText /\ Len(items) \in Nat
  BY DEF Tracked, At, FormatWritten
<1>2. /\ UNCHANGED <<fmt, args, text>> /\ todo' \in Text
      /\ \/ (fpc = "text" /\ InText)'
         \/ (fpc = "switch" /\ InDirective)' /\ todo' = <<>>
         \/ fpc' = "returned" /\ todo' = <<>> /\ text = DoesUpTo(items)[Len(items)]
  <2>1. CASE \E k \in 1..(Len(items) + 1) : Between(k)
    BY <1>1, <2>1, BetweenOn
  <2>2. CASE \E k \in 1..Len(items) : \E j \in 1..(Len(Spelled(items[k])) - 1) : Inside(k, j)
    <3>1. PICK k \in 1..Len(items) : \E j \in 1..(Len(Spelled(items[k])) - 1) : Inside(k, j)
      BY <2>2
    <3>2. PICK j \in 1..(Len(Spelled(items[k])) - 1) : Inside(k, j)
      BY <3>1
    <3>3. PICK item : item = items[k]
      OBVIOUS
    <3>4. DoesUpTo(items)[k - 1] \o SubSeq(Spelled(item), 1, j) = text /\ Len(Spelled(item)) \in Nat
      <4>1. text \o <<>> = text
        BY <1>1, TextParts
      <4>2. Proper(item)
        BY <1>1, <3>3, Laid
      <4> QED
        BY <1>1, <3>2, <3>3, <4>1, <4>2, SpelledText DEF Inside
    <3>5. PICK i \in 0..(Len(Spelled(item)) - 1) : i = j /\ i # 0
      BY <3>3, <3>4
    <3>6. Literal(item) /\ fp = Len(FormatUpTo(items)[k - 1]) + i + 1 /\ ap = Len(WordsUpTo(items)[k]) + 1
          /\ text = DoesUpTo(items)[k - 1] \o SubSeq(Spelled(item), 1, i) /\ (i = 0 => item.conv = "text")
      BY <3>2, <3>3, <3>4, <3>5 DEF Inside
    <3>7. (fpc = "text" /\ InText)' /\ Same(<<ap, directive>>) /\ todo' \in Text
      BY <1>1, <3>3, <3>6, PlainOn
    <3> QED
      BY <3>7 DEF Same
  <2> QED
    BY <1>1, <2>1, <2>2 DEF InText
<1>3. FormatWritten' /\ text' \in Text
  BY <1>1, <1>2, StillWritten
<1>4. items' = items /\ text' = text
  BY <1>2
<1>5. CASE (fpc = "text" /\ InText)'
  BY <1>2, <1>3, <1>5 DEF Tracked
<1>6. CASE (fpc = "switch" /\ InDirective)' /\ todo' = <<>>
  BY <1>2, <1>3, <1>6 DEF Tracked
<1>7. CASE fpc' = "returned" /\ todo' = <<>> /\ text = DoesUpTo(items)[Len(items)]
  BY <1>2, <1>3, <1>4, <1>7 DEF Tracked
<1> QED
  BY <1>2, <1>5, <1>6, <1>7

\* and so does one inside,
LEMMA SwitchOn ==
  ASSUME Tracked, UNCHANGED items, At("switch"), vprintfmt
  PROVE  Tracked'
<1>1. FormatWritten /\ text \in Text /\ todo = <<>> /\ InDirective /\ Len(items) \in Nat /\ items' = items
  BY DEF Tracked, At, FormatWritten
<1>2. PICK k \in 1..Len(items) : \E item \in {items[k]} : Directing(k, item)
  BY <1>1 DEF InDirective
<1>3. PICK item : Directing(k, item)
  BY <1>2
<1>4. item = items[k] /\ item.conv # "text" /\ text = DoesUpTo(items)[k - 1] /\ Reading(k, item)
  BY <1>3 DEF Directing
<1>5. Lies(k) /\ Proper(item) /\ ProperDirective(item)
  BY <1>1, <1>4, Laid DEF Proper
<1>6. Proceeds(k, item)
  <2>1. Directs(k, item)
    BY <1>1, <1>4, <1>5 DEF Directs
  <2> QED
    BY <1>4, <2>1, DirectiveStep
<1>7. ASSUME UNCHANGED <<fmt, args, text>> PROVE FormatWritten' /\ text' \in Text
  BY <1>1, <1>7, StillWritten
<1>8. CASE Same(<<todo, fpc>>) /\ Reading(k, item)'
  <2>1. UNCHANGED <<fmt, args, text, todo, fpc>>
    BY <1>8 DEF Same
  <2>2. Directing(k, item)'
    BY <1>1, <1>4, <1>8, <2>1 DEF Directing
  <2>3. InDirective'
    BY <1>1, <1>4, <2>2 DEF InDirective
  <2>4. fpc' = "switch" /\ todo' = <<>> /\ todo' \in Text
    <3>1. <<>> \in Text
      BY DEF Text
    <3> QED
      BY <1>1, <2>1, <3>1 DEF At
  <2> QED
    BY <1>7, <2>1, <2>3, <2>4 DEF Tracked
<1>9. CASE Closes(k, item)
  <2>1. fp = Len(FormatUpTo(items)[k]) /\ ap + Len(item.words) = Len(WordsUpTo(items)[k]) + 1
    BY <1>9 DEF Closes
  <2>2. CASE Prints(Does(item), Len(item.words)) /\ Does(item) \in Text
    <3>1. /\ todo' = Does(item) /\ ap' = ap + Len(item.words) /\ fp' = fp + 1 /\ fpc' = "text"
          /\ UNCHANGED <<fmt, args, text>>
      BY <2>2 DEF Prints, Same
    <3>2. text' \o todo' = DoesUpTo(items)[k]
      BY <1>4, <1>5, <3>1 DEF Lies
    <3>3. PICK q \in 1..(Len(items) + 1) : q = k + 1 /\ q - 1 = k
      <4>1. k + 1 \in 1..(Len(items) + 1) /\ (k + 1) - 1 = k
        BY <1>1
      <4> QED
        BY <4>1
    <3>4. fp' = Len(FormatUpTo(items)[k]) + 1 /\ ap' = Len(WordsUpTo(items)[k]) + 1
      BY <2>1, <3>1
    <3>5. Between(q)'
      BY <1>1, <3>2, <3>3, <3>4 DEF Between
    <3>6. InText'
      BY <1>1, <3>3, <3>5 DEF InText
    <3> QED
      BY <1>7, <2>2, <3>1, <3>6 DEF Tracked
  <2>3. CASE fpc' = "wild" /\ Same(<<fp, ap, directive, todo>>) /\ Nameless(item)
    <3>1. UNCHANGED <<fmt, args, text, todo>>
      BY <2>3 DEF Same
    <3>2. todo' = <<>> /\ todo' \in Text
      <4>1. <<>> \in Text
        BY DEF Text
      <4> QED
        BY <1>1, <3>1, <4>1
    <3>3. k \in 1..Len(items') /\ Nameless(items'[k])
      BY <1>1, <1>4, <2>3
    <3> QED
      BY <1>7, <2>3, <3>1, <3>2, <3>3 DEF Tracked
  <2>4. CASE Unknown(item.conv) /\ item.words = <<>> /\ unknown
    <3>1. ap = Len(WordsUpTo(items)[k]) + 1
      <4>1. Len(item.words) = 0
        BY <2>4
      <4>2. ap \in Nat
        BY <1>4 DEF Reading, Begun, AfterMinus, AfterZero, AfterAlt, AfterWidth, AfterDot, AfterPrec,
           Stands, Expects
      <4> QED
        BY <2>1, <4>1, <4>2
    <3>2. (fpc = "text" /\ InText)' /\ UNCHANGED <<fmt, args, text>> /\ todo' \in Text
      BY <1>1, <1>4, <2>1, <2>4, <3>1, UnknownOn
    <3> QED
      BY <1>7, <3>2 DEF Tracked
  <2> QED
    BY <1>9, <2>2, <2>3, <2>4 DEF Closes, Outcome
<1> QED
  BY <1>6, <1>8, <1>9 DEF Proceeds

\* putch is called with the next character.
LEMMA DrainOn ==
  ASSUME Tracked, UNCHANGED items, Passed
  PROVE  Tracked'
<1>1. /\ todo # <<>> /\ todo' = Tail(todo) /\ text' = Append(text, Head(todo)) /\ items' = items
      /\ fmt' = fmt /\ args' = args /\ fp' = fp /\ ap' = ap /\ fpc' = fpc
  BY DEF Passed
<1>2. FormatWritten /\ text \in Text /\ todo \in Text /\ fpc = "text" /\ InText
  BY <1>1 DEF Tracked
<1>3. text' \o todo' = text \o todo /\ text' \in Text /\ todo' \in Text
  BY <1>1, <1>2, PrintedOn
<1>4. ASSUME NEW k \in 1..(Len(items) + 1), Between(k) PROVE Between(k)'
  <2>1. text' \o todo' = DoesUpTo(items)[k - 1]
    BY <1>3, <1>4 DEF Between
  <2> QED
    BY <1>1, <1>4, <2>1 DEF Between
<1>5. ASSUME NEW k \in 1..Len(items), NEW j, Inside(k, j) PROVE Inside(k, j)'
  <2>1. text' \o todo' = DoesUpTo(items)[k - 1] \o SubSeq(Spelled(items[k]), 1, j)
    BY <1>3, <1>5 DEF Inside
  <2> QED
    BY <1>1, <1>5, <2>1 DEF Inside
<1>6. InText'
  <2>1. CASE \E k \in 1..(Len(items) + 1) : Between(k)
    BY <1>1, <1>4, <2>1 DEF InText
  <2>2. CASE \E k \in 1..Len(items) : \E j \in 1..(Len(Spelled(items[k])) - 1) : Inside(k, j)
    <3>1. PICK k \in 1..Len(items) : \E j \in 1..(Len(Spelled(items[k])) - 1) : Inside(k, j)
      BY <2>2
    <3>2. PICK j \in 1..(Len(Spelled(items[k])) - 1) : Inside(k, j)
      BY <3>1
    <3>3. Inside(k, j)'
      BY <1>5, <3>2
    <3>4. k \in 1..Len(items') /\ j \in 1..(Len(Spelled(items'[k])) - 1)
      BY <1>1
    <3> QED
      BY <3>3, <3>4 DEF InText
  <2> QED
    BY <1>2, <2>1, <2>2 DEF InText
<1>7. FormatWritten'
  BY <1>1, <1>2, StillWritten
<1> QED
  BY <1>1, <1>2, <1>3, <1>6, <1>7 DEF Tracked

\* Nothing of it changes.
LEMMA RestOn ==
  ASSUME Tracked, UNCHANGED items, UNCHANGED print
  PROVE  Tracked'
<1>1. /\ items' = items /\ fmt' = fmt /\ args' = args /\ fp' = fp /\ ap' = ap /\ fpc' = fpc /\ todo' = todo
      /\ text' = text /\ sink' = sink /\ buf' = buf /\ size' = size
      /\ padc' = padc /\ width' = width /\ precision' = precision /\ lflag' = lflag /\ altflag' = altflag
  BY DEF print, directive
<1>2. FormatWritten'
  BY <1>1, StillWritten DEF Tracked
<1>3. ASSUME NEW k \in 1..(Len(items) + 1), Between(k) PROVE Between(k)'
  BY <1>1, <1>3 DEF Between
<1>4. ASSUME NEW k \in 1..Len(items), NEW j, Inside(k, j) PROVE Inside(k, j)'
  BY <1>1, <1>4 DEF Inside
<1>5. ASSUME NEW k \in 1..Len(items), NEW item, Directing(k, item) PROVE Directing(k, item)'
  <2>1. ASSUME NEW rest, NEW words, Expects(k, fp, rest, ap, words) PROVE Expects(k, fp, rest, ap, words)'
    BY <1>1, <2>1 DEF Expects, Ahead
  <2>2. ASSUME NEW rest, NEW words, NEW padc_, NEW width_, NEW precision_, NEW lflag_, NEW altflag_,
               Stands(k, rest, words, padc_, width_, precision_, lflag_, altflag_)
        PROVE  Stands(k, rest, words, padc_, width_, precision_, lflag_, altflag_)'
    BY <1>1, <2>1, <2>2 DEF Stands
  <2>3. Reading(k, item)
    BY <1>5 DEF Directing
  <2>4. Reading(k, item)'
    BY <2>2, <2>3 DEF Reading, Begun, AfterMinus, AfterZero, AfterAlt, AfterWidth, AfterDot, AfterPrec
  <2> QED
    BY <1>1, <1>5, <2>4 DEF Directing
<1>6. InText => InText'
  BY <1>1, <1>3, <1>4 DEF InText
<1>7. InDirective => InDirective'
  BY <1>1, <1>5 DEF InDirective
<1>8. Refused => Refused'
  BY <1>1 DEF Refused
<1> QED
  BY <1>1, <1>2, <1>6, <1>7, <1>8 DEF Tracked

\* hence each step of the library.
LEMMA TrackedStep == Tracked /\ [LibNext]_lib => Tracked'
<1> SUFFICES ASSUME Tracked, [LibNext]_lib PROVE Tracked'
  OBVIOUS
<1>1. CASE vprintfmt /\ UNCHANGED <<port, copy, items>>
  <2>1. At("text") \/ At("switch")
    BY <1>1 DEF vprintfmt, plain, percent, pad, digits, star, dot, sharp, long, char, error, string,
       numeric,
                escaped, unknown, return, Case
  <2> QED
    BY <1>1, <2>1, TextOn, SwitchOn
<1>2. CASE Passed /\ UNCHANGED items
  BY <1>2, DrainOn
<1>3. CASE UNCHANGED print /\ UNCHANGED items
  BY <1>3, RestOn
<1>4. CASE LibNext
  <2>1. CASE sprintputch /\ UNCHANGED <<port, copy, items>>
    BY <1>2, <2>1 DEF sprintputch
  <2>2. CASE begin_putch
    BY <1>3, <2>2 DEF begin_putch
  <2>3. CASE end_putch
    BY <1>2, <2>3 DEF end_putch, putch
  <2>4. CASE wait
    BY <1>3, <2>4 DEF wait
  <2>5. CASE CopyNext /\ UNCHANGED <<port, print, items>>
    BY <1>3, <2>5
  <2>6. CASE Device
    BY <1>3, <2>6 DEF Device
  <2> QED
    BY <1>1, <1>4, <2>1, <2>2, <2>3, <2>4, <2>5, <2>6 DEF LibNext, Library
<1>5. CASE UNCHANGED lib
  BY <1>3, <1>5 DEF lib
<1> QED
  BY <1>4, <1>5

\* A call, of any function.
LEMMA CallTracked ==
  ASSUME NEW call_, Formatting(call_), Len(call_.items) \in Nat,
         \A k \in 1..Len(call_.items) : Proper(call_.items[k])
  PROVE  Tracked
<1>1. PICK m \in Nat : m = Len(items) /\ \A k \in 1..m : Proper(items[k])
  BY DEF Formatting
<1>2. /\ fmt = Concat([k \in 1..m |-> Spelled(items[k])])
      /\ args = Concat([k \in 1..m |-> ArgumentWords(items[k])])
  BY <1>1 DEF Formatting
<1>3. Len([k \in 1..m |-> Spelled(items[k])]) = m /\ Len([k \in 1..m |-> ArgumentWords(items[k])]) = m
  OBVIOUS
<1>4. fmt = FormatUpTo(items)[m] /\ args = WordsUpTo(items)[m]
  BY <1>1, <1>2, <1>3 DEF FormatUpTo, WordsUpTo, Concat
<1>5. FormatWritten
  BY <1>1, <1>4 DEF FormatWritten
<1>6. /\ fp = 1 /\ ap = 1 /\ todo = <<>> /\ text = <<>>
      /\ IF Refused THEN fpc = "returned" ELSE fpc = "text"
  BY DEF Formatting, Called
<1>7. <<>> \in Text /\ <<>> \o <<>> = <<>> /\ Len(<<>>) = 0
  BY TextParts DEF Text
<1>8. FormatUpTo(items)[0] = <<>> /\ WordsUpTo(items)[0] = <<>> /\ DoesUpTo(items)[0] = <<>>
  BY <1>5, FormatEnds
<1>9. InText
  <2>1. PICK k \in 1..(Len(items) + 1) : k = 1 /\ k - 1 = 0
    <3>1. 1 \in 1..(Len(items) + 1) /\ 1 - 1 = 0
      BY <1>1
    <3> QED
      BY <3>1
  <2>2. Between(k)
    BY <1>6, <1>7, <1>8, <2>1 DEF Between
  <2> QED
    BY <2>2 DEF InText
<1> QED
  BY <1>5, <1>6, <1>7, <1>9 DEF Tracked

\* At the start of a call nothing has been read and nothing printed.
LEMMA TrackedInit == LibInit => Tracked
<1> SUFFICES ASSUME LibInit PROVE Tracked
  OBVIOUS
<1>1. CASE \E f \in Formats : Formatting(f)
  BY <1>1, LibAssumption, CallTracked
<1>2. CASE NoFormatting
  <2> DEFINE call_ == [sink |-> "vsnprintf", buf |-> NULL, size |-> 0, items |-> <<>>]
  <2>1. Formatting(call_)
    BY <1>2 DEF NoFormatting
  <2>2. call_.items = <<>> /\ Len(<<>>) = 0
    OBVIOUS
  <2> HIDE DEF call_
  <2>3. Len(call_.items) \in Nat /\ \A k \in 1..Len(call_.items) : Proper(call_.items[k])
    BY <2>2
  <2> QED
    BY <2>1, <2>3, CallTracked
<1> QED
  BY <1>1, <1>2 DEF LibInit

\* A directive of which nothing is disputed: what vprintfmt does is what it means.
LEMMA DoesMean ==
  ASSUME NEW item, Proper(item), ~Disputed(item)
  PROVE  Does(item) = Meant(item)
<1>1. CASE item.conv \in Numeric
  <2>1. item.conv # "text" /\ ProperDirective(item) /\ Takes(item.conv, item.long, item.words)
    BY <1>1 DEF Numeric, Integral, Proper, ProperDirective
  <2>2. Len(item.words) \in {1, 2}
    <3>1. ~Unknown(item.conv)
      BY <1>1 DEF Unknown, Known, Numeric, Integral
    <3> QED
      BY <1>1, <2>1, <3>1 DEF Takes, Numeric, Integral
  <2>3. PICK i \in Nat \ {0}, M \in Nat, u \in Nat, w \in Int :
           /\ M = 2 * i /\ M = (IF Len(item.words) = 2 THEN UINTS * UINTS ELSE UINTS)
           /\ u = Unsigned(item) /\ u \in 0..(M - 1) /\ w = SignedValue(item)
    <3>1. PICK i \in Nat \ {0}, M \in Nat :
             /\ M = 2 * i /\ M = (IF Len(item.words) = 2 THEN UINTS * UINTS ELSE UINTS)
             /\ Unsigned(item) \in 0..(M - 1)
             /\ Signed(Unsigned(item), M) = SignedValue(item)
             /\ SignedValue(item) \in (-i)..(i - 1)
      BY <2>1, <2>2, ValueIs
    <3> QED
      BY <3>1
  <2>4. ~(SignedValue(item) < 0) => SignedValue(item) = Unsigned(item)
    <3>1. M \div 2 = i
      BY <2>3
    <3>2. w = IF u < i THEN u ELSE u - 2 * i
      BY <2>3, <3>1 DEF SignedValue
    <3> QED
      BY <2>3, <3>2
  <2>5. PICK v \in Nat, base \in 2..16 :
          Figures(item) = Numeral(v, base)
          /\ v = (IF Negative(item) THEN -SignedValue(item) ELSE Unsigned(item)) /\ base = Radix(item.conv)
    <3>1. (IF Negative(item) THEN -SignedValue(item) ELSE Unsigned(item)) \in Nat
      BY <2>3 DEF Negative
    <3>2. Radix(item.conv) \in 2..16
      BY DEF Radix
    <3> QED
      BY <3>1, <3>2 DEF Figures
  <2>6. PICK F, m : F = Numeral(v, base) /\ F \in Text /\ m \in Nat /\ m = Len(F)
    BY NumeralText DEF Text
  <2>7. LeftPadded(item, F) \in Text
    BY <2>1, <2>6, PaddedIs
  <2>8. Does(item) = Lead(item) \o LeftPadded(item, F)
    <3>1. <<>> \o LeftPadded(item, F) = LeftPadded(item, F)
      BY <2>7, TextParts
    <3>2. CASE item.conv = "d"
      <4>1. Lead(item) = (IF SignedValue(item) < 0 THEN <<"-">> ELSE <<>>) /\ base = 10
        BY <2>5, <3>2 DEF Lead, Negative, Radix
      <4>2. v = IF SignedValue(item) < 0 THEN -SignedValue(item) ELSE SignedValue(item)
        BY <2>4, <2>5, <3>2 DEF Negative
      <4>3. Does(item) = (IF SignedValue(item) < 0 THEN <<"-">> ELSE <<>>)
              \o LeftPadded(item, Numeral(IF SignedValue(item) < 0 THEN -SignedValue(item)
                                                                   ELSE SignedValue(item), 10))
        BY <3>2, DoesIs
      <4> QED
        BY <2>6, <4>1, <4>2, <4>3, Zenon
    <3>3. CASE item.conv \in {"u", "o", "x"}
      <4>1. Lead(item) = <<>> /\ v = Unsigned(item)
        BY <2>5, <3>3 DEF Lead, Negative
      <4>2. Does(item) = LeftPadded(item, Numeral(Unsigned(item), base))
        BY <2>5, <3>3, DoesIs DEF Radix
      <4> QED
        BY <2>6, <3>1, <4>1, <4>2
    <3>4. CASE item.conv = "p"
      <4>1. Lead(item) = <<"0", "x">> /\ v = Unsigned(item) /\ base = 16
        BY <2>5, <3>4 DEF Lead, Negative, Radix
      <4>2. Does(item) = <<"0", "x">> \o LeftPadded(item, Numeral(Unsigned(item), 16))
        BY <3>4, DoesIs
      <4> QED
        BY <2>6, <4>1, <4>2, Zenon
    <3> QED
      BY <1>1, <3>2, <3>3, <3>4 DEF Numeric, Integral
  <2>9. LeftPadded(item, F) = Padded(item, F)
    <3>1. PICK many \in Int : many = Field(item) - Len(F)
      BY <2>1, <2>6, HeldIs
    <3>2. CASE item.minus
      <4>1. many <= 0
        <5>1. ~(Field(item) > Len(F))
          BY <1>1, <2>1, <2>5, <2>6, <3>2 DEF Disputed
        <5> QED
          BY <2>1, <2>6, <3>1, <5>1, HeldIs
      <4>2. PICK char_ \in Glyphs : char_ = PadCode(item)
        BY <2>1, HeldIs
      <4>3. Times(char_, many) = <<>> /\ Times(" ", many) = <<>>
        BY <4>1, NoTimes, GlyphsAre
      <4>4. <<>> \o F = F /\ F \o <<>> = F
        BY <2>6, TextParts
      <4>5. LeftPadded(item, F) = Times(char_, many) \o F /\ Padded(item, F) = F \o Times(" ", many)
        BY <3>1, <3>2, <4>2 DEF LeftPadded, Padded
      <4> QED
        BY <4>3, <4>4, <4>5
    <3>3. CASE ~item.minus
      BY <3>3 DEF LeftPadded, Padded, PadCode, PadChar
    <3> QED
      BY <3>2, <3>3
  <2>10. Meant(item) = Lead(item) \o Padded(item, Figures(item))
    BY <1>1 DEF Meant, Numeric, Integral
  <2> QED
    BY <2>5, <2>6, <2>8, <2>9, <2>10, Zenon
<1>2. CASE item.conv = "s"
  <2>1. ProperDirective(item)
    BY <1>2 DEF Proper
  <2>2. Shown(item) \in Text
    BY <1>2, ShownText
  <2>3. PICK F, i : F = Shown(item) /\ F \in Text /\ i = Field(item) - Len(F) /\ i \in Int
    <3>1. Len(Shown(item)) \in Nat /\ Field(item) \in Int
      BY <2>1, <2>2, HeldIs DEF Text
    <3> QED
      BY <2>2, <3>1
  <2>4. Does(item) = IF item.minus /\ ~item.zero THEN F \o Times(" ", i)
                     ELSE Times(IF item.zero THEN "0" ELSE " ", i) \o F
    BY <1>2, <2>3 DEF Does
  <2>5. Meant(item) = IF item.minus THEN F \o Times(" ", i)
                      ELSE Times(IF item.zero THEN "0" ELSE " ", i) \o F
    <3>1. Meant(item) = Padded(item, F)
      BY <1>2, <2>3 DEF Meant, Numeric, Integral
    <3> QED
      BY <2>3, <3>1 DEF Padded, PadChar
  <2>6. CASE item.minus /\ item.zero
    <3>1. i <= 0
      <4>1. ~(Field(item) > Len(F)) /\ Field(item) \in Int /\ Len(F) \in Nat
        BY <1>2, <2>1, <2>3, <2>6, HeldIs DEF Disputed, Text
      <4> QED
        BY <2>3, <4>1
    <3>2. Times("0", i) = <<>> /\ Times(" ", i) = <<>>
      BY <2>3, <3>1, NoTimes, GlyphsAre DEF Known, Decimal
    <3>3. <<>> \o F = F /\ F \o <<>> = F
      BY <2>3, TextParts
    <3> QED
      BY <2>4, <2>5, <2>6, <3>2, <3>3
  <2>7. CASE item.minus /\ ~item.zero
    BY <2>4, <2>5, <2>7
  <2>8. CASE ~item.minus
    <3>1. PICK t_ : t_ = Times(IF item.zero THEN "0" ELSE " ", i) \o F
      OBVIOUS
    <3>2. Does(item) = t_
      BY <2>4, <2>8, <3>1, Zenon
    <3>3. Meant(item) = t_
      BY <2>5, <2>8, <3>1, Zenon
    <3> QED
      BY <3>2, <3>3
  <2> QED
    BY <2>6, <2>7, <2>8
<1>3. CASE item.conv \notin Numeric \cup {"s"}
  BY <1>3 DEF Does, Meant, Numeric, Integral
<1> QED
  BY <1>1, <1>2, <1>3

\* When the format has been read, what was printed is what was meant.
LEMMA TrackedText == Tracked => TextAsMeant
<1> SUFFICES ASSUME Tracked PROVE TextAsMeant
  OBVIOUS
<1>1. PICK m \in Nat : m = Len(items) /\ \A k \in 1..m : Proper(items[k])
  BY DEF Tracked, FormatWritten
<1>2. Len([k \in 1..m |-> Does(items[k])]) = m
  OBVIOUS
<1>3. ASSUME \A k \in 1..m : ~Disputed(items[k])
      PROVE  Meaning = DoesUpTo(items)[m]
  <2>1. [k \in 1..m |-> Meant(items[k])] = [k \in 1..m |-> Does(items[k])]
    BY <1>1, <1>3, DoesMean
  <2>2. Meaning = Concat([k \in 1..m |-> Meant(items[k])])
    BY <1>1 DEF Meaning
  <2> QED
    BY <1>1, <1>2, <2>1, <2>2 DEF DoesUpTo, Concat
<1>4. fpc = "returned" => Refused \/ text = DoesUpTo(items)[m]
  BY <1>1 DEF Tracked
<1>5. fpc = "wild" => \E k \in 1..Len(items) : Nameless(items[k])
  BY DEF Tracked
<1> QED
  BY <1>1, <1>3, <1>4, <1>5 DEF TextAsMeant, Formatted

\* What is printed is what the format means: every combination of flags, width, precision
\* and length, of any number of directives and texts, with the arguments taken in step,
\* unless a directive asks for padding on the right that vprintfmt does not give
\* (module Directives, Disputed; module Lib, TextAsMeant; vprintfmt and printnum of
\* lib/printfmt.c).
THEOREM TextAlways == LibSpec => []TextAsMeant
<1>1. Tracked /\ [LibNext]_lib => Tracked'
  BY TrackedStep
<1> QED
  BY <1>1, TrackedInit, TrackedText, PTL DEF LibSpec

=============================================================================
