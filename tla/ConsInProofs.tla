---------------------------- MODULE ConsInProofs ----------------------------
(***************************************************************************)
(* Proofs about the console input buffer, for every size of the buffer and *)
(* every sequence of bytes from the devices.                               *)
(***************************************************************************)
EXTENDS ConsIn, KbdMapProofs, SequenceTheorems

BufIndex == 0..(CONSBUFSIZE - 1)

\* While nothing was lost the ring holds what is waiting, with room for one more;
\* it never holds more than that.
RingHolds == /\ ~overflowed => Len(waiting) < CONSBUFSIZE /\ Pending = waiting
             /\ Len(Pending) <= Len(waiting)

IInv == TypeOK /\ DataIsThere /\ RingHolds

-----------------------------------------------------------------------------
(* The ring *)

LEMMA RingFacts ==
  ASSUME TypeOK
  PROVE  /\ CONSBUFSIZE \in Nat \ {0} /\ rpos \in BufIndex /\ wpos \in BufIndex
         /\ Unread \in 0..(CONSBUFSIZE - 1)
         /\ \A k \in 0..(CONSBUFSIZE - 1) : Slot(k) \in BufIndex
         /\ Len(Pending) = Unread
         /\ \A k \in 1..Unread : Pending[k] = buf[Slot(k - 1)]
         /\ Pending \in Seq(Byte)
<1>1. CONSBUFSIZE \in Nat \ {0} /\ rpos \in BufIndex /\ wpos \in BufIndex
  BY ConsInAssumption DEF TypeOK, BufIndex
<1>2. Unread \in 0..(CONSBUFSIZE - 1)
  BY <1>1 DEF Unread, BufIndex
<1>3. \A k \in 0..(CONSBUFSIZE - 1) : Slot(k) \in BufIndex
  BY <1>1 DEF Slot, BufIndex
<1>4. Len(Pending) = Unread /\ \A k \in 1..Unread : Pending[k] = buf[Slot(k - 1)]
  BY <1>2 DEF Pending
<1>5. Pending \in Seq(Byte)
  <2>1. ASSUME NEW k \in 1..Unread PROVE buf[Slot(k - 1)] \in Byte
    <3>1. k - 1 \in 0..(CONSBUFSIZE - 1)
      BY <1>1, <1>2
    <3>2. Slot(k - 1) \in BufIndex
      BY <1>3, <3>1
    <3>3. buf \in [BufIndex -> Byte]
      BY Zenon DEF TypeOK, BufIndex
    <3> QED
      BY <3>2, <3>3
  <2> QED BY <1>2, <2>1 DEF Pending
<1> QED BY <1>1, <1>2, <1>3, <1>4, <1>5

LEMMA WrapInBuf == \A i \in BufIndex : CONSBUFSIZE \in Nat \ {0} => Wrap(i + 1) \in BufIndex
BY DEF Wrap, BufIndex

\* Storing a character appends it to what is unread, or, with no free slot left
\* but one, makes the ring look empty.
LEMMA StoreIsPut ==
  ASSUME TypeOK, NEW c \in Byte \ {0}, Store(c)
  PROVE  Pending' = IF Len(Pending) + 1 < CONSBUFSIZE THEN Append(Pending, c) ELSE <<>>
<1>0. /\ CONSBUFSIZE \in Nat \ {0} /\ rpos \in BufIndex /\ wpos \in BufIndex
      /\ Unread \in 0..(CONSBUFSIZE - 1)
  BY RingFacts
<1>1. /\ buf' = [buf EXCEPT ![wpos] = c] /\ wpos' = Wrap(wpos + 1) /\ rpos' = rpos
      /\ buf \in [BufIndex -> Byte]
  BY DEF Store, TypeOK, BufIndex
<1>2. CASE Unread + 1 < CONSBUFSIZE
  <2>1. Unread' = Unread + 1
    BY <1>0, <1>1, <1>2 DEF Unread, Wrap, BufIndex
  <2>2. Slot(Unread) = wpos
    BY <1>0 DEF Slot, Unread, BufIndex
  <2>3. \A k \in 1..Unread : Slot(k - 1) # wpos
    BY <1>0 DEF Slot, Unread, BufIndex
  <2>4. \A k \in 1..(Unread + 1) : Slot(k - 1)' = Slot(k - 1)
    BY <1>1 DEF Slot
  <2>5. \A k \in 1..Unread : buf'[Slot(k - 1)] = Pending[k]
    BY <1>0, <1>1, <2>3, RingFacts
  <2>6. buf'[Slot(Unread)] = c
    BY <1>0, <1>1, <2>2
  <2>7. Pending' = [k \in 1..(Unread + 1) |-> buf'[Slot(k - 1)]]
    BY <2>1, <2>4 DEF Pending
  <2>8. \A k \in 1..(Unread + 1) : buf'[Slot(k - 1)] \in Byte
    <3>1. \A k \in 1..Unread : Pending[k] \in Byte
      BY <1>0, RingFacts, ElementOfSeq
    <3>2. \A k \in 1..(Unread + 1) : k \in 1..Unread \/ k = Unread + 1
      BY <1>0
    <3>3. Slot((Unread + 1) - 1) = Slot(Unread)
      BY <1>0
    <3> QED BY <2>5, <2>6, <3>1, <3>2, <3>3
  <2>9. Pending' \in Seq(Byte) /\ Len(Pending') = Unread + 1
    BY <1>0, <2>7, <2>8
  <2>10. /\ Append(Pending, c) \in Seq(Byte) /\ Len(Append(Pending, c)) = Unread + 1
         /\ \A k \in 1..Unread : Append(Pending, c)[k] = Pending[k]
         /\ Append(Pending, c)[Unread + 1] = c
    BY RingFacts, AppendProperties
  <2>11. \A k \in 1..(Unread + 1) : Pending'[k] = Append(Pending, c)[k]
    BY <1>0, <2>5, <2>6, <2>7, <2>10
  <2>12. Pending' = Append(Pending, c)
    BY <2>9, <2>10, <2>11, SeqEqual
  <2> QED BY <1>2, <2>12, RingFacts
<1>3. CASE Unread + 1 >= CONSBUFSIZE
  <2>1. Unread' = 0
    BY <1>0, <1>1, <1>3 DEF Unread, Wrap, BufIndex
  <2>2. Pending' = <<>>
    BY <2>1 DEF Pending
  <2>3. ~(Len(Pending) + 1 < CONSBUFSIZE)
    BY <1>0, <1>3, RingFacts
  <2> QED BY <2>2, <2>3
<1> QED BY <1>0, <1>2, <1>3

\* Taking a character takes the oldest.
LEMMA TakeIsGet ==
  ASSUME TypeOK, take
  PROVE  Pending # <<>> /\ ret' = Head(Pending) /\ Pending' = Tail(Pending)
<1>0. /\ CONSBUFSIZE \in Nat \ {0} /\ rpos \in BufIndex /\ wpos \in BufIndex
      /\ Unread \in 0..(CONSBUFSIZE - 1)
  BY RingFacts
<1>1. rpos # wpos /\ ret' = buf[rpos] /\ rpos' = Wrap(rpos + 1) /\ UNCHANGED <<buf, wpos>>
  BY DEF take
<1>2. Unread > 0 /\ Unread' = Unread - 1
  BY <1>0, <1>1 DEF Unread, Wrap, BufIndex
<1>3. \A k \in 1..(Unread - 1) : Slot(k - 1)' = Slot(k)
  BY <1>0, <1>1 DEF Slot, Wrap, BufIndex
<1>4. Pending # <<>> /\ Head(Pending) = buf[rpos]
  BY <1>0, <1>2, RingFacts DEF Slot, BufIndex
<1>5. Pending' = [k \in 1..(Unread - 1) |-> buf[Slot(k)]]
  BY <1>1, <1>2, <1>3 DEF Pending
<1>6. Pending' = Tail(Pending)
  <2>1. \A k \in 1..(Unread - 1) : Pending[k + 1] = buf[Slot(k)] /\ Pending[k + 1] \in Byte
    BY <1>0, <1>2, RingFacts, ElementOfSeq
  <2>2. Pending' \in Seq(Byte) /\ Len(Pending') = Unread - 1
    BY <1>0, <1>2, <1>5, <2>1
  <2>3. /\ Tail(Pending) \in Seq(Byte) /\ Len(Tail(Pending)) = Unread - 1
        /\ \A k \in 1..(Unread - 1) : Tail(Pending)[k] = Pending[k + 1]
    BY <1>4, RingFacts, HeadTailProperties
  <2>4. \A k \in 1..(Unread - 1) : Pending'[k] = Tail(Pending)[k]
    BY <1>5, <2>1, <2>3
  <2> QED BY <2>2, <2>3, <2>4, SeqEqual
<1> QED BY <1>1, <1>4, <1>6

-----------------------------------------------------------------------------
(* The invariant *)

LEMMA StoreType ==
  ASSUME TypeOK, NEW c \in Byte, Store(c)
  PROVE  /\ buf' \in [BufIndex -> Byte] /\ rpos' = rpos /\ wpos' \in BufIndex
         /\ waiting' \in Seq(Byte) /\ overflowed' \in BOOLEAN
<1>1. wpos' \in BufIndex
  BY RingFacts, WrapInBuf DEF Store, ring
<1>2. buf' \in [BufIndex -> Byte] /\ rpos' = rpos
  BY RingFacts DEF Store, BufIndex, TypeOK, ring
<1>3. waiting' \in Seq(Byte)
  <2>1. waiting \in Seq(Byte) /\ (waiting' = waiting \/ waiting' = Append(waiting, c))
    BY DEF Store, TypeOK, ghost
  <2> QED
    BY <2>1, AppendProperties
<1>4. overflowed' \in BOOLEAN
  <2>1. CASE c = 0
    BY <2>1 DEF Store, TypeOK, ghost
  <2>2. CASE c # 0
    BY <2>2 DEF Store
  <2> QED BY <2>1, <2>2
<1> QED BY <1>1, <1>2, <1>3, <1>4

LEMMA StoreHolds ==
  ASSUME TypeOK, RingHolds, NEW c \in Byte, Store(c)
  PROVE  RingHolds'
<1>1. CASE c = 0
  BY <1>1 DEF Store, RingHolds, ring, ghost, Pending, Unread, Slot
<1>2. CASE c # 0
  <2>1. /\ overflowed' <=> (overflowed \/ Len(waiting) + 1 >= CONSBUFSIZE)
        /\ waiting' = Append(waiting, c) /\ waiting \in Seq(Byte)
    BY <1>2 DEF Store, TypeOK
  <2>2. /\ Len(waiting) \in Nat /\ Len(waiting') = Len(waiting) + 1
        /\ Pending' = IF Len(Pending) + 1 < CONSBUFSIZE THEN Append(Pending, c) ELSE <<>>
        /\ Len(Append(Pending, c)) = Len(Pending) + 1 /\ Len(Pending) \in Nat
    BY <1>2, <2>1, StoreIsPut, RingFacts, AppendProperties, LenProperties
  <2>3. Len(Pending') <= Len(waiting')
    BY <2>2 DEF RingHolds
  <2>4. ASSUME ~overflowed' PROVE Len(waiting') < CONSBUFSIZE /\ Pending' = waiting'
    BY <2>1, <2>2, <2>4, ConsInAssumption DEF RingHolds
  <2> QED BY <2>3, <2>4 DEF RingHolds
<1> QED BY <1>1, <1>2

LEMMA InitInvariant == Init => IInv
<1> SUFFICES ASSUME Init PROVE IInv
  OBVIOUS
<1>1. TypeOK
  <2>1. EmptyBuf \in [0..(CONSBUFSIZE - 1) -> Byte]
    BY DEF EmptyBuf, Byte
  <2>2. serial_exists \in BOOLEAN /\ resetting \in BOOLEAN /\ overflowed \in BOOLEAN
    BY Zenon DEF Init
  <2> QED BY <2>1, <2>2, ConsInAssumption DEF Init, TypeOK, Byte
<1>2. DataIsThere
  BY DEF Init, DataIsThere
<1>3. RingHolds
  BY ConsInAssumption DEF Init, RingHolds, Pending, Unread
<1> QED BY <1>1, <1>2, <1>3 DEF IInv

\* A byte arrives.
LEMMA DevicesKeep ==
  ASSUME IInv, Devices PROVE IInv'
<1> USE DEF IInv
<1>1. /\ UNCHANGED <<serial_exists, shift, ring, pc, ret, resetting, ghost>>
      /\ input' = input + 1
  BY DEF Devices, SerialArrives, ControllerArrives
<1>2. RingHolds'
  BY <1>1 DEF RingHolds, Pending, Unread, Slot, ring, ghost
<1>3. CASE \E b \in SerialBytes : SerialArrives(b)
  <2>1. PICK b \in SerialBytes : rx' = <<b>> /\ kbq' = kbq
    BY <1>3 DEF SerialArrives
  <2>2. b \in Byte
    BY ConsInAssumption
  <2> QED BY <1>1, <1>2, <2>1, <2>2 DEF TypeOK, DataIsThere, ring, ghost
<1>4. ASSUME NEW b \in Byte, NEW m \in BOOLEAN, ControllerArrives(b, m) PROVE IInv'
  <2>1. kbq' = Append(kbq, [data |-> b, aux |-> m]) /\ rx' = rx
    BY <1>4 DEF ControllerArrives
  <2>2. kbq' \in Seq([data : Byte, aux : BOOLEAN]) /\ kbq' # <<>>
    BY <2>1, AppendProperties DEF TypeOK
  <2>3. pc = "data" => ~Head(kbq').aux
    BY <2>1, HeadTailAppend DEF TypeOK, DataIsThere
  <2> QED BY <1>1, <1>2, <2>1, <2>2, <2>3 DEF TypeOK, DataIsThere, ring, ghost
<1>5. CASE \E b \in KbdBytes : ControllerArrives(b, FALSE)
  BY <1>4, <1>5, ConsInAssumption
<1>6. CASE \E b \in MouseBytes : ControllerArrives(b, TRUE)
  BY <1>4, <1>6, ConsInAssumption
<1> QED BY <1>3, <1>5, <1>6 DEF Devices

\* Steps that touch neither the ring nor a port.
LEMMA PollingKeeps ==
  ASSUME IInv, getchar \/ serial_status \/ kbd_status \/ retry PROVE IInv'
<1>1. UNCHANGED <<device, serial_exists, shift, ring, ret, resetting, ghost>>
  BY DEF getchar, serial_status, kbd_status, retry
<1>2. RingHolds'
  BY <1>1 DEF IInv, RingHolds, Pending, Unread, Slot, ring, ghost
<1>3. TypeOK'
  BY <1>1 DEF IInv, TypeOK, getchar, serial_status, kbd_status, retry, device, ring, ghost
<1>4. DataIsThere'
  BY <1>1 DEF IInv, DataIsThere, getchar, serial_status, kbd_status, retry, device
<1> QED BY <1>2, <1>3, <1>4 DEF IInv

LEMMA KbdHead ==
  ASSUME IInv, pc = "data" PROVE kbq # <<>> /\ Head(kbq).data \in Byte
<1>1. kbq # <<>> /\ kbq \in Seq([data : Byte, aux : BOOLEAN])
  BY DEF IInv, DataIsThere, TypeOK
<1>2. Head(kbq) \in [data : Byte, aux : BOOLEAN]
  BY <1>1, HeadTailProperties
<1> QED BY <1>1, <1>2

LEMMA ReadingKeeps ==
  ASSUME IInv, serial_data \/ kbd_data PROVE IInv'
<1> USE DEF IInv
<1>1. CASE serial_data
  <2>1. Head(rx) \in Byte /\ Store(Head(rx))
    BY <1>1 DEF serial_data, TypeOK, DataIsThere
  <2>2. RingHolds'
    BY <2>1, StoreHolds
  <2>3. TypeOK'
    BY <1>1, <2>1, StoreType DEF serial_data, TypeOK, BufIndex
  <2>4. DataIsThere'
    BY <1>1 DEF serial_data, DataIsThere
  <2> QED BY <2>2, <2>3, <2>4
<1>2. CASE kbd_data
  <2> DEFINE d == Decode(shift, Head(kbq).data)
  <2>1. kbq # <<>> /\ Head(kbq).data \in Byte
    BY <1>2, KbdHead DEF kbd_data
  <2>2. d.shift \in SUBSET Flags /\ d.c \in Byte /\ d.reboot \in BOOLEAN
    BY <2>1, DecodeType DEF TypeOK
  <2>3. /\ Store(d.c) /\ shift' = d.shift /\ resetting' = (resetting \/ d.reboot)
        /\ kbq' = Tail(kbq) /\ pc' = "kbd"
        /\ UNCHANGED <<rx, input, serial_exists, ret>>
    BY <1>2 DEF kbd_data
  <2> HIDE DEF d
  <2>4. RingHolds'
    BY <2>2, <2>3, StoreHolds
  <2>5. kbq' \in Seq([data : Byte, aux : BOOLEAN])
    BY <2>1, <2>3, HeadTailProperties DEF TypeOK
  <2>6. resetting' \in BOOLEAN
    BY <2>3
  <2>7. TypeOK'
    BY <2>2, <2>3, <2>5, <2>6, StoreType DEF TypeOK, BufIndex
  <2>8. DataIsThere'
    BY <2>3 DEF DataIsThere
  <2> QED BY <2>4, <2>7, <2>8
<1> QED BY <1>1, <1>2

LEMMA TakeKeeps ==
  ASSUME IInv, take PROVE IInv'
<1> USE DEF IInv
<1>1. ret' \in Byte /\ rpos' \in BufIndex
  <2>1. rpos' \in BufIndex
    BY RingFacts, WrapInBuf DEF take
  <2>2. ret' \in Byte
    BY RingFacts DEF take, TypeOK, BufIndex
  <2> QED BY <2>1, <2>2
<1>2. waiting # <<>> /\ waiting \in Seq(Byte)
  BY TakeIsGet, RingFacts, LenProperties, EmptySeq DEF RingHolds, TypeOK
<1>3. /\ waiting' \in Seq(Byte) /\ Len(waiting') = Len(waiting) - 1
      /\ Len(Pending') = Len(Pending) - 1
  BY <1>2, TakeIsGet, RingFacts, HeadTailProperties DEF take
<1>4. RingHolds'
  <2>1. Len(Pending') <= Len(waiting')
    BY <1>2, <1>3, RingFacts, LenProperties DEF RingHolds
  <2>2. ASSUME ~overflowed' PROVE Len(waiting') < CONSBUFSIZE /\ Pending' = waiting'
    <3>1. Len(waiting) < CONSBUFSIZE /\ Pending = waiting /\ waiting' = Tail(waiting)
      BY <2>2 DEF take, RingHolds
    <3> QED BY <3>1, <1>2, <1>3, TakeIsGet, RingFacts, LenProperties
  <2> QED BY <2>1, <2>2 DEF RingHolds
<1>5. TypeOK'
  BY <1>1, <1>3 DEF take, TypeOK, device, BufIndex
<1>6. DataIsThere'
  BY DEF take, DataIsThere
<1> QED BY <1>4, <1>5, <1>6

LEMMA RebootKeeps ==
  ASSUME IInv, reboot PROVE IInv'
<1>1. EmptyBuf \in [0..(CONSBUFSIZE - 1) -> Byte]
  BY DEF EmptyBuf, Byte
<1>2. TypeOK'
  <2>1. serial_exists' \in BOOLEAN /\ resetting' \in BOOLEAN /\ overflowed' \in BOOLEAN
    BY Zenon DEF reboot, IInv, TypeOK
  <2> QED BY <1>1, <2>1, ConsInAssumption DEF reboot, TypeOK, Byte
<1>3. DataIsThere'
  BY DEF reboot, DataIsThere
<1>4. RingHolds'
  BY ConsInAssumption DEF reboot, RingHolds, Pending, Unread
<1> QED BY <1>2, <1>3, <1>4 DEF IInv

LEMMA StepInvariant == IInv /\ [Next]_vars => IInv'
<1> SUFFICES ASSUME IInv, [Next]_vars PROVE IInv'
  OBVIOUS
<1>1. CASE UNCHANGED vars
  BY <1>1 DEF vars, IInv, TypeOK, DataIsThere, RingHolds, Pending, Unread, Slot, device, ring, ghost
<1> QED BY <1>1, DevicesKeep, PollingKeeps, ReadingKeeps, TakeKeeps, RebootKeeps DEF Next, Processor

THEOREM Invariant == Spec => []IInv
BY InitInvariant, StepInvariant, PTL DEF Spec

\* The indices of the ring stay inside the buffer, a character read from it fits the
\* uint8_t it came from, and the other types hold, whatever the devices send.
THEOREM TypeCorrect == Spec => []TypeOK
BY Invariant, PTL DEF IInv

\* No port is read without its status having said, and still saying, that a byte
\* is there for it.
THEOREM DataIsThereAlways == Spec => []DataIsThere
BY Invariant, PTL DEF IInv

\* Until the reader falls CONSBUFSIZE characters behind, the ring holds what came
\* in and was not taken out, in order.
THEOREM InOrderAlways == Spec => []InOrder
<1>1. IInv => InOrder
  BY DEF IInv, RingHolds, InOrder
<1> QED BY <1>1, Invariant, PTL

-----------------------------------------------------------------------------
(* The implementation of the abstract queue *)

\* cons_intr and cons_getc, for every buffer size, implement the input queue of
\* InputQueue: first in, first out, and emptied by the character too many.
THEOREM ImplementsQueue == Spec => QueueSpec
<1>1. Init => Queue!Init
  BY ConsInAssumption DEF Init, Queue!Init, Pending, Unread
<1>2. IInv /\ [Next]_vars => [Queue!Next]_(Queue!vars)
  <2> SUFFICES ASSUME IInv, [Next]_vars PROVE [Queue!Next]_(Queue!vars)
    OBVIOUS
  <2>1. ASSUME UNCHANGED <<ring, ret>> PROVE UNCHANGED Queue!vars
    BY <2>1 DEF ring, Queue!vars, Pending, Unread, Slot
  <2>2. ASSUME NEW c \in Byte, Store(c), UNCHANGED ret PROVE [Queue!Next]_(Queue!vars)
    <3>1. CASE c = 0
      BY <2>1, <2>2, <3>1 DEF Store
    <3>2. CASE c # 0
      BY <2>2, <3>2, StoreIsPut DEF IInv, Queue!Next, Queue!Put
    <3> QED BY <3>1, <3>2
  <2>3. CASE Devices
    BY <2>1, <2>3 DEF Devices, SerialArrives, ControllerArrives
  <2>4. CASE getchar \/ serial_status \/ kbd_status \/ retry
    BY <2>1, <2>4 DEF getchar, serial_status, kbd_status, retry
  <2>5. CASE serial_data
    <3>1. Head(rx) \in Byte
      BY <2>5 DEF IInv, serial_data, TypeOK, DataIsThere
    <3> QED BY <2>2, <2>5, <3>1 DEF serial_data
  <2>6. CASE kbd_data
    <3>1. Decode(shift, Head(kbq).data).c \in Byte
      BY <2>6, KbdHead, DecodeType DEF IInv, kbd_data, TypeOK
    <3> QED BY <2>2, <2>6, <3>1 DEF kbd_data
  <2>7. CASE take
    BY <2>7, TakeIsGet DEF IInv, Queue!Next, Queue!Get
  <2>8. CASE reboot
    <3>1. Pending' = <<>> /\ ret' = 0
      BY <2>8 DEF reboot, Pending, Unread
    <3> QED BY <3>1 DEF Queue!Next, Queue!Clear
  <2>9. CASE UNCHANGED vars
    BY <2>1, <2>9 DEF vars
  <2> QED BY <2>3, <2>4, <2>5, <2>6, <2>7, <2>8, <2>9 DEF Next, Processor
<1> QED BY <1>1, <1>2, Invariant, PTL DEF Spec, QueueSpec, Queue!Spec

=============================================================================
