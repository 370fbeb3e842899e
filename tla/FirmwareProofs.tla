--------------------------- MODULE FirmwareProofs ---------------------------
(***************************************************************************)
(* Proofs about Firmware, for any buffer with room for the answer, any     *)
(* datagrams, and any heap, stack size and number of sockets.              *)
(***************************************************************************)
EXTENDS Firmware, SequenceTheorems, TLAPS

USE DEF dns, dvars, boot, mem, vars

-----------------------------------------------------------------------------
(* What a step may do to the heap and to the boot.                          *)

\* Only a reset, an accept, the receiver's start, the end of a handler, the idle
\* task and the network touch the heap.
LEMMA HeapSteps ==
  ASSUME [Next]_vars
  PROVE  \/ UNCHANGED mem \/ Reset \/ HttpAccept \/ RecStart \/ HandlerClose \/ IdleFrees
         \/ NetMemory
  BY DEF Next, BootStep, BootAbort, BootSkip, Join, Leave, PhoneAsks, OtherAsks,
         DnsStep, HttpPanic

\* Only app_main and a reset change what is set up.
LEMMA BootSteps ==
  ASSUME [Next]_vars
  PROVE  UNCHANGED boot \/ Reset \/ BootStep \/ BootSkip
  BY DEF Next, BootAbort, Join, Leave, PhoneAsks, OtherAsks, DnsStep, HttpAccept,
         HttpPanic, RecStart, HandlerClose, IdleFrees, NetMemory

-----------------------------------------------------------------------------
(* The heap.                                                                *)

MemType ==
  /\ heap \in Nat /\ conns \in Nat /\ handlers \in Nat /\ deleted \in Nat /\ leaked \in Nat
  /\ receiver \in {"none", "created", "ready"} /\ recmem \in Nat /\ net \in Nat /\ peak \in Nat
MemInv == MemType /\ HeapAccounted

\* Stacks in use, one of them returned or one more taken.
LEMMA StackArithmetic ==
  ASSUME NEW h \in Nat, NEW s \in Nat, NEW n \in Nat
  PROVE  /\ (h + 1) * s = h * s + s
         /\ h > 0 => (h - 1) * s = h * s - s
         /\ h <= n => h * s <= n * s
         /\ h * s \in Nat /\ n * s \in Nat
<1>1. (h + 1) * s = h * s + s /\ (h > 0 => (h - 1) * s = h * s - s)
  OBVIOUS
<1>2. h * s \in Nat /\ n * s \in Nat
  OBVIOUS
<1>3. ASSUME h <= n  PROVE h * s <= n * s
  <2>1. PICK k \in Nat : n = h + k
    <3>1. n - h \in Nat /\ n = h + (n - h)
      BY <1>3
    <3> QED
      BY <3>1
  <2>2. n * s = h * s + k * s /\ k * s \in Nat
    BY <2>1
  <2> QED
    BY <2>2, <1>2
<1> QED
  BY <1>1, <1>2, <1>3

LEMMA OneStackMore ==
  ASSUME NEW h \in Nat, NEW s \in Nat, NEW n \in Nat, h <= n
  PROVE  (h + 1) * s <= (n + 1) * s /\ (h + 1) * s \in Nat /\ (n + 1) * s \in Nat
<1>1. h * s <= n * s /\ h * s \in Nat /\ n * s \in Nat
  BY StackArithmetic
<1>2. (h + 1) * s = h * s + s /\ (n + 1) * s = n * s + s
  BY StackArithmetic
<1> QED
  BY <1>1, <1>2

\* With room by the premise of HeapLasts there is memory for the receiver, a
\* cell and a stack.
LEMMA RoomLeft ==
  ASSUME MemInv, HeapHasRoom
  PROVE  Left \in Nat /\ Left > Stack /\ (receiver = "none" => heap >= RecStack)
<1> USE HeapAssumption DEF MemInv, MemType, HeapAccounted
<1>1. Stacks \in Nat /\ Stacks <= peak
  BY DEF Stacks
<1>2. PICK p \in Nat, q \in Nat : /\ p = Stacks * Stack /\ q = peak * Stack /\ p <= q
                                /\ (peak + 1) * Stack = q + Stack
  <2>1. Stacks * Stack <= peak * Stack /\ Stacks * Stack \in Nat /\ peak * Stack \in Nat
    BY <1>1, StackArithmetic
  <2>2. (peak + 1) * Stack = peak * Stack + Stack
    BY StackArithmetic
  <2> QED
    BY <2>1, <2>2
<1>3. heap + conns + p + recmem + net = HeapSize
  BY <1>2
<1>4. conns + (q + Stack) + RecStack + RecBuf + NetMax < HeapSize
  BY <1>2 DEF HeapHasRoom
<1>5. heap + recmem > Stack + RecStack + RecBuf
  BY <1>2, <1>3, <1>4
<1>6. CASE receiver = "none"
  BY <1>5, <1>6 DEF Left
<1>7. CASE receiver # "none"
  BY <1>5, <1>7 DEF Left
<1> QED
  BY <1>6, <1>7

LEMMA AcceptInductive ==
  ASSUME MemInv, HttpAccept
  PROVE  MemInv'
<1> USE HeapAssumption DEF MemInv, MemType, HeapAccounted
<1>1. /\ handlers + leaked < Sockets /\ Left > 0 /\ conns' = conns + 1
      /\ receiver' = IF receiver = "none" /\ heap >= RecStack THEN "created" ELSE receiver
      /\ recmem' = recmem + (heap - Left) /\ UNCHANGED <<deleted, net>>
  BY DEF HttpAccept, CanAccept
<1>2. Stacks \in Nat /\ Stacks * Stack \in Nat
  BY StackArithmetic DEF Stacks
<1>3. /\ Left \in Nat /\ Left + recmem' = heap + recmem /\ recmem' \in Nat
      /\ recmem' <= RecStack + RecBuf /\ receiver' \in {"none", "created", "ready"}
      /\ receiver' = "none" => recmem' = 0
      /\ receiver' = "created" => recmem' = RecStack
  <2>1. CASE receiver = "none" /\ heap >= RecStack
    BY <1>1, <2>1 DEF Left
  <2>2. CASE ~(receiver = "none" /\ heap >= RecStack)
    BY <1>1, <2>2 DEF Left
  <2> QED
    BY <2>1, <2>2
<1>4. PICK p \in Nat : p = Stacks * Stack
  BY <1>2
<1>5. heap + conns + p + recmem + net = HeapSize
  BY <1>4
<1>6. peak' \in Nat /\ peak' >= peak /\ Stacks' \in Nat /\ Stacks' <= peak'
  <2>1. CASE Left - 1 >= Stack
    BY <1>1, <2>1 DEF HttpAccept, Stacks
  <2>2. CASE ~(Left - 1 >= Stack)
    BY <1>1, <2>2 DEF HttpAccept, Stacks
  <2> QED
    BY <2>1, <2>2
<1>7. ASSUME HeapHasRoom'
      PROVE  Left - 1 >= Stack /\ leaked = 0 /\ receiver' # "none"
  <2>1. HeapHasRoom
    <3>1. (peak + 1) * Stack <= (peak' + 1) * Stack
            /\ (peak + 1) * Stack \in Nat /\ (peak' + 1) * Stack \in Nat
      <4>1. peak \in Nat /\ Stack \in Nat
        OBVIOUS
      <4> HIDE HeapAssumption DEF MemInv
      <4> QED
        BY <1>6, <4>1, OneStackMore
    <3>2. conns' + (peak' + 1) * Stack + RecStack + RecBuf + NetMax < HeapSize
      BY <1>7 DEF HeapHasRoom
    <3>3. PICK v \in Nat, w \in Nat :
            v = (peak + 1) * Stack /\ w = (peak' + 1) * Stack /\ v <= w
      BY <3>1
    <3>4. conns + v + RecStack + RecBuf + NetMax < HeapSize
      BY <1>1, <3>2, <3>3
    <3> QED
      BY <3>3, <3>4 DEF HeapHasRoom
  <2>2. Left > Stack /\ (receiver = "none" => heap >= RecStack)
    BY <2>1, RoomLeft
  <2> QED
    BY <1>1, <1>3, <2>1, <2>2
<1>8. CASE Left - 1 >= Stack
  <2>1. heap' = Left - 1 - Stack /\ handlers' = handlers + 1 /\ leaked' = leaked
    BY <1>8 DEF HttpAccept
  <2>2. Stacks' * Stack = p + Stack
    <3>1. Stacks' = Stacks + 1
      BY <1>1, <2>1 DEF Stacks
    <3> QED
      BY <1>2, <1>4, <3>1, StackArithmetic
  <2>3. heap' + conns' + (p + Stack) + recmem' + net' = HeapSize
    BY <1>1, <1>3, <1>5, <2>1
  <2>4. MemType' /\ handlers' + leaked' <= Sockets
    BY <1>1, <1>3, <1>6, <1>8, <2>1
  <2> QED
    BY <1>1, <1>3, <1>6, <1>7, <2>1, <2>2, <2>3, <2>4
<1>9. CASE ~(Left - 1 >= Stack)
  <2>1. heap' = Left - 1 /\ handlers' = handlers /\ leaked' = leaked + 1
    BY <1>9 DEF HttpAccept
  <2>2. Stacks' * Stack = p
    BY <1>1, <1>4, <2>1 DEF Stacks
  <2>3. heap' + conns' + p + recmem' + net' = HeapSize
    BY <1>1, <1>3, <1>5, <2>1
  <2>4. MemType' /\ handlers' + leaked' <= Sockets
    BY <1>1, <1>3, <1>6, <2>1
  <2> QED
    BY <1>1, <1>3, <1>6, <1>7, <1>9, <2>2, <2>3, <2>4
<1> QED
  BY <1>8, <1>9

LEMMA MemInductive ==
  ASSUME MemInv, [Next]_vars
  PROVE  MemInv'
<1> USE HeapAssumption DEF MemInv, MemType, HeapAccounted
<1>0. Stacks \in Nat /\ Stacks * Stack \in Nat
  BY StackArithmetic DEF Stacks
<1>1. CASE UNCHANGED mem
  BY <1>1 DEF Stacks, HeapHasRoom
<1>2. CASE Reset
  <2>1. 0 * Stack = 0
    OBVIOUS
  <2> QED
    BY <1>2, <2>1 DEF Reset, Stacks
<1>3. CASE HttpAccept
  BY <1>3, AcceptInductive
<1>4. CASE RecStart
  <2>1. PICK got \in {RecBuf, 0} :
          heap' = heap - got /\ recmem' = recmem + got /\ got <= heap
    BY <1>4 DEF RecStart
  <2>2. /\ receiver = "created" /\ receiver' = "ready"
        /\ UNCHANGED <<conns, handlers, deleted, leaked, net, peak>>
    BY <1>4 DEF RecStart
  <2>3. Stacks' = Stacks /\ (HeapHasRoom' <=> HeapHasRoom)
    BY <2>2 DEF Stacks, HeapHasRoom
  <2>4. MemType' /\ recmem' <= RecStack + RecBuf
    BY <2>1, <2>2
  <2>5. heap' + conns' + Stacks' * Stack + recmem' + net' = HeapSize
    BY <1>0, <2>1, <2>2, <2>3
  <2> QED
    BY <2>2, <2>3, <2>4, <2>5
<1>5. CASE HandlerClose
  <2>1. /\ handlers > 0 /\ handlers' = handlers - 1 /\ deleted' = deleted + 1
        /\ UNCHANGED <<heap, conns, leaked, receiver, recmem, net, peak>>
    BY <1>5 DEF HandlerClose
  <2>2. Stacks' = Stacks /\ (HeapHasRoom' <=> HeapHasRoom)
    BY <2>1 DEF Stacks, HeapHasRoom
  <2> QED
    BY <2>1, <2>2
<1>6. CASE IdleFrees
  <2>1. /\ deleted > 0 /\ deleted' = deleted - 1 /\ heap' = heap + Stack
        /\ UNCHANGED <<conns, handlers, leaked, receiver, recmem, net, peak>>
    BY <1>6 DEF IdleFrees
  <2>2. Stacks' = Stacks - 1 /\ Stacks > 0 /\ (HeapHasRoom' <=> HeapHasRoom)
    BY <2>1 DEF Stacks, HeapHasRoom
  <2>3. Stacks' * Stack = Stacks * Stack - Stack
    BY <1>0, <2>2, StackArithmetic
  <2>4. heap' + conns' + Stacks' * Stack + recmem' + net' = HeapSize
    BY <1>0, <2>1, <2>3
  <2> QED
    BY <1>0, <2>1, <2>2, <2>4
<1>7. CASE NetMemory
  <2>1. PICK n \in 0..NetMax : n - net <= heap /\ net' = n /\ heap' = heap - (n - net)
    BY <1>7 DEF NetMemory
  <2>2. UNCHANGED <<conns, handlers, deleted, leaked, receiver, recmem, peak>>
    BY <1>7 DEF NetMemory
  <2>3. Stacks' = Stacks /\ (HeapHasRoom' <=> HeapHasRoom)
    BY <2>2 DEF Stacks, HeapHasRoom
  <2>4. heap' + conns' + Stacks' * Stack + recmem' + net' = HeapSize
    BY <1>0, <2>1, <2>2, <2>3
  <2> QED
    BY <2>1, <2>2, <2>3, <2>4
<1> QED
  BY <1>1, <1>2, <1>3, <1>4, <1>5, <1>6, <1>7, HeapSteps

LEMMA MemInvAlways == Spec => []MemInv
<1>1. Init => MemInv
  <2>1. 0 * Stack = 0
    BY HeapAssumption
  <2> QED
    BY <2>1, HeapAssumption DEF Init, MemInv, MemType, HeapAccounted, Stacks
<1>2. MemInv /\ [Next]_vars => MemInv'
  BY MemInductive
<1> QED
  BY <1>1, <1>2, PTL DEF Spec

\* The cells are all that connections lose: for as many of them as the heap has
\* cells beside the receiver, the network's buffers and one stack more than were
\* ever held at once, every accepted socket has its handler, malloc succeeds and
\* there is a receiver.
THEOREM HeapLastsLong == Spec => []HeapLasts
<1>1. MemInv => HeapLasts
  BY RoomLeft DEF HeapLasts, MemInv, HeapAccounted
<1> QED
  BY <1>1, MemInvAlways, PTL

-----------------------------------------------------------------------------
(* The boot.                                                                *)

BootType == bpc \in 1..9 /\ ready \subseteq Range(BootOrder)
BootInv == BootType /\ BootPrefix

\* The eight calls of app_main by their places.
LEMMA BootPlaces ==
  /\ Len(BootOrder) = 8
  /\ BootOrder[1] = "Chassis_Init" /\ BootOrder[2] = "Gimbal_server_start"
  /\ BootOrder[3] = "FIRE_Init" /\ BootOrder[4] = "nvs_flash_init"
  /\ BootOrder[5] = "initialise_wifi" /\ BootOrder[6] = "dns_server_start"
  /\ BootOrder[7] = "xQueueCreate" /\ BootOrder[8] = "webserver_task"
  BY DEF BootOrder

\* A connection is accepted only once the web task exists.
LEMMA ConnsNeedWeb ==
  ASSUME MemType, [Next]_vars, conns' > 0
  PROVE  conns > 0 \/ "webserver_task" \in ready
<1>1. CASE UNCHANGED mem  BY <1>1
<1>2. CASE Reset          BY <1>2 DEF Reset
<1>3. CASE HttpAccept     BY <1>3 DEF HttpAccept, CanAccept, Running
<1>4. CASE RecStart \/ HandlerClose \/ IdleFrees \/ NetMemory
  BY <1>4 DEF RecStart, HandlerClose, IdleFrees, NetMemory
<1> QED
  BY <1>1, <1>2, <1>3, <1>4, HeapSteps

LEMMA BootInductive ==
  ASSUME BootInv, MemType, [Next]_vars
  PROVE  BootInv'
<1> USE BootInv, BootPlaces DEF BootInv, BootType, BootPrefix, Booted
<1>1. CASE Reset
  BY <1>1 DEF Reset
<1>2. CASE UNCHANGED boot
  BY <1>2, ConnsNeedWeb
<1>3. CASE BootStep
  <2>1. bpc \in 1..8 /\ bpc' = bpc + 1 /\ ready' = ready \cup {BootOrder[bpc]} /\ conns' = conns
    BY <1>3 DEF BootStep
  <2>2. BootOrder[bpc] \in Range(BootOrder)
    BY <2>1 DEF Range, BootOrder
  <2>3. BootType'
    BY <2>1, <2>2
  <2>4. ASSUME NEW k \in 1..8, k < bpc', BootOrder[k] \notin Ignored
        PROVE  BootOrder[k] \in ready'
    BY <2>1, <2>4
  <2>5. "webserver_task" \in ready' => bpc' > 8
    BY <2>1
  <2> QED
    BY <2>1, <2>3, <2>4, <2>5
<1>4. CASE BootSkip
  <2>1. bpc \in 1..8 /\ bpc' = bpc + 1 /\ ready' = ready /\ conns' = conns
    BY <1>4 DEF BootSkip
  <2>2. BootOrder[bpc] \in Ignored
    BY <1>4 DEF BootSkip
  <2> QED
    BY <2>1, <2>2
<1> QED
  BY <1>1, <1>2, <1>3, <1>4, BootSteps

LEMMA BootInvAlways == Spec => []BootInv
<1>1. Init => BootInv
  BY BootPlaces DEF Init, BootInv, BootType, BootPrefix, Booted
<1>2. BootInv /\ MemInv /\ [Next]_vars => BootInv'
  BY BootInductive DEF MemInv
<1> QED
  BY <1>1, <1>2, MemInvAlways, PTL DEF Spec

\* Nobody is served before motors, servos and queue are set up.
THEOREM SetUpBeforeUse == Spec => []ReadyBeforeUse
<1>1. BootInv => ReadyBeforeUse
  <2> SUFFICES ASSUME BootInv, conns > 0
               PROVE  {"Chassis_Init", "Gimbal_server_start", "FIRE_Init", "xQueueCreate"}
                        \subseteq ready
    BY DEF ReadyBeforeUse
  <2>1. bpc = 9
    BY BootPlaces DEF BootInv, BootType, BootPrefix, Booted
  <2>2. \A k \in 1..8 : BootOrder[k] \notin Ignored => BootOrder[k] \in ready
    BY <2>1, BootPlaces DEF BootInv, BootPrefix
  <2> QED
    BY <2>2, BootPlaces DEF Ignored
<1> QED
  BY <1>1, BootInvAlways, PTL

-----------------------------------------------------------------------------
(* The DNS task.                                                            *)

\* The buffer as a sequence.
LEMMA BufferIsSeq ==
  ASSUME NEW d \in [1..BufSize -> Byte]
  PROVE  d \in Seq(Byte) /\ Len(d) = BufSize
  BY BufferAssumption

\* The steps of the DNS task and of those who ask; all others leave its state
\* alone, start it or lose it.
DnsStarts ==
  /\ dpc' \in {dpc, "create"}
  /\ UNCHANGED <<sock, data, len, cur, verdict, inbox, waiting>>

LEMMA DnsSteps ==
  ASSUME [Next]_vars
  PROVE  \/ Reset
         \/ DnsStarts
         \/ \E p \in Phone, q \in Datagram : Ask(p, q)
         \/ \E p \in Phone : AskAgain(p) \/ GiveUp(p)
         \/ \E q \in Datagram : Noise(q)
         \/ DnsOpen \/ Recv \/ RecvError \/ Drop \/ DnsAgain
         \/ \E a \in BOOLEAN : Answer(a)
<1>1. CASE UNCHANGED vars
  BY <1>1 DEF DnsStarts
<1>2. CASE BootStep
  BY <1>2 DEF BootStep, DnsStarts
<1>3. CASE BootAbort \/ HttpPanic
  BY <1>3 DEF BootAbort, HttpPanic
<1>4. CASE BootSkip \/ HttpAccept \/ \E p \in Phone : Join(p) \/ Leave(p)
  BY <1>4 DEF BootSkip, HttpAccept, Join, Leave, DnsStarts
<1>8. CASE RecStart \/ HandlerClose \/ IdleFrees \/ NetMemory
  BY <1>8 DEF RecStart, HandlerClose, IdleFrees, NetMemory, DnsStarts
<1>5. CASE \E p \in Phone : PhoneAsks(p)
  BY <1>5 DEF PhoneAsks
<1>6. CASE OtherAsks
  BY <1>6 DEF OtherAsks
<1>7. CASE DnsStep
  BY <1>7 DEF DnsStep
<1> QED
  BY <1>1, <1>2, <1>3, <1>4, <1>5, <1>6, <1>7, <1>8 DEF Next

\* The string strstr sees ends inside a question that arrived whole, so the
\* filter's result is that of the question's own name.
LEMMA FilterExact ==
  ASSUME NEW d \in [1..BufSize -> Byte], NEW q \in Seq(Sent), Complete(q),
         \A i \in 1..Len(q) : d[i] = q[i]
  PROVE  Filter(d) = {HasWord(q)}
<1> USE BufferAssumption
<1>0. Len(d) = BufSize /\ Len(q) \in Nat /\ Len(q) <= BufSize
  BY BufferIsSeq DEF Complete
<1>1. PICK k \in HdrLen + 1..Len(q) : q[k] = "z"
  BY DEF Complete, Nuls
<1>2. d[k] = "z" /\ k \in Nuls(d)
  BY <1>0, <1>1 DEF Nuls
<1>3. ASSUME NEW i \in Int, InString(d, i)  PROVE i < k /\ InString(q, i)
  <2>1. i \in HdrLen + 1..BufSize /\ \A j \in HdrLen + 1..i : d[j] # "z"
    BY <1>0, <1>3 DEF InString
  <2>2. i < k
    BY <1>1, <1>2, <2>1
  <2> QED
    BY <1>0, <1>1, <2>1, <2>2 DEF InString
<1>4. ASSUME NEW i \in Int, InString(q, i)  PROVE InString(d, i)
  BY <1>0, <1>4 DEF InString
<1>5. HasWord(q) => HasWord(d)
  <2> SUFFICES ASSUME HasWord(q) PROVE HasWord(d)
    OBVIOUS
  <2>1. PICK i \in 1..Len(q) - 1 :
          i > HdrLen /\ InString(q, i + 1) /\ q[i] = "a" /\ q[i + 1] = "b"
    BY DEF HasWord
  <2>2. InString(d, i + 1) /\ d[i] = "a" /\ d[i + 1] = "b" /\ i \in 1..Len(d) - 1
    <3>1. i \in Int /\ i + 1 \in Int /\ i \in 1..Len(q) /\ i + 1 \in 1..Len(q)
      BY <1>0, <2>1
    <3>2. InString(d, i + 1)
      BY <1>4, <2>1, <3>1
    <3> QED
      BY <1>0, <2>1, <3>1, <3>2, SMTT(30)
  <2> QED
    BY <2>1, <2>2 DEF HasWord
<1>6. HasWord(d) => HasWord(q)
  <2> SUFFICES ASSUME HasWord(d) PROVE HasWord(q)
    OBVIOUS
  <2>1. PICK i \in 1..Len(d) - 1 :
          i > HdrLen /\ InString(d, i + 1) /\ d[i] = "a" /\ d[i + 1] = "b"
    BY DEF HasWord
  <2>2. i + 1 < k /\ InString(q, i + 1)
    <3>1. i + 1 \in Int
      BY <1>0
    <3> QED
      BY <1>3, <2>1, <3>1
  <2>3. i \in 1..Len(q) - 1 /\ q[i] = "a" /\ q[i + 1] = "b"
    <3>1. i \in 1..Len(q) /\ i + 1 \in 1..Len(q)
      BY <1>0, <1>1, <2>2
    <3> QED
      BY <1>0, <2>1, <3>1
  <2> QED
    BY <2>1, <2>2, <2>3 DEF HasWord
<1>7. ASSUME NEW i \in 1..Len(d), InString(d, i)  PROVE d[i] # "?"
  <2>1. i \in 1..Len(q)
    BY <1>0, <1>1, <1>3, <1>7
  <2>2. d[i] \in Sent
    BY <2>1
  <2> QED
    BY <2>2 DEF Sent
<1>8. CASE HasWord(q)
  BY <1>5, <1>8 DEF Filter
<1>9. CASE ~HasWord(q)
  <2>1. Filter(d) = {FALSE}
    <3>1. ~HasWord(d)
      BY <1>6, <1>9
    <3>2. ~(Nuls(d) = {} \/ \E i \in 1..Len(d) : InString(d, i) /\ d[i] = "?")
      BY <1>2, <1>7
    <3> QED
      BY <3>1, <3>2, Zenon DEF Filter
  <2>2. HasWord(q) = FALSE
    BY <1>9 DEF HasWord
  <2> QED
    BY <2>1, <2>2
<1> QED
  BY <1>8, <1>9

DnsInv == DnsTypeOK /\ BufferHoldsCurrent /\ FilterSeesOwnName /\ AnswerFits

\* Writing bytes into the buffer leaves a buffer.
LEMMA OverType ==
  ASSUME NEW d \in [1..BufSize -> Byte], NEW at \in Int, NEW s \in Seq(Byte)
  PROVE  Over(d, at, s) \in [1..BufSize -> Byte]
  BY DEF Over

LEMMA RecordType == Record \in Seq(Byte) /\ Len(Record) = AnswerLen
<1>1. Record \in [1..AnswerLen -> Byte]
  BY DEF Record, Byte, Sent
<1> QED
  BY <1>1, BufferAssumption

\* A datagram on its way to the mailbox.
LEMMA DeliverInductive ==
  ASSUME DnsInv, NEW p \in Phone \cup {Other}, NEW q \in Datagram, Deliver(p, q),
         waiting' \in [Phone -> Datagram \cup {NoQ}]
  PROVE  DnsInv'
<1> DEFINE pkt == [from |-> p, bytes |-> q]
<1>1. pkt \in Packet
  BY DEF Packet
<1>2. inbox \in Seq(Packet) /\ Len(inbox) <= Mbox
  BY DEF DnsInv, DnsTypeOK
<1>3. inbox' = inbox \/ (Len(inbox) < Mbox /\ inbox' = Append(inbox, pkt))
  BY DEF Deliver
<1>4. inbox' \in Seq(Packet) /\ Len(inbox') <= Mbox
  <2>1. CASE inbox' = inbox
    BY <1>2, <2>1
  <2>2. CASE Len(inbox) < Mbox /\ inbox' = Append(inbox, pkt)
    <3> HIDE DEF pkt
    <3>1. Append(inbox, pkt) \in Seq(Packet) /\ Len(Append(inbox, pkt)) = Len(inbox) + 1
      BY <1>1, <1>2
    <3> QED
      BY <1>2, <2>2, <3>1, OtherAssumption
  <2> QED
    BY <1>3, <2>1, <2>2
<1> QED
  BY <1>4 DEF Deliver, DnsInv, DnsTypeOK, BufferHoldsCurrent, FilterSeesOwnName, AnswerFits

\* recvfrom copies the next datagram to the beginning of the buffer.
LEMMA RecvInductive ==
  ASSUME DnsInv, Recv
  PROVE  DnsInv'
<1> DEFINE q == Head(inbox).bytes
           n == IF Len(q) < RecvMax THEN Len(q) ELSE RecvMax
           part == SubSeq(q, 1, n)
<1> USE BufferAssumption
<1>1. Head(inbox) \in Packet /\ Tail(inbox) \in Seq(Packet) /\ Len(Tail(inbox)) = Len(inbox) - 1
  BY DEF DnsInv, DnsTypeOK, Recv
<1>2. q \in Seq(Sent)
  BY <1>1, DatagramAssumption DEF Packet
<1>3. n \in 0..RecvMax /\ n <= Len(q) /\ (n = Len(q) \/ (n = RecvMax /\ RecvMax <= Len(q)))
  BY <1>2
<1>4. data' = Over(data, 0, part) /\ len' = n
  BY DEF Recv
<1>5. part \in Seq(Sent) /\ Len(part) = n /\ \A i \in 1..n : part[i] = q[i]
  <2> HIDE DEF q, n
  <2> QED
    BY <1>2, <1>3
<1>6. part \in Seq(Byte)
  <2> HIDE DEF part
  <2>1. Sent \subseteq Byte
    BY DEF Byte
  <2> QED
    BY <1>5, <2>1
<1>7. data' \in [1..BufSize -> Byte]
  <2> HIDE DEF part
  <2> QED
    BY <1>4, <1>6, OverType DEF DnsInv, DnsTypeOK
<1>8. \A i \in 1..n : data'[i] = q[i]
  <2> HIDE DEF part, q, n
  <2> QED
    BY <1>3, <1>4, <1>5 DEF Over
<1>9. cur' = Head(inbox) /\ verdict' = "none" /\ dpc' = "filter" /\ UNCHANGED <<sock, waiting>>
        /\ inbox' = Tail(inbox)
  BY DEF Recv
<1>10. DnsTypeOK'
  <2> HIDE DEF q, n, part
  <2>1. cur' # NoQ
    BY <1>1, <1>9, NoQAssumption
  <2>2. Len(inbox') <= Mbox
    BY <1>1, <1>9, OtherAssumption DEF DnsInv, DnsTypeOK
  <2> QED
    BY <1>1, <1>3, <1>4, <1>7, <1>9, <2>1, <2>2 DEF DnsInv, DnsTypeOK
<1>11. BufferHoldsCurrent'
  <2>1. cur'.bytes = q
    BY <1>9
  <2> HIDE DEF q, n, part
  <2>2. Len(q) \in Nat
    BY <1>2
  <2> QED
    BY <1>3, <1>4, <1>8, <1>9, <2>1, <2>2 DEF BufferHoldsCurrent
<1>12. FilterSeesOwnName' /\ AnswerFits'
  <2> HIDE DEF q, n, part
  <2> QED
    BY <1>3, <1>4, <1>9 DEF FilterSeesOwnName, AnswerFits
<1> QED
  BY <1>10, <1>11, <1>12 DEF DnsInv

\* When the filter looks at a question that arrived whole, its result is that
\* of the question.
LEMMA FilterOnCurrent ==
  ASSUME DnsInv, dpc = "filter", Complete(cur.bytes)
  PROVE  Filter(data) = {HasWord(cur.bytes)}
<1>1. cur \in Packet
  BY DEF DnsInv, DnsTypeOK
<1>2. cur.bytes \in Seq(Sent)
  BY <1>1, DatagramAssumption DEF Packet
<1>3. len = Len(cur.bytes)
  BY <1>2, BufferAssumption DEF DnsInv, BufferHoldsCurrent, Complete
<1>4. \A i \in 1..Len(cur.bytes) : data[i] = cur.bytes[i]
  BY <1>3 DEF DnsInv, BufferHoldsCurrent
<1> QED
  BY <1>2, <1>4, FilterExact DEF DnsInv, DnsTypeOK

LEMMA DropInductive ==
  ASSUME DnsInv, Drop
  PROVE  DnsInv'
<1>1. dpc = "filter" /\ TRUE \in Filter(data) /\ cur # NoQ
  BY DEF Drop, DnsInv, DnsTypeOK
<1>2. Complete(cur.bytes) => HasWord(cur.bytes)
  BY <1>1, FilterOnCurrent
<1>3. FilterSeesOwnName'
  BY <1>2 DEF Drop, FilterSeesOwnName
<1> QED
  BY <1>1, <1>3 DEF Drop, DnsInv, DnsTypeOK, BufferHoldsCurrent, AnswerFits

LEMMA AnswerInductive ==
  ASSUME DnsInv, NEW a \in BOOLEAN, Answer(a)
  PROVE  DnsInv'
<1> USE BufferAssumption
<1>1. dpc = "filter" /\ FALSE \in Filter(data) /\ cur # NoQ /\ len \in 0..RecvMax
  BY DEF Answer, DnsInv, DnsTypeOK, BufferHoldsCurrent
<1>2. Complete(cur.bytes) => ~HasWord(cur.bytes)
  BY <1>1, FilterOnCurrent
<1>3. len' = len + AnswerLen /\ verdict' = "answered" /\ dpc' = "delay"
        /\ UNCHANGED <<sock, cur, inbox>>
  BY DEF Answer
<1>4. data' \in [1..BufSize -> Byte]
  <2> DEFINE marked == [data EXCEPT ![FlagPos] = "q"]
  <2>1. marked \in [1..BufSize -> Byte]
    BY DEF DnsInv, DnsTypeOK, Byte
  <2>2. data' = Over(marked, len, Record)
    BY DEF Answer
  <2> HIDE DEF marked
  <2>3. len \in Int
    BY <1>1
  <2> QED
    BY <2>1, <2>2, <2>3, RecordType, OverType
<1>5. waiting' \in [Phone -> Datagram \cup {NoQ}]
  <2>1. waiting \in [Phone -> Datagram \cup {NoQ}]
    BY DEF DnsInv, DnsTypeOK
  <2> QED
    BY <2>1 DEF Answer
<1>6. FilterSeesOwnName'
  BY <1>2, <1>3 DEF FilterSeesOwnName
<1> QED
  BY <1>1, <1>3, <1>4, <1>5, <1>6 DEF DnsInv, DnsTypeOK, BufferHoldsCurrent, AnswerFits

LEMMA DnsInductive ==
  ASSUME DnsInv, [Next]_vars
  PROVE  DnsInv'
<1>0. /\ waiting \in [Phone -> Datagram \cup {NoQ}]
  BY DEF DnsInv, DnsTypeOK
<1>1. CASE Reset
  <2>1. Unwritten \in [1..BufSize -> Byte] /\ << >> \in Seq(Packet) /\ Len(<< >>) = 0
    BY DEF Unwritten, Byte
  <2> QED
    BY <1>1, <2>1, BufferAssumption, OtherAssumption
    DEF Reset, DnsInv, DnsTypeOK, BufferHoldsCurrent, FilterSeesOwnName, AnswerFits
<1>2. CASE DnsStarts
  BY <1>2 DEF DnsStarts, DnsInv, DnsTypeOK, BufferHoldsCurrent, FilterSeesOwnName, AnswerFits
<1>3. ASSUME NEW p \in Phone, NEW q \in Datagram, Ask(p, q)  PROVE DnsInv'
  BY <1>0, <1>3, DeliverInductive DEF Ask
<1>4. ASSUME NEW p \in Phone, AskAgain(p)  PROVE DnsInv'
  <2>1. waiting[p] \in Datagram /\ Deliver(p, waiting[p]) /\ waiting' = waiting
    BY <1>0, <1>4 DEF AskAgain
  <2> QED
    BY <1>0, <2>1, DeliverInductive
<1>5. ASSUME NEW p \in Phone, GiveUp(p)  PROVE DnsInv'
  BY <1>0, <1>5 DEF GiveUp, DnsInv, DnsTypeOK, BufferHoldsCurrent, FilterSeesOwnName, AnswerFits
<1>6. ASSUME NEW q \in Datagram, Noise(q)  PROVE DnsInv'
  BY <1>0, <1>6, DeliverInductive DEF Noise
<1>7. CASE DnsOpen
  BY <1>7 DEF DnsOpen, DnsInv, DnsTypeOK, BufferHoldsCurrent, FilterSeesOwnName, AnswerFits
<1>8. CASE RecvError
  BY <1>8, BufferAssumption
  DEF RecvError, DnsInv, DnsTypeOK, BufferHoldsCurrent, FilterSeesOwnName, AnswerFits
<1>9. CASE DnsAgain
  BY <1>9 DEF DnsAgain, DnsInv, DnsTypeOK, BufferHoldsCurrent, FilterSeesOwnName, AnswerFits
<1> QED
  BY <1>1, <1>2, <1>3, <1>4, <1>5, <1>6, <1>7, <1>8, <1>9, DnsSteps, RecvInductive,
     DropInductive, AnswerInductive

LEMMA DnsInvAlways == Spec => []DnsInv
<1>1. Init => DnsInv
  <2> SUFFICES ASSUME Init PROVE DnsInv
    OBVIOUS
  <2>1. Unwritten \in [1..BufSize -> Byte] /\ << >> \in Seq(Packet) /\ Len(<< >>) = 0
    BY DEF Unwritten, Byte
  <2>2. DnsTypeOK
    BY <2>1, OtherAssumption DEF Init, DnsInit, DnsTypeOK
  <2> QED
    BY <2>2, BufferAssumption
    DEF Init, DnsInit, DnsInv, BufferHoldsCurrent, FilterSeesOwnName, AnswerFits
<1>2. DnsInv /\ [Next]_vars => DnsInv'
  BY DnsInductive
<1> QED
  BY <1>1, <1>2, PTL DEF Spec

\* A question that arrives whole is filtered by its own name only, whatever the
\* requests and answers before it left in the buffer.
THEOREM FilterIgnoresLeftovers == Spec => []FilterSeesOwnName
  BY DnsInvAlways, PTL DEF DnsInv

\* The answer never runs over the end of the buffer.
THEOREM AnswersFit == Spec => []AnswerFits
  BY DnsInvAlways, PTL DEF DnsInv

\* The answer to a question that recvfrom took whole: byte for byte the question
\* with its flag set, then the record.
LEMMA AnswerBytes ==
  ASSUME DnsInv, NEW a \in BOOLEAN, Answer(a), Len(cur.bytes) \in HdrLen..RecvMax
  PROVE  SubSeq(data', 1, len') = Reply(cur.bytes)
<1> USE BufferAssumption
<1> DEFINE q == cur.bytes
           marked == [data EXCEPT ![FlagPos] = "q"]
           flagged == [q EXCEPT ![FlagPos] = "q"]
           total == len + AnswerLen
<1>1. dpc = "filter" /\ cur \in Packet
  BY DEF Answer, DnsInv, DnsTypeOK
<1>2. q \in Seq(Byte) /\ Len(q) \in Nat
  BY <1>1, DatagramAssumption DEF Packet, Byte
<1>3. len = Len(q) /\ \A i \in 1..len : data[i] = q[i]
  BY <1>1, <1>2 DEF DnsInv, BufferHoldsCurrent
<1>4. data' = Over(marked, len, Record) /\ len' = total
  BY DEF Answer
<1>5. data \in [1..BufSize -> Byte] /\ len \in 0..RecvMax /\ FlagPos \in 1..Len(q)
  BY <1>2, <1>3 DEF DnsInv, DnsTypeOK
<1> HIDE DEF q
<1>6. flagged \in Seq(Byte) /\ Len(flagged) = len
        /\ \A i \in 1..len : flagged[i] = IF i = FlagPos THEN "q" ELSE q[i]
  <2>1. "q" \in Byte
    BY DEF Byte
  <2> QED
    BY <1>2, <1>3, <1>5, <2>1, ExceptSeq
<1>7. \A i \in 1..len : marked[i] = flagged[i]
  BY <1>3, <1>5, <1>6
<1> HIDE DEF marked, flagged
<1>8. total \in 1..BufSize
  BY <1>5 DEF total
<1>9. \A i \in 1..total :
        data'[i] = IF i <= len THEN flagged[i] ELSE Record[i - len]
  <2> SUFFICES ASSUME NEW i \in 1..total
               PROVE  data'[i] = IF i <= len THEN flagged[i] ELSE Record[i - len]
    OBVIOUS
  <2>1. i \in 1..BufSize /\ (i \in len + 1..len + Len(Record) <=> ~(i <= len))
    BY <1>5, <1>8, RecordType DEF total
  <2>2. data'[i] = IF i \in len + 1..len + Len(Record) THEN Record[i - len] ELSE marked[i]
    BY <1>4, <2>1 DEF Over
  <2> QED
    BY <1>5, <1>7, <2>1, <2>2
<1>10. data' \in [1..BufSize -> Byte]
  BY AnswerInductive DEF DnsInv, DnsTypeOK
<1>11. LET s == SubSeq(data', 1, total)
       IN  s \in Seq(Byte) /\ Len(s) = total /\ \A i \in 1..total : s[i] = data'[i]
  <2>1. \A i \in 1..total : data'[i] \in Byte
    BY <1>8, <1>10
  <2>2. 1 \in Int /\ total \in Int /\ total >= 1
    BY <1>8
  <2> HIDE DEF total
  <2>3. /\ SubSeq(data', 1, total) \in Seq(Byte)
        /\ Len(SubSeq(data', 1, total)) = total
        /\ \A i \in 1..total : SubSeq(data', 1, total)[i] = data'[1 + i - 1]
    BY <2>1, <2>2, SubSeqProperties
  <2> QED
    BY <2>2, <2>3
<1>12. LET r == flagged \o Record
       IN  r \in Seq(Byte) /\ Len(r) = total
             /\ \A i \in 1..total : r[i] = IF i <= len THEN flagged[i] ELSE Record[i - len]
  BY <1>6, RecordType, ConcatProperties DEF total
<1>13. SubSeq(data', 1, total) = flagged \o Record
  <2> DEFINE s == SubSeq(data', 1, total)
             r == flagged \o Record
  <2>1. s \in Seq(Byte) /\ r \in Seq(Byte) /\ Len(s) = Len(r)
    BY <1>11, <1>12
  <2>2. \A i \in 1..Len(s) : s[i] = r[i]
    BY <1>9, <1>11, <1>12
  <2> HIDE DEF s, r
  <2>3. s = r
    BY <2>1, <2>2, SeqEqual
  <2> QED
    BY <2>3 DEF s, r
<1> QED
  BY <1>4, <1>13 DEF Reply, flagged, q

\* A phone gets back its own question, marked as answered, and the record,
\* whatever the buffer held before and however the mailbox fills meanwhile.
THEOREM AnswersEchoTheQuestion == Spec => []AnswerEchoes
<1>1. Init => AnswerEchoes
  BY DEF Init, DnsInit, AnswerEchoes
<1>2. DnsInv /\ AnswerEchoes /\ [Next]_vars => AnswerEchoes'
  <2> SUFFICES ASSUME DnsInv, AnswerEchoes, [Next]_vars PROVE AnswerEchoes'
    OBVIOUS
  <2>1. ASSUME UNCHANGED <<dpc, data, len, cur>>  PROVE AnswerEchoes'
    BY <2>1 DEF AnswerEchoes
  <2>2. ASSUME dpc' # "delay"  PROVE AnswerEchoes'
    BY <2>2 DEF AnswerEchoes
  <2>3. ASSUME NEW a \in BOOLEAN, Answer(a)  PROVE AnswerEchoes'
    <3>1. cur' = cur
      BY <2>3 DEF Answer
    <3> QED
      BY <2>3, <3>1, AnswerBytes DEF AnswerEchoes
  <2>4. ASSUME DnsStarts  PROVE AnswerEchoes'
    BY <2>4 DEF DnsStarts, AnswerEchoes
  <2>5. ASSUME NEW p \in Phone \cup {Other}, NEW q, Deliver(p, q)  PROVE AnswerEchoes'
    BY <2>1, <2>5 DEF Deliver
  <2> QED
    BY <2>1, <2>2, <2>3, <2>4, <2>5, DnsSteps
    DEF Reset, Ask, AskAgain, GiveUp, Noise, DnsOpen, Recv, RecvError, Drop, DnsAgain
<1> QED
  BY <1>1, <1>2, DnsInvAlways, PTL DEF Spec

\* Only phones are on the access point.
PhonesOnly == joined \subseteq Phone

\* Every variable of boot, access point, heap and DNS task keeps its type.
THEOREM TypeCorrect == Spec => []TypeOK
<1>1. PhonesOnly /\ [Next]_vars => PhonesOnly'
  <2> SUFFICES ASSUME PhonesOnly, [Next]_vars PROVE joined' \subseteq Phone
    BY DEF PhonesOnly
  <2> USE DEF PhonesOnly
  <2>1. CASE UNCHANGED vars
    BY <2>1 DEF vars
  <2>2. CASE BootStep \/ BootSkip \/ OtherAsks \/ DnsStep \/ HttpAccept
    BY <2>2 DEF BootStep, BootSkip, OtherAsks, DnsStep, HttpAccept
  <2>5. CASE RecStart \/ HandlerClose \/ IdleFrees \/ NetMemory
    BY <2>5 DEF RecStart, HandlerClose, IdleFrees, NetMemory
  <2>3. CASE BootAbort \/ HttpPanic
    BY <2>3 DEF BootAbort, HttpPanic, Reset
  <2>4. ASSUME NEW p \in Phone, Join(p) \/ Leave(p) \/ PhoneAsks(p)
        PROVE  joined' \subseteq Phone
    BY <2>4 DEF Join, Leave, PhoneAsks
  <2> QED
    BY <2>1, <2>2, <2>3, <2>4, <2>5 DEF Next
<1>2. Init => PhonesOnly
  BY DEF Init, PhonesOnly
<1>3. Spec => []PhonesOnly
  BY <1>1, <1>2, PTL DEF Spec
<1>4. PhonesOnly /\ MemInv /\ BootInv /\ DnsInv => TypeOK
  <2> SUFFICES ASSUME PhonesOnly, MemInv, BootInv, DnsInv PROVE TypeOK
    OBVIOUS
  <2>1. Stacks * Stack \in Nat
    BY HeapAssumption, StackArithmetic DEF MemInv, MemType, Stacks
  <2>2. heap \in 0..HeapSize /\ conns \in 0..HeapSize
    BY <2>1, HeapAssumption DEF MemInv, MemType, HeapAccounted
  <2>3. /\ handlers \in 0..Sockets /\ deleted \in Nat /\ leaked \in 0..Sockets
        /\ receiver \in {"none", "created", "ready"} /\ recmem \in 0..RecStack + RecBuf
        /\ net \in 0..NetMax /\ peak \in Nat
    BY HeapAssumption DEF MemInv, MemType, HeapAccounted
  <2> QED
    BY <2>2, <2>3, BootPlaces DEF TypeOK, BootInv, BootType, DnsInv, PhonesOnly
<1> QED
  BY <1>3, <1>4, MemInvAlways, BootInvAlways, DnsInvAlways, PTL
=============================================================================
