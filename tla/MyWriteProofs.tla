--------------------------- MODULE MyWriteProofs ---------------------------
(***************************************************************************)
(* Proofs about MyWrite, for messages of any length, any number of         *)
(* interruptions and any send buffer that holds a header.                  *)
(***************************************************************************)
EXTENDS MyWrite, SequenceTheorems, TLAPS

USE DEF task, vars

Byte == Nat \X Nat

\* The beginnings of a message.
LEMMA BytesType ==
  ASSUME NEW k \in Nat, NEW n \in Nat
  PROVE  /\ Bytes(k, n) \in Seq(Byte) /\ Len(Bytes(k, n)) = n
         /\ \A i \in 1..n : Bytes(k, n)[i] = <<k, i>>
<1>1. \A i \in 1..n : <<k, i>> \in Byte
  BY DEF Byte
<1>2. Bytes(k, n) \in [1..n -> Byte]
  BY <1>1 DEF Bytes
<1>3. Bytes(k, n) \in Seq(Byte)
  BY <1>2, SeqDef
<1>4. Len(Bytes(k, n)) = n
  BY <1>2, <1>3, LenProperties
<1> QED
  BY <1>3, <1>4 DEF Bytes

\* Two sequences one after the other.
LEMMA ConcatAt ==
  ASSUME NEW a \in Seq(Byte), NEW b \in Seq(Byte)
  PROVE  /\ a \o b \in Seq(Byte) /\ Len(a \o b) = Len(a) + Len(b)
         /\ \A i \in 1..Len(a) : (a \o b)[i] = a[i]
         /\ \A i \in 1..Len(b) : (a \o b)[Len(a) + i] = b[i]
  BY ConcatProperties

LEMMA ConcatAssoc ==
  ASSUME NEW a \in Seq(Byte), NEW b \in Seq(Byte), NEW c \in Seq(Byte)
  PROVE  (a \o b) \o c = a \o (b \o c)
  BY ConcatAssociative

LEMMA NoBytes == ASSUME NEW k \in Nat PROVE Bytes(k, 0) = << >>
<1>1. Bytes(k, 0) \in Seq(Byte) /\ Len(Bytes(k, 0)) = 0
  BY BytesType
<1> QED
  BY <1>1, EmptySeq

LEMMA LensType ==
  ASSUME get \in BOOLEAN
  PROVE  /\ Len(Lens) \in {1, 2} /\ (Len(Lens) = 2 <=> get)
         /\ Lens[1] \in Nat \ {0}
         /\ get => Lens[1] = HeaderLen /\ Lens[2] = BodyLen
         /\ ~get => Lens[1] = BadLen
         /\ Lens[1] <= SendBuf
  BY LengthAssumption, HeaderFits DEF Lens

LEMMA TextBytes ==
  ASSUME get \in BOOLEAN, NEW k \in 1..Len(Lens)
  PROVE  Lens[k] \in Nat \ {0} /\ Text(k) = Bytes(k, Lens[k])
<1>1. Lens[k] \in Nat \ {0}
  BY LensType, LengthAssumption
<1> QED
  BY <1>1 DEF Text, Bytes

\* One send: the bytes behind the ones a call has given away already.
LEMMA BytesExtend ==
  ASSUME get \in BOOLEAN, NEW k \in 1..Len(Lens), NEW p \in Nat, NEW n \in Nat,
         p + n <= Lens[k]
  PROVE  /\ SubSeq(Text(k), p + 1, p + n) \in Seq(Byte)
         /\ Bytes(k, p) \o SubSeq(Text(k), p + 1, p + n) = Bytes(k, p + n)
<1>1. k \in Nat /\ Lens[k] \in Nat /\ Text(k) = Bytes(k, Lens[k])
  BY TextBytes, LensType
<1> DEFINE s == SubSeq(Text(k), p + 1, p + n)
<1>2. \A i \in 1..Lens[k] : Text(k)[i] = <<k, i>> /\ Text(k)[i] \in Byte
  <2>1. \A i \in 1..Lens[k] : Text(k)[i] = <<k, i>>
    BY <1>1, BytesType, ZenonT(60)
  <2>2. \A i \in 1..Lens[k] : <<k, i>> \in Byte
    BY <1>1 DEF Byte
  <2> QED
    BY <2>1, <2>2
<1>3. \A i \in p + 1..p + n : Text(k)[i] \in Byte
  BY <1>1, <1>2
<1>4. /\ s \in Seq(Byte)
      /\ Len(s) = IF p + 1 <= p + n THEN (p + n) - (p + 1) + 1 ELSE 0
      /\ \A i \in 1..(p + n) - (p + 1) + 1 : s[i] = Text(k)[p + 1 + i - 1]
  BY <1>3, SubSeqProperties
<1>5. Len(s) = n /\ \A i \in 1..n : s[i] = <<k, p + i>>
  BY <1>1, <1>2, <1>4
<1> HIDE DEF s
<1>6. /\ Bytes(k, p) \in Seq(Byte) /\ Len(Bytes(k, p)) = p
      /\ \A i \in 1..p : Bytes(k, p)[i] = <<k, i>>
      /\ Bytes(k, p + n) \in Seq(Byte) /\ Len(Bytes(k, p + n)) = p + n
      /\ \A i \in 1..p + n : Bytes(k, p + n)[i] = <<k, i>>
  <2>1. p + n \in Nat
    OBVIOUS
  <2> QED
    BY <1>1, <2>1, BytesType
<1> DEFINE b == Bytes(k, p)
           t == Bytes(k, p + n)
<1>7. /\ b \o s \in Seq(Byte) /\ Len(b \o s) = p + n
      /\ \A i \in 1..p : (b \o s)[i] = b[i]
      /\ \A i \in 1..n : (b \o s)[p + i] = s[i]
  <2>1. s \in Seq(Byte) /\ Len(s) = n /\ b \in Seq(Byte) /\ Len(b) = p
    BY <1>4, <1>5, <1>6
  <2> HIDE DEF b
  <2> QED
    BY <2>1, ConcatAt, Zenon
<1>8. /\ \A i \in 1..p : b[i] = <<k, i>>
      /\ t \in Seq(Byte) /\ Len(t) = p + n /\ \A i \in 1..p + n : t[i] = <<k, i>>
  BY <1>6
<1> DEFINE c == b \o s
<1> HIDE DEF b, t, c
<1>9. ASSUME NEW i \in 1..p + n PROVE c[i] = t[i]
  <2>1. CASE i <= p
    <3>1. i \in 1..p
      BY <2>1
    <3>2. c[i] = b[i] /\ b[i] = <<k, i>>
      BY <1>7, <1>8, <3>1 DEF c
    <3> QED
      BY <1>8, <3>2
  <2>2. CASE i > p
    <3>1. i - p \in 1..n /\ p + (i - p) = i
      BY <2>2
    <3>2. c[p + (i - p)] = s[i - p] /\ s[i - p] = <<k, p + (i - p)>>
      BY <1>5, <1>7, <3>1 DEF c
    <3> QED
      BY <1>8, <3>1, <3>2
  <2> QED
    BY <2>1, <2>2
<1>10. c \in Seq(Byte) /\ Len(c) = Len(t)
  BY <1>7, <1>8 DEF c
<1>11. c = t
  <2>1. \A i \in 1..Len(c) : c[i] = t[i]
    BY <1>8, <1>9, <1>10
  <2> QED
    BY <1>8, <1>10, <2>1, SeqEqual
<1> QED
  BY <1>4, <1>11 DEF s, b, c, t

-----------------------------------------------------------------------------
(* What TCP has been given.                                                 *)

\* The two parts of the wire.
LEMMA Parts ==
  ASSUME NEW m \in Nat, NEW n \in Nat
  PROVE  LET w == Bytes(1, m) \o Bytes(2, n)
         IN  /\ w \in Seq(Byte) /\ Len(w) = m + n
             /\ \A i \in 1..m : w[i] = <<1, i>>
             /\ \A i \in 1..n : w[m + i] = <<2, i>>
<1> DEFINE a == Bytes(1, m)
           b == Bytes(2, n)
<1>1. a \in Seq(Byte) /\ Len(a) = m /\ \A i \in 1..m : a[i] = <<1, i>>
  BY BytesType
<1>2. b \in Seq(Byte) /\ Len(b) = n /\ \A i \in 1..n : b[i] = <<2, i>>
  BY BytesType
<1> HIDE DEF a, b
<1>3. /\ a \o b \in Seq(Byte) /\ Len(a \o b) = m + n
      /\ \A i \in 1..m : (a \o b)[i] = a[i]
      /\ \A i \in 1..n : (a \o b)[m + i] = b[i]
  BY <1>1, <1>2, ConcatAt, Zenon
<1>4. /\ a \o b \in Seq(Byte) /\ Len(a \o b) = m + n
      /\ \A i \in 1..m : (a \o b)[i] = <<1, i>>
      /\ \A i \in 1..n : (a \o b)[m + i] = <<2, i>>
  BY <1>1, <1>2, <1>3
<1> QED
  BY <1>4 DEF a, b

LEMMA WireParts ==
  ASSUME NEW m \in Nat, NEW n \in Nat, wire = Bytes(1, m) \o Bytes(2, n)
  PROVE  /\ wire \in Seq(Byte) /\ Len(wire) = m + n
         /\ \A i \in 1..m : wire[i] = <<1, i>>
         /\ \A i \in 1..n : wire[m + i] = <<2, i>>
  BY Parts

LEMMA InitHolds == Init => TypeOK /\ WireAccount
<1> SUFFICES ASSUME Init PROVE TypeOK /\ WireAccount
  OBVIOUS
<1>1. get \in BOOLEAN /\ wire = << >> /\ Len(wire) = 0
  BY DEF Init
<1>2. TypeOK
  <2>1. /\ call = 1 /\ ptr = 0 /\ bytes_left = Lens[1] /\ res = << >> /\ acked = 0
        /\ link = "up" /\ intr = MaxIntr /\ closed = FALSE /\ memory \in {"enough", "short"}
    BY DEF Init
  <2>2. Len(Lens) \in {1, 2} /\ Lens[1] \in {HeaderLen, BadLen}
    BY <1>1, LensType
  <2>3. res \in Seq({0, -1}) /\ Len(res) = 0
    BY <2>1
  <2>4. Room >= 0 /\ acked \in 0..Len(wire)
    BY <1>1, <2>1, LengthAssumption DEF Room
  <2>5. call \in 1..Len(Lens) + 1 /\ ptr + bytes_left = Lens[call]
    BY <1>1, <2>1, <2>2, LengthAssumption
  <2>6. /\ ptr \in 0..HeaderLen + BodyLen + BadLen
        /\ bytes_left \in 0..HeaderLen + BodyLen + BadLen /\ intr \in 0..MaxIntr
    BY <2>1, <2>2, LengthAssumption
  <2>7. link \in {"up", "silent", "reset"} /\ Len(res) = call - 1
    BY <2>1, <2>3
  <2>8. closed \in BOOLEAN
    BY <2>1, Zenon
  <2> QED
    BY <1>1, <2>1, <2>3, <2>4, <2>5, <2>6, <2>7, <2>8 DEF TypeOK
<1>3. wire = Bytes(1, 0) \o Bytes(2, 0)
  BY <1>1, NoBytes
<1>4. Account(0, 0)
  BY <1>3 DEF Init, Account
<1>5. 0 \in 0..Lens[1] /\ 0 \in 0..IF get THEN BodyLen ELSE 0
  BY <1>1, LensType, LengthAssumption
<1> QED
  BY <1>2, <1>4, <1>5 DEF WireAccount

\* What both halves of the invariant say of the call in progress.
LEMMA Facts ==
  ASSUME TypeOK
  PROVE  /\ get \in BOOLEAN /\ Len(Lens) \in {1, 2} /\ (Len(Lens) = 2 <=> get)
         /\ Lens[1] \in Nat \ {0} /\ Lens[1] <= SendBuf
         /\ \A k \in 1..Len(Lens) : Lens[k] \in Nat \ {0} /\ Lens[k] <= HeaderLen + BodyLen + BadLen
         /\ call \in 1..Len(Lens) + 1 /\ ptr \in Nat /\ bytes_left \in Nat
         /\ HeaderLen + BodyLen + BadLen \in Nat
<1>1. get \in BOOLEAN
  BY DEF TypeOK
<1>2. /\ Len(Lens) \in {1, 2} /\ (Len(Lens) = 2 <=> get)
      /\ Lens[1] \in Nat \ {0} /\ Lens[1] <= SendBuf
      /\ get => Lens[1] = HeaderLen /\ Lens[2] = BodyLen
      /\ ~get => Lens[1] = BadLen
  BY <1>1, LensType
<1>3. \A k \in 1..Len(Lens) : Lens[k] \in Nat \ {0} /\ Lens[k] <= HeaderLen + BodyLen + BadLen
  BY <1>1, <1>2, LengthAssumption
<1>4. HeaderLen + BodyLen + BadLen \in Nat
  BY LengthAssumption
<1>5. call \in 1..Len(Lens) + 1 /\ ptr \in Nat /\ bytes_left \in Nat
  BY <1>4 DEF TypeOK
<1> QED
  BY <1>1, <1>2, <1>3, <1>4, <1>5

\* send takes d bytes: they follow the ones the call has given away.
LEMMA SendHolds ==
  ASSUME TypeOK, WireAccount, NEW d \in 1..bytes_left, Send(d)
  PROVE  TypeOK' /\ WireAccount'
<1>1. PICK m \in 0..Lens[1], n \in 0..IF get THEN BodyLen ELSE 0 : Account(m, n)
  BY DEF WireAccount
<1>2. /\ get \in BOOLEAN /\ Len(Lens) \in {1, 2} /\ (Len(Lens) = 2 <=> get)
      /\ Lens[1] \in Nat \ {0}
      /\ \A k \in 1..Len(Lens) : Lens[k] \in Nat \ {0} /\ Lens[k] <= HeaderLen + BodyLen + BadLen
      /\ ptr \in Nat /\ bytes_left \in Nat /\ HeaderLen + BodyLen + BadLen \in Nat
  BY Facts
<1>3. m \in Nat /\ n \in Nat /\ wire = Bytes(1, m) \o Bytes(2, n)
  BY <1>1, <1>2, LengthAssumption DEF Account
<1>4. wire \in Seq(Byte) /\ Len(wire) = m + n
  BY <1>3, WireParts
<1>5. /\ call \in 1..Len(Lens) /\ link # "reset" /\ d <= bytes_left /\ d <= Room
      /\ ptr + bytes_left = Lens[call] /\ d \in Nat
      /\ ptr' = ptr + d /\ bytes_left' = bytes_left - d
      /\ UNCHANGED <<get, memory, call, res, acked, link, intr, closed>>
  BY <1>2 DEF Send, InSend, Writing, TypeOK
<1> DEFINE s == SubSeq(Text(call), ptr + 1, ptr + d)
<1>6. ptr + d <= Lens[call] /\ wire' = wire \o s
  BY <1>2, <1>5 DEF Send
<1>7. s \in Seq(Byte) /\ Bytes(call, ptr) \o s = Bytes(call, ptr + d)
  BY <1>2, <1>5, <1>6, BytesExtend
<1> HIDE DEF s
<1>8. Lens' = Lens
  BY <1>5 DEF Lens
<1>9. PICK e \in Nat : e = ptr + d
  BY <1>2, <1>5
<1>10. \E m1 \in 0..Lens[1], n1 \in 0..IF get THEN BodyLen ELSE 0 : Account(m1, n1)'
  <2>1. CASE call = 1
    <3>1. m = ptr /\ n = 0
      BY <1>1, <2>1 DEF Account
    <3>2. e \in 0..Lens[1] /\ 0 \in 0..IF get THEN BodyLen ELSE 0
      BY <1>2, <1>6, <1>9, <2>1, LengthAssumption
    <3>3. Bytes(1, ptr) \in Seq(Byte) /\ Bytes(1, e) \in Seq(Byte) /\ Bytes(2, 0) = << >>
      BY <1>2, <1>9, BytesType, NoBytes
    <3>4. wire = Bytes(1, ptr)
      BY <1>3, <3>1, <3>3, ConcatEmptySeq
    <3>5. wire' = Bytes(1, e)
      BY <1>6, <1>7, <1>9, <2>1, <3>4
    <3>6. wire' = Bytes(1, e) \o Bytes(2, 0)
      BY <3>3, <3>5, ConcatEmptySeq
    <3>7. Account(e, 0)'
      BY <1>5, <1>9, <2>1, <3>6 DEF Account
    <3> QED
      BY <3>2, <3>7
  <2>2. CASE call = 2
    <3>1. get /\ n = ptr /\ Lens[2] = BodyLen
      BY <1>1, <1>2, <1>5, <2>2, LensType DEF Account
    <3>2. e \in 0..IF get THEN BodyLen ELSE 0
      BY <1>2, <1>6, <1>9, <2>2, <3>1
    <3>3. wire' = (Bytes(1, m) \o Bytes(2, ptr)) \o s
      BY <1>3, <1>6, <3>1
    <3>4. Bytes(2, ptr) \o s = Bytes(2, e)
      BY <1>7, <1>9, <2>2
    <3>5. wire' = Bytes(1, m) \o Bytes(2, e)
      <4> DEFINE a == Bytes(1, m)
                 b == Bytes(2, ptr)
      <4>1. a \in Seq(Byte) /\ b \in Seq(Byte) /\ wire' = (a \o b) \o s /\ b \o s = Bytes(2, e)
        BY <1>2, <1>3, <3>3, <3>4, BytesType
      <4> HIDE DEF a, b
      <4>2. (a \o b) \o s = a \o (b \o s)
        BY <1>7, <4>1, ConcatAssoc, Zenon
      <4> QED
        BY <4>1, <4>2 DEF a
    <3>6. m < Lens[1] => memory = "short" /\ res[1] = -1
      BY <1>1, <1>5, <2>2 DEF Account
    <3>7. res[1] = 0 => m = Lens[1]
      BY <1>1, <2>2 DEF Account
    <3>8. Account(m, e)'
      BY <1>5, <1>8, <1>9, <2>2, <3>5, <3>6, <3>7 DEF Account
    <3> QED
      BY <3>2, <3>8
  <2> QED
    BY <1>2, <1>5, <2>1, <2>2
<1>11. WireAccount'
  BY <1>5, <1>8, <1>10 DEF WireAccount
<1>12. Len(wire') = Len(wire) + Len(s) /\ Len(s) \in Nat
  <2>1. Len(wire \o s) = Len(wire) + Len(s)
    BY <1>4, <1>7, ConcatAt
  <2>2. Len(s) \in Nat
    BY <1>7, LenProperties
  <2> QED
    BY <1>6, <2>1, <2>2
<1>13. Len(s) = d
  <2>1. /\ Bytes(call, ptr) \in Seq(Byte) /\ Len(Bytes(call, ptr)) = ptr
        /\ Len(Bytes(call, ptr + d)) = ptr + d
    <3>1. call \in Nat /\ ptr + d \in Nat
      BY <1>2, <1>5
    <3> QED
      BY <1>2, <3>1, BytesType
  <2>2. Len(Bytes(call, ptr) \o s) = Len(Bytes(call, ptr)) + Len(s)
    BY <1>7, <2>1, ConcatAt
  <2> QED
    BY <1>2, <1>5, <1>7, <1>12, <2>1, <2>2
<1>14. acked \in Nat /\ acked <= Len(wire) /\ SendBuf \in Nat
  BY <1>3, <1>4, LengthAssumption DEF TypeOK
<1>15. acked' \in 0..Len(wire') /\ Room' >= 0
  BY <1>3, <1>4, <1>5, <1>12, <1>13, <1>14, SMTT(30) DEF Room
<1>16. /\ ptr' \in 0..HeaderLen + BodyLen + BadLen /\ bytes_left' \in 0..HeaderLen + BodyLen + BadLen
       /\ ptr' + bytes_left' = Lens[call]
  BY <1>2, <1>5, <1>6
<1>17. TypeOK'
  <2>1. /\ get' \in BOOLEAN /\ closed' \in BOOLEAN
    BY <1>5, Zenon DEF TypeOK
  <2>2. /\ memory' \in {"enough", "short"} /\ call' \in 1..Len(Lens') + 1
        /\ res' \in Seq({0, -1}) /\ Len(res') = call' - 1
        /\ link' \in {"up", "silent", "reset"} /\ intr' \in 0..MaxIntr
    BY <1>5, <1>8 DEF TypeOK
  <2>3. ptr' + bytes_left' = Lens'[call']
    BY <1>5, <1>8, <1>16
  <2> QED
    BY <1>15, <1>16, <2>1, <2>2, <2>3 DEF TypeOK
<1> QED
  BY <1>11, <1>17

\* A call returns.  With memory, a message that broke off was cut by a reset:
\* a silent phone leaves room for all of the first one.
LEMMA ReturnHolds ==
  ASSUME TypeOK, WireAccount, NEW r \in {0, -1}, Writing, Return(r),
         r = 0 => bytes_left = 0, r = -1 => bytes_left > 0 /\ Fails
  PROVE  TypeOK' /\ WireAccount'
<1>1. PICK m \in 0..Lens[1], n \in 0..IF get THEN BodyLen ELSE 0 : Account(m, n)
  BY DEF WireAccount
<1>2. /\ get \in BOOLEAN /\ Len(Lens) \in {1, 2} /\ (Len(Lens) = 2 <=> get)
      /\ Lens[1] \in Nat \ {0} /\ Lens[1] <= SendBuf
      /\ \A k \in 1..Len(Lens) : Lens[k] \in Nat \ {0} /\ Lens[k] <= HeaderLen + BodyLen + BadLen
      /\ call \in 1..Len(Lens) + 1
      /\ ptr \in Nat /\ bytes_left \in Nat /\ HeaderLen + BodyLen + BadLen \in Nat
  BY Facts
<1>3. m \in Nat /\ n \in Nat /\ wire = Bytes(1, m) \o Bytes(2, n)
  BY <1>1, <1>2, LengthAssumption DEF Account
<1>4. Len(wire) = m + n
  BY <1>3, WireParts
<1>5. /\ call \in 1..Len(Lens) /\ ptr + bytes_left = Lens[call]
      /\ res \in Seq({0, -1}) /\ Len(res) = call - 1 /\ acked \in 0..Len(wire)
  BY <1>2 DEF Writing, TypeOK
<1>6. /\ res' = Append(res, r) /\ call' = call + 1 /\ ptr' = 0
      /\ bytes_left' = IF call < Len(Lens) THEN Lens[call + 1] ELSE 0
      /\ UNCHANGED <<get, memory, wire, acked, link, intr, closed>>
  BY DEF Return
<1>7. /\ res' \in Seq({0, -1}) /\ Len(res') = call /\ res'[call] = r
      /\ \A k \in 1..call - 1 : res'[k] = res[k]
  BY <1>2, <1>5, <1>6, AppendProperties, SMTT(30)
<1>8. Lens' = Lens
  BY <1>6 DEF Lens
<1>9. Account(m, n)'
  <2>1. CASE call = 1
    <3>1. m = ptr /\ n = 0
      BY <1>1, <2>1 DEF Account
    <3>2. r = 0 => m = Lens[1]
      BY <1>2, <1>5, <2>1, <3>1
    <3>3. m < Lens[1] => (memory = "short" /\ r = -1) \/ link = "reset"
      <4> SUFFICES ASSUME m < Lens[1], memory # "short", link # "reset" PROVE FALSE
        BY <1>2, <1>3, <3>2
      <4>1. r = -1
        BY <1>2, <3>2
      <4>2. Room = 0
        BY <4>1 DEF Fails
      <4> QED
        BY <1>2, <1>3, <1>4, <1>5, <3>1, <4>2, LengthAssumption, SMTT(30) DEF Room
    <3>4. res'[1] = r /\ call' = 2 /\ ptr' = 0
      BY <1>6, <1>7, <2>1
    <3> QED
      BY <1>3, <1>6, <1>8, <3>1, <3>2, <3>3, <3>4 DEF Account
  <2>2. CASE call = 2
    <3>1. get /\ n = ptr
      BY <1>1, <1>2, <1>5, <2>2, SMTT(30) DEF Account
    <3>2. r = 0 => n = Lens[2]
      BY <1>2, <1>5, <2>2, <3>1
    <3>3. res'[1] = res[1] /\ res'[2] = r /\ call' = 3
      BY <1>6, <1>7, <2>2
    <3>4. /\ res[1] = 0 => m = Lens[1]
          /\ m < Lens[1] => (memory = "short" /\ res[1] = -1) \/ (link = "reset" /\ n = 0)
      BY <1>1, <2>2 DEF Account
    <3> QED
      BY <1>3, <1>6, <1>8, <3>2, <3>3, <3>4 DEF Account
  <2> QED
    BY <1>2, <1>5, <2>1, <2>2, SMTT(30)
<1>10. WireAccount'
  BY <1>6, <1>8, <1>9 DEF WireAccount
<1>11. TypeOK'
  <2>1. get' \in BOOLEAN /\ closed' \in BOOLEAN
    BY <1>6, Zenon DEF TypeOK
  <2>2. /\ memory' \in {"enough", "short"} /\ call' \in 1..Len(Lens') + 1
        /\ res' \in Seq({0, -1}) /\ Len(res') = call' - 1
        /\ link' \in {"up", "silent", "reset"} /\ intr' \in 0..MaxIntr
        /\ acked' \in 0..Len(wire')
    BY <1>2, <1>5, <1>6, <1>7, <1>8 DEF TypeOK
  <2>3. Room' >= 0
    BY <1>6 DEF Room, TypeOK
  <2>4. call' <= Len(Lens') => ptr' + bytes_left' = Lens'[call']
    BY <1>2, <1>5, <1>6, <1>8
  <2>5. /\ ptr' \in 0..HeaderLen + BodyLen + BadLen
        /\ bytes_left' \in 0..HeaderLen + BodyLen + BadLen
    BY <1>2, <1>5, <1>6, SMTT(30)
  <2> QED
    BY <2>1, <2>2, <2>3, <2>4, <2>5 DEF TypeOK, Writing
<1> QED
  BY <1>10, <1>11

\* TCP, the phone, an interruption and the close leave the loop alone; a reset
\* connection stays reset.
LEMMA OtherHolds ==
  ASSUME TypeOK, WireAccount, UNCHANGED <<get, memory, task, wire>>,
         acked' \in 0..Len(wire), acked' >= acked, intr' \in 0..MaxIntr, closed' \in BOOLEAN,
         link' \in {"up", "silent", "reset"}, link = "reset" => link' = "reset"
  PROVE  TypeOK' /\ WireAccount'
<1>1. PICK m \in 0..Lens[1], n \in 0..IF get THEN BodyLen ELSE 0 : Account(m, n)
  BY DEF WireAccount
<1>2. /\ Lens' = Lens
      /\ UNCHANGED <<get, memory, call, ptr, bytes_left, res, wire>>
  BY DEF Lens
<1>3. Account(m, n)'
  BY <1>1, <1>2 DEF Account
<1>4. WireAccount'
  BY <1>2, <1>3 DEF WireAccount
<1>5. Room' >= 0
  <2>1. /\ Len(wire) \in Nat /\ acked \in Nat /\ acked' \in Nat /\ SendBuf \in Nat
        /\ Room >= 0
    <3>1. Lens[1] \in Nat
      BY Facts
    <3>2. m \in Nat /\ n \in Nat /\ wire = Bytes(1, m) \o Bytes(2, n)
      BY <1>1, <3>1, LengthAssumption DEF Account
    <3>3. Len(wire) = m + n
      BY <3>2, WireParts
    <3> QED
      BY <3>2, <3>3, LengthAssumption DEF TypeOK
  <2> QED
    BY <1>2, <2>1 DEF Room
<1>6. get' \in BOOLEAN
  BY <1>2, Zenon DEF TypeOK
<1>7. TypeOK'
  BY <1>2, <1>5, <1>6 DEF TypeOK, Writing
<1> QED
  BY <1>4, <1>7

LEMMA StepHolds == TypeOK /\ WireAccount /\ [Next]_vars => TypeOK' /\ WireAccount'
<1> SUFFICES ASSUME TypeOK, WireAccount, [Next]_vars PROVE TypeOK' /\ WireAccount'
  OBVIOUS
<1>1. /\ acked \in 0..Len(wire) /\ intr \in 0..MaxIntr /\ link \in {"up", "silent", "reset"}
      /\ Len(wire) \in Nat /\ MaxIntr \in Nat /\ acked \in Nat
  <2>1. PICK m \in 0..Lens[1], n \in 0..IF get THEN BodyLen ELSE 0 : Account(m, n)
    BY DEF WireAccount
  <2>2. m \in Nat /\ n \in Nat /\ wire = Bytes(1, m) \o Bytes(2, n)
    BY <2>1, Facts, LengthAssumption DEF Account
  <2>3. Len(wire) = m + n
    BY <2>2, WireParts
  <2> QED
    BY <2>2, <2>3, LengthAssumption DEF TypeOK
<1>2. closed \in BOOLEAN
  BY Zenon DEF TypeOK
<1>3. CASE \E d \in 1..bytes_left : Send(d)
  BY <1>3, SendHolds
<1>4. CASE SendInterrupted
  <2>1. intr' \in 0..MaxIntr /\ UNCHANGED <<acked, link>>
    BY <1>1, <1>4 DEF SendInterrupted
  <2>2. closed' \in BOOLEAN
    BY <1>2, <1>4, Zenon DEF SendInterrupted
  <2> QED
    BY <1>1, <1>4, <2>1, <2>2, OtherHolds DEF SendInterrupted
<1>5. CASE SendFail
  <2>1. Writing /\ Return(-1) /\ bytes_left > 0 /\ Fails
    BY <1>5 DEF SendFail, InSend
  <2> QED
    BY <2>1, ReturnHolds
<1>6. CASE WriteDone
  <2>1. Writing /\ Return(0) /\ bytes_left = 0
    BY <1>6 DEF WriteDone
  <2> QED
    BY <2>1, ReturnHolds
<1>7. CASE Close
  <2>1. closed' \in BOOLEAN
    BY <1>7, Zenon DEF Close
  <2>2. UNCHANGED <<get, memory, task, wire, acked, link, intr>>
    BY <1>7 DEF Close
  <2> QED
    BY <1>1, <2>1, <2>2, OtherHolds
<1>8. CASE Ack
  <2>1. closed' \in BOOLEAN
    BY <1>2, <1>8, Zenon DEF Ack
  <2>2. acked' \in 0..Len(wire) /\ acked' >= acked
    BY <1>1, <1>8 DEF Ack
  <2> QED
    BY <1>1, <1>8, <2>1, <2>2, OtherHolds DEF Ack
<1>9. CASE LinkChange
  <2>1. closed' \in BOOLEAN
    BY <1>2, <1>9, Zenon DEF LinkChange
  <2>2. link' \in {"up", "silent", "reset"} /\ link # "reset"
    BY <1>1, <1>9 DEF LinkChange
  <2> QED
    BY <1>1, <1>9, <2>1, <2>2, OtherHolds DEF LinkChange
<1>10. CASE UNCHANGED vars
  <2>1. closed' \in BOOLEAN
    BY <1>2, <1>10, Zenon
  <2>2. UNCHANGED <<get, memory, task, wire, acked, link, intr>>
    BY <1>10
  <2> QED
    BY <1>1, <2>1, <2>2, OtherHolds
<1> QED
  BY <1>3, <1>4, <1>5, <1>6, <1>7, <1>8, <1>9, <1>10 DEF Next, Handler

\* ptr and bytes_left of my_write stay inside the message the call was given,
\* and TCP never holds more than its buffer.
THEOREM TypeCorrect == Spec => []TypeOK
  BY InitHolds, StepHolds, PTL DEF Spec

LEMMA AccountAlways == Spec => [](TypeOK /\ WireAccount)
  BY InitHolds, StepHolds, PTL DEF Spec

-----------------------------------------------------------------------------
(* The answer on the wire.                                                  *)

LEMMA PrefixByBytes ==
  ASSUME NEW s \in Seq(Byte), NEW t \in Seq(Byte), Len(s) <= Len(t),
         \A i \in 1..Len(s) : s[i] = t[i]
  PROVE  IsPrefix(s, t)
<1>1. Len(s) \in Nat /\ Len(t) \in Nat
  BY LenProperties
<1>2. \A i \in 1..Len(s) : s[i] \in Byte /\ t[i] \in Byte
  BY <1>1, ElementOfSeq
<1>3. /\ SubSeq(s, 1, Len(s)) \in Seq(Byte)
      /\ Len(SubSeq(s, 1, Len(s))) = IF 1 <= Len(s) THEN Len(s) - 1 + 1 ELSE 0
      /\ \A i \in 1..Len(s) - 1 + 1 : SubSeq(s, 1, Len(s))[i] = s[1 + i - 1]
  BY <1>1, <1>2, SubSeqProperties
<1>4. /\ SubSeq(t, 1, Len(s)) \in Seq(Byte)
      /\ Len(SubSeq(t, 1, Len(s))) = IF 1 <= Len(s) THEN Len(s) - 1 + 1 ELSE 0
      /\ \A i \in 1..Len(s) - 1 + 1 : SubSeq(t, 1, Len(s))[i] = t[1 + i - 1]
  BY <1>1, <1>2, SubSeqProperties
<1> DEFINE a == SubSeq(s, 1, Len(s))
           b == SubSeq(t, 1, Len(s))
<1>5. /\ a \in Seq(Byte) /\ Len(a) = Len(s) /\ \A i \in 1..Len(s) : a[i] = s[i]
      /\ b \in Seq(Byte) /\ Len(b) = Len(s) /\ \A i \in 1..Len(s) : b[i] = t[i]
  BY <1>1, <1>3, <1>4
<1> HIDE DEF a, b
<1>6. Len(a) = Len(b) /\ \A i \in 1..Len(a) : a[i] = b[i]
  BY <1>5
<1>7. a = b
  BY <1>5, <1>6, SeqEqual
<1> QED
  BY <1>7 DEF IsPrefix, a, b

\* A beginning of the first message, or all of it and a beginning of the second.
LEMMA PartsPrefix ==
  ASSUME NEW m \in Nat, NEW n \in Nat, NEW M \in Nat, NEW N \in Nat,
         m <= M, n <= N, m = M \/ n = 0
  PROVE  IsPrefix(Bytes(1, m) \o Bytes(2, n), Bytes(1, M) \o Bytes(2, N))
<1> DEFINE s == Bytes(1, m) \o Bytes(2, n)
           t == Bytes(1, M) \o Bytes(2, N)
<1>1. /\ s \in Seq(Byte) /\ Len(s) = m + n
      /\ \A i \in 1..m : s[i] = <<1, i>>
      /\ \A i \in 1..n : s[m + i] = <<2, i>>
  BY Parts
<1>2. /\ t \in Seq(Byte) /\ Len(t) = M + N
      /\ \A i \in 1..M : t[i] = <<1, i>>
      /\ \A i \in 1..N : t[M + i] = <<2, i>>
  BY Parts
<1> HIDE DEF s, t
<1>3. ASSUME NEW i \in 1..Len(s) PROVE s[i] = t[i]
  <2>1. CASE i <= m
    <3>1. i \in 1..m /\ i \in 1..M
      BY <1>1, <2>1
    <3>2. s[i] = <<1, i>> /\ t[i] = <<1, i>>
      BY <1>1, <1>2, <3>1
    <3> QED
      BY <3>2
  <2>2. CASE i > m
    <3>1. i - m \in 1..n /\ i - m \in 1..N /\ m = M /\ m + (i - m) = i
      BY <1>1, <2>2
    <3>2. s[m + (i - m)] = <<2, i - m>> /\ t[M + (i - m)] = <<2, i - m>>
      BY <1>1, <1>2, <3>1
    <3> QED
      BY <3>1, <3>2
  <2> QED
    BY <1>1, <2>1, <2>2
<1>4. Len(s) <= Len(t)
  BY <1>1, <1>2
<1>5. IsPrefix(s, t)
  BY <1>1, <1>2, <1>3, <1>4, PrefixByBytes
<1> QED
  BY <1>5 DEF s, t

LEMMA WholeParts ==
  ASSUME get \in BOOLEAN
  PROVE  Whole = Bytes(1, Lens[1]) \o Bytes(2, IF get THEN BodyLen ELSE 0)
<1>1. /\ Len(Lens) \in {1, 2} /\ (Len(Lens) = 2 <=> get) /\ Lens[1] \in Nat
      /\ get => Lens[2] = BodyLen
  BY LensType
<1>2. Text(1) = Bytes(1, Lens[1])
  BY <1>1, TextBytes
<1>3. CASE get
  <2>1. Text(2) = Bytes(2, BodyLen)
    BY <1>1, <1>3, TextBytes
  <2> QED
    BY <1>2, <1>3, <2>1 DEF Whole
<1>4. CASE ~get
  <2>1. Bytes(1, Lens[1]) \in Seq(Byte) /\ Bytes(2, 0) = << >>
    BY <1>1, BytesType, NoBytes
  <2>2. Bytes(1, Lens[1]) \o Bytes(2, 0) = Bytes(1, Lens[1])
    BY <2>1, ConcatEmptySeq
  <2> QED
    BY <1>2, <1>4, <2>2 DEF Whole
<1> QED
  BY <1>3, <1>4

LEMMA AccountIntact == TypeOK /\ WireAccount => StreamIntact
<1> SUFFICES ASSUME TypeOK, WireAccount PROVE StreamIntact
  OBVIOUS
<1>1. PICK m \in 0..Lens[1], n \in 0..IF get THEN BodyLen ELSE 0 : Account(m, n)
  BY DEF WireAccount
<1>2. get \in BOOLEAN /\ Lens[1] \in Nat /\ call \in 1..Len(Lens) + 1 /\ Len(Lens) \in {1, 2}
  BY Facts
<1>3. PICK N \in Nat : N = IF get THEN BodyLen ELSE 0
  BY LengthAssumption
<1>4. /\ m \in Nat /\ n \in Nat /\ m <= Lens[1] /\ n <= N
      /\ wire = Bytes(1, m) \o Bytes(2, n)
  BY <1>1, <1>2, <1>3 DEF Account
<1>5. Whole = Bytes(1, Lens[1]) \o Bytes(2, N)
  BY <1>2, <1>3, WholeParts
<1>6. CASE m = Lens[1] \/ n = 0
  BY <1>2, <1>4, <1>5, <1>6, PartsPrefix DEF StreamIntact
<1>7. CASE m # Lens[1] /\ n # 0
  <2>1. call > 1 /\ m < Lens[1]
    BY <1>1, <1>2, <1>4, <1>7 DEF Account
  <2>2. memory = "short" /\ res[1] = -1
    BY <1>1, <1>7, <2>1 DEF Account
  <2>3. get
    BY <1>2, <1>3, <1>4, <1>7
  <2>4. res # << >>
    BY <2>1 DEF TypeOK
  <2> QED
    BY <2>2, <2>3, <2>4 DEF StreamIntact
<1> QED
  BY <1>6, <1>7

\* The stream my_write leaves behind is a beginning of the answer in every
\* behaviour; only a header refused for lack of memory makes an exception.
THEOREM StreamStaysIntact == Spec => []StreamIntact
  BY AccountAlways, AccountIntact, PTL

\* A whole message in the middle of the stream.
LEMMA FoundAt ==
  ASSUME NEW w \in Seq(Byte), NEW k \in Nat, NEW s \in Nat, NEW l \in Nat,
         s + l <= Len(w), \A i \in 1..l : w[s + i] = <<k, i>>
  PROVE  SubSeq(w, s + 1, s + l) = Bytes(k, l)
<1>1. Len(w) \in Nat
  BY LenProperties
<1>2. \A i \in s + 1..s + l : w[i] \in Byte
  BY <1>1, ElementOfSeq
<1> DEFINE a == SubSeq(w, s + 1, s + l)
           b == Bytes(k, l)
<1>3. /\ a \in Seq(Byte)
      /\ Len(a) = IF s + 1 <= s + l THEN (s + l) - (s + 1) + 1 ELSE 0
      /\ \A i \in 1..(s + l) - (s + 1) + 1 : a[i] = w[s + 1 + i - 1]
  BY <1>2, SubSeqProperties
<1>4. b \in Seq(Byte) /\ Len(b) = l /\ \A i \in 1..l : b[i] = <<k, i>>
  BY BytesType
<1> HIDE DEF a, b
<1>5. Len(a) = l
  BY <1>3
<1>6. ASSUME NEW i \in 1..l PROVE a[i] = <<k, i>>
  <2>1. i \in 1..(s + l) - (s + 1) + 1 /\ s + 1 + i - 1 = s + i
    OBVIOUS
  <2> QED
    BY <1>3, <2>1
<1>7. Len(a) = Len(b) /\ \A i \in 1..Len(a) : a[i] = b[i]
  BY <1>4, <1>5, <1>6
<1>8. a = b
  BY <1>3, <1>4, <1>7, SeqEqual
<1> QED
  BY <1>8 DEF a, b

LEMMA AccountHonest == TypeOK /\ WireAccount => HonestResult
<1> SUFFICES ASSUME TypeOK, WireAccount, NEW k \in 1..Len(res), res[k] = 0
             PROVE  \E s \in 0..Len(wire) : /\ s + Lens[k] <= Len(wire)
                                            /\ SubSeq(wire, s + 1, s + Lens[k]) = Text(k)
  BY DEF HonestResult
<1>1. PICK m \in 0..Lens[1], n \in 0..IF get THEN BodyLen ELSE 0 : Account(m, n)
  BY DEF WireAccount
<1>2. /\ get \in BOOLEAN /\ Lens[1] \in Nat /\ call \in 1..Len(Lens) + 1 /\ Len(Lens) \in {1, 2}
      /\ \A j \in 1..Len(Lens) : Lens[j] \in Nat
  BY Facts
<1>3. m \in Nat /\ n \in Nat /\ wire = Bytes(1, m) \o Bytes(2, n)
  BY <1>1, <1>2, LengthAssumption DEF Account
<1>4. /\ wire \in Seq(Byte) /\ Len(wire) = m + n
      /\ \A i \in 1..m : wire[i] = <<1, i>>
      /\ \A i \in 1..n : wire[m + i] = <<2, i>>
  BY <1>3, WireParts
<1>5. Len(res) = call - 1
  BY DEF TypeOK
<1>6. k \in 1..Len(Lens) /\ k \in {1, 2} /\ call > k
  BY <1>2, <1>5, SMTT(30)
<1>7. Lens[k] \in Nat /\ Text(k) = Bytes(k, Lens[k])
  BY <1>2, <1>6, TextBytes
<1>8. CASE k = 1
  <2>1. m = Lens[k]
    BY <1>1, <1>6, <1>8 DEF Account
  <2>2. PICK s \in Nat : s = 0
    OBVIOUS
  <2>3. s + m <= Len(wire) /\ s \in 0..Len(wire)
    BY <1>3, <1>4, <2>2
  <2>4. ASSUME NEW i \in 1..m PROVE wire[s + i] = <<1, i>>
    <3>1. s + i = i
      BY <2>2
    <3> QED
      BY <1>4, <3>1
  <2>5. SubSeq(wire, s + 1, s + m) = Bytes(1, m)
    <3>1. /\ wire \in Seq(Byte) /\ 1 \in Nat /\ m \in Nat /\ s + m <= Len(wire)
          /\ \A i \in 1..m : wire[s + i] = <<1, i>>
      BY <1>3, <1>4, <2>3, <2>4
    <3> QED
      BY <3>1, FoundAt, ZenonT(60)
  <2> QED
    BY <1>7, <1>8, <2>1, <2>3, <2>5
<1>9. CASE k = 2
  <2>1. n = Lens[k]
    BY <1>1, <1>6, <1>9 DEF Account
  <2>2. m + n <= Len(wire) /\ m \in 0..Len(wire)
    BY <1>3, <1>4
  <2>3. SubSeq(wire, m + 1, m + n) = Bytes(2, n)
    BY <1>3, <1>4, <2>2, FoundAt, ZenonT(60)
  <2> QED
    BY <1>7, <1>9, <2>1, <2>2, <2>3
<1> QED
  BY <1>6, <1>8, <1>9

\* A call of my_write that returned 0 has given TCP its whole message, in order
\* and in one piece.
THEOREM ResultsAreHonest == Spec => []HonestResult
  BY AccountAlways, AccountHonest, PTL
=============================================================================
