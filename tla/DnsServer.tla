----------------------------- MODULE DnsServer ------------------------------
(***************************************************************************)
(* The captive DNS server (components/dns_server/my_dns_server.c): one     *)
(* task, one buffer of 128 bytes it never clears, a filter of unwelcome    *)
(* names and one answer for all others, the robot's own address.           *)
(*                                                                         *)
(* A byte is one of a few letters: "h" header, "q" header marked as an     *)
(* answer, "a" "b" the two halves of an unwelcome word, "o" any other      *)
(* letter, "z" the NUL, "p" the answer's pointer to the name, "?" a byte   *)
(* of the stack that nobody has written.                                   *)
(***************************************************************************)
EXTENDS Integers, Sequences, FiniteSets, SequencesExt

CONSTANTS
  Phone,      \* the phones whose questions are followed
  Other,      \* all other stations
  Datagram,   \* what they may send: sequences of bytes
  BufSize,    \* sizeof(data), 128
  RecvMax,    \* the length given to recvfrom, 100
  HdrLen,     \* where the filter starts to look, 0xc
  FlagPos,    \* the byte that makes a question an answer (data[2], data[3], data[7])
  AnswerLen,  \* the bytes appended to the question, 16
  Mbox,       \* the datagrams lwIP keeps for a socket (CONFIG_UDP_RECVMBOX_SIZE, 6)
  NoQ

ASSUME BufferAssumption ==
  /\ BufSize \in Nat /\ RecvMax \in Nat /\ HdrLen \in Nat /\ AnswerLen \in Nat \ {0}
  /\ RecvMax + AnswerLen <= BufSize /\ HdrLen < BufSize /\ FlagPos \in 1..HdrLen

ASSUME OtherAssumption == Other \notin Phone /\ Mbox \in Nat

Sent == {"h", "a", "b", "o", "z"}
Byte == Sent \cup {"q", "p", "?"}
Packet == [from : Phone \cup {Other}, bytes : Datagram]
ASSUME DatagramAssumption == Datagram \subseteq Seq(Sent)
ASSUME NoQAssumption == NoQ \notin Packet /\ NoQ \notin Datagram

VARIABLES
  sock,     \* "none", "ok", or "bad" when create_udp_socket returned -1
  dpc,      \* where the task is; "none" before it is created
  data,     \* the buffer on the task's stack
  len,      \* how much of it is the datagram, then the answer
  cur,      \* the datagram in work: its sender (client) and, as history, its bytes
  verdict,  \* history: what became of it: "none", "dropped" or "answered"
  inbox,    \* lwIP: the datagrams waiting for recvfrom
  waiting   \* the question each phone wants answered

dns  == <<sock, dpc, data, len, cur, verdict, inbox>>
dvars == <<dns, waiting>>

-----------------------------------------------------------------------------
(* Bytes.                                                                   *)

\* The NULs from where the filter starts to look, and the part of the buffer
\* before the first of them: the C string strstr sees.
Nuls(d) == {i \in HdrLen + 1..Len(d) : d[i] = "z"}
InString(d, i) == i \in HdrLen + 1..Len(d) /\ \A j \in HdrLen + 1..i : d[j] # "z"

\* An unwelcome word in the string (eight words in the code, one here).
HasWord(d) == \E i \in 1..Len(d) - 1 :
                i > HdrLen /\ InString(d, i + 1) /\ d[i] = "a" /\ d[i + 1] = "b"

\* A plausible slip: a search through the whole buffer instead of a string.
FilterWholeBuffer(d) ==
  {\E i \in HdrLen + 1..BufSize - 1 : d[i] = "a" /\ d[i + 1] = "b"}

\* The results the eight strstr calls may have: a string that runs into bytes
\* nobody has written, or out of the buffer, may match anything.
Filter(d) ==
  IF HasWord(d) THEN {TRUE}
  ELSE IF Nuls(d) = {} \/ \E i \in 1..Len(d) : InString(d, i) /\ d[i] = "?"
  THEN BOOLEAN ELSE {FALSE}

Record == [i \in 1..AnswerLen |-> IF i = 1 THEN "p" ELSE "z"]

\* The bytes s written into the buffer behind position at.
Over(d, at, s) ==
  [i \in 1..BufSize |-> IF i \in at + 1..at + Len(s) THEN s[i - at] ELSE d[i]]

\* A question that arrives whole: its name ends within what recvfrom returns.
Complete(q) == Len(q) <= RecvMax /\ Nuls(q) # {}

Welcome(q) == q # NoQ /\ Complete(q) /\ ~HasWord(q)

\* The answer it should get.
Reply(q) == [q EXCEPT ![FlagPos] = "q"] \o Record
Satisfies(answer, q) == q # NoQ /\ Complete(q) /\ answer = Reply(q)

-----------------------------------------------------------------------------
Unwritten == [i \in 1..BufSize |-> "?"]

DnsInit ==
  /\ sock = "none" /\ dpc = "none" /\ data = Unwritten /\ len = 0
  /\ cur = NoQ /\ verdict = "none" /\ inbox = << >>
  /\ waiting = [p \in Phone |-> NoQ]

\* The phones: a datagram is lost when there is no socket or its mailbox is full.
Deliver(p, q) ==
  /\ inbox' = IF sock = "ok" /\ Len(inbox) < Mbox
              THEN Append(inbox, [from |-> p, bytes |-> q]) ELSE inbox
  /\ UNCHANGED <<sock, dpc, data, len, cur, verdict>>

Ask(p, q) ==
  /\ waiting[p] = NoQ /\ waiting' = [waiting EXCEPT ![p] = q]
  /\ Deliver(p, q)

\* The resolver asks again after its timeout.
AskAgain(p) ==
  /\ waiting[p] # NoQ /\ Deliver(p, waiting[p])
  /\ UNCHANGED waiting

\* It gives up a question it has no right to see answered.
GiveUp(p) ==
  /\ waiting[p] # NoQ /\ ~Welcome(waiting[p])
  /\ waiting' = [waiting EXCEPT ![p] = NoQ]
  /\ UNCHANGED dns

\* Somebody else asks.
Noise(q) == Deliver(Other, q) /\ UNCHANGED waiting

-----------------------------------------------------------------------------
(* The task my_dns_server.                                                  *)

\* create_udp_socket; a failure is only logged.
DnsOpen ==
  /\ dpc = "create" /\ dpc' = "recv"
  /\ sock' \in {"ok", "bad"}
  /\ UNCHANGED <<data, len, cur, verdict, inbox, waiting>>

\* A plausible slip: the whole buffer offered to recvfrom.
RecvFull ==
  /\ dpc = "recv" /\ sock = "ok" /\ inbox # << >>
  /\ LET q == Head(inbox).bytes
         n == IF Len(q) < BufSize THEN Len(q) ELSE BufSize
     IN  data' = Over(data, 0, SubSeq(q, 1, n)) /\ len' = n
  /\ cur' = Head(inbox) /\ inbox' = Tail(inbox)
  /\ verdict' = "none" /\ dpc' = "filter"
  /\ UNCHANGED <<sock, waiting>>

\* recvfrom copies at most RecvMax bytes; the rest of the buffer keeps what the
\* requests and answers before it left there.
Recv ==
  /\ dpc = "recv" /\ sock = "ok" /\ inbox # << >>
  /\ LET q == Head(inbox).bytes
         n == IF Len(q) < RecvMax THEN Len(q) ELSE RecvMax
     IN  data' = Over(data, 0, SubSeq(q, 1, n)) /\ len' = n
  /\ cur' = Head(inbox) /\ inbox' = Tail(inbox)
  /\ verdict' = "none" /\ dpc' = "filter"
  /\ UNCHANGED <<sock, waiting>>

\* recvfrom fails, on descriptor -1 at once and every time, and the loop goes on
\* without a delay.
RecvError ==
  /\ dpc = "recv" /\ len' = -1
  /\ UNCHANGED <<sock, dpc, data, cur, verdict, inbox, waiting>>

\* An unwelcome name: back to recvfrom, without an answer or a delay.
Drop ==
  /\ dpc = "filter" /\ TRUE \in Filter(data)
  /\ verdict' = "dropped" /\ dpc' = "recv"
  /\ UNCHANGED <<sock, data, len, cur, inbox, waiting>>

\* A plausible slip: the record starts one byte late.
AnswerLate(arrives) ==
  /\ dpc = "filter" /\ FALSE \in Filter(data)
  /\ data' = Over([data EXCEPT ![FlagPos] = "q"], len + 1, Record)
  /\ len' = len + AnswerLen /\ verdict' = "answered" /\ dpc' = "delay"
  /\ waiting' = [p \in Phone |->
       IF arrives /\ cur.from = p /\ Satisfies(SubSeq(data', 1, len'), waiting[p])
       THEN NoQ ELSE waiting[p]]
  /\ UNCHANGED <<sock, cur, inbox>>

\* The question is marked as answered, the record appended and all of it sent
\* back; it may get lost.
Answer(arrives) ==
  /\ dpc = "filter" /\ FALSE \in Filter(data)
  /\ data' = Over([data EXCEPT ![FlagPos] = "q"], len, Record)
  /\ len' = len + AnswerLen /\ verdict' = "answered" /\ dpc' = "delay"
  /\ waiting' = [p \in Phone |->
       IF arrives /\ cur.from = p /\ Satisfies(SubSeq(data', 1, len'), waiting[p])
       THEN NoQ ELSE waiting[p]]
  /\ UNCHANGED <<sock, cur, inbox>>

\* vTaskDelay(10) is over.
DnsAgain ==
  /\ dpc = "delay" /\ dpc' = "recv" /\ cur' = NoQ /\ verdict' = "none"
  /\ UNCHANGED <<sock, data, len, inbox, waiting>>

-----------------------------------------------------------------------------
(* Properties.                                                              *)

\* The types of the DNS task's state.
DnsTypeOK ==
  /\ sock \in {"none", "ok", "bad"} /\ dpc \in {"none", "create", "recv", "filter", "delay"}
  /\ data \in [1..BufSize -> Byte]
  /\ len \in Int
  /\ cur \in Packet \cup {NoQ}
  /\ dpc \in {"filter", "delay"} => cur # NoQ
  /\ verdict \in {"none", "dropped", "answered"}
  /\ inbox \in Seq(Packet) /\ Len(inbox) <= Mbox
  /\ waiting \in [Phone -> Datagram \cup {NoQ}]

\* Whether a question that arrives whole is dropped depends on its own name
\* alone, although the buffer still holds the questions and answers before it
\* and the filter looks past the datagram's end.
FilterSeesOwnName ==
  (verdict # "none" /\ Complete(cur.bytes)) =>
    (verdict = "dropped" <=> HasWord(cur.bytes))

\* The answer stays inside the buffer, whatever the datagram's length.
AnswerFits == len <= BufSize

\* A phone gets back its own question, marked as answered, and the record.
AnswerEchoes ==
  (dpc = "delay" /\ Len(cur.bytes) \in HdrLen..RecvMax) =>
    SubSeq(data, 1, len) = Reply(cur.bytes)

\* While a datagram is in work the buffer begins with it, as far as recvfrom
\* copied it; a verdict is about the datagram in work.
BufferHoldsCurrent ==
  /\ dpc = "filter" =>
       /\ verdict = "none" /\ len \in 0..RecvMax
       /\ len = Len(cur.bytes) \/ (len = RecvMax /\ RecvMax < Len(cur.bytes))
       /\ \A i \in 1..len : data[i] = cur.bytes[i]
  /\ verdict # "none" => cur # NoQ
=============================================================================
