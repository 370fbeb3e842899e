------------------------------ MODULE MyWrite -------------------------------
(***************************************************************************)
(* How a handler answers (webserver.c: my_write and its calls in           *)
(* handle_http_request): header and page for a GET, one line for anything  *)
(* else, each handed to TCP by a loop of send calls, and the socket closed *)
(* whatever my_write returned.  WebServer!HttpReply is this module seen    *)
(* from outside.                                                           *)
(*                                                                         *)
(* TCP takes what its send buffer has room for; a send that can give away  *)
(* nothing for ten seconds (SO_SNDTIMEO) fails.  A reset is for good.      *)
(***************************************************************************)
EXTENDS Integers, Sequences, SequencesExt

CONSTANTS
  HeaderLen,  \* the length of HTTP_200 with the page's size in it
  BodyLen,    \* the length of index.html
  BadLen,     \* the length of HTTP_400
  SendBuf,    \* TCP's send buffer (CONFIG_TCP_SND_BUF_DEFAULT, 5744)
  MaxIntr     \* bound: how often a send may be interrupted

ASSUME LengthAssumption ==
  /\ HeaderLen \in Nat \ {0} /\ BodyLen \in Nat \ {0} /\ BadLen \in Nat \ {0}
  /\ SendBuf \in Nat /\ MaxIntr \in Nat
ASSUME HeaderFits == HeaderLen <= SendBuf /\ BadLen <= SendBuf

VARIABLES
  get,         \* strcmp(buff,"GET") == 0
  memory,      \* "enough", or "short": TCP may fail to find buffers
  call,        \* the call of my_write the handler is in
  ptr,         \* how many bytes of its message are behind ptr
  bytes_left,
  res,         \* the results of the calls that returned; nobody reads them
  wire,        \* the bytes TCP has taken: <<call, index>>
  acked,       \* how many of them have arrived
  link,        \* "up", "silent" (nothing is acknowledged) or "reset"
  intr,        \* interruptions still to come
  closed

task == <<call, ptr, bytes_left, res>>
vars == <<get, memory, task, wire, acked, link, intr, closed>>

Lens == IF get THEN <<HeaderLen, BodyLen>> ELSE <<BadLen>>
Text(k) == [i \in 1..Lens[k] |-> <<k, i>>]
Whole == IF get THEN Text(1) \o Text(2) ELSE Text(1)
Room == SendBuf - (Len(wire) - acked)

Init ==
  /\ get \in BOOLEAN /\ memory \in {"enough", "short"}
  /\ call = 1 /\ ptr = 0 /\ bytes_left = Lens[1] /\ res = << >>
  /\ wire = << >> /\ acked = 0 /\ link = "up" /\ intr = MaxIntr /\ closed = FALSE

-----------------------------------------------------------------------------
(* The handler.                                                             *)

Writing == call <= Len(Lens)
InSend == Writing /\ bytes_left > 0

\* A plausible slip: the position in the buffer is not moved.
SendSamePlace(n) ==
  /\ InSend /\ link # "reset" /\ n <= bytes_left /\ n <= Room
  /\ wire' = wire \o SubSeq(Text(call), ptr + 1, ptr + n)
  /\ bytes_left' = bytes_left - n
  /\ UNCHANGED <<get, memory, call, ptr, res, acked, link, intr, closed>>

\* send takes n bytes.
Send(n) ==
  /\ InSend /\ link # "reset" /\ n <= bytes_left /\ n <= Room
  /\ wire' = wire \o SubSeq(Text(call), ptr + 1, ptr + n)
  /\ ptr' = ptr + n /\ bytes_left' = bytes_left - n
  /\ UNCHANGED <<get, memory, call, res, acked, link, intr, closed>>

\* A plausible slip: the -1 of an interrupted send is counted as bytes.
SendInterruptedCounted ==
  /\ InSend /\ intr > 0 /\ intr' = intr - 1
  /\ ptr' = ptr - 1 /\ bytes_left' = bytes_left + 1
  /\ UNCHANGED <<get, memory, call, res, wire, acked, link, closed>>

\* A plausible slip: the test for EINTR is left out and the call gives up.
SendInterruptedGivesUp ==
  /\ InSend /\ intr > 0 /\ intr' = intr - 1
  /\ res' = Append(res, -1) /\ call' = call + 1 /\ ptr' = 0
  /\ bytes_left' = IF call < Len(Lens) THEN Lens[call + 1] ELSE 0
  /\ UNCHANGED <<get, memory, wire, acked, link, closed>>

\* send returns -1 with EINTR: nothing was written, the loop goes on.
SendInterrupted ==
  /\ InSend /\ intr > 0 /\ intr' = intr - 1
  /\ UNCHANGED <<get, memory, task, wire, acked, link, closed>>

\* The call of my_write returns r; the handler ignores it and goes on with the
\* next one.
Return(r) ==
  /\ res' = Append(res, r)
  /\ call' = call + 1 /\ ptr' = 0
  /\ bytes_left' = IF call < Len(Lens) THEN Lens[call + 1] ELSE 0
  /\ UNCHANGED <<get, memory, wire, acked, link, intr, closed>>

\* send fails: the connection is reset, or for ten seconds the buffer stayed
\* full, or no memory was found.
Fails == link = "reset" \/ (link = "silent" /\ Room = 0) \/ memory = "short"

\* A plausible slip: break where the code has return(-1).
SendFailBreaks == InSend /\ Fails /\ Return(0)

\* A plausible slip: every failure is retried as an interruption is.
SendFailRetries == InSend /\ Fails /\ UNCHANGED vars

SendFail == InSend /\ Fails /\ Return(-1)

WriteDone == Writing /\ bytes_left = 0 /\ Return(0)

Close ==
  /\ ~Writing /\ ~closed /\ closed' = TRUE
  /\ UNCHANGED <<get, memory, task, wire, acked, link, intr>>

-----------------------------------------------------------------------------
(* TCP and the phone.                                                       *)

\* The next byte arrives and is acknowledged, after the close too.
Ack ==
  /\ link = "up" /\ acked < Len(wire) /\ acked' = acked + 1
  /\ UNCHANGED <<get, memory, task, wire, link, intr, closed>>

\* The phone falls silent, comes back or resets the connection.
LinkChange ==
  /\ link' \in CASE link = "up"     -> {"silent", "reset"}
                 [] link = "silent" -> {"up", "reset"}
                 [] link = "reset"  -> {}
  /\ UNCHANGED <<get, memory, task, wire, acked, intr, closed>>

Handler ==
  \/ (\E n \in 1..bytes_left : Send(n)) \/ SendInterrupted \/ SendFail
  \/ WriteDone \/ Close

Next == Handler \/ Ack \/ LinkChange

\* The handler runs (a send that cannot go on times out).  TCP retransmits, so
\* a link that is up again and again delivers; a phone need not come back.
Fairness == WF_vars(Handler) /\ SF_vars(Ack)

Spec == Init /\ [][Next]_vars /\ Fairness

-----------------------------------------------------------------------------
(* Properties.                                                              *)

\* The loop's variables stay inside the message the call was given.
TypeOK ==
  /\ get \in BOOLEAN /\ memory \in {"enough", "short"} /\ closed \in BOOLEAN
  /\ call \in 1..Len(Lens) + 1
  /\ ptr \in 0..HeaderLen + BodyLen + BadLen
  /\ bytes_left \in 0..HeaderLen + BodyLen + BadLen
  /\ res \in Seq({0, -1}) /\ Len(res) = call - 1
  /\ Writing => ptr + bytes_left = Lens[call]
  /\ link \in {"up", "silent", "reset"} /\ intr \in 0..MaxIntr
  /\ acked \in 0..Len(wire) /\ Room >= 0

\* What TCP was given is a beginning of the answer: a page never starts without
\* its header, although handle_http_request sends the page whatever my_write
\* said of the header.  The one exception is a header refused for lack of
\* memory: a silent phone cannot do it (the header fits the empty buffer), and
\* after a reset the page is refused as well.
StreamIntact ==
  \/ IsPrefix(wire, Whole)
  \/ memory = "short" /\ get /\ res # << >> /\ res[1] = -1

\* my_write returns 0 only if TCP has taken its whole message, in order and in
\* one piece, whatever interruptions and short writes the loop went through.
HonestResult ==
  \A k \in 1..Len(res) : res[k] = 0 =>
    \E s \in 0..Len(wire) :
      /\ s + Lens[k] <= Len(wire)
      /\ SubSeq(wire, s + 1, s + Lens[k]) = Text(k)

\* The handler gets to its close, whatever the phone does.
AnswerEnds == <>closed

\* With memory and a link that stays up, the whole answer arrives, through any
\* number of interruptions and short writes.
AnswerArrives ==
  (memory = "enough" /\ [](link = "up")) => <>(closed /\ acked = Len(Whole))

-----------------------------------------------------------------------------
(* A strengthening that makes the safety properties inductive.              *)

\* The first n bytes of message k.
Bytes(k, n) == [i \in 1..n |-> <<k, i>>]

\* What each call has given to TCP so far: m bytes of the first message, n of
\* the second.  A call in progress has given what is behind its ptr, one that
\* returned 0 everything.  A first message that broke off was refused for lack
\* of memory, or the connection is reset and nothing follows it.
Account(m, n) ==
  /\ wire = Bytes(1, m) \o Bytes(2, n)
  /\ call = 1 => m = ptr /\ n = 0
  /\ call = 2 /\ get => n = ptr
  /\ call > 1 /\ res[1] = 0 => m = Lens[1]
  /\ call > 2 /\ res[2] = 0 => n = Lens[2]
  /\ call > 1 /\ m < Lens[1] =>
       \/ memory = "short" /\ res[1] = -1
       \/ link = "reset" /\ n = 0
WireAccount ==
  \E m \in 0..Lens[1], n \in 0..IF get THEN BodyLen ELSE 0 : Account(m, n)
=============================================================================
