----------------------------- MODULE MCFirmware -----------------------------
(* An instance of Firmware for model checking.                              *)
EXTENDS Firmware

\* With a header of two bytes and RecvMax = 6: a welcome and an unwelcome name,
\* a name cut off by recvfrom, and a datagram shorter than a header.
Questions == { <<"h", "h", "z">>, <<"h", "h", "o", "a", "b", "z">>,
               <<"h", "h", "o", "o", "o", "o", "o", "z">>, <<"h">> }

\* The heap and the DNS task share nothing but the reset, so they are explored one
\* beside the other and not multiplied: connections come while the DNS task has
\* not been asked anything, datagrams while nobody has connected.
OneAtATime == conns = 0 \/ (data = Unwritten /\ inbox = << >>)
=============================================================================
