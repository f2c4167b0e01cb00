------------------------------- MODULE Jumbo -------------------------------
(***************************************************************************)
(* Jumbo (driver/input/jumbo.hpp) puts the IP fragments of a UDP datagram  *)
(* together again.  Lengths and offsets are in units of a fragment; the    *)
(* contents of a unit are named by the datagram and the unit's place in it. *)
(***************************************************************************)
EXTENDS Integers, Sequences

CONSTANTS Datagrams     \* name -> [id, size]; size 1 is an unfragmented one

JumboInit == [ip_id |-> 0, buf |-> <<>>]     \* buf: buf_ up to buf_off_

NoDatagram == <<>>

Unit(d, k) == <<d, k>>
Whole(d) == [k \in 1 .. Datagrams[d].size |-> Unit(d, k - 1)]

\* Unit k of datagram d, as it travels.
Fragment(d, k) == [id |-> Datagrams[d].id, off |-> k, more |-> k + 1 < Datagrams[d].size,
                   data |-> Unit(d, k)]

\* Broken variant of new_fragment: a fragment is appended wherever it belongs.
new_fragmentAnywhere(j, f) ==
    IF f.id = j.ip_id
    THEN LET all == Append(j.buf, f.data)
         IN  IF f.more THEN [jumbo |-> [j EXCEPT !.buf = all], udp |-> NoDatagram]
             ELSE [jumbo |-> [ip_id |-> 0, buf |-> all], udp |-> all]
    ELSE IF f.off # 0 THEN [jumbo |-> j, udp |-> NoDatagram]
    ELSE IF f.more THEN [jumbo |-> [ip_id |-> f.id, buf |-> <<f.data>>], udp |-> NoDatagram]
    ELSE [jumbo |-> j, udp |-> <<f.data>>]

\* The state after a fragment, and the datagram it completes, if any.  A
\* finished datagram is forgotten by taking 0 for its id; its length stays.
new_fragment(j, f) ==
    IF f.id = j.ip_id
    THEN LET all == Append(j.buf, f.data)
         IN  IF f.off # Len(j.buf) THEN [jumbo |-> j, udp |-> NoDatagram]
             ELSE IF f.more THEN [jumbo |-> [j EXCEPT !.buf = all], udp |-> NoDatagram]
             ELSE [jumbo |-> [ip_id |-> 0, buf |-> all], udp |-> all]
    ELSE IF f.off # 0 THEN [jumbo |-> j, udp |-> NoDatagram]
    ELSE IF f.more THEN [jumbo |-> [ip_id |-> f.id, buf |-> <<f.data>>], udp |-> NoDatagram]
    ELSE [jumbo |-> j, udp |-> <<f.data>>]
=============================================================================
