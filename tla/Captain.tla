------------------------------ MODULE Captain ------------------------------
(***************************************************************************)
(* The framing of datagrams on a stream (core/captain): the address of the *)
(* datagram, the length of its data in one to three bytes, the data.       *)
(*                                                                         *)
(* An address has a host and a port.  A host has the form it is written    *)
(* in, an identity that stands for its bits or its name, and the length of *)
(* its text: "ip4", "mapped" (an IPv4 address written as an IPv6 one),     *)
(* "ip6" or "name" (also an IPv6 address with a zone).  A frame is the     *)
(* record of its fields; what the reader takes for the host or for the     *)
(* data with another length than the writer wrote is out of step.          *)
(***************************************************************************)
EXTENDS Integers, Sequences

MaxDataLen == 2097151

(* Faulty: a length of 128 is taken for one that fits a byte. *)
DataLenLate(length) ==
    IF length < 0 \/ length > MaxDataLen THEN <<>>
    ELSE IF length <= 128 THEN <<length>>
    ELSE IF length < 16384 THEN <<128 + (length % 128), length \div 128>>
    ELSE <<128 + (length % 128), 128 + ((length \div 128) % 128), length \div 16384>>

(* Seven bits a byte, the low ones first; bit eight says that more follow. *)
(* No bytes stand for the error.                                           *)
DataLen(length) ==
    IF length < 0 \/ length > MaxDataLen THEN <<>>
    ELSE IF length < 128 THEN <<length>>
    ELSE IF length < 16384 THEN <<128 + (length % 128), length \div 128>>
    ELSE <<128 + (length % 128), 128 + ((length \div 128) % 128), length \div 16384>>

(* The length that the bytes ds begin with; reading stops at a byte        *)
(* without bit eight, and after the third, or goes on into the data.       *)
ParseDataLen(ds) ==
    LET more(i) == i <= Len(ds) /\ ds[i] >= 128
        digit(i) == IF i <= Len(ds) THEN ds[i] % 128 ELSE 0
        n == IF ~more(1) THEN 1 ELSE IF ~more(2) THEN 2 ELSE 3
    IN [status |-> IF n > Len(ds) THEN "out of step" ELSE IF more(n) THEN "error" ELSE "ok",
        length |-> digit(1) + (IF n > 1 THEN digit(2) * 128 ELSE 0)
                            + (IF n > 2 THEN digit(3) * 16384 ELSE 0),
        used |-> n]

(* net.ParseIP with To4 and To16: the first that gives an address.         *)
AddrType(host) ==
    IF host.form \in {"ip4", "mapped"} THEN "IPv4"
    ELSE IF host.form = "ip6" THEN "IPv6" ELSE "Domain"

(* What String gives for the address that was read.                        *)
Written(host) ==
    IF AddrType(host) = "IPv4" THEN [form |-> "ip4", id |-> host.id, text |-> 4] ELSE host

(* An address as the runtime writes that of a datagram: a port of two      *)
(* bytes, a host of at most 255, an IPv4 address in its four bytes.        *)
Plain(addr) ==
    /\ addr = [host |-> [form |-> addr.host.form, id |-> addr.host.id, text |-> addr.host.text],
               port |-> addr.port]
    /\ addr.port \in Nat /\ addr.port < 65536
    /\ addr.host.text \in Nat /\ addr.host.text < 256
    /\ addr.host.form \in {"ip4", "ip6", "name"}
    /\ addr.host.form = "ip4" => addr.host.text = 4

(* Faulty: only the low byte of the port is written. *)
HeaderLow(addr, length) ==
    [type |-> AddrType(addr.host), host |-> addr.host, size |-> addr.host.text % 256,
     port |-> <<0, addr.port % 256>>, len |-> DataLen(length)]

Header(addr, length) ==
    [type |-> AddrType(addr.host), host |-> addr.host, size |-> addr.host.text % 256,
     port |-> <<addr.port \div 256, addr.port % 256>>, len |-> DataLen(length)]

(* ParseStreamDatagram on a frame with length bytes of data.               *)
Parse(frame, length) ==
    LET got == ParseDataLen(frame.len)
    IN [status |-> IF got.status # "ok" THEN got.status
                   ELSE IF \/ frame.type = "Domain" /\ frame.size # frame.host.text
                           \/ got.used # Len(frame.len) \/ got.length # length
                   THEN "out of step" ELSE "ok",
        addr |-> [host |-> Written(frame.host),
                  port |-> frame.port[1] * 256 + frame.port[2]]]

=============================================================================
