------------------------------ MODULE Ethernet ------------------------------
(***************************************************************************)
(* Ethernet frames (net/ethernet.rs): reading a received frame and         *)
(* building one in a transmit buffer.  Bytes are numbers; offsets count    *)
(* from 0 as in the code.  Addresses are shorter than in the network, so   *)
(* that a frame fits into a state; the code's offsets are all sums of      *)
(* field lengths.                                                          *)
(***************************************************************************)
EXTENDS Lists

CONSTANTS
  MacLen,     \* Length of a hardware address, 6 in the code.
  MinFrame,   \* Shortest frame with its checksum, 64 in the code.
  MaxFrame    \* Longest frame, 1534 in the code.

ASSUME EthernetAssumption ==
  MacLen \in Nat \ {0} /\ MinFrame \in Nat /\ MaxFrame \in Nat

TPID == <<129, 0>>
ArpType == <<8, 6>>
CrcLen == 4

(* b[i .. i + n], and b with bytes s copied to b[i ..].                    *)
Slice(b, i, n) == SubSeq(b, i + 1, i + n)
Put(b, i, s) == SubSeq(b, 1, i) \o s \o SubSeq(b, i + Len(s) + 1, Len(b))

-----------------------------------------------------------------------------
(* Frame.                                                                  *)

(* try_from_bytes                                                          *)
TryFromBytes(b) == Len(b) >= MinFrame /\ Len(b) <= MaxFrame

Dest(b) == Slice(b, 0, MacLen)
Src(b) == Slice(b, MacLen, MacLen)

(* The loop of ethertype() and payload_with_crc(): every tag is skipped    *)
(* with its identifier.                                                    *)
SkipTags(b, i) ==
  LET skip[j \in Nat] == IF Slice(b, j, 2) = TPID THEN skip[j + 4] ELSE j IN skip[i]

EtherType(b) == Slice(b, SkipTags(b, 2 * MacLen), 2)

PayloadWithCrc(b) ==
  LET i == SkipTags(b, 2 * MacLen) + 2 IN Slice(b, i, Len(b) - i)

Payload(b) == LET p == PayloadWithCrc(b) IN Slice(p, 0, Len(p) - CrcLen)

-----------------------------------------------------------------------------
(* FrameBuilder.  A builder is the buffer and the position in it; each     *)
(* call copies its bytes to the position and moves it on.                  *)
Builder(buf) == [buf |-> buf, pos |-> 0]
Append2(w, s) == [buf |-> Put(w.buf, w.pos, s), pos |-> w.pos + Len(s)]

(* vlan_tags: the tags that are there, each after its identifier.          *)
TagBytes(tags) == Flatten([i \in DOMAIN tags |-> TPID \o tags[i]])

(* payload: the writer has put len bytes at the position.                  *)
FrameOf(w, len) == Slice(w.buf, 0, w.pos + len)

(* The header as transmit builds it, in the order of the builder's types.  *)
Header(buf, dest, src, tags, type) ==
  Append2(Append2(Append2(Append2(Builder(buf), dest), src), TagBytes(tags)), type)

=============================================================================
