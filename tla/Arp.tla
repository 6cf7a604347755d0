-------------------------------- MODULE Arp ---------------------------------
(***************************************************************************)
(* ARP packets (net/arp.rs): the accessors, whose offsets depend on the    *)
(* address lengths in the packet, and the reply to a request.              *)
(***************************************************************************)
EXTENDS Ethernet

Reply == <<0, 2>>

HardwareSpace(p) == Slice(p, 0, 2)
ProtocolSpace(p) == Slice(p, 2, 2)
HardwareLen(p) == p[5]
ProtocolLen(p) == p[6]
Opcode(p) == Slice(p, 6, 2)
SenderHardware(p) == Slice(p, 8, HardwareLen(p))
SenderProtocol(p) == Slice(p, 8 + HardwareLen(p), ProtocolLen(p))
TargetHardware(p) == Slice(p, 8 + HardwareLen(p) + ProtocolLen(p), HardwareLen(p))
TargetProtocol(p) ==
  Slice(p, 8 + HardwareLen(p) + ProtocolLen(p) + HardwareLen(p), ProtocolLen(p))

(* The calls of reply_writer, in their order, and the ARPBuilder that      *)
(* copies each of them to its position.                                    *)
ReplyFields(request, sha) ==
  << HardwareSpace(request), ProtocolSpace(request),
     <<HardwareLen(request)>>, <<ProtocolLen(request)>>, Reply,
     sha, TargetProtocol(request), SenderHardware(request), TargetProtocol(request) >>
BuildArp(buf, fields) ==
  LET done[k \in 0 .. Len(fields)] ==
        IF k = 0 THEN Builder(buf) ELSE Append2(done[k - 1], fields[k])
  IN  done[Len(fields)]

(* Faulty variant: the position is not moved after the opcode.             *)
ReplyWriterOverlaps(buf, request, sha) ==
  LET fields == ReplyFields(request, sha)
      done[k \in 0 .. Len(fields)] ==
        IF k = 0 THEN Builder(buf)
        ELSE LET w == done[k - 1] IN
             IF k = 5 THEN [Append2(w, fields[k]) EXCEPT !.pos = w.pos] ELSE Append2(w, fields[k])
  IN  done[Len(fields)]

(* reply_writer: the last position is the length that the writer returns.  *)
ReplyWriter(buf, request, sha) == BuildArp(buf, ReplyFields(request, sha))

=============================================================================
