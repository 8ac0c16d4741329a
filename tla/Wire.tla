-------------------------------- MODULE Wire --------------------------------
(***************************************************************************)
(* What happens to the contents of packets, and to the buffers that hold   *)
(* them, on the way from one actor over its adapter, the node and another  *)
(* adapter to the other actor (fastpath.rs), and on the way of a           *)
(* management message between two peers: classification (classifier.rs),   *)
(* header compression (compress.rs), the protection of a hop and of the    *)
(* whole way, and the room a packet buffer has (packet.rs).                *)
(*                                                                         *)
(* Headers are records; what follows the IP base header, options and       *)
(* extension headers included, is a sequence of 16 bit words, because      *)
(* compression works by position there.  Sizes are in bytes.  A hash is    *)
(* the value hashed.  An address is one word.                              *)
(***************************************************************************)
EXTENDS Integers, Sequences

CONSTANTS
    Packets,        \* IP packets that actors send
    Messages,       \* sizes of management messages, with their headers
    Buffer,         \* PACKET_BUFFER_SIZE without the metadata
    Headroom,       \* DEFAULT_MESSAGE_HEADROOM
    Overhead        \* NOISE_PADLEN, max_overhead

MAC_SIZE == 8       \* ZDP_A2A_MAC_SIZE, ZDP_PACKET_MAC_SIZE
ZPI_SIZE == 1
BASE_SIZE == 2
FLOW_SIZE == 4
A2A_SIZE == 1

VARIABLES
    stage,      \* how far the packet is, or "dropped"
    why,        \* why it was dropped
    original,   \* what was sent
    mode,       \* the ports that are in the traffic classifier
    room,       \* where the body is in its buffer
    content,    \* the body: an IP packet, or a compressed one
    micv,       \* the A2A MAC that travels with it
    mac,        \* the MAC of the hop
    damaged     \* whether the substrate changed it

wire_vars == <<stage, why, original, mode, room, content, micv, mac, damaged>>

-----------------------------------------------------------------------------
(* Packet buffers.  ok remembers that no operation failed its assertion.   *)

new(len) == [head |-> Headroom, len |-> len, ok |-> Headroom + len <= Buffer]

tailroom_available(r) == Buffer - r.head - r.len

push_header(r, n) == [head |-> r.head - n, len |-> r.len + n, ok |-> r.ok /\ n <= r.head]
advance(r, n) == [head |-> r.head + n, len |-> r.len - n, ok |-> r.ok /\ n <= r.len]
put_tail(r, n) == [r EXCEPT !.len = @ + n, !.ok = @ /\ n <= tailroom_available(r)]
shrink_by(r, n) == [r EXCEPT !.len = @ - n, !.ok = @ /\ n <= r.len]

\* What was the first before bytes of the body becomes after bytes.
rewrite_front(r, before, after) ==
    IF after <= before THEN advance(r, before - after) ELSE push_header(r, after - before)

adopt_tailroom_with_header(r, n, written) ==
    [head |-> r.head + r.len - n, len |-> n + written,
     ok |-> r.ok /\ n <= r.len /\ written <= tailroom_available(r)]

\* Through a packet queue: the copy has the headroom of the packet.
deserialize_into(r) == [r EXCEPT !.ok = @ /\ r.head + r.len <= Buffer]

-----------------------------------------------------------------------------
(* Internet checksums.                                                     *)

\* The sum of the words, and its ones' complement form in 16 bits.
total(words) ==
    LET sum[i \in 0 .. Len(words)] == IF i = 0 THEN 0 ELSE sum[i - 1] + words[i]
    IN  sum[Len(words)]

ones_sum(words) ==
    IF total(words) = 0 THEN 0 ELSE ((total(words) - 1) % 65535) + 1

checksum(words) == 65535 - ones_sum(words)

ICMP == 1
TCP == 6
UDP == 17
HOPOPT == 0
IPV6_ROUTE == 43
FRAG == 44
AH == 51
ICMPV6 == 58
NO_NEXT_HEADER == 59
IPV6_OPTS == 60
Options == {HOPOPT, IPV6_ROUTE, AH, IPV6_OPTS}
BAD_OPTION == -1     \* no protocol: an option that is too long

\* The words of the IPv4 header: hl is in units of two words, and frag has
\* the flags above 8192.
ipv4_header(p) ==
    <<4 * 4096 + p.hl * 256, p.len, p.frag, p.ttl * 256 + p.proto, p.sum, p.src, p.dst>>
    \o SubSeq(p.rest, 1, 2 * (p.hl - 5))

inet_l4_checksum(ft, words) ==
    checksum(<<ft.src, ft.dst, ft.proto, 2 * Len(words)>> \o words)

-----------------------------------------------------------------------------
(* classifier.rs                                                           *)

error == [result |-> "error"]
panics == [result |-> "panic"]

is_option_length_error(words, next, n) ==
    n > Len(words) \/ (next # NO_NEXT_HEADER /\ n + 4 > Len(words))

classify_icmp(words) == checksum(words) # 0

classify_icmpv6(ft, words) == inet_l4_checksum(ft, words) # 0

classify_tcp(ft, words) ==
    \/ Len(words) < 10
    \/ inet_l4_checksum(ft, words) # 0
    \/ LET data_offset == 2 * (words[7] \div 4096) IN data_offset < 10 \/ data_offset > Len(words)

classify_udp(ft, words) ==
    \/ Len(words) < 4
    \/ words[4] # 0 /\ inet_l4_checksum(ft, words) # 0
    \/ words[3] # 2 * Len(words)

\* The five tuple of a packet; the ports of ICMP are its type and code.
five_tuple(p, proto, words) ==
    [v |-> p.v, src |-> p.src, dst |-> p.dst, proto |-> proto,
     sport |-> IF proto \in {TCP, UDP} THEN words[1]
               ELSE IF proto \in {ICMP, ICMPV6} THEN words[1] \div 256 ELSE 0,
     dport |-> IF proto \in {TCP, UDP} THEN words[2]
               ELSE IF proto \in {ICMP, ICMPV6} THEN words[1] % 256 ELSE 0]

classify_l4(p, proto, words) ==
    LET ft == five_tuple(p, proto, words)
        bad == \/ proto = ICMP /\ classify_icmp(words)
               \/ proto = ICMPV6 /\ classify_icmpv6(ft, words)
               \/ proto = TCP /\ classify_tcp(ft, words)
               \/ proto = UDP /\ classify_udp(ft, words)
    IN  IF bad THEN error ELSE [result |-> "OK", ft |-> ft]

rest_of(words, n) == SubSeq(words, n + 1, Len(words))

\* Where the classifier is in a chain of options: at a header of type proto
\* after n words.  The next header is skipped if it is an option: those are in
\* units of eight octets, authentication headers in units of four.
skip_option(at, words) ==
    LET left == rest_of(words, at.n)
        next == left[1] \div 256
        n == IF at.proto = AH THEN 2 * ((left[1] % 256) + 2) ELSE 4 * ((left[1] % 256) + 1)
    IN  IF at.proto \notin Options THEN at
        ELSE IF is_option_length_error(left, next, n) THEN [at EXCEPT !.proto = BAD_OPTION]
        ELSE [proto |-> next, n |-> at.n + n]

\* An option has four words or more, so there are fewer than words.
skip_options(proto, words) ==
    LET chain[i \in 0 .. Len(words)] ==
          IF i = 0 THEN [proto |-> proto, n |-> 0]
          ELSE skip_option(chain[i - 1], words)
    IN  chain[Len(words)]

\* Fragments are recognized, and dropped by actor_output.
classify_frag(words) ==
    IF is_option_length_error(words, words[1] \div 256, 4) THEN error
    ELSE [result |-> IF words[2] \div 8 # 0 THEN "SubsequentFragment" ELSE "FirstFragment"]

\* The classifier takes the first bytes of an extension header or the first four
\* of an ICMP header, and panics if a packet ends before them.  It does so for the
\* first header only: what an option leaves for the next one is checked.
cut_short(proto, words) ==
    \/ proto \in Options \cup {FRAG} /\ words = <<>>
    \/ proto \in {ICMP, ICMPV6} /\ Len(words) < 2

classify_next_header(p, words) ==
    LET at == skip_options(p.proto, words)
        left == rest_of(words, at.n)
    IN  IF cut_short(p.proto, words) THEN panics
        ELSE IF at.proto = BAD_OPTION THEN error
        ELSE IF at.proto = FRAG THEN classify_frag(left)
        ELSE classify_l4(p, at.proto, left)

classify_ipv4(p) ==
    LET options == 2 * (p.hl - 5)
    IN  IF p.hl < 5 \/ options > Len(p.rest) \/ checksum(ipv4_header(p)) # 0 THEN error
        ELSE IF p.frag % 8192 # 0 THEN [result |-> "SubsequentFragment"]
        ELSE IF p.len # 20 + 2 * Len(p.rest) THEN error
        ELSE IF (p.frag \div 8192) % 2 = 1 /\ ~cut_short(p.proto, rest_of(p.rest, options))
        THEN [result |-> "FirstFragment"]
        ELSE classify_next_header(p, rest_of(p.rest, options))

\* Jumbograms are refused.
classify_ipv6(p) ==
    IF (p.len = 0 /\ p.proto = HOPOPT) \/ p.len # 2 * Len(p.rest) THEN error
    ELSE classify_next_header(p, p.rest)

classify(p) == IF p.v = 4 THEN classify_ipv4(p) ELSE classify_ipv6(p)

-----------------------------------------------------------------------------
(* compress.rs.  The L4 parts work on what follows the base header.        *)

kept_ports(words) ==
    (IF "sport" \in mode THEN <<>> ELSE <<words[1]>>)
    \o (IF "dport" \in mode THEN <<>> ELSE <<words[2]>>)

compress_tcp(words) == kept_ports(words) \o SubSeq(words, 3, 8) \o rest_of(words, 9)

compress_udp(words) == kept_ports(words) \o rest_of(words, 3)

compress_l4(proto, words) ==
    IF proto = TCP THEN compress_tcp(words) ELSE IF proto = UDP THEN compress_udp(words) ELSE words

\* The ports of a compressed packet, and what is left.
expand_ports(ft, words) ==
    LET s == "sport" \in mode
        d == "dport" \in mode
    IN  [ports |-> <<IF s THEN ft.sport ELSE words[1],
                     IF d THEN ft.dport ELSE IF s THEN words[1] ELSE words[2]>>,
         left |-> rest_of(words, (IF s THEN 0 ELSE 1) + (IF d THEN 0 ELSE 1))]

expand_tcp(ft, words) ==
    LET e == expand_ports(ft, words)
        zeroed == e.ports \o SubSeq(e.left, 1, 6) \o <<0>> \o rest_of(e.left, 6)
    IN  [zeroed EXCEPT ![9] = inet_l4_checksum([ft EXCEPT !.proto = TCP], zeroed)]

\* Mutant of expand_udp: the length does not count the checksum.
expand_udp_short(ft, words) ==
    LET e == expand_ports(ft, words)
    IN  e.ports \o <<2 * Len(e.left) + 4>> \o e.left

expand_udp(ft, words) ==
    LET e == expand_ports(ft, words)
    IN  e.ports \o <<2 * Len(e.left) - 2 + 8>> \o e.left

expand_l4(ft, words) ==
    IF ft.proto = TCP THEN expand_tcp(ft, words)
    ELSE IF ft.proto = UDP THEN expand_udp(ft, words) ELSE words

\* The fields that a compressed header of either version carries: a fragment
\* offset is not, because fragments are dropped.
compress_ipv4(p) == [hl |-> p.hl, frag |-> p.frag, ttl |-> p.ttl]
compress_ipv6(p) == [hl |-> p.hl, frag |-> 0, ttl |-> p.ttl]

compress(proto, p) ==
    [header |-> IF p.v = 4 THEN compress_ipv4(p) ELSE compress_ipv6(p),
     rest |-> compress_l4(proto, p.rest)]

expand_ipv4(ft, h, words) ==
    LET p == [v |-> 4, hl |-> h.hl, len |-> 20 + 2 * Len(words), frag |-> h.frag,
              ttl |-> h.ttl, proto |-> ft.proto, sum |-> 0, src |-> ft.src, dst |-> ft.dst,
              rest |-> words]
    IN  [p EXCEPT !.sum = checksum(ipv4_header(p))]

expand_ipv6(ft, h, words) ==
    [v |-> 6, hl |-> h.hl, len |-> 2 * Len(words), frag |-> 0, ttl |-> h.ttl,
     proto |-> ft.proto, sum |-> 0, src |-> ft.src, dst |-> ft.dst, rest |-> words]

expand(ft, c) ==
    IF ft.v = 4 THEN expand_ipv4(ft, c.header, expand_l4(ft, c.rest))
    ELSE expand_ipv6(ft, c.header, expand_l4(ft, c.rest))

size(p) == (IF p.v = 4 THEN 20 ELSE 40) + 2 * Len(p.rest)
compressed_size(c) == 5 + 2 * Len(c.rest)

MAX_WORD == 65535

IpPackets == [v : {4, 6}, hl : Nat, len : Nat, frag : Nat, ttl : Nat, proto : Nat,
              sum : Nat, src : Nat, dst : Nat, rest : Seq(0 .. MAX_WORD)]

\* An IPv6 header has no length, fragment or checksum field.  The buffers have
\* room for the largest packet of the TUN device and the largest message, with
\* what is added to them.
ASSUME WireAssumption ==
    /\ Headroom \in Nat /\ Buffer \in Nat /\ Overhead \in Nat /\ Headroom >= 64
    /\ Packets \subseteq IpPackets
    /\ \A p \in Packets :
         /\ p.v = 6 => p.hl = 0 /\ p.frag = 0 /\ p.sum = 0
         /\ Headroom + size(p) + 2 * MAC_SIZE <= Buffer
    /\ \A n \in Messages : /\ n \in Nat /\ n >= BASE_SIZE
                            /\ Headroom + n + ZPI_SIZE + Overhead <= Buffer

-----------------------------------------------------------------------------
(* Protection of a hop.                                                    *)

encrypt_hmac(r) == put_tail(r, MAC_SIZE)

decrypt_hmac(r) == shrink_by(r, MAC_SIZE)

\* Mutant of encrypt_full: the overhead of the cipher is not counted.
encrypt_full_exact(r) ==
    IF tailroom_available(r) >= r.len - ZPI_SIZE
    THEN adopt_tailroom_with_header(r, ZPI_SIZE, r.len - ZPI_SIZE + Overhead)
    ELSE put_tail(shrink_by(r, r.len - ZPI_SIZE), r.len - ZPI_SIZE + Overhead)

encrypt_full(r) ==
    IF tailroom_available(r) >= r.len - ZPI_SIZE + Overhead
    THEN adopt_tailroom_with_header(r, ZPI_SIZE, r.len - ZPI_SIZE + Overhead)
    ELSE put_tail(shrink_by(r, r.len - ZPI_SIZE), r.len - ZPI_SIZE + Overhead)

decrypt_full(r) ==
    IF tailroom_available(r) >= r.len - ZPI_SIZE
    THEN adopt_tailroom_with_header(r, ZPI_SIZE, r.len - ZPI_SIZE - Overhead)
    ELSE put_tail(shrink_by(r, r.len - ZPI_SIZE), r.len - ZPI_SIZE - Overhead)

encap_zpi(r) == push_header(r, ZPI_SIZE)

\* Transit packets get a MAC; other packets are encrypted.
substrate_egress_common(r, transit) ==
    IF transit THEN encrypt_hmac(encap_zpi(r)) ELSE encrypt_full(encap_zpi(r))

\* Up to the ZDP header, which forward or the dispatcher reads next.
substrate_ingress(r, transit) ==
    advance(IF transit THEN decrypt_hmac(r) ELSE decrypt_full(r), ZPI_SIZE + BASE_SIZE)

-----------------------------------------------------------------------------
(* The way of a packet.                                                    *)

WireInit ==
    /\ why = "" /\ damaged = FALSE /\ mac = <<>> /\ micv = <<>>
    /\ \/ /\ stage = "actor"
          /\ original \in Packets
          /\ mode \in SUBSET {f \in {"sport", "dport"} :
                                classify(original).result = "OK" /\ classify(original).ft[f] # 0}
          /\ content = original
          /\ room = new(size(original))
       \/ /\ stage = "message"
          /\ original \in {[v |-> 0, size |-> n] : n \in Messages}
          /\ mode = {}
          /\ content = original
          /\ room = new(original.size)

Drop(reason) ==
    /\ stage' = "dropped" /\ why' = reason
    /\ UNCHANGED <<original, mode, room, content, micv, mac, damaged>>

decrement_ttl(p) == [p EXCEPT !.ttl = IF @ > 0 THEN @ - 1 ELSE 0]

\* A panic ends the process, and the packet with it.
actor_output ==
    /\ stage = "actor"
    /\ IF classify(content) = panics THEN Drop("panic")
       ELSE IF classify(content).result # "OK" THEN Drop("classifier")
       ELSE IF decrement_ttl(content).ttl = 0 THEN Drop("ttl")
       ELSE /\ content' = decrement_ttl(content)
            /\ stage' = "classified"
            /\ UNCHANGED <<why, original, mode, room, micv, mac, damaged>>

\* The rest of the sending adapter: the MAC for the whole way is taken of the
\* packet before it is compressed.
actor_output_post_classify ==
    LET c == compress(classify(original).ft.proto, content)
        with_mac == put_tail(rewrite_front(room, size(content), compressed_size(c)), MAC_SIZE)
    IN  /\ stage = "classified"
        /\ micv' = <<content>>
        /\ content' = c
        /\ room' = push_header(with_mac, A2A_SIZE)
        /\ stage' = "adapter"
        /\ UNCHANGED <<why, original, mode, mac, damaged>>

\* Forward on an adapter and on the node.
forward(from, to) ==
    /\ stage = from
    /\ room' = substrate_egress_common(push_header(room, FLOW_SIZE + BASE_SIZE), TRUE)
    /\ mac' = <<content>>
    /\ stage' = to
    /\ UNCHANGED <<why, original, mode, content, micv, damaged>>

\* The substrate changes a word of the packet.
Damage ==
    /\ stage \in {"hop1", "hop2"} /\ ~damaged /\ content.rest # <<>>
    /\ content' = [content EXCEPT !.rest[1] = (@ + 1) % 65536]
    /\ damaged' = TRUE
    /\ UNCHANGED <<stage, why, original, mode, room, micv, mac>>

\* A peer reads the packet into a fresh buffer, checks it and takes off its
\* headers.
receive(from, to) ==
    /\ stage = from
    /\ IF room.len > Buffer - Headroom THEN Drop("oversize")
       ELSE IF mac # <<content>> THEN Drop("damaged")
       ELSE /\ room' = advance(substrate_ingress(new(room.len), TRUE), FLOW_SIZE)
            /\ mac' = <<>>
            /\ stage' = to
            /\ UNCHANGED <<why, original, mode, content, micv, damaged>>

\* Mutant of a2a_mac_matches: the MAC of the whole way is not looked at.
a2a_mac_ignored(p) == TRUE

a2a_mac_matches(p) == micv = <<p>>

\* The receiving adapter expands the packet with its traffic classifier, in
\* which a port is only present if mode says so, and checks the MAC.
actor_input ==
    LET ft == classify(original).ft
        p == expand(ft, content)
        compressed == shrink_by(advance(room, A2A_SIZE), MAC_SIZE)
    IN  /\ stage = "arrived"
        /\ IF ~a2a_mac_matches(p) THEN Drop("micv")
           ELSE /\ content' = p
                /\ room' = rewrite_front(compressed, compressed_size(content), size(p))
                /\ stage' = "delivered"
                /\ UNCHANGED <<why, original, mode, micv, mac, damaged>>

\* A management message: through the queue to the fast path, and out.
send_message ==
    /\ stage = "message"
    /\ room' = substrate_egress_common(deserialize_into(room), FALSE)
    /\ stage' = "encrypted"
    /\ UNCHANGED <<why, original, mode, content, micv, mac, damaged>>

\* The dispatcher gets it with its base header.
receive_message ==
    /\ stage = "encrypted"
    /\ IF room.len > Buffer - Headroom THEN Drop("oversize")
       ELSE /\ room' = push_header(substrate_ingress(new(room.len), FALSE), BASE_SIZE)
            /\ stage' = "dispatched"
            /\ UNCHANGED <<why, original, mode, content, micv, mac, damaged>>

WireNext ==
    \/ actor_output \/ actor_output_post_classify
    \/ forward("adapter", "hop1") \/ receive("hop1", "node")
    \/ forward("node", "hop2") \/ receive("hop2", "arrived")
    \/ actor_input
    \/ Damage
    \/ send_message \/ receive_message

WireSpec == WireInit /\ [][WireNext]_wire_vars

-----------------------------------------------------------------------------
(* Properties.                                                             *)

\* No operation on a packet buffer fails its assertion (a panic), and the
\* body is as long as its contents, wherever a packet is.
PacketsFit ==
    /\ room.ok /\ room.head >= 0 /\ tailroom_available(room) >= 0
    /\ stage = "delivered" => room.len = size(content)
    /\ stage = "dispatched" => room.len = original.size

\* What is delivered is what was sent, with a decremented TTL and a checksum
\* that is right for it: no damage, no option and no port is put elsewhere.
DeliveredIntact ==
    stage = "delivered" =>
        /\ content = [original EXCEPT !.ttl = @ - 1, !.sum = content.sum]
        /\ classify(content).result = "OK"

plain(p) == p.proto \notin Options /\ p.hl = (IF p.v = 4 THEN 5 ELSE 0)

\* A TCP checksum that is 0 but was sent as 65535, which is as good for the
\* classifier.  No sender that takes the complement of a sum sends it.
minus_zero(p) == p.proto = TCP /\ p.rest[9] = 65535

\* An IPv6 packet without extension headers is not dropped for the MAC of the
\* whole way, and nothing for its size: whatever its protocol, ports and
\* wildcards are, compression loses nothing that is needed to restore it, and
\* what is added on the way has room.
PlainArrives ==
    /\ why # "oversize"
    /\ why = "micv" => ~(original.v = 6 /\ plain(original)) \/ minus_zero(original)

\* The same of every IP packet without options, as test_round_trip asserts of
\* its IPv4 packets.
RoundTrip ==
    why = "micv" => ~plain(original)

\* The classifier answers whatever an actor sends: a packet that it cannot make
\* sense of is an error, which actor_output drops and counts.
ClassifierAnswers == why # "panic"
=============================================================================
