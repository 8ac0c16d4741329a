------------------------------- MODULE MCWire -------------------------------
(* The packets to check Wire with: each protocol over IPv4 and IPv6, with  *)
(* and without options, and each way in which a packet can be wrong.       *)
EXTENDS Wire

\* A packet with the right lengths and checksums.
l4(v, proto, data) ==
    LET ft == [v |-> v, src |-> 11, dst |-> 12, proto |-> proto]
        tcp == <<5, 80, 1, 2, 3, 4, 5 * 4096, 6, 0, 0>> \o data
        udp == <<5, 53, 8 + 2 * Len(data), 0>> \o data
        icmp == <<8 * 256 + 1, 0>> \o data
    IN  IF proto = TCP THEN [tcp EXCEPT ![9] = inet_l4_checksum(ft, tcp)]
        ELSE IF proto = UDP THEN [udp EXCEPT ![4] = inet_l4_checksum(ft, udp)]
        ELSE IF proto = ICMP THEN [icmp EXCEPT ![2] = checksum(icmp)]
        ELSE IF proto = ICMPV6 THEN [icmp EXCEPT ![2] = inet_l4_checksum(ft, icmp)]
        ELSE data

\* Options of IPv4, or an extension header.
extra(v, proto, ext) ==
    IF v = 4 /\ ext = HOPOPT THEN <<21, 22>>
    ELSE IF ext = HOPOPT THEN <<proto * 256, 31, 32, 33>>
    ELSE IF ext = IPV6_ROUTE THEN <<IPV6_OPTS * 256, 31, 32, 33, proto * 256 + 1, 31, 32, 33, 34, 35, 36, 37>>
    ELSE IF ext = AH THEN <<proto * 256 + 1, 31, 32, 33, 34, 35>>
    ELSE IF ext = FRAG THEN <<proto * 256, 1, 0, 0>>
    ELSE <<>>

ip(v, proto, ext, data, ttl, frag) ==
    LET words == extra(v, proto, ext) \o l4(v, proto, data)
        options == v = 4 /\ ext = HOPOPT
        p == [v |-> v, hl |-> IF v = 6 THEN 0 ELSE IF options THEN 6 ELSE 5,
              len |-> (IF v = 4 THEN 20 ELSE 0) + 2 * Len(words), frag |-> frag, ttl |-> ttl,
              proto |-> IF ext = -1 \/ options THEN proto ELSE ext, sum |-> 0,
              src |-> 11, dst |-> 12, rest |-> words]
    IN  IF v = 4 THEN [p EXCEPT !.sum = checksum(ipv4_header(p))] ELSE p

\* Wrong: a checksum or the length.
spoiled(p) ==
    {[p EXCEPT !.len = @ + 2], [p EXCEPT !.rest[Len(p.rest)] = (@ + 1) % 65536]}
    \cup (IF p.v = 4 THEN {[p EXCEPT !.sum = (@ + 1) % 65536]} ELSE {})

good == {ip(v, proto, ext, data, ttl, 0) : v \in {4, 6}, proto \in {TCP, UDP, ICMP, ICMPV6, 47},
            ext \in {-1, HOPOPT, IPV6_ROUTE, AH, FRAG}, data \in {<<9>>, <<9, 0, 7>>}, ttl \in 0 .. 3}

fragments == {ip(4, proto, -1, <<9>>, 2, frag) : proto \in {TCP, UDP}, frag \in {8192, 1}}

\* A TCP packet whose checksum is 0, in both forms.
zeros ==
    LET p == ip(6, TCP, -1, <<0>>, 2, 0)
    IN  {[p EXCEPT !.rest[11] = p.rest[9], !.rest[9] = sum] : sum \in {0, 65535}}

\* A packet that ends before the header that its IP header announces, or in it.
short(v, proto, words) ==
    LET p == [v |-> v, hl |-> IF v = 6 THEN 0 ELSE 5, len |-> (IF v = 4 THEN 20 ELSE 0) + 2 * Len(words),
              frag |-> 0, ttl |-> 2, proto |-> proto, sum |-> 0, src |-> 11, dst |-> 12, rest |-> words]
    IN  IF v = 4 THEN [p EXCEPT !.sum = checksum(ipv4_header(p))] ELSE p

shorts == {short(v, proto, words) : v \in {4, 6}, words \in {<<>>, <<8 * 256>>},
                                    proto \in {TCP, UDP, ICMP, ICMPV6, HOPOPT, IPV6_ROUTE, AH, FRAG}}

MCPackets ==
    good \cup fragments \cup zeros \cup shorts
    \cup UNION {spoiled(p) : p \in {q \in good : q.ttl = 2}}
=============================================================================
