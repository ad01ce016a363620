--------------------------- MODULE ClientAddress ---------------------------
(***************************************************************************)
(* The client address of an HTTP event (logger/logger.go): which hop of    *)
(* the X-Forwarded-For headers HTTPMiddleware hands to write, given the    *)
(* proxies the operator trusts.                                            *)
(*                                                                         *)
(* A spelled address is [addr, mapped, zone]; addr is "" for text that is  *)
(* no address. A mapped one is the IPv6 form of an IPv4 address, a zone    *)
(* makes it unusable. A prefix of the configuration is the set of          *)
(* addresses it contains.                                                  *)
(***************************************************************************)
EXTENDS Integers, Sequences, SequencesExt, Functions, FiniteSets

CONSTANTS MaxForwardedBytes, MaxForwardedHops

\* ParseAddr and Unmap: "" when the text is not usable.
Unmapped(field) == IF field.zone THEN "" ELSE field.addr

\* parseTrustedProxyCIDRs: a prefix that cannot be parsed, has a zone, or is a
\* mapped one shorter than the IPv4 part is dropped.
ParseTrusted(prefixes) ==
    UNION {p.addrs : p \in {q \in Range(prefixes) : q.parses /\ ~q.zone /\ (q.mapped => q.long)}}

\* Mutant: the search starts at the hop that claims to be the client.
FirstUntrustedFromLeft(hops, trusted) == SelectInSeq(hops, LAMBDA a : a \notin trusted)

\* The search from the proxy nearest to the sensor.
FirstUntrusted(hops, trusted) == SelectLastInSeq(hops, LAMBDA a : a \notin trusted)

\* The hops of all headers, in the order in which they were added.
Hops(values) ==
    FlattenSeq([n \in DOMAIN values |->
        [i \in DOMAIN values[n].fields |-> Unmapped(values[n].fields[i])]])

\* clientAddrFromXFF: "" unless the peer is trusted, the headers are within
\* their limits and every field is an address; then the last untrusted hop.
ClientAddrFromXFF(peer, values, prefixes) ==
    LET trusted == ParseTrusted(prefixes)
        hops == Hops(values)
        bytes == FoldLeft(LAMBDA sum, v : sum + v.len, 0, values)
        at == FirstUntrusted(hops, trusted)
    IN IF \/ trusted = {} \/ values = <<>>
          \/ Unmapped(peer) \notin trusted
          \/ bytes > MaxForwardedBytes \/ Len(hops) > MaxForwardedHops
          \/ \E i \in DOMAIN hops : hops[i] = ""
          \/ at = 0
       THEN "" ELSE hops[at]

\* Whatever a client puts before what the proxies add, the recorded address is
\* the one they vouch for or none; it is none of the proxies, and it is only
\* taken from a trusted peer (clientAddrFromXFF).
Unforged(peer, values, prefixes, forged) ==
    LET addr == ClientAddrFromXFF(peer, values, prefixes)
        trusted == ParseTrusted(prefixes)
    IN addr # "" => /\ Unmapped(peer) \in trusted /\ addr \notin trusted
                    /\ ClientAddrFromXFF(peer, <<forged>> \o values, prefixes) \in {addr, ""}
====
