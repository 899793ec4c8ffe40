--------------------------- MODULE ClientAddresses ---------------------------
(***************************************************************************)
(* Who a request comes from (internal/clientip) and the key its budgets    *)
(* are counted under (ratelimit.IPKey).  An address is its 16-bit words,   *)
(* two of them for IPv4 and eight for IPv6; a forwarded entry may also be  *)
(* a text that is no address.                                              *)
(***************************************************************************)
EXTENDS Integers, Sequences, SequencesExt, FiniteSetsExt

CONSTANT Subnet   \* 56: the bits of an IPv6 address that name its network

\* The punctuation of texts, apart from every number.
Colon == -1
Gap == -2      \* "::"
Dot == -3
Slash == -4
Space == -5
Comma == -6

V4(words) == [kind |-> "v4", words |-> words, dotted |-> TRUE]
V6(words, dotted) == [kind |-> "v6", words |-> words, dotted |-> dotted]
Junk(text) == [kind |-> "junk", words |-> text, dotted |-> FALSE]

\* The n high bits of a word, the others cleared.
High(word, n) == (word \div 2^(16 - n)) * 2^(16 - n)
Keep(i, bits) == Max({0, Min({16, bits - 16 * (i - 1)})})
Masked(words, bits) == [i \in DOMAIN words |-> High(words[i], Keep(i, bits))]

---------------------------------------------------------------------------
(* The key of an address.                                                  *)

\* The longest run of two zero words or more, the first on a tie; <<0, 0>>
\* when there is none.
ZeroRun(words) ==
  LET runs == {<<i, j>> \in (1..8) \X (1..8) : i < j /\ \A k \in i..j : words[k] = 0}
      long == {r \in runs : \A s \in runs : s[2] - s[1] <= r[2] - r[1]}
  IN IF runs = {} THEN <<0, 0>> ELSE CHOOSE r \in long : \A s \in long : r[1] <= s[1]

Hex(words) == IF words = <<>> THEN <<>> ELSE FoldLeft(LAMBDA t, w : t \o <<Colon, w>>, <<Head(words)>>, Tail(words))
ipv6Text(words) ==
  LET run == ZeroRun(words)
  IN IF run[1] = 0 THEN Hex(words)
     ELSE Hex(SubSeq(words, 1, run[1] - 1)) \o <<Gap>> \o Hex(SubSeq(words, run[2] + 1, 8))

Dotted(words) == <<words[1] \div 256, Dot, words[1] % 256, Dot, words[2] \div 256, Dot, words[2] % 256>>

\* IPv4-mapped, or IPv4-compatible and written dotted.
CarriesV4(ip) ==
  /\ \A i \in 1..5 : ip.words[i] = 0
  /\ ip.words[6] = 65535 \/ (ip.dotted /\ ip.words[6] = 0)

IPKey(ip) ==
  CASE ip.kind = "junk" -> ip.words
    [] ip.kind = "v4" -> Dotted(ip.words)
    [] ip.kind = "v6" /\ CarriesV4(ip) -> Dotted(SubSeq(ip.words, 7, 8))
    [] OTHER -> ipv6Text(Masked(ip.words, Subnet)) \o <<Slash, Subnet>>

---------------------------------------------------------------------------
(* PAGES_TRUST_PROXY.  An entry is an address with no range, a number of   *)
(* bits or an IPv4 netmask; the named ranges are several of them.          *)

Whole == -1    \* no range
Mask == -2     \* a netmask
Entry(ip, range, mask) == [ip |-> ip, range |-> range, mask |-> mask]

Bit(words, i) == (words[((i - 1) \div 16) + 1] \div 2^(15 - ((i - 1) % 16))) % 2

\* The length of a mask of ones and then zeros, else -1.
prefixFromMask(mask) ==
  LET n == Max({k \in 0..32 : \A i \in 1..k : Bit(mask, i) = 1})
  IN IF \E i \in n + 1..32 : Bit(mask, i) = 1 THEN -1 ELSE n

IsMapped(ip) == ip.kind = "v6" /\ ip.words[6] = 65535 /\ \A i \in 1..5 : ip.words[i] = 0
Unmap(ip) == V4(SubSeq(ip.words, 7, 8))
As16(ip) == IF ip.kind = "v4" THEN V6(<<0, 0, 0, 0, 0, 65535>> \o ip.words, FALSE) ELSE ip
BitLen(ip) == 16 * Len(ip.words)

Invalid == [ip |-> Junk(<<>>), bits |-> 0]
parseNotation(entry) ==
  LET ip == IF entry.range = Whole /\ IsMapped(entry.ip) THEN Unmap(entry.ip) ELSE entry.ip
      bits == CASE entry.range = Whole -> BitLen(ip)
                [] entry.range = Mask -> IF ip.kind = "v4" THEN prefixFromMask(entry.mask) ELSE -1
                [] OTHER -> entry.range
  IN IF ip.kind = "junk" \/ bits <= 0 \/ bits > BitLen(ip) THEN Invalid
     ELSE [ip |-> [ip EXCEPT !.words = Masked(ip.words, bits)], bits |-> bits]

\* Parse: the compiled setting; one invalid entry refuses the start-up.
Starts(setting) == \A e \in setting : parseNotation(e) # Invalid
Subnets(setting) == {parseNotation(e) : e \in setting}

InSubnet(subnet, ip) == ip.kind = subnet.ip.kind /\ Masked(ip.words, subnet.bits) = subnet.ip.words

Trusts(setting, addr, hop) ==
  /\ hop = 0 /\ addr.kind # "junk"
  /\ \E s \in Subnets(setting) :
        IF s.ip.kind = addr.kind THEN InSubnet(s, addr)
        ELSE IF s.ip.kind = "v4" THEN IsMapped(addr) /\ InSubnet(s, Unmap(addr))
        ELSE InSubnet(s, As16(addr))

---------------------------------------------------------------------------
(* X-Forwarded-For, read from its right end: `start` and `end` hold the    *)
(* entry being read.                                                       *)

ForwardedFor(header) ==
  LET n == Len(header)
      Take(r) == IF r.start # r.end THEN Append(r.list, SubSeq(header, r.start, r.end - 1)) ELSE r.list
      Read(r, c) ==
        CASE c = Space -> IF r.start = r.end THEN [r EXCEPT !.i = @ - 1, !.start = r.i, !.end = r.i] ELSE [r EXCEPT !.i = @ - 1]
          [] c = Comma -> [i |-> r.i - 1, start |-> r.i, end |-> r.i, list |-> Take(r)]
          [] OTHER   -> [r EXCEPT !.i = @ - 1, !.start = r.i]
  IN Take(FoldLeft(Read, [i |-> n, start |-> n + 1, end |-> n + 1, list |-> <<>>], Reverse(header)))

\* `addrs` is the peer and then the forwarded entries, nearest first.
ClientIP(setting, addrs) ==
  LET stops == {i \in 1..Len(addrs) - 1 : ~Trusts(setting, addrs[i], i - 1)}
  IN addrs[IF stops = {} THEN Len(addrs) ELSE Min(stops)]

---------------------------------------------------------------------------
(* Reference definitions.                                                  *)

AllBits(ip) == [i \in 1..BitLen(ip) |-> Bit(ip.words, i)]
Holder(ip) ==
  CASE ip.kind = "v6" /\ CarriesV4(ip) -> AllBits(V4(SubSeq(ip.words, 7, 8)))
    [] ip.kind = "v6" /\ ~CarriesV4(ip) -> <<Slash>> \o SubSeq(AllBits(ip), 1, Subnet)
    [] ip.kind = "v4" -> AllBits(ip)
    [] OTHER -> ip.words

\* Two addresses share a budget exactly when one person may hold both: the
\* same IPv4 address however it is written, or the same IPv6 network.
KeysIsolate(a, b) == (IPKey(a) = IPKey(b)) <=> (Holder(a) = Holder(b))

\* A peer is a proxy exactly when some entry's leading bits are its own,
\* IPv4 and IPv4-mapped alike.
InEntry(e, addr) ==
  LET bits == CASE e.range = Whole -> BitLen(e.ip)
                [] e.range = Mask -> Cardinality({i \in 1..32 : Bit(e.mask, i) = 1})
                [] OTHER -> e.range
      lead == IF e.ip.kind = "v4" THEN bits + 96 ELSE bits
  IN SubSeq(AllBits(As16(e.ip)), 1, lead) = SubSeq(AllBits(As16(addr)), 1, lead)
TrustFaithful(setting, addr) ==
  Starts(setting) => (Trusts(setting, addr, 0) <=> addr.kind # "junk" /\ \E e \in setting : InEntry(e, addr))

\* The entries between commas, trimmed, the empty ones left out, last first.
Trimmed(s) ==
  LET solid == {i \in DOMAIN s : s[i] # Space}
  IN IF solid = {} THEN <<>> ELSE SubSeq(s, Min(solid), Max(solid))
Entries(header) ==
  LET ends == {0, Len(header) + 1} \cup {i \in DOMAIN header : header[i] = Comma}
      cuts == SetToSortSeq(ends, >)
  IN SelectSeq([k \in 1..Len(cuts) - 1 |-> Trimmed(SubSeq(header, cuts[k + 1] + 1, cuts[k] - 1))], LAMBDA e : e # <<>>)

\* What the client itself wrote in the header changes nothing: behind a
\* trusted proxy that appends the address it saw, the client is that address;
\* from any other peer, the client is the peer.
HeaderFaithful(setting, peer, sent, seen) ==
  LET list == ForwardedFor(sent \o <<Comma, Space>> \o seen)
      addrs == <<peer>> \o [i \in DOMAIN list |-> Junk(list[i])]
  IN /\ ForwardedFor(sent) = Entries(sent)
     /\ Starts(setting) => ClientIP(setting, addrs) = IF Trusts(setting, peer, 0) THEN Junk(seen) ELSE peer
=============================================================================
