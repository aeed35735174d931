----------------------------- MODULE RouteTable -----------------------------
(***************************************************************************)
(* src/m17tx_thread.cpp: class m17_route, the map from routes to callsigns *)
(* that m17tx_thread builds from the peers of the configuration, and its   *)
(* use for the packets of from_net; src/tuntap.cpp: the routes the kernel  *)
(* is given for the same peers, which decide what arrives there.           *)
(* Addresses have two bytes of ByteBits bits instead of four of eight:     *)
(* enough for what matters, that a mask counts bits in network order while *)
(* operator< compares s_addr as the host reads it, least significant byte  *)
(* first.  A callsign is named by the place of its peer.                   *)
(*                                                                         *)
(* operator< is no strict weak order, so what std::map answers depends on  *)
(* the shape of its red-black tree, which is simple up to MaxKeys keys.    *)
(***************************************************************************)
EXTENDS Integers, Sequences, FiniteSets, SequencesExt

CONSTANTS ByteBits,     \* bits of a byte
          Lengths,      \* mask lengths of routes
          MaxPeers,     \* bound: peers in the configuration
          MaxRoutes     \* bound: routes of a peer

\* Powers of two.
TwoTo[n \in Nat] == IF n = 0 THEN 1 ELSE 2 * TwoTo[n - 1]

AddrBits == 2 * ByteBits
Addr     == 0 .. TwoTo[AddrBits] - 1
MaxKeys  == 7           \* bound: keys for which Root is right

ASSUME BitsAssumption    == ByteBits \in Nat \ {0}
ASSUME LengthsAssumption == Lengths \subseteq 0 .. AddrBits
ASSUME PeersAssumption   == MaxPeers \in Nat /\ MaxRoutes \in Nat
ASSUME KeysAssumption    == MaxPeers * (MaxRoutes + 1) <= MaxKeys

VARIABLES peers,        \* the configuration: a sequence of [ip, routes]
          shift32,      \* what 0xFFFFFFFF << 32 leaves: "all" bits or "none"
          p, r,         \* which peer, and which route of it, is next
          callsign_map  \* in the tree's order: [key, callsign, born]

vars == <<peers, shift32, p, r, callsign_map>>

(***************************************************************************)
(* class m17_route.                                                        *)
(***************************************************************************)
\* An address as operator< reads it.
s_addr(a) == (a % TwoTo[ByteBits]) * TwoTo[ByteBits] + a \div TwoTo[ByteBits]

\* An address under getMask().  For length 0 the shift is by the width of the
\* type: undefined, and processors keep all of the bits or none.
Masked(a, len) ==
    IF len > 0 THEN a - (a % TwoTo[AddrBits - len])
    ELSE IF shift32 = "all" THEN a ELSE 0

Route(a, len) == [net |-> Masked(a, len), len |-> len]
HostRoute(a)  == [net |-> a, len |-> AddrBits]

\* A variant that compares under the longer mask.
Less_LongerMask(x, y) ==
    LET m == IF x.len < y.len THEN y.len ELSE x.len
    IN  s_addr(Masked(x.net, m)) < s_addr(Masked(y.net, m))

\* operator<: both under the shorter mask.
Less(x, y) ==
    LET m == IF x.len < y.len THEN x.len ELSE y.len
    IN  s_addr(Masked(x.net, m)) < s_addr(Masked(y.net, m))

(***************************************************************************)
(* std::map.  A subtree holds the keys at places lo .. hi of the order; at *)
(* its root is the oldest of them or, from three on, the middle one of the *)
(* three oldest (all that balancing does up to seven keys).                *)
(***************************************************************************)
Root(m, lo, hi) ==
    LET Older(i)  == {j \in lo .. hi : m[j].born < m[i].born}
        oldest    == {i \in lo .. hi :
                        Cardinality(Older(i)) < IF hi - lo >= 2 THEN 3 ELSE 1}
    IN  CHOOSE i \in oldest :
            Cardinality({j \in oldest : j < i}) = Cardinality(oldest) \div 2

\* A step down the tree, to the right from the places in a set and to the left
\* from the others, and the place in the order of the leaf where this ends.
Descend(m, right, s) ==
    IF s.lo > s.hi THEN s
    ELSE LET x == Root(m, s.lo, s.hi)
         IN  IF x \in right THEN [lo |-> x + 1, hi |-> s.hi] ELSE [lo |-> s.lo, hi |-> x - 1]

Leaf(m, right) ==
    LET down[n \in Nat] == IF n = 0 THEN [lo |-> 1, hi |-> Len(m)]
                           ELSE Descend(m, right, down[n - 1])
    IN  down[Len(m)].lo

\* A variant that returns the lower bound as it is.
Find_LowerBound(m, k) ==
    LET i == Leaf(m, {j \in DOMAIN m : Less(m[j].key, k)})
    IN  IF i \in DOMAIN m THEN m[i].callsign ELSE 0

\* find(): the first key not less than k, unless k is less than it.
Find(m, k) ==
    LET i == Leaf(m, {j \in DOMAIN m : Less(m[j].key, k)})
    IN  IF i \in DOMAIN m /\ ~Less(k, m[i].key) THEN m[i].callsign ELSE 0

\* insert(): nothing when the key before the leaf's place is not less than k.
Insert(m, k, c) ==
    LET i == Leaf(m, {j \in DOMAIN m : ~Less(k, m[j].key)})
    IN  IF i = 1 \/ Less(m[i - 1].key, k)
          THEN InsertAt(m, i, [key |-> k, callsign |-> c, born |-> Len(m)])
          ELSE m

(***************************************************************************)
(* m17tx_thread.                                                           *)
(***************************************************************************)
\* Routes may have host bits; the route to everywhere is written 0.0.0.0/0.
Routes == {x \in [addr : Addr, len : Lengths] : x.len = 0 => x.addr = 0}
Peers  == [ip : Addr, routes : BoundedSeq(Routes, MaxRoutes)]

Init == /\ peers \in BoundedSeq(Peers, MaxPeers)
        /\ shift32 \in {"all", "none"}
        /\ p = 1 /\ r = 1
        /\ callsign_map = <<>>

\* The callsign of an address: 0 is the message that no route matches.
Callsign(a) == Find(callsign_map, HostRoute(a))

\* A route of a peer, ...
InsertRoute ==
    /\ p <= Len(peers) /\ r <= Len(peers[p].routes)
    /\ LET x == peers[p].routes[r]
       IN  callsign_map' = Insert(callsign_map, Route(x.addr, x.len), p)
    /\ r' = r + 1
    /\ UNCHANGED <<peers, shift32, p>>

\* ... and after its routes, unless it is found among the keys already, its own
\* address.
InsertOwn ==
    /\ p <= Len(peers) /\ r > Len(peers[p].routes)
    /\ LET own == HostRoute(peers[p].ip)
       IN  callsign_map' = IF Find(callsign_map, own) = 0
                             THEN Insert(callsign_map, own, p) ELSE callsign_map
    /\ p' = p + 1 /\ r' = 1
    /\ UNCHANGED <<peers, shift32>>

\* The loop only reads the map.
Serve == p > Len(peers) /\ UNCHANGED vars

(***************************************************************************)
(* add_routes_to_peer, called by tun_thread for each peer: a host route to *)
(* the peer and its routes through it.  A call that fails ends it early    *)
(* and leaves the first of these entries.                                  *)
(***************************************************************************)
\* A variant whose mask is a bit short.
KernelRoutes_ShortMask(c) ==
    {[net |-> peers[c].ip, len |-> AddrBits, via |-> c]} \cup
    {[net |-> Masked(x.addr, x.len - 1), len |-> x.len - 1, via |-> c] :
        x \in {y \in Range(peers[c].routes) : y.len > 0}}

KernelRoutes(c) ==
    {[net |-> peers[c].ip, len |-> AddrBits, via |-> c]} \cup
    {[net |-> Masked(x.addr, x.len), len |-> x.len, via |-> c] : x \in Range(peers[c].routes)}

Next == InsertRoute \/ InsertOwn \/ Serve

Spec == Init /\ [][Next]_vars

(***************************************************************************)
(* Properties.                                                             *)
(***************************************************************************)
\* What the configuration says: the routes that contain an address.
Bits(a, len)   == a - (a % TwoTo[AddrBits - len])
InRoute(x, a)  == Bits(x.addr, x.len) = Bits(a, x.len)
Covers(c, a)   == \E x \in Range(peers[c].routes) : InRoute(x, a)
Covering(a)    == {c \in DOMAIN peers : Covers(c, a)}
Built          == p > Len(peers)

\* However the tree was misled, a packet is only ever sent to a peer whose
\* configuration has its destination.
OnlyToConfigured ==
    \A a \in Addr : LET c == Callsign(a)
                    IN  c > 0 => Covers(c, a) \/ peers[c].ip = a

\* When all the routes have one length, which is not 0, and include the peers'
\* addresses, a packet goes to the first peer with a route for it.
OneLength ==
    /\ \E len \in Lengths \ {0} :
          \A c \in DOMAIN peers : \A x \in Range(peers[c].routes) : x.len = len
    /\ \A c \in DOMAIN peers : Covers(c, peers[c].ip)

OneLengthWorks ==
    Built /\ OneLength =>
        \A a \in Addr : IF Covering(a) = {} THEN Callsign(a) = 0
                        ELSE /\ Callsign(a) \in Covering(a)
                             /\ \A c \in Covering(a) : Callsign(a) <= c

\* Two tables are made from the same text by different code: the kernel's,
\* which brings a packet to the daemon, and the daemon's, which names the
\* station it is sent to.  When no address is in routes of two peers, of
\* one length each, a packet goes to the peer whose route brought it.
SameGateway ==
    Built /\ OneLength /\ (\A a \in Addr : Cardinality(Covering(a)) <= 1) =>
        \A c \in DOMAIN peers : \A e \in KernelRoutes(c) :
            \A a \in Addr : Bits(a, e.len) = e.net => Callsign(a) = e.via

\* "Received a packet for ... but no route matches this address" is said only
\* of addresses no route matches.
RouteMatches == Built => \A a \in Addr : Callsign(a) = 0 => Covering(a) = {}
=============================================================================
