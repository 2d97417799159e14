------------------------------- MODULE BPFLib -------------------------------
(***************************************************************************)
(* The BPF map layer of felix/bpf/bpf.go (BPFLib): the pinned failsafe-    *)
(* port hash map, the per-interface XDP CIDR maps and the sockmap          *)
(* endpoints map, all driven through bpftool with keys and values written  *)
(* as hex bytes.  The model keeps the bytes: a key is a sequence of bytes  *)
(* built by the code's own encoders (failsafeToHex, CidrToHex,             *)
(* cidrMapValueToHex) and read back by its decoders (hexToFailsafe,        *)
(* hexToIPNet, hexToCIDRMapValue).  The kernel side is the semantics of a  *)
(* BPF hash map (a set of keys) and of an lpm_trie (one node per prefix    *)
(* length and prefix, longest-prefix-match lookup).                        *)
(*                                                                         *)
(* A bpftool call that fails (map not pinned, key absent on delete, a      *)
(* prefix length the kernel refuses) changes nothing and returns an error; *)
(* such calls are the stuttering steps.  The ghost variables record what   *)
(* the caller was told succeeded, which is what a later Dump or Lookup is  *)
(* compared with.                                                          *)
(***************************************************************************)
EXTENDS Integers, Sequences, FiniteSets

CONSTANTS
    Ifaces,     \* interfaces with an XDP CIDR map
    Protos,     \* IP protocol numbers of failsafe ports
    Ports,      \* failsafe port numbers
    IPs,        \* IPv4 addresses, as 32-bit integers (below 2^31 for TLC)
    Masks,      \* CIDR prefix lengths handed to CidrToHex, valid or not
    RefCounts,  \* CIDR map reference counts
    NotFound    \* a lookup that bpftool answers with an error

ASSUME Protos \subseteq 0..255 /\ Ports \subseteq 0..65535
ASSUME IPs \subseteq 0..2147483647 /\ Masks \subseteq 8..40
ASSUME RefCounts \subseteq 0..2147483647

Byte == 0..255

(* Map identities: the pinned file names of bpf.go lines 66-84 and 246-248. *)
FailsafeMap == <<"calico_failsafe_ports_v1">>
SockmapEndpointsMap == <<"calico_sk_endpoints_v1">>
CIDRMap(i) == <<"blacklist_v1", i>>
MapIds == {FailsafeMap, SockmapEndpointsMap} \cup {CIDRMap(i) : i \in Ifaces}

VARIABLES
    pinned,          \* map ids whose pinned file exists in the BPF filesystem
    failsafe,        \* the failsafe hash map: its set of 4-byte keys
    cidr,            \* per interface, the lpm_trie's entries [key, value]
    sockEndpoints,   \* the sockmap endpoints lpm_trie's entries
    failsafeWanted,  \* ghost: <<proto, port>> pairs the caller put and did not remove
    cidrWanted,      \* ghost: per interface, the caller's [ip, mask, ref] per prefix
    sockWanted       \* ghost: the caller's [ip, mask] per prefix

vars == <<pinned, failsafe, cidr, sockEndpoints,
          failsafeWanted, cidrWanted, sockWanted>>

-----------------------------------------------------------------------------
(* Byte encodings (encoding/binary): little endian, and nativeEndian, which *)
(* is little endian on the amd64 and arm64 builds.                         *)
LE16(n) == <<n % 256, (n \div 256) % 256>>
LEUint16(b) == b[1] + 256 * b[2]
LE32(n) == <<n % 256, (n \div 256) % 256, (n \div 65536) % 256, n \div 16777216>>
LEUint32(b) == b[1] + 256 * b[2] + 65536 * b[3] + 16777216 * b[4]

(* net.IP.To4: the address's bytes in network order, and back. *)
IPBytes(ip) == <<ip \div 16777216, (ip \div 65536) % 256, (ip \div 256) % 256, ip % 256>>
BytesToIP(b) == 16777216 * b[1] + 65536 * b[2] + 256 * b[3] + b[4]

(* The first plen bits of ip, 8 <= plen <= 32. *)
Net(ip, plen) == ip \div 2^(32 - plen)

\* Mutant: the port formatted with %02x as it is, not through PutUint16.
failsafeToHexRawPort(proto, port) == <<proto, 0, port, port \div 256>>

(* failsafeToHex: proto, a zero padding byte, the port little endian. *)
failsafeToHex(proto, port) == <<proto, 0>> \o LE16(port)

(* hexToFailsafe: the padding must be zero; the port is rebuilt from the  *)
(* third byte as its MSB and the fourth as its LSB.                       *)
hexToFailsafe(h) ==
    LET portMSB == h[3]
        portLSB == h[4]
    IN  [ok |-> h[2] = 0, proto |-> h[1], port |-> LEUint16(<<portLSB, portMSB>>)]

(* CidrToHex: the mask must lie in 0..32; the key is the mask as a        *)
(* little-endian uint32 followed by the IPv4 bytes.                       *)
CidrValid(mask) == mask >= 0 /\ mask <= 32
CidrToHex(ip, mask) == LE32(mask) \o IPBytes(ip)

(* hexToIPNet: mask from the first four bytes, IP from the rest. *)
hexToIPNet(h) == [ip |-> BytesToIP(SubSeq(h, 5, 8)), mask |-> LEUint32(SubSeq(h, 1, 4))]

\* Mutant: the ref count written big endian (binary.BigEndian for nativeEndian).
cidrMapValueToHexBigEndian(refCount) ==
    <<refCount \div 16777216, (refCount \div 65536) % 256, (refCount \div 256) % 256, refCount % 256>>

cidrMapValueToHex(refCount) == LE32(refCount)

(* hexToCIDRMapValue: a value must be four bytes, read native endian. *)
hexToCIDRMapValue(h) == IF Len(h) = 4 THEN LEUint32(h) ELSE NotFound

(* net.CIDRMask(ones, 32): ones leading one bits over four bytes. *)
CIDRMask(ones) ==
    [j \in 1..4 |-> LET bits == IF ones - 8 * (j - 1) > 8 THEN 8
                                ELSE IF ones - 8 * (j - 1) < 0 THEN 0
                                ELSE ones - 8 * (j - 1)
                    IN  256 - 2^(8 - bits)]

(* NewCIDRMapKey: the IP as a 16-byte IPv4-mapped address and the mask    *)
(* right-aligned in sixteen bytes of 0xff.                                *)
NewCIDRMapKey(n) ==
    [rawIP   |-> <<0,0,0,0,0,0,0,0,0,0,255,255>> \o IPBytes(n.ip),
     rawMask |-> <<255,255,255,255,255,255,255,255,255,255,255,255>> \o CIDRMask(n.mask)]

-----------------------------------------------------------------------------
(* The kernel's lpm_trie.  A node is identified by its prefix length and  *)
(* the first prefixlen bits of its data; an update replaces the node with *)
(* the same identity (key bytes included); a prefix length over 32 is     *)
(* refused; a lookup returns the longest stored prefix, no longer than    *)
(* the key's, that matches the key.                                       *)
PrefixLen(k) == LEUint32(SubSeq(k, 1, 4))
KeyIP(k) == BytesToIP(SubSeq(k, 5, 8))
LPMValid(k) == PrefixLen(k) <= 32
SameNode(k1, k2) ==
    PrefixLen(k1) = PrefixLen(k2) /\ Net(KeyIP(k1), PrefixLen(k1)) = Net(KeyIP(k2), PrefixLen(k1))
Covers(n, k) ==
    PrefixLen(n) <= PrefixLen(k) /\ Net(KeyIP(n), PrefixLen(n)) = Net(KeyIP(k), PrefixLen(n))
LPMUpdate(m, k, v) == {e \in m : ~SameNode(e.key, k)} \cup {[key |-> k, value |-> v]}
LPMHasNode(m, k) == \E e \in m : SameNode(e.key, k)
LPMDelete(m, k) == {e \in m : ~SameNode(e.key, k)}
LPMLookup(m, k) ==
    LET hits == {e \in m : Covers(e.key, k)}
    IN  IF hits = {} THEN NotFound
        ELSE (CHOOSE e \in hits : \A f \in hits : PrefixLen(f.key) <= PrefixLen(e.key)).value

-----------------------------------------------------------------------------
(* The caller's view of an lpm map: one entry per prefix, the last put.   *)
SamePrefix(w, ip, mask) == w.mask = mask /\ Net(w.ip, mask) = Net(ip, mask)
CallerPut(ws, w) == {x \in ws : ~SamePrefix(x, w.ip, w.mask)} \cup {w}
CallerDelete(ws, ip, mask) == {x \in ws : ~SamePrefix(x, ip, mask)}

Init ==
    /\ pinned = {}
    /\ failsafe = {}
    /\ cidr = [i \in Ifaces |-> {}]
    /\ sockEndpoints = {}
    /\ failsafeWanted = {}
    /\ cidrWanted = [i \in Ifaces |-> {}]
    /\ sockWanted = {}

-----------------------------------------------------------------------------
(* newMap: if the pinned file already exists it is taken as the map, old  *)
(* contents and all; otherwise bpftool creates an empty map and pins it.  *)
(* The contents of an unpinned map are empty (see the Remove actions).             *)
newMap(m) ==
    /\ pinned' = pinned \cup {m}
    /\ UNCHANGED <<failsafe, cidr, sockEndpoints, failsafeWanted, cidrWanted, sockWanted>>

NewFailsafeMap == newMap(FailsafeMap)
NewCIDRMap(i) == newMap(CIDRMap(i))
NewSockmapEndpointsMap == newMap(SockmapEndpointsMap)

(* RemoveFailsafeMap, RemoveCIDRMap, RemoveSockmapEndpointsMap: os.Remove *)
(* of the pinned file, which fails if it is absent.  With the pin gone    *)
(* the map is released, and a later newMap makes an empty one.            *)
RemoveFailsafeMap ==
    /\ FailsafeMap \in pinned
    /\ pinned' = pinned \ {FailsafeMap}
    /\ failsafe' = {}
    /\ failsafeWanted' = {}
    /\ UNCHANGED <<cidr, sockEndpoints, cidrWanted, sockWanted>>

RemoveCIDRMap(i) ==
    /\ CIDRMap(i) \in pinned
    /\ pinned' = pinned \ {CIDRMap(i)}
    /\ cidr' = [cidr EXCEPT ![i] = {}]
    /\ cidrWanted' = [cidrWanted EXCEPT ![i] = {}]
    /\ UNCHANGED <<failsafe, sockEndpoints, failsafeWanted, sockWanted>>

RemoveSockmapEndpointsMap ==
    /\ SockmapEndpointsMap \in pinned
    /\ pinned' = pinned \ {SockmapEndpointsMap}
    /\ sockEndpoints' = {}
    /\ sockWanted' = {}
    /\ UNCHANGED <<failsafe, cidr, failsafeWanted, cidrWanted>>

(* UpdateFailsafeMap: bpftool map update with key failsafeToHex and value *)
(* 1; the hash map holds each key once.                                   *)
UpdateFailsafeMap(proto, port) ==
    /\ FailsafeMap \in pinned
    /\ failsafe' = failsafe \cup {failsafeToHex(proto, port)}
    /\ failsafeWanted' = failsafeWanted \cup {<<proto, port>>}
    /\ UNCHANGED <<pinned, cidr, sockEndpoints, cidrWanted, sockWanted>>

(* RemoveItemFailsafeMap: bpftool map delete, an error if the key is absent. *)
RemoveItemFailsafeMap(proto, port) ==
    /\ FailsafeMap \in pinned
    /\ failsafeToHex(proto, port) \in failsafe
    /\ failsafe' = failsafe \ {failsafeToHex(proto, port)}
    /\ failsafeWanted' = failsafeWanted \ {<<proto, port>>}
    /\ UNCHANGED <<pinned, cidr, sockEndpoints, cidrWanted, sockWanted>>

(* UpdateCIDRMap: CidrToHex rejects a bad mask before bpftool runs; the   *)
(* kernel refuses a prefix length over 32.                                *)
UpdateCIDRMap(i, ip, mask, refCount) ==
    LET k == CidrToHex(ip, mask) IN
    /\ CIDRMap(i) \in pinned
    /\ CidrValid(mask)
    /\ LPMValid(k)
    /\ cidr' = [cidr EXCEPT ![i] = LPMUpdate(@, k, cidrMapValueToHex(refCount))]
    /\ cidrWanted' = [cidrWanted EXCEPT ![i] =
                        CallerPut(@, [ip |-> ip, mask |-> mask, ref |-> refCount])]
    /\ UNCHANGED <<pinned, failsafe, sockEndpoints, failsafeWanted, sockWanted>>

(* RemoveItemCIDRMap: bpftool map delete of the node for the key's prefix. *)
RemoveItemCIDRMap(i, ip, mask) ==
    LET k == CidrToHex(ip, mask) IN
    /\ CIDRMap(i) \in pinned
    /\ CidrValid(mask)
    /\ LPMHasNode(cidr[i], k)
    /\ cidr' = [cidr EXCEPT ![i] = LPMDelete(@, k)]
    /\ cidrWanted' = [cidrWanted EXCEPT ![i] = CallerDelete(@, ip, mask)]
    /\ UNCHANGED <<pinned, failsafe, sockEndpoints, failsafeWanted, sockWanted>>

(* UpdateSockmapEndpoints: key CidrToHex, value the bytes 01 00 00 00. *)
UpdateSockmapEndpoints(ip, mask) ==
    LET k == CidrToHex(ip, mask) IN
    /\ SockmapEndpointsMap \in pinned
    /\ CidrValid(mask)
    /\ LPMValid(k)
    /\ sockEndpoints' = LPMUpdate(sockEndpoints, k, <<1, 0, 0, 0>>)
    /\ sockWanted' = CallerPut(sockWanted, [ip |-> ip, mask |-> mask])
    /\ UNCHANGED <<pinned, failsafe, cidr, failsafeWanted, cidrWanted>>

RemoveItemSockmapEndpointsMap(ip, mask) ==
    LET k == CidrToHex(ip, mask) IN
    /\ SockmapEndpointsMap \in pinned
    /\ CidrValid(mask)
    /\ LPMHasNode(sockEndpoints, k)
    /\ sockEndpoints' = LPMDelete(sockEndpoints, k)
    /\ sockWanted' = CallerDelete(sockWanted, ip, mask)
    /\ UNCHANGED <<pinned, failsafe, cidr, failsafeWanted, cidrWanted>>

Next ==
    \/ NewFailsafeMap \/ NewSockmapEndpointsMap
    \/ RemoveFailsafeMap \/ RemoveSockmapEndpointsMap
    \/ \E i \in Ifaces : NewCIDRMap(i) \/ RemoveCIDRMap(i)
    \/ \E pr \in Protos, po \in Ports :
          UpdateFailsafeMap(pr, po) \/ RemoveItemFailsafeMap(pr, po)
    \/ \E i \in Ifaces, ip \in IPs, mask \in Masks :
          \/ \E rc \in RefCounts : UpdateCIDRMap(i, ip, mask, rc)
          \/ RemoveItemCIDRMap(i, ip, mask)
    \/ \E ip \in IPs, mask \in Masks :
          UpdateSockmapEndpoints(ip, mask) \/ RemoveItemSockmapEndpointsMap(ip, mask)

Spec == Init /\ [][Next]_vars

-----------------------------------------------------------------------------
(* Reads.  Each is a bpftool dump or lookup of a pinned map, decoded by   *)
(* the code's decoders.                                                   *)

(* DumpFailsafeMap: every key through hexToFailsafe; a bad key fails the  *)
(* whole dump.                                                            *)
DumpFailsafeMap ==
    IF \E k \in failsafe : ~hexToFailsafe(k).ok THEN NotFound
    ELSE {<<hexToFailsafe(k).proto, hexToFailsafe(k).port>> : k \in failsafe}

(* LookupFailsafeMap: true when bpftool finds the key. *)
LookupFailsafeMap(proto, port) == failsafeToHex(proto, port) \in failsafe

(* DumpCIDRMap: a map from NewCIDRMapKey(hexToIPNet(key)) to the value. *)
DumpCIDRMap(i) ==
    {[key |-> NewCIDRMapKey(hexToIPNet(e.key)), value |-> hexToCIDRMapValue(e.value)] : e \in cidr[i]}

\* Mutant: the lookup key formatted from the bare IP, as a /32.
LookupCIDRMapHostKey(i, ip, mask) ==
    LET v == LPMLookup(cidr[i], CidrToHex(ip, 32))
    IN  IF v = NotFound THEN NotFound ELSE hexToCIDRMapValue(v)

(* LookupCIDRMap: bpftool map lookup of CidrToHex(ip, mask). *)
LookupCIDRMap(i, ip, mask) ==
    LET v == LPMLookup(cidr[i], CidrToHex(ip, mask))
    IN  IF v = NotFound THEN NotFound ELSE hexToCIDRMapValue(v)

DumpSockmapEndpointsMap == {NewCIDRMapKey(hexToIPNet(e.key)) : e \in sockEndpoints}

\* Mutant: bpftool's error ignored, the lookup true for any pinned map.
LookupSockmapEndpointsMapIgnoreErr(ip, mask) == SockmapEndpointsMap \in pinned

(* LookupSockmapEndpointsMap: true when bpftool finds an entry. *)
LookupSockmapEndpointsMap(ip, mask) == LPMLookup(sockEndpoints, CidrToHex(ip, mask)) # NotFound

-----------------------------------------------------------------------------
(* Properties.                                                             *)

(* Every map holds byte strings of its declared layout: failsafe keys of  *)
(* four bytes (map key size 4), lpm keys of eight and values of four.     *)
TypeOK ==
    /\ pinned \subseteq MapIds
    /\ failsafe \subseteq [1..4 -> Byte]
    /\ \A i \in Ifaces : cidr[i] \subseteq [key : [1..8 -> Byte], value : [1..4 -> Byte]]
    /\ sockEndpoints \subseteq [key : [1..8 -> Byte], value : [1..4 -> Byte]]

(* The caller's prefix of an [ip, mask] record, for the longest match.     *)
CallerLongest(ws, ip, mask) ==
    LET hits == {w \in ws : w.mask <= mask /\ Net(w.ip, w.mask) = Net(ip, w.mask)}
    IN  IF hits = {} THEN NotFound
        ELSE CHOOSE w \in hits : \A x \in hits : x.mask <= w.mask

(* DumpFailsafeMap returns exactly the <<proto, port>> pairs put by       *)
(* UpdateFailsafeMap and not removed since: the comment on failsafeToHex  *)
(* (bpf.go 1253-1264) fixes the key layout as the port little endian, and *)
(* hexToFailsafe is its inverse.                                          *)
FailsafeDumpMatches ==
    FailsafeMap \in pinned => DumpFailsafeMap = failsafeWanted

(* DumpCIDRMap of a pinned map gives, per prefix the caller put through   *)
(* UpdateCIDRMap and did not remove, the last address and ref count put   *)
(* for it, keyed by NewCIDRMapKey: CidrToHex, the kernel's node identity, *)
(* hexToIPNet, the value encoders and NewCIDRMapKey agree over any        *)
(* sequence of updates, removals and map re-creations.                    *)
CIDRDumpMatches ==
    \A i \in Ifaces : CIDRMap(i) \in pinned =>
        DumpCIDRMap(i) = {[key |-> NewCIDRMapKey(w), value |-> w.ref] : w \in cidrWanted[i]}

(* LookupCIDRMap(ip, mask) on a pinned map returns the ref count of the   *)
(* caller's longest prefix that contains ip/mask, and an error when there *)
(* is none: the byte order CidrToHex writes is the one the kernel matches *)
(* prefixes on.                                                           *)
CIDRLookupLongestMatch ==
    \A i \in Ifaces, ip \in IPs, mask \in Masks :
        (CIDRMap(i) \in pinned /\ CidrValid(mask)) =>
            LET w == CallerLongest(cidrWanted[i], ip, mask)
            IN  LookupCIDRMap(i, ip, mask) = IF w = NotFound THEN NotFound ELSE w.ref

(* The sockmap endpoints map dumps as the caller's prefixes, and a lookup *)
(* of ip/mask succeeds exactly when one of them contains it.              *)
SockmapEndpointsMatch ==
    SockmapEndpointsMap \in pinned =>
        /\ DumpSockmapEndpointsMap = {NewCIDRMapKey(w) : w \in sockWanted}
        /\ \A ip \in IPs, mask \in Masks : CidrValid(mask) =>
              (LookupSockmapEndpointsMap(ip, mask) <=> CallerLongest(sockWanted, ip, mask) # NotFound)

=============================================================================
