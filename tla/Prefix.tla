------------------------------- MODULE Prefix -------------------------------
(***************************************************************************)
(* IP prefixes as the BGP analyzer compares them (prefix.py).  A parsed    *)
(* prefix is its address family, its network address and its length; the   *)
(* text form is abstracted to the address that was written, host bits and  *)
(* all, and the length.                                                    *)
(***************************************************************************)
EXTENDS Naturals

CONSTANT Width      \* address bits per family: 32 and 128 in the code

Versions == DOMAIN Width

ASSUME WidthAssumption == \A v \in Versions : Width[v] \in Nat

\* How many addresses so many host bits tell apart: each bit doubles them.
BlockSizes(v) ==
    LET size[bits \in 0 .. Width[v]] == IF bits = 0 THEN 1 ELSE 2 * size[bits - 1]
    IN  size

\* Addresses sharing a network of this length.
Block(v, len) == BlockSizes(v)[Width[v] - len]

\* The prefixes of a family as they can be written.
Written(v) ==
    [version : {v}, addr : 0 .. Block(v, 0) - 1, prefixlen : 0 .. Width[v]]

\* strict=False: the host bits are masked off.
parse_prefix(w) ==
    [version |-> w.version,
     network_address |-> w.addr - (w.addr % Block(w.version, w.prefixlen)),
     prefixlen |-> w.prefixlen]

broadcast_address(n) == n.network_address + Block(n.version, n.prefixlen) - 1

ContainsAnyFamily(parent, child) ==
    LET p == parse_prefix(parent)
        c == parse_prefix(child)
    IN  /\ c.network_address >= p.network_address
        /\ broadcast_address(c) <= broadcast_address(p)

prefix_contains(parent, child) ==
    LET p == parse_prefix(parent)
        c == parse_prefix(child)
    IN  /\ p.version = c.version
        /\ c.network_address >= p.network_address
        /\ broadcast_address(c) <= broadcast_address(p)

SubPrefixByText(monitored, announced) ==
    prefix_contains(monitored, announced) /\ monitored # announced

is_sub_prefix(monitored, announced) ==
    LET p == parse_prefix(monitored)
        c == parse_prefix(announced)
    IN  /\ p.version = c.version
        /\ c.prefixlen > p.prefixlen
        /\ prefix_contains(monitored, announced)

OverlapOneWay(a, b) == prefix_contains(a, b)

prefixes_overlap(a, b) == prefix_contains(a, b) \/ prefix_contains(b, a)

\* The prefixes a loop over a Python set may find first.
matches_any_monitored(announced, monitored) ==
    {m \in monitored : prefix_contains(m, announced)}
=============================================================================
