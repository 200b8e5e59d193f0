-------------------------------- MODULE Cbor --------------------------------
(***************************************************************************)
(* CBOR as the code sees it through ciborium.  An encoded item is a record *)
(* with a kind and a value:                                                *)
(*   int, text    - the number, the string                                 *)
(*   bytes        - what the octets mean to their reader                   *)
(*   array        - a sequence of items                                    *)
(*   map          - a sequence of [key, val] entries, in wire order        *)
(*   bignum       - tag 2 or 3 around octets, with the number they encode  *)
(*   tag          - any other tag around an item                           *)
(*   undecodable  - octets that are not exactly one item                   *)
(*   empty        - no octets                                              *)
(***************************************************************************)
EXTENDS Integers, Sequences

CONSTANT U64Max  \* u64::MAX

\* ciborium::Value keeps no trace of a bignum that fits an integer; a larger one
\* stays a tag.
AsValue(item) ==
  IF item.kind = "bignum" /\ item.v \in -(U64Max + 1)..U64Max
    THEN [kind |-> "int", v |-> item.v] ELSE item

\* What Captured<Value> reports of an item: whether it carries a tag.
IsTagged(item) == item.kind \in {"bignum", "tag"}

IsInt(item, n) == AsValue(item).kind = "int" /\ AsValue(item).v = n

\* Equality of two labels, each an integer or a text.
SameLabel(a, b) == AsValue(a).kind = AsValue(b).kind /\ AsValue(a).v = AsValue(b).v

RepeatsLabel(entries) ==
  \E i, j \in DOMAIN entries : i # j /\ SameLabel(entries[i].key, entries[j].key)

\* The places where an integer key occurs in a map.
Occurrences(entries, k) == {i \in DOMAIN entries : IsInt(entries[i].key, k)}
=============================================================================
