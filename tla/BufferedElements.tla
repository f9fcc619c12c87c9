--------------------------- MODULE BufferedElements ---------------------------
(* The elements that the merges and sorts of the backends move between the     *)
(* range x and a raw buffer z. A slot holds an element, an object that was     *)
(* moved from, or, in z, nothing.                                              *)
EXTENDS Integers

(* An element is <<key, its index at first>>; other values of a slot have no key. *)
Raw == <<0, 0>>
MovedFrom == <<0, 1>>
IsItem(v) == v[1] > 0
Less(a, b) == a[1] < b[1]

\* The indices from lo on and before hi.
Span(lo, hi) == lo..(hi - 1)
===============================================================================
