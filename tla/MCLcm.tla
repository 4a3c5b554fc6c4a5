------------------------------- MODULE MCLcm --------------------------------
(* Messages and channels small enough to check LcmChannel.                 *)
EXTENDS LcmChannel, LcmCodec

primitives(n, text) ==
  [i8 |-> 7, i16 |-> 300, num_ranges |-> n, i64 |-> 70000,
   ranges |-> [i \in 1..n |-> 256 + i], position |-> <<1, 2, 3>>,
   orientation |-> <<4, 5, 6, 7>>, name |-> text, enabled |-> 1]
leaf == [num_children |-> 0, children |-> <<>>]
bools(a, b) ==
  [one_bool |-> 1, fixed_array |-> <<0, 1, 0>>, num_a |-> a, num_b |-> b,
   one_dim_array |-> [i \in 1..a |-> i % 2],
   two_dim_array |-> [i \in 1..a |-> [j \in 1..b |-> (i + j) % 2]]]
multidim(a, b, c) ==
  [size_a |-> a, size_b |-> b, size_c |-> c,
   data |-> [i \in 1..a |-> [j \in 1..b |-> [k \in 1..c |-> 100 * i + 10 * j + k]]],
   strarray |-> [i \in 1..2 |-> [k \in 1..c |-> [n \in 1..(i + k - 2) |-> 64 + n]]]]
comments(n) ==
  [field_a |-> n, field_b |-> 2, field_c |-> 3, field_d |-> 4, field_e |-> 5,
   array |-> [i \in 1..n |-> 65536 + i]]

MCMessages == [
  node_t |-> {leaf, [num_children |-> 2,
                     children |-> <<leaf, [num_children |-> 1, children |-> <<leaf>>]>>]},
  primitives_t |-> {primitives(0, <<>>), primitives(2, <<65, 66>>)},
  primitives_list_t |-> {[num_items |-> n, items |-> [i \in 1..n |-> primitives(i - 1, <<65>>)]] :
                           n \in {0, 2}},
  bools_t |-> {bools(0, 0), bools(2, 0), bools(0, 2), bools(2, 1)},
  byte_array_t |-> {[num_bytes |-> n, data |-> [i \in 1..n |-> 255]] : n \in {0, 3}},
  comments_t |-> {comments(0), comments(2)},
  exampleconst_t |-> {[my_octet |-> 5]},
  multidim_array_t |-> {multidim(0, 1, 1), multidim(2, 2, 1), multidim(1, 2, 0), multidim(1, 1, 2)},
  another_type_t |-> {[val |-> 16909060]},
  cross_package_t |-> {[primitives |-> primitives(1, <<66>>), another |-> [val |-> 9]]},
  arrays_t |-> {[arr |-> [i \in 1..10 |-> i]]} ]

\* Each type between each pair of languages...
Same(from, to) ==
  { [type |-> t, from |-> from, threads |-> 1, want |-> t, to |-> to, users |-> 0,
     shared |-> from = "C" /\ to = "C"] : t \in TypeNames }
\* ...a subscriber of the next type...
Ring == <<"node_t", "primitives_t", "primitives_list_t", "bools_t", "byte_array_t",
          "comments_t", "exampleconst_t", "multidim_array_t", "another_type_t",
          "cross_package_t", "arrays_t">>
Mixed == { [type |-> Ring[i], from |-> "C", threads |-> 1, want |-> Ring[(i % 11) + 1],
            to |-> "C", users |-> 0, shared |-> FALSE] : i \in 1..11 }
\* ...and two publishing threads, with the handler in their process or not.
Busy == { [type |-> "exampleconst_t", from |-> "C", threads |-> 2, want |-> "exampleconst_t",
           to |-> "C", users |-> 0, shared |-> s] : s \in BOOLEAN }
\* ...and another thread of the receiving program that uses its type, which is
\* the publishers' or one that reads their bytes as something else: in part, or
\* with a block that is not given back.
Used(type, threads, want) ==
  [type |-> type, from |-> "C", threads |-> threads, want |-> want, to |-> "C", users |-> 1,
   shared |-> FALSE]
Crossed == { Used("exampleconst_t", 1, "exampleconst_t"),
             Used("another_type_t", 2, "exampleconst_t"),
             Used("node_t", 2, "primitives_list_t") }

MCChannels == Same("C", "C") \cup Same("C", "C++") \cup Same("C++", "C")
                \cup Mixed \cup Busy \cup Crossed
FirstUse == Busy
=============================================================================
