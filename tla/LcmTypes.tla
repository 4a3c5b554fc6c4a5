------------------------------ MODULE LcmTypes ------------------------------
(***************************************************************************)
(* The message types of lcm/test/types as their generated functions treat  *)
(* them: the fields in the order in which encode, decode, cleanup and      *)
(* clone visit them, and the constant from which hash_recursive starts.    *)
(* One table is read from the C files, one from the C++ headers; that the  *)
(* two describe the same messages is a property, not an assumption.        *)
(***************************************************************************)
EXTENDS Naturals, Sequences

\* A field: its element, and per dimension a constant or the name of the
\* earlier field that holds the number of elements.
Const(n) == [n |-> n, by |-> ""]
By(field) == [n |-> 0, by |-> field]
One(name, elem) == [name |-> name, elem |-> elem, dims |-> <<>>]
Array(name, elem, dims) == [name |-> name, elem |-> elem, dims |-> dims]

-----------------------------------------------------------------------------
(* The C functions: fields...                                              *)

lcmtest_node_t == <<
  One("num_children", "int32_t"),
  Array("children", "node_t", <<By("num_children")>>) >>

lcmtest_primitives_t == <<
  One("i8", "int8_t"), One("i16", "int16_t"),
  One("num_ranges", "int32_t"), One("i64", "int64_t"),
  Array("ranges", "int16_t", <<By("num_ranges")>>),
  Array("position", "float", <<Const(3)>>),
  Array("orientation", "double", <<Const(4)>>),
  One("name", "string"), One("enabled", "boolean") >>

lcmtest_primitives_list_t == <<
  One("num_items", "int32_t"),
  Array("items", "primitives_t", <<By("num_items")>>) >>

lcmtest_bools_t == <<
  One("one_bool", "boolean"),
  Array("fixed_array", "boolean", <<Const(3)>>),
  One("num_a", "int8_t"), One("num_b", "int8_t"),
  Array("one_dim_array", "boolean", <<By("num_a")>>),
  Array("two_dim_array", "boolean", <<By("num_a"), By("num_b")>>) >>

lcmtest_byte_array_t == <<
  One("num_bytes", "int32_t"),
  Array("data", "byte", <<By("num_bytes")>>) >>

lcmtest_comments_t == <<
  One("field_a", "int8_t"), One("field_b", "int16_t"),
  One("field_c", "int32_t"), One("field_d", "int64_t"),
  One("field_e", "float"),
  Array("array", "int32_t", <<By("field_a")>>) >>

lcmtest_exampleconst_t == << One("my_octet", "int8_t") >>

lcmtest_multidim_array_t == <<
  One("size_a", "int32_t"), One("size_b", "int32_t"), One("size_c", "int32_t"),
  Array("data", "int32_t", <<By("size_a"), By("size_b"), By("size_c")>>),
  Array("strarray", "string", <<Const(2), By("size_c")>>) >>

lcmtest2_another_type_t == << One("val", "int32_t") >>

lcmtest2_cross_package_t == <<
  One("primitives", "primitives_t"), One("another", "another_type_t") >>

lcmtest3_arrays_t == << Array("arr", "int8_t", <<Const(10)>>) >>

\* ...and fingerprints: the constant of hash_recursive in words of 16 bits.
\* What a member adds to it is in LcmCodec.
node_hash == <<\h98ff, \h4a36, \h3aeb, \h7273>>
primitives_hash == <<\hc273, \h1598, \h914f, \h36aa>>
primitives_list_hash == <<\haedf, \h3d07, \h24cd, \h948b>>
bools_hash == <<\h91cf, \hf66a, \h81b5, \h2b83>>
byte_array_hash == <<\h870c, \h7477, \he270, \hdebf>>
comments_hash == <<\h4c8f, \hfa86, \h357c, \h7d7e>>
exampleconst_hash == <<\h1ea3, \hd29b, \h9ee2, \he009>>
multidim_array_hash == <<\h1e01, \h2473, \hdeb4, \hcfbb>>
another_type_hash == <<\hd21b, \h643a, \h1f22, \h4c57>>
cross_package_hash == <<\hbbd3, \hdd8a, \h23ec, \h1955>>
arrays_hash == <<\h3f22, \h58e5, \h5559, \hfaf8>>

Type(fields, hash) == [fields |-> fields, hash |-> hash]

CTypes == [
  node_t            |-> Type(lcmtest_node_t, node_hash),
  primitives_t      |-> Type(lcmtest_primitives_t, primitives_hash),
  primitives_list_t |-> Type(lcmtest_primitives_list_t, primitives_list_hash),
  bools_t           |-> Type(lcmtest_bools_t, bools_hash),
  byte_array_t      |-> Type(lcmtest_byte_array_t, byte_array_hash),
  comments_t        |-> Type(lcmtest_comments_t, comments_hash),
  exampleconst_t    |-> Type(lcmtest_exampleconst_t, exampleconst_hash),
  multidim_array_t  |-> Type(lcmtest_multidim_array_t, multidim_array_hash),
  another_type_t    |-> Type(lcmtest2_another_type_t, another_type_hash),
  cross_package_t   |-> Type(lcmtest2_cross_package_t, cross_package_hash),
  arrays_t          |-> Type(lcmtest3_arrays_t, arrays_hash) ]

-----------------------------------------------------------------------------
(* The C++ classes, each with the constant of its _computeHash.            *)

cpp_node_t == Type(<<
  One("num_children", "int32_t"),
  Array("children", "node_t", <<By("num_children")>>) >>,
  <<\h98ff, \h4a36, \h3aeb, \h7273>>)

cpp_primitives_t == Type(<<
  One("i8", "int8_t"), One("i16", "int16_t"),
  One("num_ranges", "int32_t"), One("i64", "int64_t"),
  Array("ranges", "int16_t", <<By("num_ranges")>>),
  Array("position", "float", <<Const(3)>>),
  Array("orientation", "double", <<Const(4)>>),
  One("name", "string"), One("enabled", "boolean") >>,
  <<\hc273, \h1598, \h914f, \h36aa>>)

cpp_primitives_list_t == Type(<<
  One("num_items", "int32_t"),
  Array("items", "primitives_t", <<By("num_items")>>) >>,
  <<\haedf, \h3d07, \h24cd, \h948b>>)

\* Fault: the C++ class reads the two counts in the other order.
fault_cpp_bools_t == Type(<<
  lcmtest_bools_t[1], lcmtest_bools_t[2], lcmtest_bools_t[4], lcmtest_bools_t[3],
  lcmtest_bools_t[5], lcmtest_bools_t[6] >>, bools_hash)
cpp_bools_t == Type(<<
  One("one_bool", "boolean"),
  Array("fixed_array", "boolean", <<Const(3)>>),
  One("num_a", "int8_t"), One("num_b", "int8_t"),
  Array("one_dim_array", "boolean", <<By("num_a")>>),
  Array("two_dim_array", "boolean", <<By("num_a"), By("num_b")>>) >>,
  <<\h91cf, \hf66a, \h81b5, \h2b83>>)

cpp_byte_array_t == Type(<<
  One("num_bytes", "int32_t"),
  Array("data", "byte", <<By("num_bytes")>>) >>,
  <<\h870c, \h7477, \he270, \hdebf>>)

cpp_comments_t == Type(<<
  One("field_a", "int8_t"), One("field_b", "int16_t"),
  One("field_c", "int32_t"), One("field_d", "int64_t"),
  One("field_e", "float"),
  Array("array", "int32_t", <<By("field_a")>>) >>,
  <<\h4c8f, \hfa86, \h357c, \h7d7e>>)

cpp_exampleconst_t == Type(<< One("my_octet", "int8_t") >>,
  <<\h1ea3, \hd29b, \h9ee2, \he009>>)

cpp_multidim_array_t == Type(<<
  One("size_a", "int32_t"), One("size_b", "int32_t"), One("size_c", "int32_t"),
  Array("data", "int32_t", <<By("size_a"), By("size_b"), By("size_c")>>),
  Array("strarray", "string", <<Const(2), By("size_c")>>) >>,
  <<\h1e01, \h2473, \hdeb4, \hcfbb>>)

cpp_another_type_t == Type(<< One("val", "int32_t") >>,
  <<\hd21b, \h643a, \h1f22, \h4c57>>)

\* Fault: the constant of a header generated from another version of the type.
fault_cpp_cross_package_t == Type(lcmtest2_cross_package_t,
  <<\hbbd3, \hdd8a, \h23ec, \h1956>>)
cpp_cross_package_t == Type(<<
  One("primitives", "primitives_t"), One("another", "another_type_t") >>,
  <<\hbbd3, \hdd8a, \h23ec, \h1955>>)

cpp_arrays_t == Type(<< Array("arr", "int8_t", <<Const(10)>>) >>,
  <<\h3f22, \h58e5, \h5559, \hfaf8>>)

CppTypes == [
  node_t            |-> cpp_node_t,
  primitives_t      |-> cpp_primitives_t,
  primitives_list_t |-> cpp_primitives_list_t,
  bools_t           |-> cpp_bools_t,
  byte_array_t      |-> cpp_byte_array_t,
  comments_t        |-> cpp_comments_t,
  exampleconst_t    |-> cpp_exampleconst_t,
  multidim_array_t  |-> cpp_multidim_array_t,
  another_type_t    |-> cpp_another_type_t,
  cross_package_t   |-> cpp_cross_package_t,
  arrays_t          |-> cpp_arrays_t ]

\* The types a process in that language works with.
Types(lang) == IF lang = "C" THEN CTypes ELSE CppTypes
TypeNames == DOMAIN CTypes
=============================================================================
