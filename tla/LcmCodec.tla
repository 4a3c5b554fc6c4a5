------------------------------ MODULE LcmCodec ------------------------------
(***************************************************************************)
(* The generated functions of lcm/test/types over the tables of LcmTypes:  *)
(* fingerprint, size, encoding, decoding with the blocks it takes from the *)
(* heap, and cleanup.  The per-type functions repeat one scheme field by   *)
(* field; what differs between types is in the tables.                     *)
(*                                                                         *)
(* A message is a record by field name, an array a sequence per dimension, *)
(* a string the sequence of its characters, a float or double its bit      *)
(* pattern, a buffer a sequence of bytes.  The coders of the primitive     *)
(* types are the library's (lcm_coretypes.h) and external here.            *)
(***************************************************************************)
EXTENDS LcmTypes, Integers, SequencesExt, TLC

Total(numbers) == FoldLeft(LAMBDA a, b : a + b, 0, numbers)
Joined(parts) == FoldLeft(LAMBDA s, t : s \o t, <<>>, parts)
UpTo(n) == [i \in 1..n |-> i]

-----------------------------------------------------------------------------
(* lcm_coretypes.h: big-endian numbers, strings with length and NUL.       *)

Width == [int8_t |-> 1, byte |-> 1, boolean |-> 1, int16_t |-> 2,
          int32_t |-> 4, float |-> 4, int64_t |-> 8, double |-> 8]
Primitives == DOMAIN Width

RECURSIVE BigEndian(_, _)
BigEndian(v, width) ==
  IF width = 0 THEN <<>>
  ELSE Append(BigEndian(v \div 256, width - 1), v % 256)
Number(bytes) == FoldLeft(LAMBDA n, b : n * 256 + b, 0, bytes)

\* Fault: the NUL is not counted.
fault_StringSize(s) == Width["int32_t"] + Len(s)
EncodedString(s) == BigEndian(Len(s) + 1, Width["int32_t"]) \o s \o <<0>>
StringSize(s) == Width["int32_t"] + Len(s) + 1

-----------------------------------------------------------------------------
(* The fingerprint: the type's constant plus the fingerprints of its       *)
(* members, rotated left by one; a type met again below itself, and a      *)
(* primitive type, adds nothing.  64 bits are four words of 16.            *)

Word == 65536
Add(a, b) ==
  LET carry[i \in 2..5] == IF i = 5 THEN 0 ELSE (a[i] + b[i] + carry[i + 1]) \div Word
  IN  [i \in 1..4 |-> (a[i] + b[i] + carry[i + 1]) % Word]
RotateLeft(h) ==
  [i \in 1..4 |-> ((2 * h[i]) % Word) + (h[(i % 4) + 1] \div (Word \div 2))]

RECURSIVE hash_recursive(_, _, _)
hash_recursive(lang, type, parents) ==
  IF type \in parents THEN <<0, 0, 0, 0>>
  ELSE LET t == Types(lang)[type]
           member(h, f) == IF f.elem \in Primitives \cup {"string"} THEN h
                           ELSE Add(h, hash_recursive(lang, f.elem, parents \cup {type}))
       IN  RotateLeft(FoldLeft(member, t.hash, t.fields))

HashBytes(h) == Joined([i \in 1..4 |-> BigEndian(h[i], 2)])
NoHash == HashBytes(<<0, 0, 0, 0>>)
Fingerprint == [lang \in {"C", "C++"} |-> [type \in TypeNames |->
                  HashBytes(hash_recursive(lang, type, {}))]]

-----------------------------------------------------------------------------
\* The number of elements of a dimension in message m.
Count(dim, m) == IF dim.by = "" THEN dim.n ELSE m[dim.by]

RECURSIVE encode_fields(_, _, _), encode_array(_, _, _, _, _)
encode_array(lang, elem, dims, m, x) ==
  IF dims # <<>>
  THEN Joined([i \in 1..Count(Head(dims), m) |->
                 encode_array(lang, elem, Tail(dims), m, x[i])])
  ELSE CASE elem \in Primitives -> BigEndian(x, Width[elem])
         [] elem = "string"     -> EncodedString(x)
         [] OTHER               -> encode_fields(lang, elem, x)
encode_fields(lang, type, m) ==
  Joined([i \in DOMAIN Types(lang)[type].fields |->
            LET f == Types(lang)[type].fields[i]
            IN  encode_array(lang, f.elem, f.dims, m, m[f.name])])

\* A write that does not fit in maxlen makes the whole call fail.
NoRoom == <<"no room">>
encode(lang, type, hash, m, maxlen) ==
  LET bytes == hash \o encode_fields(lang, type, m)
  IN  IF Len(bytes) > maxlen THEN NoRoom ELSE bytes

\* C adds the size element by element; C++ multiplies the dimensions of an
\* array of primitives and adds the strings and messages up.
RECURSIVE size_fields(_, _, _), size_array(_, _, _, _, _)
size_array(lang, elem, dims, m, x) ==
  CASE dims # <<>> /\ lang = "C++" /\ elem \in Primitives ->
         FoldLeft(LAMBDA s, d : s * Count(d, m), Width[elem], dims)
    [] dims # <<>> /\ ~(lang = "C++" /\ elem \in Primitives) ->
         Total([i \in 1..Count(Head(dims), m) |->
                  size_array(lang, elem, Tail(dims), m, x[i])])
    [] dims = <<>> /\ elem \in Primitives -> Width[elem]
    [] dims = <<>> /\ elem = "string" -> StringSize(x)
    [] OTHER -> size_fields(lang, elem, x)
size_fields(lang, type, m) ==
  Total([i \in DOMAIN Types(lang)[type].fields |->
           LET f == Types(lang)[type].fields[i]
           IN  size_array(lang, f.elem, f.dims, m, m[f.name])])
encoded_size(lang, type, m) == 8 + size_fields(lang, type, m)

-----------------------------------------------------------------------------
(* Decoding carries [ok, pos, blocks, val]: blocks counts what the C code  *)
(* has taken with lcm_malloc so far (nothing for an empty array, one block *)
(* per array level of a field with a variable dimension, one per string).  *)

Read(d, buf, n) ==
  IF d.ok /\ d.pos + n <= Len(buf)
  THEN [d EXCEPT !.pos = @ + n, !.val = SubSeq(buf, d.pos + 1, d.pos + n)]
  ELSE [d EXCEPT !.ok = FALSE]

Pointers(lang, dims) == lang = "C" /\ \E i \in DOMAIN dims : dims[i].by # ""
Block(lang, dims, n) == IF Pointers(lang, dims) /\ n > 0 THEN 1 ELSE 0

decode_string(lang, d, buf) ==
  LET head == Read(d, buf, Width["int32_t"])
      len == Number(head.val)
      text == Read([head EXCEPT !.blocks = @ + IF lang = "C" THEN 1 ELSE 0], buf, len)
  IN  IF ~head.ok THEN head
      ELSE IF ~text.ok THEN text
      ELSE [text EXCEPT !.val = SubSeq(@, 1, len - 1)]

\* at: the dimensions still to walk; dims: all of the field's.
RECURSIVE decode_fields(_, _, _, _), decode_array(_, _, _, _, _, _, _)
decode_array(lang, elem, dims, at, m, d, buf) ==
  IF at # <<>>
  THEN LET n == Count(Head(at), m)
           next(a, i) ==
             IF ~a.ok THEN a
             ELSE LET e == decode_array(lang, elem, dims, Tail(at), m, a, buf)
                  IN  [e EXCEPT !.val = Append(a.val, @)]
       IN  FoldLeft(next, [d EXCEPT !.blocks = @ + Block(lang, dims, n), !.val = <<>>],
                    UpTo(n))
  ELSE IF elem \in Primitives
       THEN LET r == Read(d, buf, Width[elem])
            IN  IF r.ok THEN [r EXCEPT !.val = Number(@)] ELSE r
  ELSE IF elem = "string" THEN decode_string(lang, d, buf)
  ELSE decode_fields(lang, elem, d, buf)
decode_fields(lang, type, d, buf) ==
  LET next(a, f) ==
        IF ~a.ok THEN a
        ELSE LET e == decode_array(lang, f.elem, f.dims, f.dims, a.val, a, buf)
             IN  [e EXCEPT !.val = (f.name :> @) @@ a.val]
  IN  FoldLeft(next, [d EXCEPT !.val = <<>>], Types(lang)[type].fields)

\* The fingerprint is compared before anything is stored.
decode(lang, type, hash, buf) ==
  LET start == [ok |-> TRUE, pos |-> 0, blocks |-> 0, val |-> <<>>]
      this == Read(start, buf, 8)
  IN  IF ~this.ok \/ this.val # hash THEN [start EXCEPT !.ok = FALSE]
      ELSE decode_fields(lang, type, this, buf)

\* What decode_array_cleanup gives back for message m, and what
\* clone_array takes for a copy of it.
RECURSIVE cleanup_fields(_, _, _), cleanup_array(_, _, _, _, _, _)
\* Fault: only the outermost array of a field is freed.
fault_cleanup_array(lang, elem, dims, at, m, x) ==
  CASE at # <<>> ->
         LET n == Count(Head(at), m)
         IN  (IF at = dims THEN Block(lang, dims, n) ELSE 0)
               + Total([i \in 1..n |->
                          cleanup_array(lang, elem, dims, Tail(at), m, x[i])])
    [] at = <<>> /\ elem \in Primitives -> 0
    [] at = <<>> /\ elem = "string" -> IF lang = "C" THEN 1 ELSE 0
    [] OTHER -> cleanup_fields(lang, elem, x)
cleanup_array(lang, elem, dims, at, m, x) ==
  CASE at # <<>> ->
         LET n == Count(Head(at), m)
         IN  Block(lang, dims, n)
               + Total([i \in 1..n |->
                          cleanup_array(lang, elem, dims, Tail(at), m, x[i])])
    [] at = <<>> /\ elem \in Primitives -> 0
    [] at = <<>> /\ elem = "string" -> IF lang = "C" THEN 1 ELSE 0
    [] OTHER -> cleanup_fields(lang, elem, x)
cleanup_fields(lang, type, m) ==
  Total([i \in DOMAIN Types(lang)[type].fields |->
           LET f == Types(lang)[type].fields[i]
           IN  cleanup_array(lang, f.elem, f.dims, f.dims, m, m[f.name])])
clone_blocks(lang, type, m) == cleanup_fields(lang, type, m)
=============================================================================
