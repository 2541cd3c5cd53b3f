------------------------------ MODULE BloomFilter ------------------------------
(***************************************************************************)
(* bloom_filter of ADT/bloom_filter.h: a set of keys of which only the bits *)
(* that some hashers give are kept.  Filters are copied, assigned and       *)
(* compared by their bits.  |= and &= are declared const and do not compile.*)
(***************************************************************************)
EXTENDS Integers

CONSTANTS
  Filter,      \* filters, of one type
  Key,         \* keys
  N,           \* bits of a filter
  num_hashers, \* hashers of the type
  Hash         \* what each hasher gives for each key, any size_t

BloomFilterAssumption ==
  /\ N \in Nat \ {0} /\ num_hashers \in Nat
  /\ Hash \in [1 .. num_hashers -> [Key -> Nat]]

VARIABLES
  data,        \* per filter: the bits that are set
  keys         \* per filter: the keys it has been given, itself or by a copy

vars == <<data, keys>>

Init ==
  /\ data = [f \in Filter |-> {}]
  /\ keys = [f \in Filter |-> {}]

\* The bits of a key.
Bits(key) == {Hash[i][key] % N : i \in 1 .. num_hashers}

\* Mutant of set_bits: the last hasher is left out.
set_bits_short(key, b) == b \cup {Hash[i][key] % N : i \in 1 .. num_hashers - 1}

\* Mutant of set_bits: a bit that is set already is flipped.
set_bits_flip(key, b) == (b \cup Bits(key)) \ (b \cap Bits(key))

\* detail::set_bits, from the first hasher to the last
set_bits(key, b) == b \cup Bits(key)

\* detail::has_bits
has_bits(key, b) == \A i \in 1 .. num_hashers : Hash[i][key] % N \in b

\* insert(key)
insert(f, key) ==
  /\ data' = [data EXCEPT ![f] = set_bits(key, data[f])]
  /\ keys' = [keys EXCEPT ![f] = keys[f] \cup {key}]

\* f = g, and a filter constructed from g
Assign(f, g) ==
  /\ data' = [data EXCEPT ![f] = data[g]]
  /\ keys' = [keys EXCEPT ![f] = keys[g]]

\* A filter that ends and another, empty, in its place.
Construct(f) ==
  /\ data' = [data EXCEPT ![f] = {}]
  /\ keys' = [keys EXCEPT ![f] = {}]

Next ==
  \E f \in Filter :
    \/ \E key \in Key : insert(f, key)
    \/ \E g \in Filter : Assign(f, g)
    \/ Construct(f)

Spec == Init /\ [][Next]_vars

\* count(key), and operator==
count(f, key) == has_bits(key, data[f])
Same(f, g) == data[f] = data[g]

----------------------------------------------------------------------------
(* Properties *)

\* No false negatives: a key that was inserted, here or into a filter this one was
\* copied from, is counted, whatever was inserted before and after it.
NoFalseNegatives == \A f \in Filter : \A key \in keys[f] : count(f, key)

\* A false positive is a collision: every bit of a key that is counted is one of a key
\* inserted, so filters with the same keys are equal, in whatever order they came.
OnlyCollisions ==
  /\ \A f \in Filter, key \in Key :
       count(f, key) => Bits(key) \subseteq UNION {Bits(k) : k \in keys[f]}
  /\ \A f, g \in Filter : keys[f] = keys[g] => Same(f, g)

=============================================================================
