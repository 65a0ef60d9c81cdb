---------------------------- MODULE BloomFilter -----------------------------
(***************************************************************************)
(* BloomFilter and FilterBlockBuilder (src/filter, src/table): how large   *)
(* the bit array is, which bits a key sets, and what is asked of them when *)
(* a key is looked up in the filter that was stored.  murmur_hash2 is a    *)
(* parameter, an unsigned word of HashBits bits (32 in the code).          *)
(***************************************************************************)
EXTENDS Integers, FiniteSetsExt

CONSTANTS HashBits, Turn,        \* width of the hash; bits it is turned by (17)
          Hash                   \* murmur_hash2: key -> word

ASSUME HashAssumption == HashBits \in Nat /\ Turn \in 0..HashBits
ASSUME HashRange == \A k \in DOMAIN Hash : Hash[k] \in 0..2^HashBits - 1

\* Bytes of the bit array for n keys, at the default rate of 0.01:
\* -ln(0.01) / ln(2)^2 = 9.585058 bits a key, rounded up to whole bytes.
Bytes(n) == ((9585058 * n) \div 1000000 + 7) \div 8

\* ln(2) hash functions for each bit a key has, from 1 to 32.
HashCount(n) == Min({32, Max({1, (693147 * ((8 * Bytes(n)) \div n)) \div 1000000})})

\* (h >> 17) | (h << 15)
Delta(h) == (h \div 2^Turn) + ((h * 2^(HashBits - Turn)) % 2^HashBits)

\* The bits of a hash: in each round it has grown by delta, in the width of a
\* word.
Position(h, round, bytes) == ((h + round * Delta(h)) % 2^HashBits) % (8 * bytes)
Positions(h, hashes, bytes) == {Position(h, j, bytes) : j \in 0..hashes - 1}

\* create_filter, for a filter that was made for n keys.
\* (Mutant: the hash grows before its bit is set, not after.)
GrowFirst(n, keys) ==
  [hashes |-> HashCount(n), bytes |-> Bytes(n),
   bits |-> {Position(Hash[k], j, Bytes(n)) : k \in keys, j \in 1..HashCount(n)}]
CreateFilter(n, keys) ==
  [hashes |-> HashCount(n), bytes |-> Bytes(n),
   bits |-> UNION {Positions(Hash[k], HashCount(n), Bytes(n)) : k \in keys}]

\* The filter block: the bit array, and the number of hash functions as Fixed32.
BlockSize(f) == f.bytes + 4

\* exists, in a filter rebuilt from its block.
Exists(f, k) == k # <<>> /\ Positions(Hash[k], f.hashes, f.bytes) \subseteq f.bits
=============================================================================
