-------------------------------- MODULE Keys --------------------------------
(***************************************************************************)
(* Keys, addresses and recovery phrases as a person keeps them             *)
(* (verus-keys/src/{base58,key,address,bip39}.rs).                         *)
(*                                                                         *)
(* base58 itself is one to one: a text is the bytes it stands for, or Junk.*)
(* A byte is a digit below Base; a hash is `Digest`.  A phrase is the      *)
(* numbers of its words, so its white space is gone as split_whitespace    *)
(* leaves it.                                                              *)
(***************************************************************************)
EXTENDS Naturals, SequencesExt

CONSTANTS
  Digest(_),       \* bytes -> a byte: what is kept of a hash
  Junk,            \* a text that is not base58, a word not in the list
  Error,           \* what a refused text reads as
  ScalarBytes,     \* 32
  Scalars,         \* the valid scalars, sequences of that length
  HashBytes,       \* 20
  WIF_VERSION,
  Versions,        \* [address kinds -> version byte]
  ByteBits,        \* 8
  WordBits,        \* 11
  UnitBytes,       \* bytes of entropy three words hold, and one bit more: 4
  Units            \* triples a phrase may have: 4..8

-----------------------------------------------------------------------------
(***************************************************************************)
(* base58check                                                             *)
(***************************************************************************)
Checksum(data) == <<Digest(data)>>
encode_check(version, payload) == LET data == <<version>> \o payload IN data \o Checksum(data)

decode_check(text) ==
  LET split == Len(text) - 1
      data == SubSeq(text, 1, split)
  IN IF text = Junk \/ split < 1 THEN Error
     ELSE IF SubSeq(text, split + 1, Len(text)) # Checksum(data) THEN Error
     ELSE [version |-> Head(data), payload |-> Tail(data)]

PrivateKey(scalar, compressed) == [scalar |-> scalar, compressed |-> compressed]
to_wif(key) == encode_check(WIF_VERSION, key.scalar \o (IF key.compressed THEN <<1>> ELSE <<>>))

\* Mutant: whatever follows the scalar says compressed.
from_wif_AnyFlag(text) ==
  LET read == decode_check(text)
      scalar == SubSeq(read.payload, 1, ScalarBytes)
  IN IF read = Error THEN Error
     ELSE IF read.version # WIF_VERSION \/ Len(read.payload) - ScalarBytes \notin {0, 1} THEN Error
     ELSE IF scalar \notin Scalars THEN Error
     ELSE PrivateKey(scalar, Len(read.payload) > ScalarBytes)

from_wif(text) ==
  LET read == decode_check(text)
      scalar == SubSeq(read.payload, 1, ScalarBytes)
      flag == SubSeq(read.payload, ScalarBytes + 1, Len(read.payload))
  IN IF read = Error THEN Error
     ELSE IF read.version # WIF_VERSION \/ Len(read.payload) < ScalarBytes \/ flag \notin {<<>>, <<1>>} THEN Error
     ELSE IF scalar \notin Scalars THEN Error
     ELSE PrivateKey(scalar, flag = <<1>>)

Address(kind, hash) == [kind |-> kind, hash |-> hash]
to_string(address) == encode_check(Versions[address.kind], address.hash)
from_version(version) == { kind \in DOMAIN Versions : Versions[kind] = version }
from_str(text) ==
  LET read == decode_check(text)
  IN IF read = Error THEN Error
     ELSE IF Len(read.payload) # HashBytes \/ from_version(read.version) = {} THEN Error
     ELSE Address(CHOOSE kind \in from_version(read.version) : TRUE, read.payload)

-----------------------------------------------------------------------------
(***************************************************************************)
(* Recovery phrases                                                        *)
(***************************************************************************)
BitsOf(number, width) == [i \in 1..width |-> (number \div 2^(width - i)) % 2]
NumberOf(bits) == FoldLeft(LAMBDA sum, bit : 2 * sum + bit, 0, bits)
Pieces(bits, width) == [i \in 1..(Len(bits) \div width) |-> NumberOf(SubSeq(bits, (i - 1) * width + 1, i * width))]
AllBits(numbers, width) == FlattenSeq([i \in DOMAIN numbers |-> BitsOf(numbers[i], width)])

CheckBits(entropy, n) == SubSeq(BitsOf(Digest(entropy), ByteBits), 1, n)

\* Only the largest size is made.
mnemonic_from_entropy(entropy) ==
  Pieces(AllBits(entropy, ByteBits) \o CheckBits(entropy, Len(entropy) \div UnitBytes), WordBits)

checked_words(words) ==
  LET units == Len(words) \div 3
      bits == AllBits(words, WordBits)
      held == units * UnitBytes * ByteBits
      entropy == Pieces(SubSeq(bits, 1, held), ByteBits)
  IN IF Len(words) % 3 # 0 \/ units \notin Units \/ Contains(words, Junk) THEN Error
     ELSE IF SubSeq(bits, held + 1, Len(bits)) # CheckBits(entropy, units) THEN Error
     ELSE [words |-> words, entropy |-> entropy]

\* The seed is a hash of the words rejoined, and of the passphrase.
mnemonic_to_seed(words, passphrase) ==
  IF checked_words(words) = Error \/ passphrase = Junk THEN Error ELSE [words |-> words, salt |-> passphrase]

-----------------------------------------------------------------------------
(***************************************************************************)
(* A text is read as a key, or an address, only if it is the text that key *)
(* or address is shown as, so none is read as both; and what is shown is   *)
(* read back, a key with the form of public key that its address is of.    *)
(***************************************************************************)
TextsAreExact(text) ==
  LET key == from_wif(text)  address == from_str(text)
  IN /\ key # Error => to_wif(key) = text /\ address = Error
     /\ address # Error => to_string(address) = text
KeysAreKept(scalar, compressed, kind, hash) ==
  /\ from_wif(to_wif(PrivateKey(scalar, compressed))) = PrivateKey(scalar, compressed)
  /\ from_str(to_string(Address(kind, hash))) = Address(kind, hash)

\* A phrase is accepted exactly when, read as one number, its last bits are
\* those of the hash of the bits before them; and entropy made into a phrase
\* is the entropy the phrase holds.
PhraseIsSound(words) ==
  LET n == Len(words) \div 3
      number == FoldLeft(LAMBDA sum, word : sum * 2^WordBits + word, 0, words)
      entropy == [i \in 1..(n * UnitBytes) |-> (number \div 2^(n + ByteBits * (n * UnitBytes - i))) % 2^ByteBits]
  IN (mnemonic_to_seed(words, "") # Error) <=>
       /\ n \in Units /\ Len(words) = 3 * n /\ ~Contains(words, Junk)
       /\ number % 2^n = Digest(entropy) \div 2^(ByteBits - n)
EntropyIsKept(entropy) ==
  LET read == checked_words(mnemonic_from_entropy(entropy)) IN read # Error /\ read.entropy = entropy
=============================================================================
