---------------------------- MODULE RunNumberMC ----------------------------
(* Instances of RunNumber for TLC. *)
EXTENDS RunNumber, TLC

CONSTANTS d1, d2

\* Hashes as daqd sends them: the hexadecimal text of a checksum, here "0a"
\* and "f9", one that is too long, and no hash at all.
TextHashes == {<<48, 97>>, <<102, 57>>, <<48, 48, 48>>, <<>>}

\* Hashes of any bytes, as the protocol and the backing store allow; 11 is a
\* byte whose second nibble is written as a letter.
BinaryHashes == {<<11>>, <<1>>}

ClientSymmetry == Permutations({d1, d2})
=============================================================================
