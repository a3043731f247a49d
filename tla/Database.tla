------------------------------ MODULE Database ------------------------------
(***************************************************************************)
(* One bolt file as global/database.go and global/bolt_db.go use it: four  *)
(* buckets of byte strings, and the conversion of the program's keys,      *)
(* which are hashes, heights and the word "lastest", to byte strings.      *)
(***************************************************************************)
EXTENDS Integers, Sequences, FiniteSetsExt

CONSTANTS
    Radix,      \* values of a byte (256)
    Width,      \* bytes of a height (4: heights are int32)
    Absent      \* what Get returns for a key that is not there

\* A height has fewer bytes than the other keys, of which the word has the fewest.
ASSUME DatabaseAssumption ==
    /\ Radix \in Nat \ 0..2 /\ Width \in 1..6
    /\ Absent \notin Int /\ Absent \notin Seq(Int)

Bucket == {"Blocks", "Blockheads", "UTXOSet", "Txns"}

-----------------------------------------------------------------------------
(* Keys *)

\* 1 << (i*8).
power[i \in 0..Width] == IF i = 0 THEN 1 ELSE Radix * power[i - 1]

\* Arithmetic of the height's type wraps around.
Modulus == power[Width]
Wrap(v) == ((v + Modulus \div 2) % Modulus) - Modulus \div 2

\* 256 << (i*8), and byte(v >> (i*8)).
Limit(i) == Wrap(power[i + 1])
Byte(v, i) == (v \div power[i]) % Radix

\* Mutant: the limit itself counts as below the limit.
HeightToBytesInclusive(v) ==
    LET ends == {i \in 0..Width - 1 : v <= Limit(i)}
    IN  IF ends = {} THEN <<>> ELSE [j \in 1..Min(ends) + 1 |-> Byte(v, j - 1)]

\* interfaceToBytes for a height: the bytes, lowest first, up to the first
\* position whose limit exceeds the value; no bytes if there is no such position.
HeightToBytes(v) ==
    LET ends == {i \in 0..Width - 1 : v < Limit(i)}
    IN  IF ends = {} THEN <<>> ELSE [j \in 1..Min(ends) + 1 |-> Byte(v, j - 1)]

\* interfaceToBytes for the string: its seven characters.
Lastest == <<108, 97, 115, 116, 101, 115, 116>>

\* interfaceToBytes for a hash: its bytes, more than any other key has.
HashLength == 8

-----------------------------------------------------------------------------
(* A file: the pairs of a bucket and a key that are there, with their values *)

EmptyFile == [x \in {} |-> Absent]

\* Mutant: any key can be stored.
CanSetAny(key) == TRUE

\* Put refuses an empty key; the caller then ends the process.
CanSet(key) == key # <<>>

Set(file, bucket, key, value) ==
    [x \in DOMAIN file \cup {<<bucket, key>>} |->
        IF x = <<bucket, key>> THEN value ELSE file[x]]

Get(file, bucket, key) ==
    IF <<bucket, key>> \in DOMAIN file THEN file[<<bucket, key>>] ELSE Absent

Delete(file, bucket, key) ==
    [x \in DOMAIN file \ {<<bucket, key>>} |-> file[x]]

Clear(file, bucket) ==
    [x \in {y \in DOMAIN file : y[1] # bucket} |-> file[x]]

=============================================================================
