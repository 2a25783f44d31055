--------------------------- MODULE AlgorithmProofs ---------------------------
(* Proofs about the algorithms that have no steps: for every range of versions, *)
(* every image, every configuration and every reload, what Agreements says of   *)
(* them.                                                                        *)

EXTENDS Agreements, WellFoundedInduction, TLAPS

-------------------------------------------------------------------------------
(* Versions.                                                                    *)

LEMMA LeastOfTwo ==
  ASSUME NEW m \in Int, NEW n \in Int
  PROVE  Terms!Min({m, n}) = IF m <= n THEN m ELSE n
BY DEF Terms!Min

LEMMA GreatestOfTwo ==
  ASSUME NEW m \in Int, NEW n \in Int
  PROVE  Terms!Max({m, n}) = IF m <= n THEN n ELSE m
BY DEF Terms!Max

LEMMA SinceIsNat ==
  ASSUME NEW c \in Terms!Capabilities
  PROVE  Terms!Since[c] \in Nat
BY DEF Terms!Since, Terms!Capabilities

(* The host answers a range with the latest minor of it that it speaks.         *)
LEMMA RangeIsAccepted ==
  ASSUME NEW range \in [low : Int, high : Int, view : BOOLEAN]
  PROVE  ReadyIsAccepted(range)
<1>1. SUFFICES ASSUME ~Terms!RangeIsRefused(range.low, range.high),
                      ~Terms!HostRefuses(Terms!Low(range.low), Terms!High(range.high))
               PROVE  LET high == Terms!High(range.high)
                          offered == Terms!Offered(range.view, high)
                          minor == Terms!HostSelects(high)
                      IN Terms!ReadyFaults(Terms!Low(range.low), high, offered, minor,
                                           Terms!HostTakes(offered, minor)) = {}
  BY DEF ReadyIsAccepted
<1> DEFINE low     == Terms!Low(range.low)
           high    == Terms!High(range.high)
           offered == Terms!Offered(range.view, high)
           minor   == Terms!HostSelects(high)
           taken   == Terms!HostTakes(offered, minor)
<1>2. low \in Int /\ high \in Int /\ low <= high /\ 8 <= high /\ high <= 11
  <2>1. low = (IF 0 <= range.low THEN range.low ELSE 0)
    BY GreatestOfTwo DEF Terms!Low
  <2>2. high = (IF 11 <= range.high THEN 11 ELSE range.high)
    BY LeastOfTwo DEF Terms!High, Terms!CoreMinor
  <2> QED
    BY <1>1, <2>1, <2>2 DEF Terms!RangeIsRefused, Terms!HostRefuses, Terms!CoreMinor, Terms!HostMinor,
                            Terms!HostLeast
<1>3. minor = high
  BY <1>2, LeastOfTwo DEF Terms!HostSelects, Terms!HostMinor
<1>4. minor \in low..high
  BY <1>2, <1>3
<1>5. taken \subseteq offered
  BY DEF Terms!HostTakes
<1>6. \A c \in taken \cap Terms!Capabilities : ~(Terms!Since[c] > minor)
  <2> SUFFICES ASSUME NEW c \in taken \cap Terms!Capabilities
               PROVE  ~(Terms!Since[c] > minor)
    OBVIOUS
  <2>1. Terms!Since[c] \in Nat
    BY SinceIsNat
  <2>2. Terms!Since[c] <= high
    BY <1>5 DEF Terms!Offered
  <2> QED
    BY <1>2, <1>3, <2>1, <2>2
<1> HIDE DEF low, high, offered, minor, taken
<1>7. Terms!ReadyFaults(low, high, offered, minor, taken) = {}
  BY <1>4, <1>5, <1>6 DEF Terms!ReadyFaults, Terms!When
<1> QED
  BY <1>7 DEF low, high, offered, minor, taken

(* What is offered at a minor is offered at the next.                           *)
LEMMA UpgradesAlwaysKeep ==
  ASSUME NEW record, record.used \subseteq Terms!Capabilities
  PROVE  UpgradesKeep(record)
<1> SUFFICES ASSUME NEW high \in 8..10
             PROVE  HeldAt(record, high) => HeldAt(record, high + 1)
  BY DEF UpgradesKeep, Terms!HostLeast, Terms!CoreMinor
<1> DEFINE Taken(h) == Terms!HostTakes(Terms!Offered(TRUE, h), h)
<1>1. \A h \in 8..11 : HeldAt(record, h) <=> Terms!Held(record.used, record.activation_only, h, Taken(h))
  <2>1. \A h \in 8..11 : Terms!HostSelects(h) = h
    BY LeastOfTwo DEF Terms!HostSelects, Terms!HostMinor
  <2> QED
    BY <2>1 DEF HeldAt
<1>2. Taken(high) \subseteq Taken(high + 1)
  BY SinceIsNat DEF Terms!HostTakes, Terms!Offered
<1>3. \A c \in record.used : Terms!Since[c] <= high => Terms!Since[c] <= high + 1
  BY SinceIsNat
<1>4. high >= 10 => high + 1 >= 10
  OBVIOUS
<1>5. high \in 8..11 /\ high + 1 \in 8..11
  OBVIOUS
<1> HIDE DEF Taken
<1>6. Terms!Held(record.used, record.activation_only, high, Taken(high))
        => Terms!Held(record.used, record.activation_only, high + 1, Taken(high + 1))
  BY <1>2, <1>3, <1>4, Zenon DEF Terms!Held
<1> QED
  BY <1>1, <1>5, <1>6

(* Every range of versions and every use of capabilities: the core takes the    *)
(* answer of the host, and an upgrade takes nothing away.                       *)
THEOREM VersionsAlwaysAgree ==
  ASSUME area = "range" => input \in [low : Int, high : Int, view : BOOLEAN],
         area = "usage" => input.used \subseteq Terms!Capabilities
  PROVE  VersionsAgree
BY RangeIsAccepted, UpgradesAlwaysKeep DEF VersionsAgree

-------------------------------------------------------------------------------
(* Base64.                                                                      *)

LEMMA Quarters ==
  ASSUME NEW g \in Nat, NEW r \in 0..3
  PROVE  ((4 * g) + r) \div 4 = g /\ ((4 * g) + r) % 4 = r
BY SMT

LEMMA Thirds ==
  ASSUME NEW g \in Nat, NEW r \in 0..2
  PROVE  ((3 * g) + r) \div 3 = g /\ ((3 * g) + r) % 3 = r
BY SMT

LEMMA GroupOfQuarter ==
  ASSUME NEW i \in Nat
  PROVE  \E g \in Nat, r \in 0..3 : i = (4 * g) + r
<1>1. i = (4 * (i \div 4)) + (i % 4) /\ i \div 4 \in Nat /\ i % 4 \in 0..3
  BY SMT
<1> QED
  BY <1>1

LEMMA GroupOfThird ==
  ASSUME NEW i \in Nat
  PROVE  \E g \in Nat, r \in 0..2 : i = (3 * g) + r
<1>1. i = (3 * (i \div 3)) + (i % 3) /\ i \div 3 \in Nat /\ i % 3 \in 0..2
  BY SMT
<1> QED
  BY <1>1

Sextets == 0..63

(* Three bytes are four symbols, and four symbols three bytes.                  *)
Spelled(x, y, z, s1, s2, s3, s4) ==
  /\ s1 = x \div 4
  /\ s2 = ((x % 4) * 16) + (y \div 16)
  /\ s3 = ((y % 16) * 4) + (z \div 64)
  /\ s4 = z % 64
Joined(x, y, z, s1, s2, s3, s4) ==
  /\ x = (s1 * 4) + (s2 \div 16)
  /\ y = ((s2 % 16) * 16) + (s3 \div 4)
  /\ z = ((s3 % 4) * 64) + s4

LEMMA ThreeBytes ==
  ASSUME NEW x \in Bytes, NEW y \in Bytes, NEW z \in Bytes
  PROVE  \E s1 \in Sextets, s2 \in Sextets, s3 \in Sextets, s4 \in Sextets :
           Spelled(x, y, z, s1, s2, s3, s4) /\ Joined(x, y, z, s1, s2, s3, s4)
<1> DEFINE s1 == x \div 4
           s2 == ((x % 4) * 16) + (y \div 16)
           s3 == ((y % 16) * 4) + (z \div 64)
           s4 == z % 64
<1>1. s1 \in Sextets /\ s2 \in Sextets /\ s3 \in Sextets /\ s4 \in Sextets
  BY SMT DEF Bytes, Sextets
<1>2. Spelled(x, y, z, s1, s2, s3, s4)
  BY DEF Spelled
<1>3. Joined(x, y, z, s1, s2, s3, s4)
  BY SMT DEF Bytes, Joined
<1> HIDE DEF s1, s2, s3, s4
<1> QED
  BY <1>1, <1>2, <1>3, Zenon

LEMMA FourSymbols ==
  ASSUME NEW s1 \in Sextets, NEW s2 \in Sextets, NEW s3 \in Sextets, NEW s4 \in Sextets
  PROVE  \E x \in Bytes, y \in Bytes, z \in Bytes :
           Spelled(x, y, z, s1, s2, s3, s4) /\ Joined(x, y, z, s1, s2, s3, s4)
<1> DEFINE x == (s1 * 4) + (s2 \div 16)
           y == ((s2 % 16) * 16) + (s3 \div 4)
           z == ((s3 % 4) * 64) + s4
<1>1. x \in Bytes /\ y \in Bytes /\ z \in Bytes
  BY SMT DEF Bytes, Sextets
<1>2. Joined(x, y, z, s1, s2, s3, s4)
  BY DEF Joined
<1>3. Spelled(x, y, z, s1, s2, s3, s4)
  BY SMT DEF Sextets, Spelled
<1> HIDE DEF x, y, z
<1> QED
  BY <1>1, <1>2, <1>3, Zenon

LEMMA SequenceOf ==
  ASSUME NEW S, NEW n \in Nat, NEW f \in [1..n -> S]
  PROVE  f \in Seq(S) /\ Len(f) = n /\ (f = <<>> <=> n = 0)
BY SMT

LEMMA BytesAreBytes ==
  ASSUME NEW b \in Seq(Bytes), NEW i \in Nat \ {0}
  PROVE  Byte(b, i) \in Bytes
<1>1. CASE i <= Len(b)
  <2>1. i \in 1..Len(b)
    BY <1>1
  <2>2. b[i] \in Bytes
    BY <2>1
  <2> QED
    BY <1>1, <2>2 DEF Byte, Bytes
<1>2. CASE ~(i <= Len(b))
  BY <1>2 DEF Byte, Bytes
<1> QED
  BY <1>1, <1>2

LEMMA BytesOfGroup ==
  ASSUME NEW b \in Seq(Bytes), NEW g \in Nat
  PROVE  \E x \in Bytes, y \in Bytes, z \in Bytes :
           x = Byte(b, (3 * g) + 1) /\ y = Byte(b, (3 * g) + 2) /\ z = Byte(b, (3 * g) + 3)
<1>1. (3 * g) + 1 \in Nat \ {0} /\ (3 * g) + 2 \in Nat \ {0} /\ (3 * g) + 3 \in Nat \ {0}
  OBVIOUS
<1> QED
  BY <1>1, BytesAreBytes

(* The four symbols of a group of an encoding.                                  *)
LEMMA EncodedGroup ==
  ASSUME NEW b \in Seq(Bytes), NEW g \in Nat
  PROVE  LET x == Byte(b, (3 * g) + 1)  y == Byte(b, (3 * g) + 2)  z == Byte(b, (3 * g) + 3)
         IN /\ SymbolAt(b, (4 * g) + 1) = x \div 4
            /\ SymbolAt(b, (4 * g) + 2) = ((x % 4) * 16) + (y \div 16)
            /\ SymbolAt(b, (4 * g) + 3) = IF (3 * g) + 2 > Len(b) THEN Pad ELSE ((y % 16) * 4) + (z \div 64)
            /\ SymbolAt(b, (4 * g) + 4) = IF (3 * g) + 3 > Len(b) THEN Pad ELSE z % 64
<1> DEFINE at(r) == (4 * g) + r
<1>1. \A r \in 1..4 : (at(r) - 1) \div 4 = g /\ (at(r) - 1) % 4 = r - 1
  <2> SUFFICES ASSUME NEW r \in 1..4
               PROVE  (at(r) - 1) \div 4 = g /\ (at(r) - 1) % 4 = r - 1
    OBVIOUS
  <2>1. at(r) - 1 = (4 * g) + (r - 1) /\ r - 1 \in 0..3
    OBVIOUS
  <2> QED
    BY <2>1, Quarters
<1> HIDE DEF at
<1>2. SymbolAt(b, at(1)) = Byte(b, (3 * g) + 1) \div 4
  BY <1>1 DEF SymbolAt
<1>3. SymbolAt(b, at(2)) = ((Byte(b, (3 * g) + 1) % 4) * 16) + (Byte(b, (3 * g) + 2) \div 16)
  BY <1>1 DEF SymbolAt
<1>4. SymbolAt(b, at(3))
        = IF (3 * g) + 2 > Len(b) THEN Pad
          ELSE ((Byte(b, (3 * g) + 2) % 16) * 4) + (Byte(b, (3 * g) + 3) \div 64)
  BY <1>1 DEF SymbolAt
<1>5. SymbolAt(b, at(4)) = IF (3 * g) + 3 > Len(b) THEN Pad ELSE Byte(b, (3 * g) + 3) % 64
  BY <1>1 DEF SymbolAt
<1> QED
  BY <1>2, <1>3, <1>4, <1>5 DEF at

(* A group of an encoding: the symbols of three bytes, the last ones of which   *)
(* may be missing.                                                              *)
IsGroup(b, g, x, y, z, s1, s2, s3, s4) ==
  /\ x = Byte(b, (3 * g) + 1) /\ y = Byte(b, (3 * g) + 2) /\ z = Byte(b, (3 * g) + 3)
  /\ (3 * g) + 2 > Len(b) => y = 0
  /\ (3 * g) + 3 > Len(b) => z = 0
  /\ Spelled(x, y, z, s1, s2, s3, s4) /\ Joined(x, y, z, s1, s2, s3, s4)
  /\ SymbolAt(b, (4 * g) + 1) = s1 /\ SymbolAt(b, (4 * g) + 2) = s2
  /\ SymbolAt(b, (4 * g) + 3) = IF (3 * g) + 2 > Len(b) THEN Pad ELSE s3
  /\ SymbolAt(b, (4 * g) + 4) = IF (3 * g) + 3 > Len(b) THEN Pad ELSE s4

LEMMA GroupOfEncoding ==
  ASSUME NEW b \in Seq(Bytes), NEW g \in Nat
  PROVE  \E x \in Bytes, y \in Bytes, z \in Bytes, s1 \in Sextets, s2 \in Sextets, s3 \in Sextets,
            s4 \in Sextets : IsGroup(b, g, x, y, z, s1, s2, s3, s4)
<1>1. PICK x \in Bytes, y \in Bytes, z \in Bytes :
        x = Byte(b, (3 * g) + 1) /\ y = Byte(b, (3 * g) + 2) /\ z = Byte(b, (3 * g) + 3)
  BY BytesOfGroup
<1>2. /\ (3 * g) + 2 > Len(b) => y = 0
      /\ (3 * g) + 3 > Len(b) => z = 0
  BY <1>1 DEF Byte
<1>3. PICK s1 \in Sextets, s2 \in Sextets, s3 \in Sextets, s4 \in Sextets :
        Spelled(x, y, z, s1, s2, s3, s4) /\ Joined(x, y, z, s1, s2, s3, s4)
  BY ThreeBytes, Zenon
<1>4. /\ SymbolAt(b, (4 * g) + 1) = x \div 4
      /\ SymbolAt(b, (4 * g) + 2) = ((x % 4) * 16) + (y \div 16)
      /\ SymbolAt(b, (4 * g) + 3) = IF (3 * g) + 2 > Len(b) THEN Pad ELSE ((y % 16) * 4) + (z \div 64)
      /\ SymbolAt(b, (4 * g) + 4) = IF (3 * g) + 3 > Len(b) THEN Pad ELSE z % 64
  BY <1>1, EncodedGroup
<1>5. /\ SymbolAt(b, (4 * g) + 1) = s1 /\ SymbolAt(b, (4 * g) + 2) = s2
      /\ SymbolAt(b, (4 * g) + 3) = IF (3 * g) + 2 > Len(b) THEN Pad ELSE s3
      /\ SymbolAt(b, (4 * g) + 4) = IF (3 * g) + 3 > Len(b) THEN Pad ELSE s4
  BY <1>3, <1>4, Zenon DEF Spelled
<1>6. IsGroup(b, g, x, y, z, s1, s2, s3, s4)
  BY <1>1, <1>2, <1>3, <1>5, Zenon DEF IsGroup
<1> QED
  BY <1>6, Zenon

(* The size of an encoding: four symbols for every group, the last one of which *)
(* has one to three bytes.                                                      *)
LEMMA SizeOfEncoding ==
  ASSUME NEW b \in Seq(Bytes)
  PROVE  \E G \in Nat :
           /\ EncodedSize(b) = 4 * G
           /\ (3 * G) - Len(b) \in 0..2
           /\ \A i \in 1..EncodedSize(b) : \E g \in 0..(G - 1), r \in 1..4 : i = (4 * g) + r
<1> DEFINE G == (Len(b) + 2) \div 3
<1>1. Len(b) \in Nat
  OBVIOUS
<1>2. G \in Nat /\ (3 * G) - Len(b) \in 0..2
  BY <1>1, SMT
<1>3. EncodedSize(b) = 4 * G
  BY DEF EncodedSize
<1> HIDE DEF G
<1>4. \A i \in 1..(4 * G) : \E g \in 0..(G - 1), r \in 1..4 : i = (4 * g) + r
  <2> SUFFICES ASSUME NEW i \in 1..(4 * G)
               PROVE  \E g \in 0..(G - 1), r \in 1..4 : i = (4 * g) + r
    OBVIOUS
  <2>1. i \in Int /\ 1 <= i /\ i <= 4 * G /\ i - 1 \in Nat
    BY <1>2
  <2>2. PICK g \in Nat, r \in 0..3 : i - 1 = (4 * g) + r
    BY <2>1, GroupOfQuarter
  <2>3. i = (4 * g) + (r + 1) /\ r + 1 \in 1..4
    BY <2>1, <2>2
  <2>4. g \in 0..(G - 1)
    BY <1>2, <2>1, <2>2
  <2> QED
    BY <2>3, <2>4
<1>5. \A i \in 1..EncodedSize(b) : \E g \in 0..(G - 1), r \in 1..4 : i = (4 * g) + r
  BY <1>3, <1>4, Zenon
<1> QED
  BY <1>2, <1>3, <1>5, Zenon

LEMMA EncodingIsText ==
  ASSUME NEW b \in Seq(Bytes)
  PROVE  Encode(b) \in Seq(0..64) /\ Len(Encode(b)) = EncodedSize(b) /\ EncodedSize(b) \in Nat
<1>1. PICK G \in Nat :
        /\ EncodedSize(b) = 4 * G
        /\ \A i \in 1..EncodedSize(b) : \E g \in 0..(G - 1), r \in 1..4 : i = (4 * g) + r
  BY SizeOfEncoding
<1>2. ASSUME NEW i \in 1..EncodedSize(b)
      PROVE  SymbolAt(b, i) \in 0..64
  <2>1. PICK g \in 0..(G - 1), r \in 1..4 : i = (4 * g) + r
    BY <1>1
  <2>2. g \in Nat
    OBVIOUS
  <2>3. PICK x \in Bytes, y \in Bytes, z \in Bytes, s1 \in Sextets, s2 \in Sextets, s3 \in Sextets,
             s4 \in Sextets : IsGroup(b, g, x, y, z, s1, s2, s3, s4)
    BY <2>2, GroupOfEncoding, Zenon
  <2>6. /\ SymbolAt(b, (4 * g) + 1) = s1 /\ SymbolAt(b, (4 * g) + 2) = s2
        /\ SymbolAt(b, (4 * g) + 3) \in {s3, Pad} /\ SymbolAt(b, (4 * g) + 4) \in {s4, Pad}
    BY <2>3, Zenon DEF IsGroup
  <2>7. s1 \in 0..64 /\ s2 \in 0..64 /\ s3 \in 0..64 /\ s4 \in 0..64 /\ Pad \in 0..64
    BY DEF Pad, Sextets
  <2>8. SymbolAt(b, (4 * g) + r) \in 0..64
    <3>1. r = 1 \/ r = 2 \/ r = 3 \/ r = 4
      OBVIOUS
    <3>2. {s1, s2, s3, s4, Pad} \subseteq 0..64
      BY <2>7
    <3>3. SymbolAt(b, (4 * g) + r) \in {s1, s2, s3, s4, Pad}
      BY <2>6, <3>1, Zenon
    <3> QED
      BY <3>2, <3>3
  <2> QED
    BY <2>1, <2>8, Zenon
<1>3. Encode(b) \in [1..EncodedSize(b) -> 0..64]
  BY <1>2 DEF Encode
<1>4. EncodedSize(b) \in Nat
  BY <1>1
<1> QED
  BY <1>3, <1>4, SequenceOf

(* How many pads an encoding has.                                               *)
LEMMA PadsOfEncoding ==
  ASSUME NEW b \in Seq(Bytes), NEW G \in Nat, EncodedSize(b) = 4 * G, (3 * G) - Len(b) \in 0..2
  PROVE  Padding(Encode(b)) = (3 * G) - Len(b) /\ DecodedSize(Encode(b)) = Len(b)
<1> DEFINE e == Encode(b)  n == Len(b)
<1>1. n \in Nat /\ Len(e) = 4 * G /\ e \in Seq(0..64)
  BY EncodingIsText
<1>2. \A i \in 1..(4 * G) : e[i] = SymbolAt(b, i)
  BY DEF Encode
<1>3. (4 * G) \div 4 = G
  BY SMT
<1>4. CASE G = 0
  <2>1. Len(e) = 0 /\ n = 0
    BY <1>1, <1>4
  <2>2. e = <<>>
    BY <1>1, <2>1
  <2>3. Padding(e) = 0
    BY <2>2 DEF Padding
  <2> QED
    BY <1>1, <1>3, <1>4, <2>1, <2>3 DEF DecodedSize
<1>5. CASE G > 0
  <2> DEFINE g == G - 1
  <2>1. g \in Nat /\ 4 * G = (4 * g) + 4 /\ (4 * G) - 1 = (4 * g) + 3 /\ e # <<>>
    BY <1>1, <1>5
  <2>2. PICK x \in Bytes, y \in Bytes, z \in Bytes, s1 \in Sextets, s2 \in Sextets, s3 \in Sextets,
             s4 \in Sextets : IsGroup(b, g, x, y, z, s1, s2, s3, s4)
    BY <2>1, GroupOfEncoding, Zenon
  <2>3. /\ e[4 * G] = IF (3 * g) + 3 > n THEN Pad ELSE s4
        /\ e[(4 * G) - 1] = IF (3 * g) + 2 > n THEN Pad ELSE s3
    <3>1. 4 * G \in 1..(4 * G) /\ (4 * G) - 1 \in 1..(4 * G)
      BY <1>5
    <3>2. e[4 * G] = SymbolAt(b, (4 * g) + 4) /\ e[(4 * G) - 1] = SymbolAt(b, (4 * g) + 3)
      BY <1>2, <2>1, <3>1
    <3> QED
      BY <2>2, <3>2, Zenon DEF IsGroup
  <2>4. /\ e[4 * G] = Pad <=> (3 * G) - n >= 1
        /\ e[(4 * G) - 1] = Pad <=> (3 * G) - n >= 2
    <3>1. /\ (3 * g) + 3 > n <=> (3 * G) - n >= 1
          /\ (3 * g) + 2 > n <=> (3 * G) - n >= 2
      BY <1>1
    <3>2. s3 # Pad /\ s4 # Pad
      BY DEF Pad, Sextets
    <3> HIDE DEF e, g, n
    <3> QED
      BY <2>3, <3>1, <3>2, Zenon
  <2>5. Padding(e) = (3 * G) - n
    <3>1. Padding(e) = IF e[4 * G] # Pad THEN 0 ELSE IF e[(4 * G) - 1] = Pad THEN 2 ELSE 1
      BY <1>1, <2>1 DEF Padding
    <3> HIDE DEF e, g, n
    <3> QED
      BY <2>4, <3>1 DEF n
  <2> QED
    BY <1>1, <1>3, <2>5 DEF DecodedSize
<1> QED
  BY <1>4, <1>5

LEMMA SymbolsOfEncoding ==
  ASSUME NEW b \in Seq(Bytes), NEW G \in Nat, EncodedSize(b) = 4 * G, NEW g \in 0..(G - 1)
  PROVE  /\ Encode(b)[(4 * g) + 1] = SymbolAt(b, (4 * g) + 1)
         /\ Encode(b)[(4 * g) + 2] = SymbolAt(b, (4 * g) + 2)
         /\ Encode(b)[(4 * g) + 3] = SymbolAt(b, (4 * g) + 3)
         /\ Encode(b)[(4 * g) + 4] = SymbolAt(b, (4 * g) + 4)
<1>1. \A r \in 1..4 : (4 * g) + r \in 1..EncodedSize(b)
  OBVIOUS
<1>2. \A r \in 1..4 : Encode(b)[(4 * g) + r] = SymbolAt(b, (4 * g) + r)
  BY <1>1 DEF Encode
<1> QED
  BY <1>2

LEMMA GroupsOfEncodingAreSound ==
  ASSUME NEW b \in Seq(Bytes), NEW G \in Nat, EncodedSize(b) = 4 * G, (3 * G) - Len(b) \in 0..2,
         NEW g \in 0..(G - 1)
  PROVE  GroupFaults(Encode(b), 4 * g) = {}
<1> DEFINE e == Encode(b)  n == Len(b)
<1>0. PICK x \in Bytes, y \in Bytes, z \in Bytes, s1 \in Sextets, s2 \in Sextets, s3 \in Sextets,
           s4 \in Sextets : IsGroup(b, g, x, y, z, s1, s2, s3, s4)
  <2>1. g \in Nat
    OBVIOUS
  <2> QED
    BY <2>1, GroupOfEncoding, Zenon
<1>1. /\ (3 * g) + 2 > n => y = 0
      /\ (3 * g) + 3 > n => z = 0
      /\ Spelled(x, y, z, s1, s2, s3, s4)
      /\ e[(4 * g) + 1] = s1 /\ e[(4 * g) + 2] = s2
      /\ e[(4 * g) + 3] = IF (3 * g) + 2 > n THEN Pad ELSE s3
      /\ e[(4 * g) + 4] = IF (3 * g) + 3 > n THEN Pad ELSE s4
  BY <1>0, SymbolsOfEncoding, Zenon DEF IsGroup
<1>2. n \in Nat /\ Len(e) = 4 * G
  BY EncodingIsText
<1> HIDE DEF e, n
<1>3. s1 \notin {Pad, Bad} /\ s2 \notin {Pad, Bad} /\ s3 \notin {Pad, Bad} /\ s4 \notin {Pad, Bad} /\ Pad # Bad
  BY DEF Pad, Bad, Sextets
<1>4. (4 * g) + 4 # Len(e) => ~((3 * g) + 2 > n) /\ ~((3 * g) + 3 > n)
  BY <1>2 DEF n
<1>5. (3 * g) + 2 > n => (3 * g) + 3 > n
  BY <1>2
<1>6. y = 0 => s2 % 16 = 0
  BY <1>1, SMT DEF Bytes, Spelled
<1>7. z = 0 => s3 % 4 = 0
  BY <1>1, SMT DEF Bytes, Spelled
<1>8. ~((4 * g) + 4 # Len(e) /\ Pad \in {e[(4 * g) + 3], e[(4 * g) + 4]})
  BY <1>1, <1>3, <1>4, Zenon
<1>9. ~(e[(4 * g) + 3] = Pad /\ e[(4 * g) + 4] # Pad)
  BY <1>1, <1>3, <1>5, Zenon
<1>10. ~({e[(4 * g) + 1], e[(4 * g) + 2]} \cap {Pad, Bad} # {} \/ Bad \in {e[(4 * g) + 3], e[(4 * g) + 4]})
  BY <1>1, <1>3, Zenon
<1>11. Canonical(e, 4 * g)
  BY <1>1, <1>3, <1>5, <1>6, <1>7, Zenon DEF Canonical
<1> QED
  BY <1>8, <1>9, <1>10, <1>11 DEF GroupFaults, When, e

(* The bytes of a group come back.                                              *)
LEMMA GroupComesBack ==
  ASSUME NEW b \in Seq(Bytes), NEW G \in Nat, EncodedSize(b) = 4 * G, NEW g \in 0..(G - 1),
         NEW r \in 0..2, (3 * g) + r + 1 <= Len(b)
  PROVE  ByteAt(Encode(b), (3 * g) + r + 1) = b[(3 * g) + r + 1]
<1> DEFINE e == Encode(b)  n == Len(b)
<1>1. PICK x \in Bytes, y \in Bytes, z \in Bytes, s1 \in Sextets, s2 \in Sextets, s3 \in Sextets,
           s4 \in Sextets : IsGroup(b, g, x, y, z, s1, s2, s3, s4)
  <2>1. g \in Nat
    OBVIOUS
  <2> QED
    BY <2>1, GroupOfEncoding, Zenon
<1>2. x = Byte(b, (3 * g) + 1) /\ y = Byte(b, (3 * g) + 2) /\ z = Byte(b, (3 * g) + 3)
  BY <1>1, Zenon DEF IsGroup
<1>3. /\ e[(4 * g) + 1] = s1 /\ e[(4 * g) + 2] = s2
      /\ ~((3 * g) + 2 > n) => e[(4 * g) + 3] = s3
      /\ ~((3 * g) + 3 > n) => e[(4 * g) + 4] = s4
  BY <1>1, SymbolsOfEncoding, Zenon DEF IsGroup
<1>4. /\ (s1 * 4) + (s2 \div 16) = x
      /\ ((s2 % 16) * 16) + (s3 \div 4) = y
      /\ ((s3 % 4) * 64) + s4 = z
  BY <1>1, Zenon DEF IsGroup, Joined
<1>5. s3 # Pad
  BY DEF Sextets, Pad
<1> DEFINE i == (3 * g) + r + 1
<1>6. (i - 1) \div 3 = g /\ (i - 1) % 3 = r
  BY SMT
<1>7. n \in Nat /\ g \in Nat
  OBVIOUS
<1> HIDE DEF e, i
<1>8. CASE r = 0
  <2>1. ByteAt(e, i) = (e[(4 * g) + 1] * 4) + (e[(4 * g) + 2] \div 16)
    BY <1>6, <1>8 DEF ByteAt
  <2>2. i = (3 * g) + 1 /\ (3 * g) + 1 <= n
    BY <1>7, <1>8 DEF i
  <2>3. Byte(b, (3 * g) + 1) = b[(3 * g) + 1]
    BY <2>2 DEF Byte
  <2>4. ByteAt(e, i) = x
    BY <1>3, <1>4, <2>1, Zenon
  <2> QED
    BY <1>2, <2>2, <2>3, <2>4 DEF e, i
<1>9. CASE r = 1
  <2>1. ByteAt(e, i) = ((e[(4 * g) + 2] % 16) * 16) + (Bits(e[(4 * g) + 3]) \div 4)
    BY <1>6, <1>9 DEF ByteAt
  <2>2. i = (3 * g) + 2 /\ (3 * g) + 2 <= n /\ ~((3 * g) + 2 > n)
    BY <1>7, <1>9 DEF i
  <2>3. Byte(b, (3 * g) + 2) = b[(3 * g) + 2]
    BY <2>2 DEF Byte
  <2>4. Bits(e[(4 * g) + 3]) = s3
    BY <1>3, <1>5, <2>2, Zenon DEF Bits
  <2>5. ByteAt(e, i) = y
    BY <1>3, <1>4, <2>1, <2>4, Zenon
  <2> QED
    BY <1>2, <2>2, <2>3, <2>5 DEF e, i
<1>10. CASE r = 2
  <2>1. ByteAt(e, i) = ((e[(4 * g) + 3] % 4) * 64) + e[(4 * g) + 4]
    BY <1>6, <1>10 DEF ByteAt
  <2>2. i = (3 * g) + 3 /\ (3 * g) + 3 <= n /\ ~((3 * g) + 2 > n) /\ ~((3 * g) + 3 > n)
    BY <1>7, <1>10 DEF i
  <2>3. Byte(b, (3 * g) + 3) = b[(3 * g) + 3]
    BY <2>2 DEF Byte
  <2>4. ByteAt(e, i) = z
    BY <1>3, <1>4, <2>1, <2>2, Zenon
  <2> QED
    BY <1>2, <2>2, <2>3, <2>4 DEF e, i
<1> QED
  BY <1>8, <1>9, <1>10

LEMMA EveryEncodingIsTaken ==
  ASSUME NEW b \in Seq(Bytes)
  PROVE  DecodesBack(b)
<1> DEFINE e == Encode(b)  n == Len(b)
<1>1. PICK G \in Nat : EncodedSize(b) = 4 * G /\ (3 * G) - Len(b) \in 0..2
  BY SizeOfEncoding
<1>2. n \in Nat /\ Len(e) = 4 * G /\ DecodedSize(e) = n
  BY <1>1, EncodingIsText, PadsOfEncoding
<1>3. (4 * G) % 4 = 0 /\ (4 * G) \div 4 = G
  BY SMT
<1>4. \A g \in 0..(G - 1) : GroupFaults(e, 4 * g) = {}
  BY <1>1, GroupsOfEncodingAreSound
<1>5. DecodeFaults(e, n) = {}
  BY <1>2, <1>3, <1>4 DEF DecodeFaults
<1>6. \A i \in 1..n : ByteAt(e, i) = b[i]
  <2> SUFFICES ASSUME NEW i \in 1..n
               PROVE  ByteAt(e, i) = b[i]
    OBVIOUS
  <2>1. i - 1 \in Nat /\ i \in Int /\ i <= n
    BY <1>2
  <2>2. PICK g \in Nat, r \in 0..2 : i - 1 = (3 * g) + r
    BY <2>1, GroupOfThird
  <2>3. i = (3 * g) + r + 1 /\ g \in 0..(G - 1)
    BY <1>1, <1>2, <2>1, <2>2
  <2>4. (3 * g) + r + 1 <= Len(b)
    BY <2>1, <2>3
  <2>5. ByteAt(Encode(b), (3 * g) + r + 1) = b[(3 * g) + r + 1]
    BY <1>1, <2>3, <2>4, GroupComesBack, Zenon
  <2> QED
    BY <2>3, <2>5, Zenon
<1>7. b = [i \in 1..n |-> b[i]]
  OBVIOUS
<1>8. Decode(e) = [i \in 1..n |-> ByteAt(e, i)]
  BY <1>2, Zenon DEF Decode
<1>9. Decode(e) = b
  <2> HIDE DEF e, n
  <2> QED
    BY <1>6, <1>7, <1>8
<1> QED
  BY <1>5, <1>9 DEF DecodesBack

(* What an accepted text looks like: groups of four symbols, whose bits the     *)
(* missing bytes leave clear.                                                   *)
IsAccepted(s, g) ==
  LET at == 4 * g
  IN /\ s[at + 1] \in Sextets /\ s[at + 2] \in Sextets
     /\ s[at + 3] \in Sextets \cup {Pad} /\ s[at + 4] \in Sextets \cup {Pad}
     /\ s[at + 3] = Pad => s[at + 4] = Pad /\ s[at + 2] % 16 = 0
     /\ s[at + 3] # Pad /\ s[at + 4] = Pad => s[at + 3] % 4 = 0
     /\ at + 4 # Len(s) => s[at + 3] # Pad /\ s[at + 4] # Pad

LEMMA GroupIsAccepted ==
  ASSUME NEW s \in Seq(Symbols), NEW g \in Nat, (4 * g) + 4 <= Len(s), GroupFaults(s, 4 * g) = {}
  PROVE  IsAccepted(s, g)
<1> DEFINE at == 4 * g
<1>1. /\ ~(at + 4 # Len(s) /\ Pad \in {s[at + 3], s[at + 4]})
      /\ ~(s[at + 3] = Pad /\ s[at + 4] # Pad)
      /\ ~({s[at + 1], s[at + 2]} \cap {Pad, Bad} # {} \/ Bad \in {s[at + 3], s[at + 4]})
      /\ Canonical(s, at)
  BY DEF GroupFaults, When
<1>2. s[at + 1] \in Symbols /\ s[at + 2] \in Symbols /\ s[at + 3] \in Symbols /\ s[at + 4] \in Symbols
  <2>1. \A r \in 1..4 : at + r \in 1..Len(s)
    OBVIOUS
  <2>2. \A r \in 1..4 : s[at + r] \in Symbols
    BY <2>1
  <2> QED
    BY <2>2
<1>3. \A c \in Symbols : c \notin {Pad, Bad} => c \in Sextets
  BY DEF Symbols, Sextets, Pad, Bad
<1> HIDE DEF at
<1>4. s[at + 1] \in Sextets /\ s[at + 2] \in Sextets
  BY <1>1, <1>2, <1>3, Zenon
<1>5. s[at + 3] \in Sextets \cup {Pad} /\ s[at + 4] \in Sextets \cup {Pad}
  BY <1>1, <1>2, <1>3, Zenon
<1>6. /\ s[at + 3] = Pad => s[at + 4] = Pad /\ s[at + 2] % 16 = 0
      /\ s[at + 3] # Pad /\ s[at + 4] = Pad => s[at + 3] % 4 = 0
      /\ at + 4 # Len(s) => s[at + 3] # Pad /\ s[at + 4] # Pad
  BY <1>1, Zenon DEF Canonical
<1> QED
  BY <1>4, <1>5, <1>6, Zenon DEF IsAccepted, at

(* And of which size: three bytes for each group, but for the pads.             *)
LEMMA AcceptedText ==
  ASSUME NEW s \in Seq(Symbols), NEW size \in 0..Len(s), DecodeFaults(s, size) = {}
  PROVE  \E G \in Nat :
           /\ Len(s) = 4 * G
           /\ \A g \in 0..(G - 1) : IsAccepted(s, g)
           /\ DecodedSize(s) = size
           /\ G = 0 => size = 0
           /\ G > 0 => size = (3 * G) - (IF s[4 * G] # Pad THEN 0 ELSE IF s[(4 * G) - 1] = Pad THEN 2 ELSE 1)
<1>1. /\ Len(s) % 4 = 0 /\ DecodedSize(s) = size
      /\ \A g \in 0..(Len(s) \div 4) - 1 : GroupFaults(s, 4 * g) = {}
  BY DEF DecodeFaults
<1>2. Len(s) \in Nat
  OBVIOUS
<1>3. PICK G \in Nat : Len(s) = 4 * G
  <2>1. Len(s) \div 4 \in Nat /\ Len(s) = 4 * (Len(s) \div 4)
    BY <1>1, <1>2, SMT
  <2> QED
    BY <2>1
<1>4. Len(s) \div 4 = G
  BY <1>3, SMT
<1>5. \A g \in 0..(G - 1) : IsAccepted(s, g)
  <2> SUFFICES ASSUME NEW g \in 0..(G - 1)
               PROVE  IsAccepted(s, g)
    OBVIOUS
  <2>1. GroupFaults(s, 4 * g) = {}
    BY <1>1, <1>4
  <2>2. g \in Nat /\ (4 * g) + 4 <= Len(s)
    BY <1>3
  <2> QED
    BY <2>1, <2>2, GroupIsAccepted
<1>6. G = 0 => size = 0
  <2> SUFFICES ASSUME G = 0
               PROVE  size = 0
    OBVIOUS
  <2>1. s = <<>>
    BY <1>3
  <2> QED
    BY <1>1, <1>4, <2>1 DEF DecodedSize, Padding
<1>7. G > 0 => size = (3 * G) - (IF s[4 * G] # Pad THEN 0 ELSE IF s[(4 * G) - 1] = Pad THEN 2 ELSE 1)
  <2> SUFFICES ASSUME G > 0
               PROVE  size = (3 * G) - (IF s[4 * G] # Pad THEN 0 ELSE IF s[(4 * G) - 1] = Pad THEN 2 ELSE 1)
    OBVIOUS
  <2>1. s # <<>>
    BY <1>3
  <2>2. Padding(s) = IF s[4 * G] # Pad THEN 0 ELSE IF s[(4 * G) - 1] = Pad THEN 2 ELSE 1
    BY <1>3, <2>1 DEF Padding
  <2> QED
    BY <1>1, <1>4, <2>2, Zenon DEF DecodedSize
<1> QED
  BY <1>1, <1>3, <1>5, <1>6, <1>7

LEMMA PlaceInThird ==
  ASSUME NEW s, NEW g \in Nat
  PROVE  /\ ByteAt(s, (3 * g) + 1) = (s[(4 * g) + 1] * 4) + (s[(4 * g) + 2] \div 16)
         /\ ByteAt(s, (3 * g) + 2) = ((s[(4 * g) + 2] % 16) * 16) + (Bits(s[(4 * g) + 3]) \div 4)
         /\ ByteAt(s, (3 * g) + 3) = ((s[(4 * g) + 3] % 4) * 64) + s[(4 * g) + 4]
<1> DEFINE i(r) == (3 * g) + r
<1>1. \A r \in 1..3 : (i(r) - 1) \div 3 = g /\ (i(r) - 1) % 3 = r - 1
  <2> SUFFICES ASSUME NEW r \in 1..3
               PROVE  (i(r) - 1) \div 3 = g /\ (i(r) - 1) % 3 = r - 1
    OBVIOUS
  <2>1. i(r) - 1 = (3 * g) + (r - 1) /\ r - 1 \in 0..2
    OBVIOUS
  <2> QED
    BY <2>1, Thirds
<1> HIDE DEF i
<1>2. ByteAt(s, i(1)) = (s[(4 * g) + 1] * 4) + (s[(4 * g) + 2] \div 16)
  BY <1>1 DEF ByteAt
<1>3. ByteAt(s, i(2)) = ((s[(4 * g) + 2] % 16) * 16) + (Bits(s[(4 * g) + 3]) \div 4)
  BY <1>1 DEF ByteAt
<1>4. ByteAt(s, i(3)) = ((s[(4 * g) + 3] % 4) * 64) + s[(4 * g) + 4]
  BY <1>1 DEF ByteAt
<1> QED
  BY <1>2, <1>3, <1>4 DEF i

(* The bytes of a group of an accepted text: those under the pads would be zero. *)
IsTextGroup(s, g, x, y, z, s1, s2, s3, s4) ==
  /\ Spelled(x, y, z, s1, s2, s3, s4) /\ Joined(x, y, z, s1, s2, s3, s4)
  /\ s1 = s[(4 * g) + 1] /\ s2 = s[(4 * g) + 2] /\ s3 = Bits(s[(4 * g) + 3]) /\ s4 = Bits(s[(4 * g) + 4])
  /\ s[(4 * g) + 3] # Pad => s[(4 * g) + 3] = s3
  /\ s[(4 * g) + 4] # Pad => s[(4 * g) + 4] = s4 /\ s[(4 * g) + 3] # Pad
  /\ s[(4 * g) + 3] = Pad => y = 0
  /\ s[(4 * g) + 4] = Pad => z = 0

LEMMA GroupOfText ==
  ASSUME NEW s, NEW g \in Nat, IsAccepted(s, g)
  PROVE  \E x \in Bytes, y \in Bytes, z \in Bytes, s1 \in Sextets, s2 \in Sextets, s3 \in Sextets,
            s4 \in Sextets : IsTextGroup(s, g, x, y, z, s1, s2, s3, s4)
<1> DEFINE s1 == s[(4 * g) + 1]
           s2 == s[(4 * g) + 2]
           c3 == s[(4 * g) + 3]
           c4 == s[(4 * g) + 4]
<1>1. /\ s1 \in Sextets /\ s2 \in Sextets /\ c3 \in Sextets \cup {Pad} /\ c4 \in Sextets \cup {Pad}
      /\ c3 = Pad => c4 = Pad /\ s2 % 16 = 0
      /\ c3 # Pad /\ c4 = Pad => c3 % 4 = 0
  BY Zenon DEF IsAccepted
<1> HIDE DEF s1, s2, c3, c4
<1>2. PICK s3 \in Sextets, s4 \in Sextets : s3 = Bits(c3) /\ s4 = Bits(c4)
  <2>1. 0 \in Sextets
    BY DEF Sextets
  <2>2. Bits(c3) \in Sextets /\ Bits(c4) \in Sextets
    BY <1>1, <2>1, Zenon DEF Bits
  <2> QED
    BY <2>2, Zenon
<1>3. PICK x \in Bytes, y \in Bytes, z \in Bytes :
        Spelled(x, y, z, s1, s2, s3, s4) /\ Joined(x, y, z, s1, s2, s3, s4)
  BY <1>1, FourSymbols, Zenon
<1>4. /\ c3 = Pad => s3 = 0
      /\ c3 # Pad => c3 = s3
      /\ c4 = Pad => s4 = 0
      /\ c4 # Pad => c4 = s4 /\ c3 # Pad
  BY <1>1, <1>2, Zenon DEF Bits
<1>5. c3 = Pad => y = 0
  <2> SUFFICES ASSUME c3 = Pad
               PROVE  y = 0
    OBVIOUS
  <2>1. y = ((s2 % 16) * 16) + (s3 \div 4) /\ s2 % 16 = 0 /\ s3 = 0
    BY <1>1, <1>3, <1>4, Zenon DEF Joined
  <2> QED
    BY <2>1, SMT
<1>6. c4 = Pad => z = 0
  <2> SUFFICES ASSUME c4 = Pad
               PROVE  z = 0
    OBVIOUS
  <2>1. z = ((s3 % 4) * 64) + s4 /\ s4 = 0
    BY <1>3, <1>4, Zenon DEF Joined
  <2>2. s3 % 4 = 0
    <3>1. CASE c3 = Pad
      BY <1>4, <3>1, SMT
    <3>2. CASE c3 # Pad
      BY <1>1, <1>4, <3>2
    <3> QED
      BY <3>1, <3>2
  <2> QED
    BY <2>1, <2>2, SMT
<1>7. IsTextGroup(s, g, x, y, z, s1, s2, s3, s4)
  BY <1>2, <1>3, <1>4, <1>5, <1>6, Zenon DEF IsTextGroup, s1, s2, c3, c4
<1> QED
  BY <1>1, <1>7, Zenon

(* Where the pads are: under the bytes that are missing.                        *)
LEMMA PadsOfText ==
  ASSUME NEW s \in Seq(Symbols), NEW size \in 0..Len(s), NEW G \in Nat, Len(s) = 4 * G,
         size = (3 * G) - (IF s[4 * G] # Pad THEN 0 ELSE IF s[(4 * G) - 1] = Pad THEN 2 ELSE 1),
         NEW g \in 0..(G - 1), IsAccepted(s, g)
  PROVE  /\ (3 * g) + 1 <= size
         /\ (3 * g) + 2 <= size <=> s[(4 * g) + 3] # Pad
         /\ (3 * g) + 3 <= size <=> s[(4 * g) + 4] # Pad
<1>1. /\ s[(4 * g) + 3] = Pad => s[(4 * g) + 4] = Pad
      /\ (4 * g) + 4 # Len(s) => s[(4 * g) + 3] # Pad /\ s[(4 * g) + 4] # Pad
  BY Zenon DEF IsAccepted
<1>2. CASE g = G - 1
  <2>1. 4 * G = (4 * g) + 4 /\ (4 * G) - 1 = (4 * g) + 3 /\ 3 * G = (3 * g) + 3 /\ g \in Nat
    BY <1>2
  <2>2. size = ((3 * g) + 3) - (IF s[(4 * g) + 4] # Pad THEN 0 ELSE IF s[(4 * g) + 3] = Pad THEN 2 ELSE 1)
    BY <2>1, Zenon
  <2> QED
    BY <1>1, <2>1, <2>2
<1>3. CASE g # G - 1
  <2>1. (4 * g) + 4 # Len(s) /\ (3 * g) + 3 <= (3 * G) - 3 /\ g \in Nat
    BY <1>3
  <2>2. size >= (3 * G) - 2
    OBVIOUS
  <2> QED
    BY <1>1, <2>1, <2>2
<1> QED
  BY <1>2, <1>3

(* The bytes of a group of the decoded text, and that encoding them gives its    *)
(* symbols again.                                                               *)
LEMMA GroupReads ==
  ASSUME NEW s \in Seq(Symbols), NEW size \in 0..Len(s), NEW G \in Nat, Len(s) = 4 * G,
         size = (3 * G) - (IF s[4 * G] # Pad THEN 0 ELSE IF s[(4 * G) - 1] = Pad THEN 2 ELSE 1),
         DecodedSize(s) = size, NEW g \in 0..(G - 1), IsAccepted(s, g)
  PROVE  /\ \A r \in 1..3 : (3 * g) + r <= size => ByteAt(s, (3 * g) + r) \in Bytes
         /\ Decode(s) \in Seq(Bytes) /\ Len(Decode(s)) = size =>
              \A r \in 1..4 : SymbolAt(Decode(s), (4 * g) + r) = s[(4 * g) + r]
<1> DEFINE d == Decode(s)
<1>1. PICK x \in Bytes, y \in Bytes, z \in Bytes, s1 \in Sextets, s2 \in Sextets, s3 \in Sextets,
           s4 \in Sextets : IsTextGroup(s, g, x, y, z, s1, s2, s3, s4)
  <2>1. g \in Nat
    OBVIOUS
  <2> QED
    BY <2>1, GroupOfText, Zenon
<1>2. /\ (3 * g) + 1 <= size
      /\ (3 * g) + 2 <= size <=> s[(4 * g) + 3] # Pad
      /\ (3 * g) + 3 <= size <=> s[(4 * g) + 4] # Pad
  BY PadsOfText
<1>3. g \in Nat /\ size \in Nat
  OBVIOUS
<1>4. /\ ByteAt(s, (3 * g) + 1) = (s[(4 * g) + 1] * 4) + (s[(4 * g) + 2] \div 16)
      /\ ByteAt(s, (3 * g) + 2) = ((s[(4 * g) + 2] % 16) * 16) + (Bits(s[(4 * g) + 3]) \div 4)
      /\ ByteAt(s, (3 * g) + 3) = ((s[(4 * g) + 3] % 4) * 64) + s[(4 * g) + 4]
  BY <1>3, PlaceInThird
<1>5. /\ ByteAt(s, (3 * g) + 1) = x
      /\ ByteAt(s, (3 * g) + 2) = y
      /\ (3 * g) + 3 <= size => ByteAt(s, (3 * g) + 3) = z
  BY <1>1, <1>2, <1>4, Zenon DEF IsTextGroup, Joined
<1>6. \A r \in 1..3 : (3 * g) + r <= size => ByteAt(s, (3 * g) + r) \in Bytes
  <2>1. \A r \in 1..3 : r = 1 \/ r = 2 \/ r = 3
    OBVIOUS
  <2> QED
    BY <1>5, <2>1, Zenon
<1>7. ASSUME d \in Seq(Bytes), Len(d) = size
      PROVE  \A r \in 1..4 : SymbolAt(d, (4 * g) + r) = s[(4 * g) + r]
  <2>1. \A i \in Nat \ {0} : Byte(d, i) = IF i <= size THEN ByteAt(s, i) ELSE 0
    <3>1. \A i \in 1..size : d[i] = ByteAt(s, i)
      BY DEF Decode
    <3>2. \A i \in Nat \ {0} : i <= size => i \in 1..size
      BY <1>3
    <3> HIDE DEF d
    <3> QED
      BY <1>7, <3>1, <3>2, Zenon DEF Byte
  <2>2. (3 * g) + 1 \in Nat \ {0} /\ (3 * g) + 2 \in Nat \ {0} /\ (3 * g) + 3 \in Nat \ {0}
    BY <1>3
  <2> HIDE DEF d
  <2>3. /\ Byte(d, (3 * g) + 1) = x
        /\ Byte(d, (3 * g) + 2) = y
        /\ Byte(d, (3 * g) + 3) = z
    <3>1. /\ ~((3 * g) + 2 <= size) => y = 0
          /\ ~((3 * g) + 3 <= size) => z = 0
      BY <1>1, <1>2, Zenon DEF IsTextGroup
    <3> QED
      BY <1>2, <1>5, <2>1, <2>2, <3>1, Zenon
  <2>4. /\ SymbolAt(d, (4 * g) + 1) = x \div 4
        /\ SymbolAt(d, (4 * g) + 2) = ((x % 4) * 16) + (y \div 16)
        /\ SymbolAt(d, (4 * g) + 3) = IF (3 * g) + 2 > Len(d) THEN Pad ELSE ((y % 16) * 4) + (z \div 64)
        /\ SymbolAt(d, (4 * g) + 4) = IF (3 * g) + 3 > Len(d) THEN Pad ELSE z % 64
    BY <1>3, <1>7, <2>3, EncodedGroup
  <2>5. /\ (3 * g) + 2 > Len(d) <=> ~((3 * g) + 2 <= size)
        /\ (3 * g) + 3 > Len(d) <=> ~((3 * g) + 3 <= size)
    BY <1>3, <1>7
  <2>6. /\ SymbolAt(d, (4 * g) + 1) = s[(4 * g) + 1]
        /\ SymbolAt(d, (4 * g) + 2) = s[(4 * g) + 2]
        /\ SymbolAt(d, (4 * g) + 3) = s[(4 * g) + 3]
        /\ SymbolAt(d, (4 * g) + 4) = s[(4 * g) + 4]
    BY <1>1, <1>2, <2>4, <2>5, Zenon DEF IsTextGroup, Spelled
  <2>7. \A r \in 1..4 : r = 1 \/ r = 2 \/ r = 3 \/ r = 4
    OBVIOUS
  <2> QED
    BY <2>6, <2>7, Zenon
<1> QED
  BY <1>6, <1>7

LEMMA OnlyEncodingsAreTaken ==
  ASSUME NEW s \in Seq(Symbols), NEW size \in 0..Len(s), DecodeFaults(s, size) = {}
  PROVE  Len(Decode(s)) = size /\ Decode(s) \in Seq(Bytes) /\ Encode(Decode(s)) = s
<1> DEFINE d == Decode(s)
           pads(G) == IF s[4 * G] # Pad THEN 0 ELSE IF s[(4 * G) - 1] = Pad THEN 2 ELSE 1
<1>1. PICK G \in Nat :
        /\ Len(s) = 4 * G
        /\ \A g \in 0..(G - 1) : IsAccepted(s, g)
        /\ DecodedSize(s) = size
        /\ G = 0 => size = 0
        /\ G > 0 => size = (3 * G) - pads(G)
  BY AcceptedText
<1>2. size \in Nat /\ (3 * G) - size \in 0..2
  BY <1>1
<1>3. \A g \in 0..(G - 1) :
        /\ \A r \in 1..3 : (3 * g) + r <= size => ByteAt(s, (3 * g) + r) \in Bytes
        /\ d \in Seq(Bytes) /\ Len(d) = size =>
             \A r \in 1..4 : SymbolAt(d, (4 * g) + r) = s[(4 * g) + r]
  <2> SUFFICES ASSUME NEW g \in 0..(G - 1)
               PROVE  /\ \A r \in 1..3 : (3 * g) + r <= size => ByteAt(s, (3 * g) + r) \in Bytes
                      /\ d \in Seq(Bytes) /\ Len(d) = size =>
                           \A r \in 1..4 : SymbolAt(d, (4 * g) + r) = s[(4 * g) + r]
    OBVIOUS
  <2>1. G > 0 /\ IsAccepted(s, g)
    BY <1>1
  <2>2. size = (3 * G) - pads(G)
    BY <1>1, <2>1
  <2> QED
    BY <1>1, <2>1, <2>2, GroupReads
<1>4. ASSUME NEW i \in 1..size
      PROVE  ByteAt(s, i) \in Bytes
  <2>1. i - 1 \in Nat /\ i \in Int /\ i <= size
    BY <1>2
  <2>2. PICK g \in Nat, r \in 0..2 : i - 1 = (3 * g) + r
    BY <2>1, GroupOfThird
  <2>3. i = (3 * g) + (r + 1) /\ r + 1 \in 1..3 /\ g \in 0..(G - 1)
    BY <1>2, <2>1, <2>2
  <2>4. (3 * g) + (r + 1) <= size
    BY <2>1, <2>3
  <2>5. ByteAt(s, (3 * g) + (r + 1)) \in Bytes
    BY <1>3, <2>3, <2>4, Zenon
  <2> QED
    BY <2>3, <2>5, Zenon
<1>5. d \in Seq(Bytes) /\ Len(d) = size
  <2>1. d = [i \in 1..size |-> ByteAt(s, i)]
    BY <1>1, Zenon DEF Decode
  <2>2. d \in [1..size -> Bytes]
    BY <1>4, <2>1
  <2> QED
    BY <1>2, <2>2, SequenceOf
<1>6. EncodedSize(d) = 4 * G
  <2>1. (size + 2) \div 3 = G
    BY <1>2, SMT
  <2> HIDE DEF d
  <2> QED
    BY <1>5, <2>1 DEF EncodedSize
<1>7. ASSUME NEW i \in 1..(4 * G)
      PROVE  SymbolAt(d, i) = s[i]
  <2>1. i - 1 \in Nat /\ i \in Int /\ i <= 4 * G
    OBVIOUS
  <2>2. PICK g \in Nat, r \in 0..3 : i - 1 = (4 * g) + r
    BY <2>1, GroupOfQuarter
  <2>3. i = (4 * g) + (r + 1) /\ r + 1 \in 1..4 /\ g \in 0..(G - 1)
    BY <2>1, <2>2
  <2>4. SymbolAt(d, (4 * g) + (r + 1)) = s[(4 * g) + (r + 1)]
    BY <1>3, <1>5, <2>3, Zenon
  <2> QED
    BY <2>3, <2>4, Zenon
<1>8. s = [i \in 1..(4 * G) |-> s[i]]
  BY <1>1
<1>9. Encode(d) = [i \in 1..(4 * G) |-> SymbolAt(d, i)]
  BY <1>6, Zenon DEF Encode
<1>10. Encode(d) = s
  <2> HIDE DEF d
  <2> QED
    BY <1>7, <1>8, <1>9
<1> QED
  BY <1>5, <1>10

(* The data of an image, of any size: every encoding is taken and gives its     *)
(* bytes back, and what is taken is the encoding of what it gives.              *)
THEOREM Base64IsAlwaysCanonical ==
  ASSUME area = "bytes" => input \in Seq(Bytes),
         area = "symbols" => input \in Seq(Symbols)
  PROVE  Base64IsCanonical
<1>1. area = "bytes" => DecodesBack(input)
  BY EveryEncodingIsTaken
<1>2. area = "symbols" => TakesEncodings(input)
  BY OnlyEncodingsAreTaken DEF TakesEncodings
<1> QED
  BY <1>1, <1>2 DEF Base64IsCanonical

-------------------------------------------------------------------------------
(* Configurations.                                                              *)

(* A set of values that has the parts of its values, and packages of such.      *)
IsJson(V) ==
  \A x \in V : /\ x.t = "boolean" => x.v \in BOOLEAN
               /\ x.t = "integer" => x.v \in Int
               /\ x.t = "array" => x.v \in Seq(V)
               /\ x.t = "object" => x.v \in [DOMAIN x.v -> V]
ArePackages(roots, V) ==
  /\ Len(roots) \in Nat
  /\ \A i \in 1..Len(roots) : \A id \in DOMAIN roots[i] :
       roots[i][id].manifest \in V /\ \A f \in DOMAIN roots[i][id].files : roots[i][id].files[f] \in V
(* A view without faults has no other slots than these (parse_view_table).      *)
ViewsAreChecked == \A x : FaultsOfView(x) = {} => DOMAIN x.v \subseteq {"compact", "expanded"}

LEMMA NothingIsWrong ==
  ASSUME NEW condition, NEW fault, When(condition, fault) = {}
  PROVE  ~condition
BY DEF When

LEMMA LeastNumber ==
  ASSUME NEW T \in SUBSET Nat, T # {}
  PROVE  \E least \in T : \A n \in T : least <= n
<1> DEFINE R == OpToRel(<, Nat)
<1>1. IsWellFoundedOn(R, Nat)
  BY NatLessThanWellFounded
<1>2. \A m, n \in Nat : m < n => <<m, n>> \in R
  BY DEF OpToRel
<1> HIDE DEF R
<1>3. PICK least \in T : \A n \in T : <<n, least>> \notin R
  BY <1>1, WFMin
<1>4. \A n \in T : ~(n < least)
  BY <1>2, <1>3
<1> QED
  BY <1>4

LEMMA TablesAre ==
  ASSUME NEW V, IsJson(V), NEW x \in V, NEW f
  PROVE  Table(x, f) \in [DOMAIN Table(x, f) -> V]
<1>1. CASE Has(x, f) /\ x.v[f].t = "object"
  <2>1. x.v \in [DOMAIN x.v -> V] /\ f \in DOMAIN x.v
    BY <1>1 DEF IsJson, Has
  <2>2. x.v[f] \in V
    BY <2>1
  <2>3. x.v[f].v \in [DOMAIN x.v[f].v -> V]
    BY <1>1, <2>2, Zenon DEF IsJson
  <2> QED
    BY <1>1, <2>3 DEF Table
<1>2. CASE ~(Has(x, f) /\ x.v[f].t = "object")
  BY <1>2 DEF Table
<1> QED
  BY <1>1, <1>2

LEMMA FieldsAre ==
  ASSUME NEW V, IsJson(V), NEW x \in V, NEW f, Has(x, f)
  PROVE  x.v[f] \in V
<1>1. x.v \in [DOMAIN x.v -> V] /\ f \in DOMAIN x.v
  BY DEF IsJson, Has
<1> QED
  BY <1>1

LEMMA FlagsAreBoolean ==
  ASSUME NEW V, IsJson(V), NEW x \in V, NEW f, TypeFaults(x, f, "boolean") = {}, NEW default \in BOOLEAN
  PROVE  Or(x, f, Bool(default)).v \in BOOLEAN
<1>1. CASE Has(x, f)
  <2>1. Fits(x.v[f], "boolean")
    BY <1>1 DEF TypeFaults, When
  <2>2. x.v[f].t = "boolean" /\ x.v[f] \in V
    BY <1>1, <2>1, FieldsAre DEF Fits
  <2>3. x.v[f].v \in BOOLEAN
    BY <2>2, Zenon DEF IsJson
  <2> QED
    BY <1>1, <2>3 DEF Or
<1>2. CASE ~Has(x, f)
  BY <1>2 DEF Or, Bool
<1> QED
  BY <1>1, <1>2

(* Timings that parse_timings takes are in range, and the backoffs in order.     *)
LEMMA TimingsAreSound ==
  ASSUME NEW x, TimingFaults(x) = {}
  PROVE  /\ \A f \in Timings : TimingsOf(x)[f] \in 1..MaxDuration
         /\ TimingsOf(x).initial_backoff_ms <= TimingsOf(x).maximum_backoff_ms
<1> DEFINE given == Table(x, "timings")
           wrong(f) == IF given[f].t # "integer" THEN {"type"} ELSE When(given[f].v \notin 1..MaxDuration, "range")
           each == UNION {wrong(f) : f \in DOMAIN given \cap Timings}
<1>1. each = {} /\ When(each = {} /\ TimingsOf(x).initial_backoff_ms > TimingsOf(x).maximum_backoff_ms,
                        "backoff") = {}
  BY Zenon DEF TimingFaults
<1>2. \A f \in DOMAIN given \cap Timings : given[f].v \in 1..MaxDuration
  <2> SUFFICES ASSUME NEW f \in DOMAIN given \cap Timings
               PROVE  given[f].v \in 1..MaxDuration
    OBVIOUS
  <2> HIDE DEF given
  <2>1. wrong(f) = {}
    BY <1>1
  <2> QED
    BY <2>1 DEF When
<1>3. \A f \in DOMAIN given : x.v["timings"].v[f].v = given[f].v
  BY DEF Table
<1>4. \A f \in Timings : DefaultTimings[f] \in 1..MaxDuration
  <2>1. \A f \in Timings : DefaultTimings[f] \in {2000, 1000, 500, 250, 30000, 60000}
    BY SMT DEF Timings, DefaultTimings
  <2>2. MaxDuration \in Int /\ 60000 <= MaxDuration
    BY SMT DEF MaxDuration
  <2> QED
    BY <2>1, <2>2, SMT
<1>5. \A f \in Timings : TimingsOf(x)[f] = IF f \in DOMAIN given THEN x.v["timings"].v[f].v ELSE DefaultTimings[f]
  BY DEF TimingsOf
<1>6. \A f \in Timings : TimingsOf(x)[f] \in 1..MaxDuration
  <2> HIDE DEF given
  <2> QED
    BY <1>2, <1>3, <1>4, <1>5, Zenon
<1>7. ~(TimingsOf(x).initial_backoff_ms > TimingsOf(x).maximum_backoff_ms)
  <2> HIDE DEF each
  <2> QED
    BY <1>1, Zenon DEF When
<1>8. TimingsOf(x).initial_backoff_ms \in Int /\ TimingsOf(x).maximum_backoff_ms \in Int
  <2>1. "initial_backoff_ms" \in Timings /\ "maximum_backoff_ms" \in Timings
    BY DEF Timings
  <2>2. \A n \in 1..MaxDuration : n \in Int
    OBVIOUS
  <2> QED
    BY <1>6, <2>1, <2>2, Zenon
<1> QED
  BY <1>6, <1>7, <1>8

(* A protocol range that parse_module_manifest_impl takes is one.                *)
LEMMA ProtocolIsSound ==
  ASSUME NEW V, IsJson(V), NEW m \in V, ProtocolFaults(m) = {}
  PROVE  /\ Minor(m, "minimum_minor") \in Nat
         /\ Minor(m, "maximum_minor") \in Nat
         /\ Minor(m, "minimum_minor") <= Minor(m, "maximum_minor")
<1> DEFINE p == m.v["protocol"]
           fields == [major |-> "integer", minimum_minor |-> "integer", maximum_minor |-> "integer"]
           misfits == Misfits(p, fields, <<>>)
<1>1. Has(m, "protocol") /\ p.t = "object"
  BY Zenon DEF ProtocolFaults
<1>2. /\ misfits = {}
      /\ When(misfits = {} /\ (p.v["major"].v < 0 \/ Minor(m, "minimum_minor") < 0
                                \/ Minor(m, "maximum_minor") < Minor(m, "minimum_minor")), "range") = {}
  BY <1>1, Zenon DEF ProtocolFaults
<1>3. p \in V
  BY <1>1, FieldsAre
<1>4. p.v \in [DOMAIN p.v -> V]
  BY <1>1, <1>3, Zenon DEF IsJson
<1>5. \A f \in {"minimum_minor", "maximum_minor"} : p.v[f].v \in Int
  <2> SUFFICES ASSUME NEW f \in {"minimum_minor", "maximum_minor"}
               PROVE  p.v[f].v \in Int
    OBVIOUS
  <2>1. f \in DOMAIN fields /\ fields[f] = "integer"
    OBVIOUS
  <2> HIDE DEF p, fields
  <2>2. f \in DOMAIN p.v
    BY <1>2, <2>1 DEF Misfits
  <2>3. Fits(p.v[f], fields[f])
    BY <1>2, <2>1, <2>2 DEF Misfits
  <2>4. p.v[f].t = "integer" /\ p.v[f] \in V
    BY <1>4, <2>1, <2>2, <2>3 DEF Fits
  <2> QED
    BY <2>4, Zenon DEF IsJson
<1>6. Minor(m, "minimum_minor") \in Int /\ Minor(m, "maximum_minor") \in Int
  BY <1>5 DEF Minor
<1>7. ~(Minor(m, "minimum_minor") < 0) /\ ~(Minor(m, "maximum_minor") < Minor(m, "minimum_minor"))
  <2> HIDE DEF misfits
  <2> QED
    BY <1>2, Zenon DEF When
<1> QED
  BY <1>6, <1>7

(* What a manifest that is taken gives: a range, defaults that are values, and  *)
(* a view that was checked.                                                     *)
LEMMA ManifestIsSound ==
  ASSUME NEW V, IsJson(V), NEW m \in V, NEW directory, NEW package,
         \A f \in DOMAIN package : package[f] \in V, ManifestFaults(m, directory, package) = {}
  PROVE  /\ ProtocolFaults(m) = {}
         /\ Defaults(m, package) \in [DOMAIN Defaults(m, package) -> V]
         /\ Has(m, "view") => FaultsOfView(Contents(m, "view", package)) = {}
<1>1. /\ UNION {FileFaults(m, f, package) : f \in {"entry", "config", "view"}} = {}
      /\ ProtocolFaults(m) = {}
      /\ IF Has(m, "view") THEN FaultsOfView(Contents(m, "view", package)) = {} ELSE TRUE
  BY DEF ManifestFaults
<1>2. FileFaults(m, "config", package) = {}
  BY <1>1
<1>3. CASE Has(m, "config")
  <2>1. m.v["config"].v \in DOMAIN package
    <3>1. /\ StringFaults(m, "config") # {} => StringFaults(m, "config") = {}
          /\ StringFaults(m, "config") = {} => When(m.v["config"].v \notin DOMAIN package, "file") = {}
      BY <1>2, <1>3 DEF FileFaults
    <3> QED
      BY <3>1, NothingIsWrong
  <2>2. Contents(m, "config", package) \in V
    BY <2>1 DEF Contents
  <2>3. Table(Contents(m, "config", package), "defaults")
          \in [DOMAIN Table(Contents(m, "config", package), "defaults") -> V]
    BY <2>2, TablesAre
  <2> QED
    BY <1>1, <1>3, <2>3, Zenon DEF Defaults
<1>4. CASE ~Has(m, "config")
  <2>1. Table(m, "defaults") \in [DOMAIN Table(m, "defaults") -> V]
    BY TablesAre
  <2> QED
    BY <1>1, <1>4, <2>1, Zenon DEF Defaults
<1> QED
  BY <1>1, <1>3, <1>4

LEMMA MergedAre ==
  ASSUME NEW V, NEW own, NEW packaged, own \in [DOMAIN own -> V], packaged \in [DOMAIN packaged -> V]
  PROVE  Over(own, packaged) \in [DOMAIN Over(own, packaged) -> V]
BY DEF Over

LEMMA FieldsAreSound ==
  ASSUME NEW x, FieldFaults(x) = {}
  PROVE  /\ TypeFaults(x, "enabled", "boolean") = {}
         /\ TimingFaults(x) = {}
         /\ Has(x, "view") => FaultsOfView(x.v["view"]) = {}
<1> DEFINE view == IF Has(x, "view") THEN FaultsOfView(x.v["view"]) ELSE {}
<1>1. FieldFaults(x) = TypeFaults(x, "enabled", "boolean") \cup OptionsFaults(x) \cup RestartFaults(x)
                         \cup TimingFaults(x) \cup EnvironmentFaults(x) \cup DirectoryFaults(x) \cup view
  BY Zenon DEF FieldFaults
<1>2. view = {} => (Has(x, "view") => FaultsOfView(x.v["view"]) = {})
  BY Zenon
<1> HIDE DEF view
<1> QED
  BY <1>1, <1>2

(* The package of a module is in the first root that has it.                    *)
LEMMA PackageIsFirst ==
  ASSUME NEW roots, NEW id, Len(roots) \in Nat, id \in Catalog(roots)
  PROVE  \E i \in 1..Len(roots) :
           /\ id \in DOMAIN roots[i] /\ Package(roots, id) = roots[i][id]
           /\ \A j \in 1..(i - 1) : id \notin DOMAIN roots[j]
<1> DEFINE S == {i \in 1..Len(roots) : id \in DOMAIN roots[i]}
<1>1. S # {} /\ S \in SUBSET Nat
  BY DEF Catalog
<1>2. PICK i \in S : \A j \in S : i <= j
  BY <1>1, LeastNumber
<1>3. Min(S) \in S /\ \A j \in S : Min(S) <= j
  BY <1>2 DEF Min
<1>4. Package(roots, id) = roots[Min(S)][id]
  BY DEF Package
<1>5. \A j \in 1..(Min(S) - 1) : id \notin DOMAIN roots[j]
  <2> SUFFICES ASSUME NEW j \in 1..(Min(S) - 1), id \in DOMAIN roots[j]
               PROVE  FALSE
    OBVIOUS
  <2>1. Min(S) \in 1..Len(roots)
    BY <1>3
  <2>2. j \in S /\ ~(Min(S) <= j)
    <3> HIDE DEF S
    <3>1. j \in 1..Len(roots) /\ ~(Min(S) <= j)
      BY <2>1
    <3> QED
      BY <3>1 DEF S
  <2> QED
    BY <1>3, <2>2
<1> HIDE DEF S
<1>6. Min(S) \in 1..Len(roots) /\ id \in DOMAIN roots[Min(S)]
  BY <1>3 DEF S
<1> QED
  BY <1>4, <1>5, <1>6

(* What parse_modules has made sure of when it takes a module of a package.      *)
LEMMA PackagedIsTaken ==
  ASSUME NEW V, IsJson(V), NEW roots, ArePackages(roots, V), NEW x \in V, PackageFaults(x, roots) = {}
  PROVE  LET id == x.v["module"].v
             p == Package(roots, id)
             m == p.manifest
             schema == Table(m, "options_schema")
             options == Options(x, m, p.files)
         IN /\ \E i \in 1..Len(roots) :
                 /\ id \in DOMAIN roots[i] /\ p = roots[i][id]
                 /\ \A j \in 1..(i - 1) : id \notin DOMAIN roots[j]
            /\ m \in V /\ \A f \in DOMAIN p.files : p.files[f] \in V
            /\ ManifestFaults(m, id, p.files) = {}
            /\ FieldFaults(x) = {}
            /\ ~Terms!RangeIsRefused(Minor(m, "minimum_minor"), Minor(m, "maximum_minor"))
            /\ \A k \in DOMAIN options : k \in DOMAIN schema /\ Matches(options[k], schema[k])
            /\ \A k \in DOMAIN schema : Or(schema[k], "required", Bool(FALSE)).v => k \in DOMAIN options
<1> DEFINE id == x.v["module"].v
           p == Package(roots, id)
           m == p.manifest
           schema == Table(m, "options_schema")
           options == Options(x, m, p.files)
<1>1. id \in Catalog(roots)
  BY Zenon DEF PackageFaults
<1>2. /\ ManifestFaults(m, id, p.files) = {}
      /\ FieldFaults(x) = {}
  BY <1>1, Zenon DEF PackageFaults
<1>3. /\ When(m.v["protocol"].v["major"].v # 1
                \/ Terms!RangeIsRefused(Minor(m, "minimum_minor"), Minor(m, "maximum_minor")), "protocol") = {}
      /\ When(\E k \in DOMAIN options : k \notin DOMAIN schema \/ ~Matches(options[k], schema[k]), "option") = {}
      /\ When(\E k \in DOMAIN schema : Or(schema[k], "required", Bool(FALSE)).v /\ k \notin DOMAIN options,
              "required") = {}
  BY <1>1, <1>2, Zenon DEF PackageFaults
<1>4. PICK i \in 1..Len(roots) :
        /\ id \in DOMAIN roots[i] /\ p = roots[i][id]
        /\ \A j \in 1..(i - 1) : id \notin DOMAIN roots[j]
  BY <1>1, PackageIsFirst DEF ArePackages
<1>5. m \in V /\ \A f \in DOMAIN p.files : p.files[f] \in V
  <2> HIDE DEF id, p
  <2> QED
    BY <1>4, Zenon DEF ArePackages
<1> HIDE DEF id, p, schema, options
<1>6. ~Terms!RangeIsRefused(Minor(m, "minimum_minor"), Minor(m, "maximum_minor"))
  BY <1>3, NothingIsWrong, Zenon
<1>7. ~\E k \in DOMAIN options : k \notin DOMAIN schema \/ ~Matches(options[k], schema[k])
  BY <1>3, NothingIsWrong, Zenon
<1>8. ~\E k \in DOMAIN schema : Or(schema[k], "required", Bool(FALSE)).v /\ k \notin DOMAIN options
  BY <1>3, NothingIsWrong, Zenon
<1> QED
  BY <1>2, <1>4, <1>5, <1>6, <1>7, <1>8, Zenon DEF id, p, schema, options

(* What is kept of a module that is taken: its process is a record of a module   *)
(* whose manifest is in its package, with options that are values, in a range   *)
(* the core speaks.                                                             *)
ProcessFields == {"module", "command", "low", "high", "options", "restart", "timings", "environment",
                  "directory", "manifest", "config", "entry"}
IsKept(m, V) ==
  /\ m.enabled \in BOOLEAN
  /\ m.process = [f \in ProcessFields |-> m.process[f]]
  /\ m.process.module = m.process.manifest.package
  /\ m.process.options \in [DOMAIN m.process.options -> V]
  /\ m.process.high \in Nat
  /\ ModuleIsSound(m)

LEMMA CutIsSound ==
  ASSUME NEW low \in Nat, NEW high \in Nat, low <= high, ~Terms!RangeIsRefused(low, high)
  PROVE  /\ Terms!Low(low) \in Nat /\ Terms!High(high) \in Nat
         /\ 0 <= Terms!Low(low) /\ Terms!Low(low) <= Terms!High(high) /\ Terms!High(high) <= Terms!CoreMinor
<1>1. Terms!Low(low) = low
  BY GreatestOfTwo DEF Terms!Low
<1>2. Terms!High(high) = IF 11 <= high THEN 11 ELSE high
  BY LeastOfTwo DEF Terms!High, Terms!CoreMinor
<1> QED
  BY <1>1, <1>2 DEF Terms!RangeIsRefused, Terms!CoreMinor

LEMMA ViewIsSound ==
  ASSUME NEW x, NEW roots, ViewsAreChecked, ModuleFaults(x, roots) = {},
         Has(x, "view") => FaultsOfView(x.v["view"]) = {},
         DOMAIN PackagedView(x, roots) \subseteq {"compact", "expanded"}
  PROVE  DOMAIN ViewOf(x, PackagedView(x, roots)) # {} => "compact" \in DOMAIN ViewOf(x, PackagedView(x, roots))
<1> DEFINE view == ViewOf(x, PackagedView(x, roots))
<1>1. When(DOMAIN view = {"expanded"}, "compact") = {}
  BY Zenon DEF ModuleFaults
<1>2. DOMAIN view # {"expanded"}
  <2> HIDE DEF view
  <2> QED
    BY <1>1, NothingIsWrong, Zenon
<1>3. DOMAIN Table(x, "view") \subseteq {"compact", "expanded"}
  <2>1. CASE Has(x, "view") /\ x.v["view"].t = "object"
    BY <2>1 DEF Table, ViewsAreChecked
  <2>2. CASE ~(Has(x, "view") /\ x.v["view"].t = "object")
    BY <2>2 DEF Table
  <2> QED
    BY <2>1, <2>2
<1>4. DOMAIN view \subseteq {"compact", "expanded"}
  BY <1>3 DEF ViewOf, Over
<1> HIDE DEF view
<1> QED
  BY <1>2, <1>4 DEF view

LEMMA ProcessOfFields ==
  ASSUME NEW module, NEW command, NEW low, NEW high, NEW options, NEW restart, NEW timings, NEW environment,
         NEW directory, NEW manifest, NEW config, NEW entry
  PROVE  LET process == [module |-> module, command |-> command, low |-> low, high |-> high,
                         options |-> options, restart |-> restart, timings |-> timings,
                         environment |-> environment, directory |-> directory, manifest |-> manifest,
                         config |-> config, entry |-> entry]
         IN process = [f \in ProcessFields |-> process[f]]
BY DEF ProcessFields

LEMMA ProcessIsRecord ==
  ASSUME NEW x, NEW roots
  PROVE  /\ Module(x, roots).process = [f \in ProcessFields |-> Module(x, roots).process[f]]
         /\ Module(x, roots).process.module = Module(x, roots).process.manifest.package
<1>1. Module(x, roots).process = [f \in ProcessFields |-> Module(x, roots).process[f]]
  BY ProcessOfFields, ZenonT(150) DEF Module
<1>2. Module(x, roots).process.module = Module(x, roots).process.manifest.package
  BY DEF Module, Dependency, NoFile
<1> QED
  BY <1>1, <1>2

LEMMA KeptFlag ==
  ASSUME NEW V, IsJson(V), NEW x \in V, NEW roots, FieldFaults(x) = {}
  PROVE  /\ Module(x, roots).enabled \in BOOLEAN
         /\ \A f \in Timings : Module(x, roots).process.timings[f] \in 1..MaxDuration
         /\ Module(x, roots).process.timings.initial_backoff_ms
              <= Module(x, roots).process.timings.maximum_backoff_ms
<1>1. TypeFaults(x, "enabled", "boolean") = {} /\ TimingFaults(x) = {}
  BY FieldsAreSound
<1>2. Module(x, roots).enabled = Or(x, "enabled", Bool(TRUE)).v /\ Module(x, roots).process.timings = TimingsOf(x)
  BY DEF Module
<1>3. Or(x, "enabled", Bool(TRUE)).v \in BOOLEAN
  BY <1>1, FlagsAreBoolean
<1> QED
  BY <1>1, <1>2, <1>3, TimingsAreSound

LEMMA PackagedIsKept ==
  ASSUME NEW V, IsJson(V), ViewsAreChecked, NEW roots, ArePackages(roots, V), NEW x \in V,
         Has(x, "module"), PackageFaults(x, roots) = {}, ModuleFaults(x, roots) = {}
  PROVE  IsKept(Module(x, roots), V) /\ PackagedIsSound(x, roots)
<1> DEFINE id == x.v["module"].v
           p == Package(roots, id)
           m == p.manifest
           schema == Table(m, "options_schema")
           options == Options(x, m, p.files)
           kept == Module(x, roots)
<1>1. /\ \E i \in 1..Len(roots) :
           /\ id \in DOMAIN roots[i] /\ p = roots[i][id]
           /\ \A j \in 1..(i - 1) : id \notin DOMAIN roots[j]
      /\ m \in V /\ \A f \in DOMAIN p.files : p.files[f] \in V
      /\ ManifestFaults(m, id, p.files) = {}
      /\ FieldFaults(x) = {}
      /\ ~Terms!RangeIsRefused(Minor(m, "minimum_minor"), Minor(m, "maximum_minor"))
      /\ \A k \in DOMAIN options : k \in DOMAIN schema /\ Matches(options[k], schema[k])
      /\ \A k \in DOMAIN schema : Or(schema[k], "required", Bool(FALSE)).v => k \in DOMAIN options
  BY PackagedIsTaken
<1>2. /\ ProtocolFaults(m) = {}
      /\ Defaults(m, p.files) \in [DOMAIN Defaults(m, p.files) -> V]
      /\ Has(m, "view") => FaultsOfView(Contents(m, "view", p.files)) = {}
  <2> HIDE DEF m, p, id
  <2> QED
    BY <1>1, ManifestIsSound
<1>3. /\ kept.process.low = Terms!Low(Minor(m, "minimum_minor"))
      /\ kept.process.high = Terms!High(Minor(m, "maximum_minor"))
      /\ kept.process.options = options
      /\ kept.process.manifest.contents = m
      /\ kept.view = ViewOf(x, PackagedView(x, roots))
  BY DEF Module, Dependency
<1>4. /\ Minor(m, "minimum_minor") \in Nat /\ Minor(m, "maximum_minor") \in Nat
      /\ Minor(m, "minimum_minor") <= Minor(m, "maximum_minor")
  <2> HIDE DEF m
  <2> QED
    BY <1>1, <1>2, ProtocolIsSound
<1>5. /\ kept.process.high \in Nat
      /\ 0 <= kept.process.low /\ kept.process.low <= kept.process.high
      /\ kept.process.high <= Terms!CoreMinor
  <2> HIDE DEF m, kept
  <2> QED
    BY <1>1, <1>3, <1>4, CutIsSound
<1>6. options \in [DOMAIN options -> V]
  <2>1. Table(x, "options") \in [DOMAIN Table(x, "options") -> V]
    BY TablesAre
  <2> HIDE DEF m, p
  <2> QED
    BY <1>2, <2>1, MergedAre DEF Options
<1>7. DOMAIN PackagedView(x, roots) \subseteq {"compact", "expanded"}
  <2>1. PackagedView(x, roots) = IF Has(m, "view") THEN Contents(m, "view", p.files).v ELSE NoView
    BY DEF PackagedView
  <2> HIDE DEF m, p
  <2> QED
    BY <1>2, <2>1 DEF ViewsAreChecked, NoView
<1>8. DOMAIN kept.view # {} => "compact" \in DOMAIN kept.view
  <2>1. Has(x, "view") => FaultsOfView(x.v["view"]) = {}
    BY <1>1, FieldsAreSound
  <2> HIDE DEF kept
  <2> QED
    BY <1>3, <1>7, <2>1, ViewIsSound
<1>9. /\ kept.enabled \in BOOLEAN
      /\ \A f \in Timings : kept.process.timings[f] \in 1..MaxDuration
      /\ kept.process.timings.initial_backoff_ms <= kept.process.timings.maximum_backoff_ms
  BY <1>1, KeptFlag
<1>10. IsKept(kept, V)
  <2>1. /\ kept.process = [f \in ProcessFields |-> kept.process[f]]
        /\ kept.process.module = kept.process.manifest.package
    BY ProcessIsRecord
  <2> HIDE DEF kept, options
  <2> QED
    BY <1>3, <1>5, <1>6, <1>8, <1>9, <2>1, Zenon DEF IsKept, ModuleIsSound
<1>11. \A k \in DOMAIN Table(x, "options") : options[k] = Table(x, "options")[k]
  BY DEF Options, Over
<1>12. PackagedIsSound(x, roots)
  <2>1. \E i \in 1..Len(roots) :
          /\ id \in DOMAIN roots[i] /\ roots[i][id].manifest = kept.process.manifest.contents
          /\ \A j \in 1..(i - 1) : id \notin DOMAIN roots[j]
    <3>1. kept.process.manifest.contents = p.manifest
      BY <1>3
    <3> HIDE DEF kept, p, id
    <3> QED
      BY <1>1, <3>1, Zenon
  <2>2. Table(kept.process.manifest.contents, "options_schema") = schema
    <3> HIDE DEF kept, m
    <3> QED
      BY <1>3, Zenon
  <2> HIDE DEF id, p, m, schema, options, kept
  <2> QED
    BY <1>1, <1>3, <1>11, <2>1, <2>2, Zenon DEF PackagedIsSound, kept, id
<1> QED
  BY <1>10, <1>12

LEMMA InlineIsKept ==
  ASSUME NEW V, IsJson(V), ViewsAreChecked, NEW roots, NEW x \in V,
         ~Has(x, "module"), CommandFaults(x) = {}, ModuleFaults(x, roots) = {}
  PROVE  IsKept(Module(x, roots), V)
<1> DEFINE kept == Module(x, roots)
<1>1. FieldFaults(x) = {}
  BY Zenon DEF CommandFaults
<1>2. /\ kept.process.low = 0 /\ kept.process.high = Terms!CoreMinor
      /\ kept.process.options = Table(x, "options")
      /\ kept.view = ViewOf(x, PackagedView(x, roots))
  BY DEF Module
<1>3. Table(x, "options") \in [DOMAIN Table(x, "options") -> V]
  BY TablesAre
<1>4. DOMAIN kept.view # {} => "compact" \in DOMAIN kept.view
  <2>1. Has(x, "view") => FaultsOfView(x.v["view"]) = {}
    BY <1>1, FieldsAreSound
  <2>2. DOMAIN PackagedView(x, roots) \subseteq {"compact", "expanded"}
    BY DEF PackagedView, NoView
  <2> HIDE DEF kept
  <2> QED
    BY <1>2, <2>1, <2>2, ViewIsSound
<1>5. /\ kept.enabled \in BOOLEAN
      /\ \A f \in Timings : kept.process.timings[f] \in 1..MaxDuration
      /\ kept.process.timings.initial_backoff_ms <= kept.process.timings.maximum_backoff_ms
  BY <1>1, KeptFlag
<1>6. /\ kept.process = [f \in ProcessFields |-> kept.process[f]]
      /\ kept.process.module = kept.process.manifest.package
  BY ProcessIsRecord
<1> HIDE DEF kept
<1>7. /\ kept.process.high \in Nat
      /\ 0 <= kept.process.low /\ kept.process.low <= kept.process.high
      /\ kept.process.high <= Terms!CoreMinor
  BY <1>2 DEF Terms!CoreMinor
<1> QED
  BY <1>2, <1>3, <1>4, <1>5, <1>6, <1>7, Zenon DEF IsKept, ModuleIsSound, kept

LEMMA ModuleIsKept ==
  ASSUME NEW V, IsJson(V), ViewsAreChecked, NEW roots, ArePackages(roots, V), NEW x \in V,
         ModuleFaults(x, roots) = {}
  PROVE  IsKept(Module(x, roots), V) /\ (Has(x, "module") => PackagedIsSound(x, roots))
<1>1. CASE Has(x, "module")
  <2>1. PackageFaults(x, roots) = {}
    BY <1>1, Zenon DEF ModuleFaults
  <2> QED
    BY <1>1, <2>1, PackagedIsKept
<1>2. CASE ~Has(x, "module")
  <2>1. CommandFaults(x) = {}
    BY <1>2, Zenon DEF ModuleFaults
  <2> QED
    BY <1>2, <2>1, InlineIsKept
<1> QED
  BY <1>1, <1>2

(* A configuration that parse_config takes, made of values and packages.        *)
IsTaken(c, roots, V) ==
  c \in V /\ ArePackages(roots, V) /\ ConfigFaults(c, roots) = {}

LEMMA ModulesAreTaken ==
  ASSUME NEW V, IsJson(V), NEW c, NEW roots, IsTaken(c, roots, V)
  PROVE  LET ms == c.v["modules"].v
         IN /\ ms \in Seq(V)
            /\ \A i \in 1..Len(ms) : ModuleFaults(ms[i], roots) = {}
            /\ \A i, j \in 1..Len(ms) : ms[i].v["id"].v = ms[j].v["id"].v => i = j
            /\ \A slot \in {DefaultFor(c, "compact"), DefaultFor(c, "expanded")} :
                 \E i \in 1..Len(ms) : ms[i].v["id"].v = slot /\ Or(ms[i], "enabled", Bool(TRUE)).v
<1> DEFINE ms == c.v["modules"].v
           all == UNION {ModuleFaults(ms[i], roots) : i \in 1..Len(ms)}
           enabled == {ms[i].v["id"].v : i \in {j \in 1..Len(ms) : Or(ms[j], "enabled", Bool(TRUE)).v}}
<1>1. /\ Has(c, "modules") /\ c.v["modules"].t = "array"
      /\ all = {}
      /\ When(\E i, j \in 1..Len(ms) : i < j /\ ms[i].v["id"].v = ms[j].v["id"].v, "duplicate") = {}
      /\ When(~{DefaultFor(c, "compact"), DefaultFor(c, "expanded")} \subseteq enabled, "default") = {}
  <2> HIDE DEF all, enabled
  <2> QED
    BY Zenon DEF IsTaken, ConfigFaults, ms, all, enabled
<1>2. ms \in Seq(V)
  <2>1. c.v["modules"] \in V
    BY <1>1, FieldsAre DEF IsTaken
  <2> QED
    BY <1>1, <2>1, Zenon DEF IsJson
<1>3. \A i \in 1..Len(ms) : ModuleFaults(ms[i], roots) = {}
  <2> HIDE DEF ms
  <2> QED
    BY <1>1
<1>4. ~\E i, j \in 1..Len(ms) : i < j /\ ms[i].v["id"].v = ms[j].v["id"].v
  <2> HIDE DEF ms
  <2> QED
    BY <1>1, NothingIsWrong, Zenon
<1>5. {DefaultFor(c, "compact"), DefaultFor(c, "expanded")} \subseteq enabled
  <2> HIDE DEF ms, enabled
  <2> QED
    BY <1>1, NothingIsWrong, Zenon
<1> HIDE DEF ms
<1>6. \A i, j \in 1..Len(ms) : ms[i].v["id"].v = ms[j].v["id"].v => i = j
  <2> SUFFICES ASSUME NEW i \in 1..Len(ms), NEW j \in 1..Len(ms), ms[i].v["id"].v = ms[j].v["id"].v, i # j
               PROVE  FALSE
    OBVIOUS
  <2>1. i < j \/ j < i
    BY <1>2
  <2> QED
    BY <1>4, <2>1, Zenon
<1>7. \A slot \in {DefaultFor(c, "compact"), DefaultFor(c, "expanded")} :
        \E i \in 1..Len(ms) : ms[i].v["id"].v = slot /\ Or(ms[i], "enabled", Bool(TRUE)).v
  BY <1>5, Zenon
<1> QED
  BY <1>2, <1>3, <1>6, <1>7, Zenon DEF ms

(* What Config makes of it: modules that are kept, found by their names.        *)
LEMMA ConfigIsKept ==
  ASSUME NEW V, IsJson(V), ViewsAreChecked, NEW c, NEW roots, IsTaken(c, roots, V)
  PROVE  LET config == Config(c, roots)
             ms == c.v["modules"].v
         IN /\ Len(config.modules) = Len(ms) /\ Len(ms) \in Nat
            /\ \A i \in 1..Len(ms) :
                 /\ config.modules[i] = Module(ms[i], roots)
                 /\ IsKept(config.modules[i], V)
                 /\ Has(ms[i], "module") => PackagedIsSound(ms[i], roots)
                 /\ Find(config, config.modules[i].id) = config.modules[i]
            /\ \A slot \in {config.compact, config.expanded} : Find(config, slot).enabled
<1> DEFINE config == Config(c, roots)
           ms == c.v["modules"].v
<1>1. /\ ms \in Seq(V)
      /\ \A i \in 1..Len(ms) : ModuleFaults(ms[i], roots) = {}
      /\ \A i, j \in 1..Len(ms) : ms[i].v["id"].v = ms[j].v["id"].v => i = j
      /\ \A slot \in {DefaultFor(c, "compact"), DefaultFor(c, "expanded")} :
           \E i \in 1..Len(ms) : ms[i].v["id"].v = slot /\ Or(ms[i], "enabled", Bool(TRUE)).v
  BY ModulesAreTaken
<1>2. /\ config.modules = [i \in 1..Len(ms) |-> Module(ms[i], roots)]
      /\ config.compact = DefaultFor(c, "compact") /\ config.expanded = DefaultFor(c, "expanded")
  BY DEF Config
<1>3. \A x : Module(x, roots).id = x.v["id"].v /\ Module(x, roots).enabled = Or(x, "enabled", Bool(TRUE)).v
  BY DEF Module
<1> HIDE DEF config, ms
<1>4. Len(ms) \in Nat /\ \A i \in 1..Len(ms) : ms[i] \in V
  BY <1>1
<1>5. Len(config.modules) = Len(ms)
  BY <1>2, <1>4
<1>6. \A i \in 1..Len(ms) :
        /\ config.modules[i] = Module(ms[i], roots)
        /\ IsKept(config.modules[i], V)
        /\ Has(ms[i], "module") => PackagedIsSound(ms[i], roots)
  <2> SUFFICES ASSUME NEW i \in 1..Len(ms)
               PROVE  /\ config.modules[i] = Module(ms[i], roots)
                      /\ IsKept(config.modules[i], V)
                      /\ Has(ms[i], "module") => PackagedIsSound(ms[i], roots)
    OBVIOUS
  <2>1. config.modules[i] = Module(ms[i], roots)
    BY <1>2
  <2>2. ms[i] \in V /\ ModuleFaults(ms[i], roots) = {} /\ ArePackages(roots, V)
    BY <1>1, <1>4 DEF IsTaken
  <2>3. IsKept(Module(ms[i], roots), V) /\ (Has(ms[i], "module") => PackagedIsSound(ms[i], roots))
    BY <2>2, ModuleIsKept
  <2> QED
    BY <2>1, <2>3
<1>7. \A i \in 1..Len(ms) : Find(config, config.modules[i].id) = config.modules[i]
  <2> SUFFICES ASSUME NEW i \in 1..Len(ms)
               PROVE  Find(config, config.modules[i].id) = config.modules[i]
    OBVIOUS
  <2> DEFINE M == {config.modules[j] : j \in 1..Len(config.modules)}
  <2>1. config.modules[i] \in M
    BY <1>5
  <2>2. \A m \in M : m.id = config.modules[i].id => m = config.modules[i]
    BY <1>1, <1>3, <1>5, <1>6
  <2> QED
    BY <2>1, <2>2 DEF Find
<1>8. \A slot \in {config.compact, config.expanded} : Find(config, slot).enabled
  <2> SUFFICES ASSUME NEW slot \in {config.compact, config.expanded}
               PROVE  Find(config, slot).enabled
    OBVIOUS
  <2>1. PICK i \in 1..Len(ms) : ms[i].v["id"].v = slot /\ Or(ms[i], "enabled", Bool(TRUE)).v
    BY <1>1, <1>2
  <2>2. config.modules[i].id = slot /\ config.modules[i].enabled
    BY <1>3, <1>6, <2>1
  <2> QED
    BY <1>7, <2>2
<1> QED
  BY <1>4, <1>5, <1>6, <1>7, <1>8, Zenon DEF config, ms

(* Whatever is written in a configuration and its packages: what parse_config   *)
(* takes of it has sound modules with names of their own, told the options they *)
(* should be, and for each slot one that runs.                                  *)
THEOREM LoadedConfigsAreAlwaysSound ==
  ASSUME NEW V, IsJson(V), ViewsAreChecked,
         area = "config" => input.document \in V /\ ArePackages(input.roots, V)
  PROVE  LoadedConfigIsSound
<1> SUFFICES ASSUME area = "config", ConfigFaults(input.document, input.roots) = {}
             PROVE  LoadedIsSound(input.document, input.roots)
  BY DEF LoadedConfigIsSound
<1> DEFINE c == input.document
           roots == input.roots
           config == Config(c, roots)
<1>1. IsTaken(c, roots, V)
  BY DEF IsTaken
<1> HIDE DEF c, roots
<1>2. /\ Len(config.modules) = Len(c.v["modules"].v)
      /\ \A i \in 1..Len(c.v["modules"].v) :
           /\ IsKept(config.modules[i], V)
           /\ Has(c.v["modules"].v[i], "module") => PackagedIsSound(c.v["modules"].v[i], roots)
           /\ Find(config, config.modules[i].id) = config.modules[i]
      /\ \A slot \in {config.compact, config.expanded} : Find(config, slot).enabled
  BY <1>1, ConfigIsKept
<1> HIDE DEF config
<1>3. LoadedIsSound(c, roots)
  BY <1>2, Zenon DEF LoadedIsSound, IsKept, config
<1> QED
  BY <1>3 DEF c, roots

-------------------------------------------------------------------------------
(* Reloads.                                                                     *)

(* The comparison of options takes nothing for the same that is not: it may     *)
(* find that a table differs from itself, as one with a NaN does.               *)
SameIsEqual(V) ==
  \A p, q : /\ p \in [DOMAIN p -> V] /\ q \in [DOMAIN q -> V]
            /\ EqualOptions(Obj(p), Obj(q))
            => p = q

AreKept(config, V) ==
  \A id \in Ids(config) : IsKept(Find(config, id), V)

LEMMA TakenAreKept ==
  ASSUME NEW V, IsJson(V), ViewsAreChecked, NEW c, NEW roots, IsTaken(c, roots, V)
  PROVE  AreKept(Config(c, roots), V)
<1> DEFINE config == Config(c, roots)
<1>1. /\ Len(config.modules) = Len(c.v["modules"].v)
      /\ \A i \in 1..Len(c.v["modules"].v) :
           IsKept(config.modules[i], V) /\ Find(config, config.modules[i].id) = config.modules[i]
  BY ConfigIsKept
<1> HIDE DEF config
<1>2. AreKept(config, V)
  BY <1>1 DEF AreKept, Ids
<1> QED
  BY <1>2 DEF config

LEMMA SameProcessIsEqual ==
  ASSUME NEW V, SameIsEqual(V), NEW m, NEW n, IsKept(m, V), IsKept(n, V),
         SameProcess(m.process, n.process)
  PROVE  m.process = n.process
<1> DEFINE a == m.process  b == n.process
<1>1. a.options = b.options
  BY DEF SameProcess, SameIsEqual, IsKept
<1>2. [a EXCEPT !.options = <<>>] = [b EXCEPT !.options = <<>>]
  BY Zenon DEF SameProcess
<1>3. a = [f \in ProcessFields |-> a[f]] /\ b = [f \in ProcessFields |-> b[f]]
  BY Zenon DEF IsKept
<1> HIDE DEF a, b
<1>4. \A f \in ProcessFields : a[f] = b[f]
  <2> SUFFICES ASSUME NEW f \in ProcessFields
               PROVE  a[f] = b[f]
    OBVIOUS
  <2>1. CASE f = "options"
    BY <1>1, <2>1
  <2>2. CASE f # "options"
    <3>1. [a EXCEPT !.options = <<>>][f] = a[f] /\ [b EXCEPT !.options = <<>>][f] = b[f]
      BY <1>3, <2>2
    <3> QED
      BY <1>2, <3>1, Zenon
  <2> QED
    BY <2>1, <2>2
<1>5. a = b
  BY <1>3, <1>4
<1> QED
  BY <1>5 DEF a, b

(* What plan_reload says of a module that ran: it stays where it is enabled in  *)
(* the candidate, and starts again only where it is told something else.        *)
LEMMA KindOfRunning ==
  ASSUME NEW V, SameIsEqual(V), NEW a, NEW b, AreKept(a, V), AreKept(b, V),
         NEW id \in Ids(a), Find(a, id).enabled
  PROVE  /\ ~Stops(id, a, b) <=> id \in Ids(b) /\ Find(b, id).enabled
         /\ ~Stops(id, a, b) => Kind(id, a, b) \in {"process_modified", "view_updated", "unchanged"}
         /\ ~Stops(id, a, b) /\ Kind(id, a, b) = "process_modified" =>
              ~SameProcess(Find(a, id).process, Find(b, id).process)
         /\ ~Stops(id, a, b) /\ Kind(id, a, b) # "process_modified" =>
              SameProcess(Find(a, id).process, Find(b, id).process)
         /\ ~Stops(id, a, b) /\ Kind(id, a, b) = "unchanged" => SameView(Find(a, id).view, Find(b, id).view)
<1>1. CASE id \notin Ids(b)
  <2>1. Kind(id, a, b) = "removed"
    BY <1>1, Zenon DEF Kind
  <2> QED
    BY <1>1, <2>1 DEF Stops
<1>2. CASE id \in Ids(b) /\ ~Find(b, id).enabled
  <2>1. Find(a, id).enabled # Find(b, id).enabled
    BY <1>2
  <2>2. Kind(id, a, b) = "disabled"
    BY <1>2, <2>1, Zenon DEF Kind
  <2> QED
    BY <1>2, <2>2 DEF Stops
<1>3. CASE id \in Ids(b) /\ Find(b, id).enabled
  <2>1. Find(a, id).enabled = Find(b, id).enabled
    BY <1>3, Zenon DEF AreKept, IsKept
  <2>2. Kind(id, a, b) = IF ~SameProcess(Find(a, id).process, Find(b, id).process) THEN "process_modified"
                         ELSE IF \/ ~SameView(Find(a, id).view, Find(b, id).view)
                                 \/ Find(a, id).view_file # Find(b, id).view_file
                         THEN "view_updated" ELSE "unchanged"
    BY <1>3, <2>1, Zenon DEF Kind
  <2> QED
    BY <1>3, <2>2 DEF Stops
<1> QED
  BY <1>1, <1>2, <1>3

(* And of one that did not run: it starts where it is enabled.                  *)
LEMMA KindOfOthers ==
  ASSUME NEW a, NEW b, NEW id \in Ids(b), ~(id \in Ids(a) /\ Find(a, id).enabled), Find(b, id).enabled
  PROVE  Starts(id, a, b)
<1>1. CASE id \notin Ids(a)
  <2>1. Kind(id, a, b) = "added"
    BY <1>1, Zenon DEF Kind
  <2> QED
    BY <2>1 DEF Starts
<1>2. CASE id \in Ids(a) /\ ~Find(a, id).enabled
  <2>1. Find(a, id).enabled # Find(b, id).enabled
    BY <1>2
  <2>2. Kind(id, a, b) = "enabled"
    BY <1>2, <2>1, Zenon DEF Kind
  <2> QED
    BY <2>2 DEF Starts
<1> QED
  BY <1>1, <1>2

LEMMA FoundByName ==
  ASSUME NEW config, NEW id \in Ids(config)
  PROVE  Find(config, id).id = id
<1> DEFINE modules == {config.modules[i] : i \in 1..Len(config.modules)}
<1>1. \E m \in modules : m.id = id
  BY DEF Ids
<1>2. Find(config, id) = CHOOSE m \in modules : m.id = id
  BY DEF Find
<1> HIDE DEF modules
<1> QED
  BY <1>1, <1>2

(* What is offered of a range depends on the view only for the snapshots.       *)
LEMMA OffersDiffer ==
  ASSUME NEW v, NEW w, NEW high
  PROVE  LET old == Terms!Offered("compact" \in DOMAIN v, high)
             new == Terms!Offered("compact" \in DOMAIN w, high)
         IN /\ new \ {"data-snapshots"} = old \ {"data-snapshots"}
            /\ DOMAIN v = DOMAIN w => new = old
BY DEF Terms!Offered

LEMMA OfferTakenAway ==
  ASSUME NEW id, NEW process, NEW minimum, NEW maximum, NEW configuration, NEW offer, NEW restart, NEW timings
  PROVE  LET init(capabilities) == [minimum |-> minimum, maximum |-> maximum, configuration |-> configuration,
                                    capabilities |-> capabilities]
             request(capabilities) == [instance_id |-> id, process |-> process, init |-> init(capabilities),
                                       restart |-> restart, timings |-> timings]
         IN ButForOffer(request(offer)) = request(offer \ {"data-snapshots"})
<1> DEFINE init == [minimum |-> minimum, maximum |-> maximum, configuration |-> configuration,
                    capabilities |-> offer]
           less == [minimum |-> minimum, maximum |-> maximum, configuration |-> configuration,
                    capabilities |-> offer \ {"data-snapshots"}]
<1>1. [init EXCEPT !.capabilities = @ \ {"data-snapshots"}] = less
  OBVIOUS
<1> HIDE DEF init, less
<1>2. ButForOffer([instance_id |-> id, process |-> process, init |-> init, restart |-> restart, timings |-> timings])
        = [instance_id |-> id, process |-> process, init |-> less, restart |-> restart, timings |-> timings]
  BY <1>1 DEF ButForOffer
<1> QED
  BY <1>2 DEF init, less

(* The parts of a start request but for the offer of data.                      *)
LEMMA RequestButForOffer ==
  ASSUME NEW m
  PROVE  LET request == ButForOffer(StartRequest(m))
         IN /\ request.process.argv = m.process.command
            /\ request.process.environment = m.process.environment
            /\ request.process.working_directory = m.process.directory
            /\ request.init.minimum = m.process.low
            /\ request.init.maximum = m.process.high
            /\ request.init.configuration = m.process.options
            /\ request.restart = m.process.restart
            /\ request.timings = m.process.timings
<1> DEFINE process == [argv |-> m.process.command, environment |-> m.process.environment,
                       working_directory |-> m.process.directory]
           init == [minimum |-> m.process.low, maximum |-> m.process.high, configuration |-> m.process.options,
                    capabilities |-> Terms!Offered("compact" \in DOMAIN m.view, m.process.high)]
           less == [init EXCEPT !.capabilities = @ \ {"data-snapshots"}]
<1>1. ButForOffer(StartRequest(m)) =
        [instance_id |-> m.id, process |-> process, init |-> less,
         restart |-> m.process.restart, timings |-> m.process.timings]
  <2>1. StartRequest(m) = [instance_id |-> m.id, process |-> process, init |-> init,
                           restart |-> m.process.restart, timings |-> m.process.timings]
    BY Zenon DEF StartRequest
  <2> HIDE DEF process, init
  <2> QED
    BY <2>1, SMT DEF ButForOffer
<1>2. /\ process.argv = m.process.command /\ process.environment = m.process.environment
      /\ process.working_directory = m.process.directory
  OBVIOUS
<1>3. /\ less.minimum = m.process.low /\ less.maximum = m.process.high
      /\ less.configuration = m.process.options
  OBVIOUS
<1> HIDE DEF process, less
<1> QED
  BY <1>1, <1>2, <1>3

(* What stays up was told what it would be told, and its files are as they were. *)
LEMMA StayingIsTold ==
  ASSUME NEW V, SameIsEqual(V), NEW a, NEW b, AreKept(a, V), AreKept(b, V),
         NEW id \in Ids(a), Find(a, id).enabled, ~Stops(id, a, b), ~(id \in Ids(b) /\ Starts(id, a, b))
  PROVE  LET was == StartRequest(Find(a, id))  is == StartRequest(Find(b, id))
         IN /\ ButForOffer(is) = ButForOffer(was)
            /\ is # was => Kind(id, a, b) = "view_updated"
            /\ FilesOf(Find(a, id)) = FilesOf(Find(b, id))
<1> DEFINE m == Find(a, id)  n == Find(b, id)
<1>1. /\ id \in Ids(b) /\ n.enabled
      /\ Kind(id, a, b) \in {"process_modified", "view_updated", "unchanged"}
      /\ Kind(id, a, b) # "process_modified" => SameProcess(m.process, n.process)
      /\ Kind(id, a, b) = "unchanged" => SameView(m.view, n.view)
  BY KindOfRunning
<1>2. Kind(id, a, b) # "process_modified"
  BY <1>1 DEF Starts
<1>3. IsKept(m, V) /\ IsKept(n, V)
  BY <1>1 DEF AreKept
<1>4. m.id = n.id
  BY <1>1, FoundByName
<1> HIDE DEF m, n
<1>5. m.process = n.process
  BY <1>1, <1>2, <1>3, SameProcessIsEqual
<1> DEFINE old == Terms!Offered("compact" \in DOMAIN m.view, m.process.high)
           new == Terms!Offered("compact" \in DOMAIN n.view, m.process.high)
<1>6. new \ {"data-snapshots"} = old \ {"data-snapshots"} /\ (DOMAIN m.view = DOMAIN n.view => new = old)
  BY OffersDiffer
<1> HIDE DEF old, new
<1>7. ButForOffer(StartRequest(n)) = ButForOffer(StartRequest(m))
  <2> DEFINE with(offer) ==
               [instance_id |-> m.id,
                process |-> [argv |-> m.process.command, environment |-> m.process.environment,
                             working_directory |-> m.process.directory],
                init |-> [minimum |-> m.process.low, maximum |-> m.process.high,
                          configuration |-> m.process.options, capabilities |-> offer],
                restart |-> m.process.restart, timings |-> m.process.timings]
  <2>1. StartRequest(m) = with(old) /\ StartRequest(n) = with(new)
    BY <1>4, <1>5, Zenon DEF StartRequest, old, new
  <2>2. /\ ButForOffer(with(old)) = with(old \ {"data-snapshots"})
        /\ ButForOffer(with(new)) = with(new \ {"data-snapshots"})
    BY OfferTakenAway
  <2> QED
    BY <1>6, <2>1, <2>2, Zenon
<1>8. DOMAIN m.view = DOMAIN n.view => StartRequest(n) = StartRequest(m)
  BY <1>4, <1>5, <1>6, Zenon DEF StartRequest, old, new
<1>9. DOMAIN m.view # DOMAIN n.view => Kind(id, a, b) # "unchanged"
  BY <1>1, Zenon DEF SameView
<1>10. FilesOf(m) = FilesOf(n)
  BY <1>5 DEF FilesOf
<1> QED
  BY <1>1, <1>2, <1>7, <1>8, <1>9, <1>10, Zenon DEF m, n

(* And what starts again is not told the same, from the same files, but for a   *)
(* NaN.                                                                         *)
LEMMA RestartedIsTold ==
  ASSUME NEW V, SameIsEqual(V), NEW a, NEW b, AreKept(a, V), AreKept(b, V),
         NEW id \in Ids(a), Find(a, id).enabled, id \in Ids(b), Starts(id, a, b)
  PROVE  LET was == Find(a, id)  is == Find(b, id)  options == Obj(is.process.options)
         IN \/ ButForOffer(StartRequest(is)) # ButForOffer(StartRequest(was))
            \/ FilesOf(is) # FilesOf(was)
            \/ ~EqualOptions(options, options)
<1> DEFINE m == Find(a, id)  n == Find(b, id)
<1>1. ~Stops(id, a, b)
  BY DEF Starts, Stops
<1>2. ~SameProcess(m.process, n.process)
  BY <1>1, KindOfRunning DEF Starts
<1>3. IsKept(m, V) /\ IsKept(n, V)
  BY DEF AreKept
<1> HIDE DEF m, n
<1>4. ASSUME ButForOffer(StartRequest(n)) = ButForOffer(StartRequest(m)), FilesOf(n) = FilesOf(m)
      PROVE  ~EqualOptions(Obj(n.process.options), Obj(n.process.options))
  <2>1. /\ n.process.command = m.process.command
        /\ n.process.environment = m.process.environment
        /\ n.process.directory = m.process.directory
        /\ n.process.low = m.process.low /\ n.process.high = m.process.high
        /\ n.process.options = m.process.options
        /\ n.process.restart = m.process.restart /\ n.process.timings = m.process.timings
    BY <1>4, RequestButForOffer
  <2>2. /\ n.process.manifest = m.process.manifest
        /\ n.process.config = m.process.config
        /\ n.process.entry = m.process.entry
    BY <1>4 DEF FilesOf
  <2>3. n.process.module = m.process.module
    BY <1>3, <2>2, Zenon DEF IsKept
  <2>4. n.process = [f \in ProcessFields |-> n.process[f]] /\ m.process = [f \in ProcessFields |-> m.process[f]]
    BY <1>3, Zenon DEF IsKept
  <2> DEFINE p == n.process  q == m.process
  <2> HIDE DEF p, q
  <2>5. \A f \in ProcessFields : p[f] = q[f]
    BY <2>1, <2>2, <2>3 DEF ProcessFields, p, q
  <2>6. p = q
    BY <2>4, <2>5 DEF p, q
  <2> QED
    BY <1>2, <2>6, Zenon DEF SameProcess, p, q
<1> QED
  BY <1>4, Zenon DEF m, n

(* From one accepted configuration to another, whatever they are: the processes *)
(* that start and stop are those that must.                                     *)
THEOREM ReloadsAreAlwaysExact ==
  ASSUME NEW V, IsJson(V), ViewsAreChecked, SameIsEqual(V),
         area = "reload" =>
           \E c, roots, d, packages :
             /\ IsTaken(c, roots, V) /\ IsTaken(d, packages, V)
             /\ input = [from |-> Config(c, roots), to |-> Config(d, packages)]
  PROVE  ReloadsAreExact
<1> SUFFICES ASSUME area = "reload"
             PROVE  ReloadIsExact(input.from, input.to)
  BY DEF ReloadsAreExact
<1> DEFINE a == input.from  b == input.to
<1>1. AreKept(a, V) /\ AreKept(b, V)
  <2>1. PICK c, roots, d, packages :
          /\ IsTaken(c, roots, V) /\ IsTaken(d, packages, V)
          /\ input = [from |-> Config(c, roots), to |-> Config(d, packages)]
    OBVIOUS
  <2>2. AreKept(Config(c, roots), V) /\ AreKept(Config(d, packages), V)
    BY <2>1, TakenAreKept
  <2> QED
    BY <2>1, <2>2
<1> HIDE DEF a, b
<1> DEFINE running == {id \in Ids(a) : Find(a, id).enabled}
           started == {id \in Ids(b) : Starts(id, a, b)}
           stopped == {id \in Ids(a) : Stops(id, a, b)}
<1>2. (running \ stopped) \cup started \subseteq {id \in Ids(b) : Find(b, id).enabled}
  BY <1>1, KindOfRunning DEF Starts
<1>3. {id \in Ids(b) : Find(b, id).enabled} \subseteq (running \ stopped) \cup started
  <2> SUFFICES ASSUME NEW id \in Ids(b), Find(b, id).enabled, id \notin started
               PROVE  id \in running \ stopped
    OBVIOUS
  <2>1. id \in Ids(a) /\ Find(a, id).enabled
    BY KindOfOthers
  <2> QED
    BY <1>1, <2>1, KindOfRunning
<1>4. \A id \in (running \ stopped) \ started :
        LET was == StartRequest(Find(a, id))  is == StartRequest(Find(b, id))
        IN /\ ButForOffer(is) = ButForOffer(was)
           /\ is # was => Kind(id, a, b) = "view_updated"
           /\ FilesOf(Find(a, id)) = FilesOf(Find(b, id))
  BY <1>1, StayingIsTold
<1>5. \A id \in started \cap running :
        LET was == Find(a, id)  is == Find(b, id)  options == Obj(is.process.options)
        IN \/ ButForOffer(StartRequest(is)) # ButForOffer(StartRequest(was))
           \/ FilesOf(is) # FilesOf(was)
           \/ ~EqualOptions(options, options)
  BY <1>1, RestartedIsTold
<1>6. ReloadIsExact(a, b)
  BY <1>2, <1>3, <1>4, <1>5 DEF ReloadIsExact
<1> QED
  BY <1>6 DEF a, b
===============================================================================
