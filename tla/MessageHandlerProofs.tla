-------------------------- MODULE MessageHandlerProofs --------------------------
(***************************************************************************)
(* Theorems about the messages of one direction of a connection, for any   *)
(* messages, any size of a read and any way TCP cuts them.                 *)
(***************************************************************************)
EXTENDS MessageHandlerProps, SequenceTheorems, FiniteSetTheorems,
        WellFoundedInduction, TLAPS

-----------------------------------------------------------------------------
(* Least elements.                                                         *)

LEMMA LessRelation == \A y, m \in Nat : y < m => <<y, m>> \in OpToRel(<, Nat)
BY Zenon DEF OpToRel

LEMMA MinIsLeast ==
    ASSUME NEW S, S \subseteq Nat, S # {}
    PROVE  Min(S) \in S /\ \A y \in S : Min(S) <= y
<1> DEFINE R == OpToRel(<, Nat)
<1>1. IsWellFoundedOn(R, Nat)
  BY NatLessThanWellFounded, Zenon
<1>2. \A y, m \in Nat : y < m => <<y, m>> \in R
  BY LessRelation, Zenon
<1> HIDE DEF R
<1>3. PICK m \in S : \A y \in S : ~ (<<y, m>> \in R)
  BY <1>1, WFMin, Zenon
<1>4. ASSUME NEW y \in S PROVE m <= y
  <2>1. m \in Nat /\ y \in Nat /\ ~ (y < m)
    BY <1>2, <1>3, <1>4
  <2> QED
    BY <2>1
<1> QED
  BY <1>3, <1>4 DEF Min

-----------------------------------------------------------------------------
(* Bytes and their braces.                                                 *)

LEMMA ByteType ==
    ASSUME NEW b \in Byte
    PROVE  /\ b[1] \in 1..Len(Outgoing) /\ b[2] \in 1..Len(Outgoing[b[1]])
           /\ b = <<b[1], b[2]>>
BY DEF Byte

LEMMA BytesType ==
    ASSUME NEW n \in 1..Len(Outgoing)
    PROVE  /\ Bytes(n) \in Seq(Byte) /\ Len(Bytes(n)) = Len(Outgoing[n])
           /\ Bytes(n) # <<>>
           /\ \A i \in 1..Len(Outgoing[n]) : Bytes(n)[i] = <<n, i>>
<1>1. Outgoing[n] \in Seq(Text) /\ Outgoing[n] # <<>>
  BY MessageAssumption, ElementOfSeq DEF IsObject
<1>2. Len(Outgoing[n]) \in Nat /\ Len(Outgoing[n]) > 0
  BY <1>1
<1>3. \A i \in 1..Len(Outgoing[n]) : <<n, i>> \in Byte
  BY DEF Byte
<1>4. Bytes(n) \in [1..Len(Outgoing[n]) -> Byte]
  BY <1>3 DEF Bytes
<1>5. Bytes(n) \in Seq(Byte) /\ Len(Bytes(n)) = Len(Outgoing[n])
  BY <1>2, <1>4, IsASeq
<1> QED
  BY <1>2, <1>5 DEF Bytes

(* Where a brace stands. *)
Places(s, b) == {i \in 1..Len(s) : Token(s[i]) = b}

LEMMA PlacesFinite ==
    ASSUME NEW s \in Seq(Byte), NEW b
    PROVE  IsFiniteSet(Places(s, b)) /\ Cardinality(Places(s, b)) \in Nat
<1>1. IsFiniteSet(1..Len(s)) /\ Places(s, b) \in SUBSET (1..Len(s))
  BY FS_Interval DEF Places
<1> QED
  BY <1>1, FS_Subset, FS_CardinalityType

LEMMA DepthOfPlaces ==
    ASSUME NEW s \in Seq(Byte)
    PROVE  /\ Depth(s) = Cardinality(Places(s, "open")) - Cardinality(Places(s, "close"))
           /\ Depth(s) \in Int
<1> DEFINE tokens == [i \in 1..Len(s) |-> Token(s[i])]
<1>1. Len(tokens) = Len(s)
  <2>1. tokens \in [1..Len(s) -> {Token(s[i]) : i \in 1..Len(s)}]
    OBVIOUS
  <2>2. Len(s) \in Nat
    OBVIOUS
  <2> HIDE DEF tokens
  <2> QED
    BY <2>1, <2>2, IsASeq
<1>2. ASSUME NEW b PROVE Braces(tokens, b) = Cardinality(Places(s, b))
  BY <1>1 DEF Braces, Places
<1>3. Depth(s) = Cardinality(Places(s, "open")) - Cardinality(Places(s, "close"))
  <2>1. Depth(s) = Braces(tokens, "open") - Braces(tokens, "close")
    BY DEF Depth
  <2> HIDE DEF tokens
  <2>2. /\ Braces(tokens, "open") = Cardinality(Places(s, "open"))
        /\ Braces(tokens, "close") = Cardinality(Places(s, "close"))
    BY <1>2
  <2> QED
    BY <2>1, <2>2
<1>4. Cardinality(Places(s, "open")) \in Nat /\ Cardinality(Places(s, "close")) \in Nat
  BY PlacesFinite
<1> QED
  BY <1>3, <1>4

LEMMA PlacesConcat ==
    ASSUME NEW s \in Seq(Byte), NEW t \in Seq(Byte), NEW b
    PROVE  Cardinality(Places(s \o t, b)) =
               Cardinality(Places(s, b)) + Cardinality(Places(t, b))
<1> DEFINE n == Len(s)
           shift == {i + n : i \in Places(t, b)}
           f == [i \in Places(t, b) |-> i + n]
<1>1. n \in Nat /\ Places(t, b) \subseteq Nat
  BY DEF Places
<1>2. Places(s \o t, b) = Places(s, b) \cup shift
  <2>1. /\ Len(s \o t) = n + Len(t) /\ Len(t) \in Nat
        /\ \A i \in 1..(n + Len(t)) :
              (s \o t)[i] = IF i <= n THEN s[i] ELSE t[i - n]
    BY ConcatProperties
  <2>2. ASSUME NEW i \in Places(s \o t, b) PROVE i \in Places(s, b) \cup shift
    <3>1. CASE i <= n
      BY <2>1, <2>2, <3>1, <1>1 DEF Places
    <3>2. CASE i > n
      <4>1. i - n \in Places(t, b)
        BY <2>1, <2>2, <3>2, <1>1 DEF Places
      <4> QED
        BY <4>1, <2>1, <2>2, <1>1 DEF Places
    <3> QED
      BY <3>1, <3>2, <2>1, <2>2, <1>1 DEF Places
  <2>3. ASSUME NEW i \in Places(s, b) PROVE i \in Places(s \o t, b)
    BY <2>1, <2>3, <1>1 DEF Places
  <2>4. ASSUME NEW j \in Places(t, b) PROVE j + n \in Places(s \o t, b)
    BY <2>1, <2>4, <1>1 DEF Places
  <2> QED
    BY <2>2, <2>3, <2>4
<1>3. Places(s, b) \cap shift = {}
  BY <1>1 DEF Places
<1>4. IsFiniteSet(shift) /\ Cardinality(shift) = Cardinality(Places(t, b))
  <2>1. f \in Bijection(Places(t, b), shift)
    BY <1>1 DEF Bijection, Injection, Surjection, IsInjective
  <2> QED
    BY <2>1, PlacesFinite, FS_Bijection DEF ExistsBijection
<1>5. IsFiniteSet(Places(s, b)) /\ Cardinality(Places(s, b)) \in Nat
      /\ Cardinality(Places(t, b)) \in Nat
  BY PlacesFinite
<1> HIDE DEF shift, f
<1>6. Cardinality(Places(s, b) \cup shift) =
          Cardinality(Places(s, b)) + Cardinality(shift) - Cardinality({})
  BY <1>3, <1>4, <1>5, FS_Union
<1> QED
  BY <1>2, <1>4, <1>5, <1>6, FS_EmptySet

(* The depth of a text is that of its beginning and of the rest of it.     *)
LEMMA DepthConcat ==
    ASSUME NEW s \in Seq(Byte), NEW t \in Seq(Byte)
    PROVE  Depth(s \o t) = Depth(s) + Depth(t)
<1>1. s \o t \in Seq(Byte)
  BY ConcatProperties
<1>2. ASSUME NEW u \in Seq(Byte)
      PROVE  /\ Depth(u) = Cardinality(Places(u, "open"))
                           - Cardinality(Places(u, "close"))
             /\ Cardinality(Places(u, "open")) \in Nat
             /\ Cardinality(Places(u, "close")) \in Nat
  BY <1>2, DepthOfPlaces, PlacesFinite
<1>3. /\ Cardinality(Places(s \o t, "open")) =
             Cardinality(Places(s, "open")) + Cardinality(Places(t, "open"))
      /\ Cardinality(Places(s \o t, "close")) =
             Cardinality(Places(s, "close")) + Cardinality(Places(t, "close"))
  BY PlacesConcat
<1>4. /\ Depth(s \o t) = Cardinality(Places(s \o t, "open"))
                        - Cardinality(Places(s \o t, "close"))
      /\ Depth(s) = Cardinality(Places(s, "open")) - Cardinality(Places(s, "close"))
      /\ Depth(t) = Cardinality(Places(t, "open")) - Cardinality(Places(t, "close"))
  BY <1>1, <1>2
<1>5. /\ Cardinality(Places(s, "open")) \in Nat /\ Cardinality(Places(s, "close")) \in Nat
      /\ Cardinality(Places(t, "open")) \in Nat /\ Cardinality(Places(t, "close")) \in Nat
  BY <1>2
<1> QED
  BY <1>3, <1>4, <1>5

(* Of a message, only the whole has as many closing braces as opening ones.*)
LEMMA DepthOfMessage ==
    ASSUME NEW n \in 1..Len(Outgoing), NEW p \in 1..Len(Outgoing[n])
    PROVE  LET s == SubSeq(Bytes(n), 1, p) IN
           /\ s \in Seq(Byte) /\ Len(s) = p
           /\ Depth(s) >= 0 /\ (Depth(s) = 0 <=> p = Len(Outgoing[n]))
           /\ Token(s[1]) = "open"
<1> DEFINE s == SubSeq(Bytes(n), 1, p)
           start == SubSeq(Outgoing[n], 1, p)
<1>1. /\ Outgoing[n] \in Seq(Text) /\ IsObject(Outgoing[n])
      /\ Outgoing \in Seq(Seq(Text))
  BY MessageAssumption, ElementOfSeq
<1>2. p \in Nat /\ p >= 1 /\ p <= Len(Outgoing[n]) /\ Len(Outgoing[n]) \in Nat
  BY <1>1
<1>3. /\ s \in Seq(Byte) /\ Len(s) = p
      /\ \A i \in 1..p : s[i] = <<n, i>>
  <2>1. /\ Bytes(n) \in Seq(Byte) /\ Len(Bytes(n)) = Len(Outgoing[n])
        /\ \A i \in 1..Len(Outgoing[n]) : Bytes(n)[i] = <<n, i>>
    BY BytesType
  <2>2. \A i \in 1..p : Bytes(n)[i] \in Byte
    BY <1>2, <2>1, ElementOfSeq
  <2>3. /\ s \in Seq(Byte) /\ Len(s) = p
        /\ \A i \in 1..p : s[i] = Bytes(n)[i]
    BY <1>2, <2>2, SubSeqProperties
  <2> QED
    BY <1>2, <2>1, <2>3
<1>4. Len(start) = p /\ \A i \in 1..p : start[i] = Outgoing[n][i]
  <2>1. \A i \in 1..p : Outgoing[n][i] \in Text
    BY <1>1, <1>2, ElementOfSeq
  <2> QED
    BY <1>2, <2>1, SubSeqProperties
<1> HIDE DEF s, start
<1>5. ASSUME NEW b PROVE Braces(start, b) = Cardinality(Places(s, b))
  <2>1. \A i \in 1..p : Token(s[i]) = start[i]
    BY <1>3, <1>4 DEF Token
  <2>2. {i \in 1..Len(start) : start[i] = b} = Places(s, b)
    BY <1>3, <1>4, <2>1 DEF Places
  <2> QED
    BY <2>2 DEF Braces
<1>6. /\ Braces(start, "open") >= Braces(start, "close")
      /\ Braces(start, "open") = Braces(start, "close") <=> p = Len(Outgoing[n])
  BY <1>1 DEF IsObject, start
<1>7. /\ Braces(start, "open") = Cardinality(Places(s, "open"))
      /\ Braces(start, "close") = Cardinality(Places(s, "close"))
      /\ Cardinality(Places(s, "open")) \in Nat
      /\ Cardinality(Places(s, "close")) \in Nat
      /\ Depth(s) = Cardinality(Places(s, "open")) - Cardinality(Places(s, "close"))
  BY <1>3, <1>5, PlacesFinite, DepthOfPlaces
<1>8. Token(s[1]) = "open"
  BY <1>1, <1>2, <1>3 DEF Token, IsObject
<1>9. Depth(s) >= 0 /\ (Depth(s) = 0 <=> p = Len(Outgoing[n]))
  BY <1>6, <1>7
<1> QED
  BY <1>3, <1>8, <1>9 DEF s

(* What one read adds to the text: it ends with the read, or with the byte *)
(* that closes the object, whichever is first.                             *)
LEMMA KeptIsPrefix ==
    ASSUME NEW chunk \in Seq(Byte), chunk # <<>>, NEW count \in Int
    PROVE  \E m \in 1..Len(chunk) :
              /\ Kept(count, chunk) = SubSeq(chunk, 1, m)
              /\ m = Len(chunk) \/ count + Depth(SubSeq(chunk, 1, m)) <= 0
<1> DEFINE balanced == {p \in 1..Len(chunk) :
                           count + Depth(SubSeq(chunk, 1, p)) <= 0}
<1>1. Len(chunk) \in Nat /\ Len(chunk) >= 1
  BY EmptySeq
<1>2. CASE balanced = {}
  <2>1. Kept(count, chunk) = SubSeq(chunk, 1, Len(chunk))
    BY <1>2, SubSeqFull DEF Kept
  <2> QED
    BY <1>1, <2>1
<1>3. CASE balanced # {}
  <2>1. Min(balanced) \in balanced
    <3>1. balanced \subseteq Nat
      BY <1>1
    <3> HIDE DEF balanced
    <3> QED
      BY <1>3, <3>1, MinIsLeast
  <2>2. Kept(count, chunk) = SubSeq(chunk, 1, Min(balanced))
    BY <1>3 DEF Kept
  <2> QED
    BY <2>1, <2>2
<1> QED
  BY <1>2, <1>3

-----------------------------------------------------------------------------
(* A read.                                                                 *)

LEMMA ReadKeeps ==
    ASSUME TypeOK, BracesCounted, NEW k \in 1..Len(wire), Read(k)
    PROVE  \E m \in 1..k :
              /\ strBuf' = strBuf \o SubSeq(wire, 1, m) /\ strBuf' \in Seq(Byte)
              /\ Len(strBuf') = Len(strBuf) + m
              /\ \A i \in 1..Len(strBuf) : strBuf'[i] = strBuf[i]
              /\ \A i \in 1..m : strBuf'[Len(strBuf) + i] = wire[i]
              /\ wire' = SubSeq(wire, k + 1, Len(wire)) /\ wire' \in Seq(Byte)
              /\ Len(wire') = Len(wire) - k
              /\ \A i \in 1..Len(wire') : wire'[i] = wire[k + i]
              /\ bracketCount' = Depth(strBuf') /\ bracketCount' \in Int
              /\ m = k \/ Depth(strBuf') <= 0
<1> DEFINE chunk == SubSeq(wire, 1, k)
<1>1. /\ wire \in Seq(Byte) /\ strBuf \in Seq(Byte) /\ bracketCount \in Int
      /\ bracketCount = Depth(strBuf)
      /\ strBuf' = strBuf \o Kept(bracketCount, chunk)
      /\ bracketCount' = bracketCount + Depth(Kept(bracketCount, chunk))
      /\ wire' = SubSeq(wire, k + 1, Len(wire))
  BY DEF TypeOK, BracesCounted, Read
<1>2. Len(wire) \in Nat /\ k \in Nat /\ 1 <= k /\ k <= Len(wire) /\ Len(strBuf) \in Nat
  BY <1>1
<1>3. \A i \in 1..Len(wire) : wire[i] \in Byte
  BY <1>1, ElementOfSeq
<1>4. chunk \in Seq(Byte) /\ Len(chunk) = k
  BY <1>2, <1>3, SubSeqProperties
<1> HIDE DEF chunk
<1>5. PICK m \in 1..k :
         /\ Kept(bracketCount, chunk) = SubSeq(chunk, 1, m)
         /\ m = k \/ bracketCount + Depth(SubSeq(chunk, 1, m)) <= 0
  <2>1. chunk # <<>>
    BY <1>2, <1>4
  <2> QED
    BY <1>1, <1>4, <2>1, KeptIsPrefix
<1> DEFINE kept == SubSeq(wire, 1, m)
<1>6. SubSeq(chunk, 1, m) = kept
  <2>1. SubSeq(SubSeq(wire, 1, k), 1, m) = SubSeq(wire, 1 + 1 - 1, 1 + m - 1)
    BY <1>1, <1>2, SubSeqOfSubSeq
  <2> QED
    BY <1>2, <2>1 DEF chunk
<1>7. /\ kept \in Seq(Byte) /\ Len(kept) = m
      /\ \A i \in 1..m : kept[i] = wire[i]
  BY <1>2, <1>3, SubSeqProperties
<1>8. /\ wire' \in Seq(Byte) /\ Len(wire') = Len(wire) - k
      /\ \A i \in 1..Len(wire') : wire'[i] = wire[k + i]
  <2>1. \A i \in (k + 1)..Len(wire) : wire[i] \in Byte
    BY <1>2, <1>3
  <2> QED
    BY <1>1, <1>2, <2>1, SubSeqProperties
<1> HIDE DEF kept
<1>9. /\ strBuf' = strBuf \o kept /\ bracketCount' = Depth(strBuf) + Depth(kept)
      /\ m = k \/ Depth(strBuf) + Depth(kept) <= 0
  BY <1>1, <1>5, <1>6
<1>10. /\ strBuf' \in Seq(Byte) /\ Len(strBuf') = Len(strBuf) + m
       /\ \A i \in 1..Len(strBuf) : strBuf'[i] = strBuf[i]
       /\ \A i \in 1..m : strBuf'[Len(strBuf) + i] = wire[i]
  <2>1. /\ strBuf \o kept \in Seq(Byte)
        /\ Len(strBuf \o kept) = Len(strBuf) + Len(kept)
        /\ \A i \in 1..(Len(strBuf) + Len(kept)) : (strBuf \o kept)[i] =
              IF i <= Len(strBuf) THEN strBuf[i] ELSE kept[i - Len(strBuf)]
    BY <1>1, <1>7, ConcatProperties
  <2>2. \A i \in 1..Len(strBuf) : strBuf'[i] = strBuf[i]
    BY <1>2, <1>7, <1>9, <2>1
  <2>3. ASSUME NEW i \in 1..m PROVE strBuf'[Len(strBuf) + i] = wire[i]
    <3>1. /\ Len(strBuf) + i \in 1..(Len(strBuf) + Len(kept))
          /\ ~ (Len(strBuf) + i <= Len(strBuf))
          /\ (Len(strBuf) + i) - Len(strBuf) = i
      BY <1>2, <1>7
    <3> QED
      BY <1>7, <1>9, <2>1, <3>1
  <2> QED
    BY <1>7, <1>9, <2>1, <2>2, <2>3
<1>11. Depth(strBuf') = Depth(strBuf) + Depth(kept) /\ Depth(strBuf') \in Int
  BY <1>1, <1>7, <1>9, <1>10, DepthConcat, DepthOfPlaces
<1> QED
  BY <1>1, <1>8, <1>9, <1>10, <1>11 DEF kept

(* The bytes of the text, of the wire and of what is to be written stay in *)
(* order.                                                                  *)
LEMMA ReadOrdered ==
    ASSUME TypeOK, BracesCounted, BytesInOrder, NEW k \in 1..Len(wire), Read(k)
    PROVE  /\ Ascending(strBuf') /\ Ascending(wire') /\ Below(strBuf', wire')
           /\ Below(strBuf', out) /\ Below(wire', out)
           /\ Ahead(strBuf') /\ Ahead(wire')
<1>1. PICK m \in 1..k :
         /\ Len(strBuf') = Len(strBuf) + m
         /\ \A i \in 1..Len(strBuf) : strBuf'[i] = strBuf[i]
         /\ \A i \in 1..m : strBuf'[Len(strBuf) + i] = wire[i]
         /\ Len(wire') = Len(wire) - k
         /\ \A i \in 1..Len(wire') : wire'[i] = wire[k + i]
  BY ReadKeeps
<1>2. /\ Len(strBuf) \in Nat /\ Len(wire) \in Nat /\ Len(out) \in Nat
      /\ k \in Nat /\ m \in Nat
      /\ m <= k /\ k <= Len(wire) /\ Held = strBuf
  BY DEF TypeOK, Read, Held
<1>3. ASSUME NEW i \in 1..Len(strBuf')
      PROVE  \/ i \in 1..Len(strBuf) /\ strBuf'[i] = strBuf[i]
             \/ /\ i - Len(strBuf) \in 1..m
                /\ i > Len(strBuf) /\ strBuf'[i] = wire[i - Len(strBuf)]
  <2>1. CASE i <= Len(strBuf)
    BY <1>1, <1>2, <2>1
  <2>2. CASE i > Len(strBuf)
    <3>1. i - Len(strBuf) \in 1..m /\ Len(strBuf) + (i - Len(strBuf)) = i
      BY <1>1, <1>2, <2>2
    <3> QED
      BY <1>1, <2>2, <3>1
  <2> QED
    BY <1>2, <2>1, <2>2
<1>4. \A j \in 1..Len(wire') : k + j \in 1..Len(wire) /\ wire'[j] = wire[k + j]
  BY <1>1, <1>2
<1>5. \A i \in 1..m : i \in 1..Len(wire)
  BY <1>2
<1>6. Ascending(strBuf')
  <2> SUFFICES ASSUME NEW i \in 1..Len(strBuf'), NEW j \in 1..Len(strBuf'), i < j
               PROVE  Before(strBuf'[i], strBuf'[j])
    BY DEF Ascending
  <2> QED
    BY <1>2, <1>3, <1>5 DEF BytesInOrder, Ascending, Below
<1>7. Ascending(wire')
  <2> SUFFICES ASSUME NEW i \in 1..Len(wire'), NEW j \in 1..Len(wire'), i < j
               PROVE  Before(wire'[i], wire'[j])
    BY DEF Ascending
  <2>1. k + i < k + j
    BY <1>2
  <2> QED
    BY <1>4, <2>1 DEF BytesInOrder, Ascending
<1>8. Below(strBuf', wire')
  <2> SUFFICES ASSUME NEW i \in 1..Len(strBuf'), NEW j \in 1..Len(wire')
               PROVE  Before(strBuf'[i], wire'[j])
    BY DEF Below
  <2>1. k + j \in 1..Len(wire) /\ wire'[j] = wire[k + j]
    BY <1>4
  <2>2. \A l \in 1..m : l < k + j
    BY <1>2
  <2> QED
    BY <1>2, <1>3, <1>5, <2>1, <2>2 DEF BytesInOrder, Ascending, Below
<1>9. Below(strBuf', out) /\ Ahead(strBuf')
  BY <1>2, <1>3, <1>5 DEF BytesInOrder, Below, Ahead
<1>10. Below(wire', out) /\ Ahead(wire')
  BY <1>2, <1>4 DEF BytesInOrder, Below, Ahead
<1> QED
  BY <1>6, <1>7, <1>8, <1>9, <1>10

(* A write moves the beginning of what is to be written to the wire. *)
LEMMA WriteKeeps ==
    ASSUME TypeOK, NEW k \in 1..Len(out), Write(k)
    PROVE  /\ wire' = wire \o SubSeq(out, 1, k) /\ wire' \in Seq(Byte)
           /\ Len(wire') = Len(wire) + k
           /\ \A i \in 1..Len(wire) : wire'[i] = wire[i]
           /\ \A i \in 1..k : wire'[Len(wire) + i] = out[i]
           /\ out' = SubSeq(out, k + 1, Len(out)) /\ out' \in Seq(Byte)
           /\ Len(out') = Len(out) - k
           /\ \A i \in 1..Len(out') : out'[i] = out[k + i]
<1> DEFINE first == SubSeq(out, 1, k)
<1>1. /\ wire \in Seq(Byte) /\ out \in Seq(Byte) /\ Len(wire) \in Nat
      /\ Len(out) \in Nat /\ k \in Nat /\ 1 <= k /\ k <= Len(out)
      /\ wire' = wire \o first /\ out' = SubSeq(out, k + 1, Len(out))
  BY DEF TypeOK, Write
<1>2. \A i \in 1..Len(out) : out[i] \in Byte
  BY <1>1, ElementOfSeq
<1>3. first \in Seq(Byte) /\ Len(first) = k /\ \A i \in 1..k : first[i] = out[i]
  BY <1>1, <1>2, SubSeqProperties
<1>4. /\ out' \in Seq(Byte) /\ Len(out') = Len(out) - k
      /\ \A i \in 1..Len(out') : out'[i] = out[k + i]
  <2>1. \A i \in (k + 1)..Len(out) : out[i] \in Byte
    BY <1>1, <1>2
  <2> QED
    BY <1>1, <2>1, SubSeqProperties
<1> HIDE DEF first
<1>5. /\ wire' \in Seq(Byte) /\ Len(wire') = Len(wire) + k
      /\ \A i \in 1..(Len(wire) + k) : wire'[i] =
            IF i <= Len(wire) THEN wire[i] ELSE first[i - Len(wire)]
  BY <1>1, <1>3, ConcatProperties
<1>6. \A i \in 1..Len(wire) : wire'[i] = wire[i]
  BY <1>1, <1>5
<1>7. ASSUME NEW i \in 1..k PROVE wire'[Len(wire) + i] = out[i]
  <2>1. /\ Len(wire) + i \in 1..(Len(wire) + k)
        /\ ~ (Len(wire) + i <= Len(wire)) /\ (Len(wire) + i) - Len(wire) = i
    BY <1>1
  <2> QED
    BY <1>3, <1>5, <2>1
<1> QED
  BY <1>1, <1>4, <1>5, <1>6, <1>7 DEF first

LEMMA WriteOrdered ==
    ASSUME TypeOK, BytesInOrder, NEW k \in 1..Len(out), Write(k)
    PROVE  BytesInOrder'
<1>1. /\ Len(wire') = Len(wire) + k /\ \A i \in 1..Len(wire) : wire'[i] = wire[i]
      /\ \A i \in 1..k : wire'[Len(wire) + i] = out[i]
      /\ Len(out') = Len(out) - k /\ \A i \in 1..Len(out') : out'[i] = out[k + i]
  BY WriteKeeps
<1>2. /\ Len(wire) \in Nat /\ Len(out) \in Nat /\ k \in Nat /\ k <= Len(out)
      /\ Held' = Held /\ sent' = sent /\ got' = got
  BY DEF TypeOK, Write, Held
<1>3. ASSUME NEW i \in 1..Len(wire')
      PROVE  \/ i \in 1..Len(wire) /\ wire'[i] = wire[i]
             \/ /\ i - Len(wire) \in 1..k /\ i > Len(wire)
                /\ wire'[i] = out[i - Len(wire)]
  <2>1. CASE i <= Len(wire)
    BY <1>1, <1>2, <2>1
  <2>2. CASE i > Len(wire)
    <3>1. i - Len(wire) \in 1..k /\ Len(wire) + (i - Len(wire)) = i
      BY <1>1, <1>2, <2>2
    <3> QED
      BY <1>1, <2>2, <3>1
  <2> QED
    BY <1>2, <2>1, <2>2
<1>4. \A j \in 1..Len(out') : k + j \in 1..Len(out) /\ out'[j] = out[k + j]
  BY <1>1, <1>2
<1>5. \A i \in 1..k : i \in 1..Len(out)
  BY <1>2
<1>6. Ascending(wire')
  <2> SUFFICES ASSUME NEW i \in 1..Len(wire'), NEW j \in 1..Len(wire'), i < j
               PROVE  Before(wire'[i], wire'[j])
    BY DEF Ascending
  <2> QED
    BY <1>2, <1>3, <1>5 DEF BytesInOrder, Ascending, Below
<1>7. Ascending(out')
  <2> SUFFICES ASSUME NEW i \in 1..Len(out'), NEW j \in 1..Len(out'), i < j
               PROVE  Before(out'[i], out'[j])
    BY DEF Ascending
  <2>1. k + i < k + j
    BY <1>2
  <2> QED
    BY <1>4, <2>1 DEF BytesInOrder, Ascending
<1>8. Below(wire', out')
  <2> SUFFICES ASSUME NEW i \in 1..Len(wire'), NEW j \in 1..Len(out')
               PROVE  Before(wire'[i], out'[j])
    BY DEF Below
  <2>1. k + j \in 1..Len(out) /\ out'[j] = out[k + j]
    BY <1>4
  <2>2. \A l \in 1..k : l < k + j
    BY <1>2
  <2> QED
    BY <1>2, <1>3, <1>5, <2>1, <2>2 DEF BytesInOrder, Ascending, Below
<1>9. Below(Held, wire') /\ Below(Held, out')
  BY <1>2, <1>3, <1>4, <1>5 DEF BytesInOrder, Below
<1>10. Ahead(wire)' /\ Ahead(out)'
  BY <1>2, <1>3, <1>4, <1>5 DEF BytesInOrder, Ahead
<1>11. Ascending(Held) /\ Ahead(Held)'
  BY <1>2 DEF BytesInOrder, Ahead
<1> QED
  BY <1>2, <1>6, <1>7, <1>8, <1>9, <1>10, <1>11 DEF BytesInOrder

-----------------------------------------------------------------------------
(* The invariant of every peer, patient or not. *)
CommonInv == TypeOK /\ BracesCounted /\ OrderInv

LEMMA CommonAtStart == Init => CommonInv
<1> SUFFICES ASSUME Init PROVE CommonInv
  OBVIOUS
<1>1. /\ Held = <<>> /\ wire = <<>> /\ out = <<>> /\ got = <<>> /\ sent = 0
      /\ pc = "idle" /\ Len(<<>>) = 0
  BY DEF Init, Held
<1>2. OrderInv
  BY <1>1 DEF OrderInv, BytesInOrder, GotInOrder, Ascending, Below, Ahead
<1>3. TypeOK
  <2>1. Len(Outgoing) \in Nat /\ window \in Nat /\ window \in Windows
    BY MessageAssumption DEF Init
  <2>2. sent - Len(got) \in 0..window /\ sent \in 0..Len(Outgoing)
    BY <1>1, <2>1
  <2>3. <<>> \in Seq(Byte) /\ <<>> \in Seq(1..Len(Outgoing))
    BY EmptySeq
  <2>4. strBuf = <<>> /\ closed = FALSE /\ ended = FALSE /\ bracketCount = 0
        /\ broken = FALSE /\ lost = <<>>
    BY DEF Init
  <2>5. /\ out \in Seq(Byte) /\ wire \in Seq(Byte) /\ strBuf \in Seq(Byte)
        /\ got \in Seq(1..Len(Outgoing)) /\ lost \in Seq(Byte)
    BY <1>1, <2>3, <2>4, Zenon
  <2>6. bracketCount \in Int /\ pc \in {"idle", "reading", "crashed", "thrown"}
    BY <1>1, <2>4
  <2>7. closed \in BOOLEAN /\ ended \in BOOLEAN /\ broken \in BOOLEAN
    BY <2>4, Zenon
  <2> QED
    BY <2>1, <2>2, <2>5, <2>6, <2>7, Zenon DEF TypeOK
<1> QED
  BY <1>1, <1>2, <1>3 DEF CommonInv, BracesCounted

LEMMA CommonAfterSend == CommonInv /\ PeerSends => CommonInv'
<1> SUFFICES ASSUME CommonInv, PeerSends PROVE CommonInv'
  OBVIOUS
<1>1. /\ out = <<>> /\ sent < Len(Outgoing) /\ sent - Len(got) < window
      /\ sent' = sent + 1 /\ out' = Bytes(sent + 1)
      /\ window' = window /\ closed' = closed /\ wire' = wire /\ pc' = pc
      /\ bracketCount' = bracketCount /\ strBuf' = strBuf /\ got' = got
      /\ ended' = ended /\ Held' = Held /\ broken' = broken /\ lost' = lost
  BY DEF PeerSends, SendMessage, Held, link
<1>2. /\ Len(Outgoing) \in Nat /\ window \in Nat /\ sent \in Nat
      /\ Len(got) \in Nat /\ sent + 1 \in 1..Len(Outgoing)
      /\ sent - Len(got) \in Nat
  BY <1>1, MessageAssumption DEF CommonInv, TypeOK
<1>3. /\ out' \in Seq(Byte) /\ Len(out') = Len(Outgoing[sent + 1])
      /\ Len(out') \in Nat
      /\ \A i \in 1..Len(out') : out'[i] = <<sent + 1, i>>
  BY <1>1, <1>2, BytesType
<1>4. TypeOK'
  <2>1. sent' \in 0..Len(Outgoing) /\ sent' - Len(got') \in 0..window'
    BY <1>1, <1>2
  <2> QED
    BY <1>1, <1>3, <2>1 DEF CommonInv, TypeOK
<1>5. Ascending(out')
  BY <1>3 DEF Ascending, Before
<1>6. Below(Held, out') /\ Below(wire, out')
  <2>1. ASSUME NEW s \in Seq(Byte), Ahead(s) PROVE Below(s, out')
    <3> SUFFICES ASSUME NEW i \in 1..Len(s), NEW j \in 1..Len(out')
                 PROVE  Before(s[i], out'[j])
      BY DEF Below
    <3>1. s[i] \in Byte /\ s[i][1] \in 1..Len(Outgoing)
      BY ElementOfSeq, ByteType
    <3>2. s[i][1] <= sent /\ out'[j][1] = sent + 1
      BY <1>3, <2>1 DEF Ahead
    <3>3. s[i][1] < out'[j][1]
      BY <3>1, <3>2, <1>2
    <3> QED
      BY <3>3 DEF Before
  <2>2. Held \in Seq(Byte) /\ wire \in Seq(Byte)
    BY DEF CommonInv, TypeOK, Held
  <2> QED
    BY <2>1, <2>2 DEF CommonInv, OrderInv, BytesInOrder
<1>7. Ahead(Held)' /\ Ahead(wire)' /\ Ahead(out)'
  <2>1. ASSUME NEW s \in Seq(Byte), Ahead(s)
        PROVE  \A i \in 1..Len(s) : s[i][1] <= sent + 1
    <3> SUFFICES ASSUME NEW i \in 1..Len(s) PROVE s[i][1] <= sent + 1
      OBVIOUS
    <3>1. s[i] \in Byte /\ s[i][1] \in 1..Len(Outgoing)
      BY ElementOfSeq, ByteType
    <3> QED
      BY <1>2, <2>1, <3>1 DEF Ahead
  <2>2. Held \in Seq(Byte) /\ wire \in Seq(Byte)
    BY DEF CommonInv, TypeOK, Held
  <2>3. Ahead(Held)' /\ Ahead(wire)'
    BY <1>1, <2>1, <2>2 DEF CommonInv, OrderInv, BytesInOrder, Ahead
  <2>4. \A j \in 1..Len(got) : got[j] < sent + 1
    <3>1. \A j \in 1..Len(got) : got[j] \in Nat /\ got[j] <= sent
      BY ElementOfSeq DEF CommonInv, TypeOK, OrderInv, GotInOrder
    <3> QED
      BY <1>2, <3>1
  <2>5. Ahead(out)'
    BY <1>1, <1>2, <1>3, <2>4 DEF Ahead
  <2> QED
    BY <2>3, <2>5
<1>8. GotInOrder'
  <2>1. \A j \in 1..Len(got) : got[j] \in Nat /\ got[j] <= sent
    BY ElementOfSeq DEF CommonInv, TypeOK, OrderInv, GotInOrder
  <2> QED
    BY <1>1, <1>2, <2>1 DEF CommonInv, OrderInv, GotInOrder
<1>9. BytesInOrder'
  BY <1>1, <1>5, <1>6, <1>7 DEF CommonInv, OrderInv, BytesInOrder
<1>10. BracesCounted'
  BY <1>1 DEF CommonInv, BracesCounted
<1> QED
  BY <1>4, <1>8, <1>9, <1>10 DEF CommonInv, OrderInv

LEMMA CommonAfterWrite ==
    ASSUME CommonInv, NEW k \in 1..Len(out), Write(k)
    PROVE  CommonInv'
<1>1. /\ wire' \in Seq(Byte) /\ out' \in Seq(Byte)
      /\ window' = window /\ sent' = sent /\ closed' = closed /\ pc' = pc
      /\ bracketCount' = bracketCount /\ strBuf' = strBuf /\ got' = got
      /\ ended' = ended /\ broken' = broken /\ lost' = lost
  BY WriteKeeps DEF Write, CommonInv, link
<1>2. BytesInOrder'
  BY WriteOrdered DEF CommonInv, OrderInv
<1>3. TypeOK'
  BY <1>1 DEF CommonInv, TypeOK
<1>4. BracesCounted' /\ GotInOrder'
  BY <1>1 DEF CommonInv, BracesCounted, OrderInv, GotInOrder
<1> QED
  BY <1>2, <1>3, <1>4 DEF CommonInv, OrderInv

(* Bytes are lost: those still to be written, or the end of those on the   *)
(* wire.                                                                   *)
LEMMA CommonAfterLoss ==
    ASSUME CommonInv, WriteNothing \/ WriteFails \/ Break
    PROVE  CommonInv'
<1>1. /\ wire \in Seq(Byte) /\ out \in Seq(Byte) /\ lost \in Seq(Byte)
      /\ Len(wire) \in Nat /\ <<>> \in Seq(Byte) /\ Len(<<>>) = 0
  BY EmptySeq DEF CommonInv, TypeOK
<1>2. /\ UNCHANGED <<window, sent, pc, bracketCount, strBuf, got, ended>>
      /\ Held' = Held
  BY DEF WriteNothing, WriteFails, Break, peer, Held
<1>3. /\ wire' \in Seq(Byte) /\ Len(wire') \in 0..Len(wire)
      /\ \A i \in 1..Len(wire') : i \in 1..Len(wire) /\ wire'[i] = wire[i]
      /\ out' \in {out, <<>>} /\ lost' \in Seq(Byte)
      /\ closed' \in BOOLEAN /\ broken' \in BOOLEAN
  <2>1. CASE WriteNothing \/ WriteFails
    <3>1. lost \o out \in Seq(Byte)
      BY <1>1, ConcatProperties
    <3>2. /\ wire' = wire /\ out' = <<>> /\ lost' = lost \o out
          /\ closed' \in {closed, TRUE} /\ broken' = broken
      BY <2>1 DEF WriteNothing, WriteFails
    <3>3. closed' \in BOOLEAN /\ broken' \in BOOLEAN
      BY <3>2 DEF CommonInv, TypeOK
    <3> QED
      BY <1>1, <3>1, <3>2, <3>3
  <2>2. CASE Break
    <3>1. PICK k \in 0..Len(wire) :
             /\ wire' = SubSeq(wire, 1, k)
             /\ lost' = SubSeq(wire, k + 1, Len(wire)) \o lost
      BY <2>2 DEF Break
    <3>2. /\ SubSeq(wire, 1, k) \in Seq(Byte) /\ Len(SubSeq(wire, 1, k)) = k
          /\ \A i \in 1..k : SubSeq(wire, 1, k)[i] = wire[i]
          /\ SubSeq(wire, k + 1, Len(wire)) \in Seq(Byte)
      <4>1. \A i \in 1..Len(wire) : wire[i] \in Byte
        BY <1>1, ElementOfSeq
      <4>2. k \in Nat /\ k <= Len(wire)
        BY <1>1
      <4>3. /\ SubSeq(wire, 1, k) \in Seq(Byte) /\ Len(SubSeq(wire, 1, k)) = k
            /\ \A i \in 1..k : SubSeq(wire, 1, k)[i] = wire[i]
        BY <1>1, <4>1, <4>2, SubSeqProperties
      <4>4. \A i \in (k + 1)..Len(wire) : wire[i] \in Byte
        BY <4>1, <4>2
      <4>5. SubSeq(wire, k + 1, Len(wire)) \in Seq(Byte)
        BY <1>1, <4>2, <4>4, SubSeqProperties
      <4> QED
        BY <4>3, <4>5
    <3>3. lost' \in Seq(Byte)
      BY <1>1, <3>1, <3>2, ConcatProperties
    <3>4. wire' \in Seq(Byte) /\ Len(wire') = k
          /\ \A i \in 1..Len(wire') : wire'[i] = wire[i]
      BY <3>1, <3>2
    <3>5. \A i \in 1..Len(wire') : i \in 1..Len(wire)
      BY <1>1, <3>4
    <3> QED
      BY <1>1, <2>2, <3>3, <3>4, <3>5 DEF Break, peer, CommonInv, TypeOK
  <2> QED
    BY <2>1, <2>2
<1>4. TypeOK' /\ BracesCounted' /\ GotInOrder'
  <2>1. TypeOK'
    BY <1>1, <1>2, <1>3 DEF CommonInv, TypeOK
  <2> QED
    BY <1>2, <2>1 DEF CommonInv, BracesCounted, OrderInv, GotInOrder
<1>5. \A i \in 1..Len(out') : i \in 1..Len(out) /\ out'[i] = out[i]
  BY <1>1, <1>3
<1>6. /\ Ascending(Held) /\ Ascending(wire) /\ Ascending(out)
      /\ Below(Held, wire) /\ Below(Held, out) /\ Below(wire, out)
      /\ Ahead(Held) /\ Ahead(wire) /\ Ahead(out)
  BY DEF CommonInv, OrderInv, BytesInOrder
<1>7. Ascending(Held)' /\ Ascending(wire)' /\ Ascending(out)'
  BY <1>2, <1>3, <1>5, <1>6 DEF Ascending
<1>8. Below(Held, wire)' /\ Below(Held, out)' /\ Below(wire, out)'
  BY <1>2, <1>3, <1>5, <1>6 DEF Below
<1>9. Ahead(Held)' /\ Ahead(wire)' /\ Ahead(out)'
  BY <1>2, <1>3, <1>5, <1>6 DEF Ahead
<1> QED
  BY <1>4, <1>7, <1>8, <1>9 DEF CommonInv, OrderInv, BytesInOrder

(* A call begins, the peer closes, or the connection has ended.            *)
LEMMA CommonOtherwise ==
    CommonInv /\ (Close \/ Call \/ ReadEndOfFile \/ ReadFails \/ UNCHANGED vars)
        => CommonInv'
<1>1. ASSUME CommonInv, Close \/ ReadEndOfFile \/ ReadFails \/ UNCHANGED vars
      PROVE  CommonInv'
  <2>1. /\ window' = window /\ sent' = sent /\ out' = out /\ wire' = wire
        /\ strBuf' = strBuf /\ bracketCount' = bracketCount /\ got' = got
        /\ closed' \in BOOLEAN /\ ended' \in BOOLEAN
        /\ pc' \in {pc, "idle", "thrown"} /\ broken' = broken /\ lost' = lost
    BY <1>1 DEF CommonInv, TypeOK, Close, ReadEndOfFile, ReadFails, vars, peer,
                link
  <2>2. TypeOK'
    BY <1>1, <2>1 DEF CommonInv, TypeOK
  <2>3. BracesCounted'
    BY <1>1, <2>1 DEF CommonInv, BracesCounted
  <2>4. GotInOrder'
    BY <1>1, <2>1 DEF CommonInv, OrderInv, GotInOrder
  <2>5. /\ Ascending(wire)' /\ Ascending(out)' /\ Below(wire, out)'
        /\ Ahead(wire)' /\ Ahead(out)'
    BY <1>1, <2>1 DEF CommonInv, OrderInv, BytesInOrder, Ascending, Below, Ahead
  <2>6. /\ Ascending(Held)' /\ Below(Held, wire)' /\ Below(Held, out)'
        /\ Ahead(Held)'
    <3>1. CASE Held' = Held
      BY <1>1, <2>1, <3>1 DEF CommonInv, OrderInv, BytesInOrder, Ahead
    <3>2. CASE Held' = <<>>
      <4>1. Len(Held') = 0
        BY <3>2
      <4> QED
        BY <4>1 DEF Ascending, Below, Ahead
    <3> QED
      BY <2>1, <3>1, <3>2 DEF Held
  <2> QED
    BY <2>2, <2>3, <2>4, <2>5, <2>6 DEF CommonInv, OrderInv, BytesInOrder
<1>2. ASSUME CommonInv, Call PROVE CommonInv'
  <2>1. /\ window' = window /\ sent' = sent /\ out' = out /\ wire' = wire
        /\ strBuf' = <<>> /\ bracketCount' = 0 /\ got' = got
        /\ closed' = closed /\ ended' = ended /\ pc' = "reading"
        /\ Len(<<>>) = 0 /\ broken' = broken /\ lost' = lost
    BY <1>2 DEF Call, peer, link
  <2>2. TypeOK'
    BY <1>2, <2>1 DEF CommonInv, TypeOK
  <2>3. BracesCounted'
    <3>1. Depth(<<>>) = 0
      <4>1. Places(<<>>, "open") = {} /\ Places(<<>>, "close") = {}
        BY DEF Places
      <4>2. <<>> \in Seq(Byte) /\ Cardinality({}) = 0
        BY FS_EmptySet
      <4>3. Depth(<<>>) = Cardinality(Places(<<>>, "open"))
                          - Cardinality(Places(<<>>, "close"))
        BY <4>2, DepthOfPlaces
      <4>4. Depth(<<>>) = 0 - 0
        BY <4>1, <4>2, <4>3, Zenon
      <4> QED
        BY <4>4
    <3> QED
      BY <2>1, <3>1 DEF BracesCounted
  <2>4. GotInOrder'
    BY <1>2, <2>1 DEF CommonInv, OrderInv, GotInOrder
  <2>5. /\ Ascending(wire)' /\ Ascending(out)' /\ Below(wire, out)'
        /\ Ahead(wire)' /\ Ahead(out)'
    BY <1>2, <2>1 DEF CommonInv, OrderInv, BytesInOrder, Ascending, Below, Ahead
  <2>6. Len(Held') = 0
    BY <2>1 DEF Held
  <2>7. /\ Ascending(Held)' /\ Below(Held, wire)' /\ Below(Held, out)'
        /\ Ahead(Held)'
    BY <2>6 DEF Ascending, Below, Ahead
  <2> QED
    BY <2>2, <2>3, <2>4, <2>5, <2>7 DEF CommonInv, OrderInv, BytesInOrder
<1> QED
  BY <1>1, <1>2

(* A read that does not end the message. *)
LEMMA CommonAfterPart ==
    ASSUME CommonInv, NEW k \in 1..Len(wire), ReadMore(k) \/ ReadFragment(k)
    PROVE  CommonInv'
<1>1. /\ Read(k) /\ window' = window /\ sent' = sent /\ out' = out
      /\ closed' = closed /\ got' = got /\ ended' = ended
      /\ pc' \in {"reading", "crashed"} /\ broken' = broken /\ lost' = lost
  BY DEF ReadMore, ReadFragment, Read, peer, link
<1>2. /\ strBuf' \in Seq(Byte) /\ wire' \in Seq(Byte)
      /\ bracketCount' = Depth(strBuf') /\ bracketCount' \in Int
  BY <1>1, ReadKeeps DEF CommonInv
<1>3. /\ Ascending(strBuf') /\ Ascending(wire') /\ Below(strBuf', wire')
      /\ Below(strBuf', out) /\ Below(wire', out)
      /\ Ahead(strBuf') /\ Ahead(wire')
  BY <1>1, ReadOrdered DEF CommonInv, OrderInv
<1>4. TypeOK'
  BY <1>1, <1>2 DEF CommonInv, TypeOK
<1>5. BracesCounted' /\ GotInOrder'
  BY <1>1, <1>2 DEF CommonInv, BracesCounted, OrderInv, GotInOrder
<1>6. /\ Ascending(wire)' /\ Ascending(out)' /\ Below(wire, out)'
      /\ Ahead(wire)' /\ Ahead(out)'
  BY <1>1, <1>3 DEF CommonInv, OrderInv, BytesInOrder, Ascending, Below, Ahead
<1>7. /\ Ascending(Held)' /\ Below(Held, wire)' /\ Below(Held, out)'
      /\ Ahead(Held)'
  <2>1. CASE pc' = "reading"
    <3>1. Held' = strBuf'
      BY <2>1 DEF Held
    <3> QED
      BY <1>1, <1>3, <3>1 DEF Ascending, Below, Ahead
  <2>2. CASE pc' # "reading"
    <3>1. Len(Held') = 0
      BY <2>2 DEF Held
    <3> QED
      BY <3>1 DEF Ascending, Below, Ahead
  <2> QED
    BY <2>1, <2>2
<1> QED
  BY <1>4, <1>5, <1>6, <1>7 DEF CommonInv, OrderInv, BytesInOrder

(* A read that ends a message: it is a whole one, of those sent, and later *)
(* than those returned before; what is left is of later ones.              *)
LEMMA CommonAfterMessage ==
    ASSUME CommonInv, NEW k \in 1..Len(wire), ReadMessage(k)
    PROVE  CommonInv'
<1> DEFINE n == strBuf'[1][1]
<1>1. /\ Read(k) /\ HasAction(strBuf') /\ got' = Append(got, n)
      /\ pc' = "idle" /\ window' = window /\ sent' = sent /\ out' = out
      /\ closed' = closed /\ ended' = ended /\ broken' = broken
      /\ lost' = lost
  BY DEF ReadMessage, peer, link
<1>2. /\ strBuf' \in Seq(Byte) /\ wire' \in Seq(Byte)
      /\ bracketCount' \in Int /\ Len(strBuf') \in Nat /\ Len(strBuf') >= 1
  <2>1. PICK m \in 1..k : /\ strBuf' \in Seq(Byte) /\ wire' \in Seq(Byte)
                          /\ bracketCount' \in Int
                          /\ Len(strBuf') = Len(strBuf) + m
    BY <1>1, ReadKeeps DEF CommonInv
  <2>2. Len(strBuf) \in Nat
    BY DEF CommonInv, TypeOK
  <2> QED
    BY <2>1, <2>2
<1>3. /\ Ascending(wire') /\ Below(strBuf', wire') /\ Below(strBuf', out)
      /\ Below(wire', out) /\ Ahead(strBuf') /\ Ahead(wire')
  BY <1>1, ReadOrdered DEF CommonInv, OrderInv
<1>4. n \in 1..Len(Outgoing) /\ strBuf' = Bytes(n)
  <2>1. strBuf'[1] \in Byte
    BY <1>2, ElementOfSeq
  <2> QED
    BY <1>1, <2>1, ByteType DEF HasAction
<1> HIDE DEF n
<1>5. n <= sent /\ \A j \in 1..Len(got) : got[j] < n
  BY <1>2, <1>3 DEF Ahead, n
<1>6. /\ Len(strBuf') = Len(Outgoing[n])
      /\ strBuf'[Len(strBuf')] = <<n, Len(Outgoing[n])>>
  BY <1>2, <1>4, BytesType
<1>7. ASSUME NEW s \in Seq(Byte), Below(strBuf', s)
      PROVE  \A i \in 1..Len(s) : n < s[i][1]
  <2> SUFFICES ASSUME NEW i \in 1..Len(s) PROVE n < s[i][1]
    OBVIOUS
  <2>1. Before(<<n, Len(Outgoing[n])>>, s[i])
    <3>1. Len(strBuf') \in 1..Len(strBuf')
      BY <1>2
    <3>2. Before(strBuf'[Len(strBuf')], s[i])
      BY <1>7, <3>1, Zenon DEF Below
    <3> QED
      BY <1>6, <3>2, Zenon
  <2>2. /\ s[i][1] \in 1..Len(Outgoing) /\ s[i][2] \in 1..Len(Outgoing[s[i][1]])
    BY <1>7, ElementOfSeq, ByteType
  <2>3. n < s[i][1] \/ (n = s[i][1] /\ Len(Outgoing[n]) < s[i][2])
    BY <2>1 DEF Before
  <2>4. ASSUME n = s[i][1] PROVE ~ (Len(Outgoing[n]) < s[i][2])
    <3>1. s[i][2] \in 1..Len(Outgoing[n]) /\ Len(Outgoing[n]) \in Nat
      BY <1>2, <1>6, <2>2, <2>4
    <3> QED
      BY <3>1
  <2> QED
    BY <2>3, <2>4
<1>8. /\ Len(got) \in Nat /\ Len(got') = Len(got) + 1 /\ sent \in Nat
      /\ got \in Seq(1..Len(Outgoing)) /\ got' \in Seq(1..Len(Outgoing))
      /\ \A i \in 1..Len(got) : got'[i] = got[i]
      /\ got'[Len(got) + 1] = n
  <2>1. got \in Seq(1..Len(Outgoing)) /\ sent \in Nat
    BY MessageAssumption DEF CommonInv, TypeOK
  <2> QED
    BY <1>1, <1>4, <2>1, AppendProperties
<1>9. \A i \in 1..Len(got') : i \in 1..Len(got) \/ i = Len(got) + 1
  BY <1>8
<1>10. \A i \in 1..Len(got) : got[i] \in Nat /\ i <= got[i] /\ got[i] <= sent
  <2>1. \A i \in 1..Len(got) : got[i] \in 1..Len(Outgoing)
    BY <1>8, ElementOfSeq
  <2> QED
    BY <2>1, MessageAssumption DEF CommonInv, OrderInv, GotInOrder
<1>11. Len(got) + 1 <= n
  <2>1. CASE Len(got) = 0
    BY <1>4, <2>1
  <2>2. CASE Len(got) > 0
    <3>1. Len(got) <= got[Len(got)] /\ got[Len(got)] < n /\ got[Len(got)] \in Nat
      BY <1>5, <1>8, <1>10, <2>2
    <3> QED
      BY <1>4, <1>8, <3>1
  <2> QED
    BY <1>8, <2>1, <2>2
<1>12. TypeOK'
  <2>1. window \in Nat /\ sent - Len(got) \in 0..window
    BY MessageAssumption DEF CommonInv, TypeOK
  <2>2. sent - Len(got') \in 0..window
    BY <1>4, <1>5, <1>8, <1>11, <2>1
  <2> QED
    BY <1>1, <1>2, <1>8, <2>2 DEF CommonInv, TypeOK
<1>13. GotInOrder'
  <2>1. ASSUME NEW i \in 1..Len(got') PROVE i <= got'[i] /\ got'[i] <= sent
    BY <1>5, <1>8, <1>9, <1>10, <1>11, <2>1
  <2>2. ASSUME NEW i \in 1..Len(got'), NEW j \in 1..Len(got'), i < j
        PROVE  got'[i] < got'[j]
    <3>1. CASE j = Len(got) + 1
      <4>1. i \in 1..Len(got)
        BY <1>8, <2>2, <3>1
      <4> QED
        BY <1>5, <1>8, <3>1, <4>1
    <3>2. CASE j \in 1..Len(got)
      <4>1. i \in 1..Len(got)
        BY <1>8, <2>2, <3>2
      <4> QED
        BY <1>8, <2>2, <3>2, <4>1 DEF CommonInv, OrderInv, GotInOrder
    <3> QED
      BY <1>9, <3>1, <3>2
  <2> QED
    BY <1>1, <2>1, <2>2 DEF GotInOrder
<1>14. Ahead(wire)' /\ Ahead(out)'
  <2>1. ASSUME NEW s \in Seq(Byte), Below(strBuf', s), Ahead(s)
        PROVE  \A i \in 1..Len(s) :
                  s[i][1] <= sent /\ \A j \in 1..Len(got') : got'[j] < s[i][1]
    <3> SUFFICES ASSUME NEW i \in 1..Len(s), NEW j \in 1..Len(got')
                 PROVE  s[i][1] <= sent /\ got'[j] < s[i][1]
      BY <2>1 DEF Ahead
    <3>1. n < s[i][1]
      BY <1>7, <2>1
    <3> QED
      BY <1>8, <1>9, <2>1, <3>1 DEF Ahead
  <2>2. wire' \in Seq(Byte) /\ out \in Seq(Byte) /\ Ahead(out)
    BY <1>2 DEF CommonInv, TypeOK, OrderInv, BytesInOrder
  <2>3. /\ \A i \in 1..Len(wire') : wire'[i][1] <= sent
               /\ \A j \in 1..Len(got') : got'[j] < wire'[i][1]
        /\ \A i \in 1..Len(out) : out[i][1] <= sent
               /\ \A j \in 1..Len(got') : got'[j] < out[i][1]
    BY <1>3, <2>1, <2>2
  <2> QED
    BY <1>1, <2>3 DEF Ahead
<1>15. BytesInOrder'
  <2>1. Len(Held') = 0
    BY <1>1 DEF Held
  <2>2. /\ Ascending(Held)' /\ Below(Held, wire)' /\ Below(Held, out)'
        /\ Ahead(Held)'
    BY <2>1 DEF Ascending, Below, Ahead
  <2>3. Ascending(wire)' /\ Ascending(out)' /\ Below(wire, out)'
    BY <1>1, <1>3 DEF CommonInv, OrderInv, BytesInOrder, Ascending, Below
  <2> QED
    BY <1>14, <2>2, <2>3 DEF BytesInOrder
<1>16. BracesCounted'
  BY <1>1 DEF BracesCounted
<1> QED
  BY <1>12, <1>13, <1>15, <1>16 DEF CommonInv, OrderInv

LEMMA CommonInductive == CommonInv /\ [Next]_vars => CommonInv'
<1> SUFFICES ASSUME CommonInv, [Next]_vars PROVE CommonInv'
  OBVIOUS
<1>1. CASE PeerSends
  BY <1>1, CommonAfterSend
<1>2. CASE \E k \in 1..Len(out) : Write(k)
  BY <1>2, CommonAfterWrite
<1>3. CASE \E k \in 1..Len(wire) : ReadMore(k) \/ ReadFragment(k)
  BY <1>3, CommonAfterPart
<1>4. CASE \E k \in 1..Len(wire) : ReadMessage(k)
  BY <1>4, CommonAfterMessage
<1>5. CASE Close \/ Call \/ ReadEndOfFile \/ ReadFails \/ UNCHANGED vars
  BY <1>5, CommonOtherwise
<1>6. CASE WriteNothing \/ WriteFails \/ Break
  BY <1>6, CommonAfterLoss
<1> QED
  BY <1>1, <1>2, <1>3, <1>4, <1>5, <1>6 DEF Next, Receiver

LEMMA CommonInvariant == Spec => []CommonInv
<1> QED
  BY CommonAtStart, CommonInductive, PTL DEF Spec

(* Every variable keeps its range, and there are never more messages in    *)
(* flight than the peer's window allows, nor fewer than none: no message   *)
(* is returned twice or before it is sent.                                 *)
THEOREM TypeCorrect == Spec => []TypeOK
<1>1. CommonInv => TypeOK
  BY DEF CommonInv
<1> QED
  BY <1>1, CommonInvariant, PTL

(* Messages are returned in the order in which they were sent, none twice, *)
(* whatever the peer does and however TCP cuts the bytes.                  *)
THEOREM MessagesInOrder == Spec => []InOrder
<1>1. CommonInv => InOrder
  <2> SUFFICES ASSUME CommonInv, NEW i \in 1..(Len(got) - 1)
               PROVE  got[i] < got[i + 1]
    BY DEF InOrder
  <2>1. Len(got) \in Nat
    BY DEF CommonInv, TypeOK
  <2>2. i \in 1..Len(got) /\ i + 1 \in 1..Len(got) /\ i < i + 1
    BY <2>1
  <2> QED
    BY <2>2 DEF CommonInv, OrderInv, GotInOrder
<1> QED
  BY <1>1, CommonInvariant, PTL

-----------------------------------------------------------------------------
(* A peer that waits has at most one message on its way, whose bytes are   *)
(* those kept, those on the wire, those lost and those to be written.      *)

LEMMA Split ==
    ASSUME NEW s \in Seq(Byte), NEW k \in 0..Len(s)
    PROVE  /\ SubSeq(s, 1, k) \in Seq(Byte) /\ SubSeq(s, k + 1, Len(s)) \in Seq(Byte)
           /\ Len(SubSeq(s, k + 1, Len(s))) = Len(s) - k
           /\ SubSeq(s, 1, k) \o SubSeq(s, k + 1, Len(s)) = s
<1>1. /\ Len(s) \in Nat /\ k \in Nat /\ k <= Len(s)
      /\ \A i \in 1..Len(s) : s[i] \in Byte
  BY ElementOfSeq
<1>2. SubSeq(s, 1, k) \in Seq(Byte)
  BY <1>1, SubSeqProperties
<1>3. /\ SubSeq(s, k + 1, Len(s)) \in Seq(Byte)
      /\ Len(SubSeq(s, k + 1, Len(s))) = Len(s) - k
  <2>1. \A i \in (k + 1)..Len(s) : s[i] \in Byte
    BY <1>1
  <2> QED
    BY <1>1, <2>1, SubSeqProperties
<1>4. SubSeq(s, 1, k) \o SubSeq(s, k + 1, Len(s)) = SubSeq(s, 1, Len(s))
  <2>1. /\ 1 \in 1..(Len(s) + 1) /\ k \in (1 - 1)..Len(s)
        /\ Len(s) \in k..Len(s)
    BY <1>1
  <2> QED
    BY <2>1, ConcatAdjacentSubSeq
<1>5. SubSeq(s, 1, Len(s)) = s
  BY SubSeqFull
<1> QED
  BY <1>2, <1>3, <1>4, <1>5

LEMMA Associative ==
    \A s, t, u \in Seq(Byte) : (s \o t) \o u = s \o (t \o u)
<1> SUFFICES ASSUME NEW s \in Seq(Byte), NEW t \in Seq(Byte),
                    NEW u \in Seq(Byte)
             PROVE  (s \o t) \o u = s \o (t \o u)
  OBVIOUS
<1> QED
  BY ConcatAssociative

(* What of the message the receiver will not read before it has read all   *)
(* that is on the wire.                                                    *)
Later == lost \o out

LEMMA LaterType ==
    ASSUME CommonInv
    PROVE  /\ Later \in Seq(Byte) /\ lost \in Seq(Byte) /\ out \in Seq(Byte)
           /\ Later = <<>> <=> lost = <<>> /\ out = <<>>
<1>1. lost \in Seq(Byte) /\ out \in Seq(Byte)
  BY DEF CommonInv, TypeOK
<1>2. Later \in Seq(Byte) /\ Len(Later) = Len(lost) + Len(out)
  BY <1>1, ConcatProperties DEF Later
<1>3. /\ Len(lost) \in Nat /\ Len(out) \in Nat
      /\ lost = <<>> <=> Len(lost) = 0
      /\ out = <<>> <=> Len(out) = 0
      /\ Later = <<>> <=> Len(Later) = 0
  BY <1>1, <1>2, EmptySeq
<1> QED
  BY <1>1, <1>2, <1>3

LEMMA InFlight ==
    ASSUME CommonInv, PatientInv, window = 1, wire # <<>> \/ out # <<>>,
           ended \/ pc = "thrown" => wire # <<>>
    PROVE  /\ ~ended /\ sent > Len(got) /\ sent = Len(got) + 1
           /\ sent \in 1..Len(Outgoing)
           /\ Held \o wire \o Later = Bytes(sent)
<1>1. /\ sent - Len(got) \in 0..1 /\ Len(got) \in Nat /\ sent \in 0..Len(Outgoing)
      /\ Len(Outgoing) \in Nat
  BY MessageAssumption DEF CommonInv, TypeOK
<1>2. ~ended /\ pc # "thrown" /\ sent # Len(got)
  BY DEF PatientInv
<1>3. sent > Len(got) /\ sent = Len(got) + 1 /\ sent \in 1..Len(Outgoing)
  BY <1>1, <1>2
<1> QED
  BY <1>2, <1>3 DEF PatientInv, Later

(* Only the read that brings the last byte of the message ends the text.   *)
LEMMA PatientRead ==
    ASSUME CommonInv, PatientInv, window = 1, NEW k \in 1..Len(wire), Read(k)
    PROVE  /\ ~ended /\ sent = Len(got) + 1 /\ Len(got) \in Nat
           /\ strBuf' \o wire' \o Later = Bytes(sent)
           /\ Len(strBuf') <= Len(Outgoing[sent])
           /\ Parses(strBuf') <=> Len(strBuf') = Len(Outgoing[sent])
           /\ Parses(strBuf') =>
                 HasAction(strBuf') /\ wire' = <<>> /\ Later = <<>>
<1>1. /\ wire \in Seq(Byte) /\ strBuf \in Seq(Byte) /\ Later \in Seq(Byte)
      /\ Len(wire) \in Nat /\ Len(strBuf) \in Nat /\ Len(Later) \in Nat
      /\ Len(got) \in Nat /\ k \in Nat /\ 1 <= k /\ k <= Len(wire)
      /\ Held = strBuf /\ pc = "reading"
  <2>1. Later \in Seq(Byte)
    BY LaterType
  <2> QED
    BY <2>1 DEF CommonInv, TypeOK, Read, Held
<1>2. /\ ~ended /\ sent = Len(got) + 1 /\ sent \in 1..Len(Outgoing)
      /\ strBuf \o wire \o Later = Bytes(sent)
  <2>1. wire # <<>>
    <3>1. Len(wire) # 0
      BY <1>1
    <3> QED
      BY <3>1, EmptySeq
  <2> QED
    BY <1>1, <2>1, InFlight
<1>3. PICK m \in 1..k :
         /\ strBuf' = strBuf \o SubSeq(wire, 1, m) /\ strBuf' \in Seq(Byte)
         /\ Len(strBuf') = Len(strBuf) + m
         /\ wire' = SubSeq(wire, k + 1, Len(wire))
         /\ m = k \/ Depth(strBuf') <= 0
  BY ReadKeeps DEF CommonInv
<1> DEFINE first == SubSeq(wire, 1, m)
           rest == SubSeq(wire, m + 1, Len(wire))
<1>4. /\ m \in Nat /\ 1 <= m /\ m <= k
      /\ first \in Seq(Byte) /\ rest \in Seq(Byte)
      /\ Len(rest) = Len(wire) - m /\ first \o rest = wire
  <2>1. m \in 1..Len(wire) /\ m \in Nat /\ 1 <= m /\ m <= k
    BY <1>1
  <2> QED
    BY <1>1, <2>1, Split
<1>5. strBuf' = strBuf \o first
  BY <1>3
<1> HIDE DEF first, rest
<1>6. strBuf' \o rest \o Later = Bytes(sent)
  <2>1. (strBuf \o first) \o rest = strBuf \o (first \o rest)
    BY <1>1, <1>4, Associative, Zenon
  <2> QED
    BY <1>2, <1>4, <1>5, <2>1, Zenon
<1>7. /\ rest \o Later \in Seq(Byte) /\ Len(rest \o Later) = Len(rest) + Len(Later)
      /\ strBuf' \o (rest \o Later) = Bytes(sent)
      /\ Len(strBuf' \o (rest \o Later)) = Len(strBuf') + Len(rest \o Later)
  <2>1. rest \o Later \in Seq(Byte) /\ Len(rest \o Later) = Len(rest) + Len(Later)
    BY <1>1, <1>4, ConcatProperties
  <2>2. strBuf' \o (rest \o Later) = strBuf' \o rest \o Later
    <3>1. \A a, b, c \in Seq(Byte) : a \o (b \o c) = (a \o b) \o c
      BY Associative, Zenon
    <3>2. strBuf' \in Seq(Byte) /\ rest \in Seq(Byte) /\ Later \in Seq(Byte)
      BY <1>1, <1>3, <1>4
    <3> QED
      BY <3>1, <3>2
  <2>3. Len(strBuf' \o (rest \o Later)) = Len(strBuf') + Len(rest \o Later)
    BY <1>3, <2>1, ConcatProperties
  <2> QED
    BY <1>6, <2>1, <2>2, <2>3
<1>8. Len(Bytes(sent)) = Len(Outgoing[sent]) /\ Bytes(sent) \in Seq(Byte)
  BY <1>2, BytesType
<1> DEFINE p == Len(strBuf')
<1>9. /\ p \in 1..Len(Outgoing[sent]) /\ p \in Nat
      /\ Len(Outgoing[sent]) = p + (Len(wire) - m) + Len(Later)
  <2>1. p \in Nat /\ 1 <= p
    BY <1>1, <1>3, <1>4
  <2> QED
    <3>1. Len(Outgoing[sent]) = p + ((Len(wire) - m) + Len(Later))
      BY <1>4, <1>7, <1>8
    <3>2. Len(wire) - m >= 0
      BY <1>1, <1>4
    <3> QED
      BY <1>1, <1>4, <2>1, <3>1, <3>2
<1>10. SubSeq(Bytes(sent), 1, p) = strBuf'
  <2>1. 1 \in 1..p /\ p \in 1..p
    BY <1>9
  <2>2. SubSeq(strBuf' \o (rest \o Later), 1, p) = SubSeq(strBuf', 1, p)
    BY <1>3, <1>7, <2>1, SubSeqOfConcat1
  <2>3. SubSeq(strBuf', 1, p) = strBuf'
    BY <1>3, SubSeqFull
  <2> QED
    BY <1>7, <2>2, <2>3
<1>11. /\ Depth(strBuf') >= 0 /\ Token(strBuf'[1]) = "open"
       /\ Depth(strBuf') = 0 <=> p = Len(Outgoing[sent])
  BY <1>2, <1>9, <1>10, DepthOfMessage
<1>12. Parses(strBuf') <=> p = Len(Outgoing[sent])
  BY <1>11 DEF Parses
<1>13. Depth(strBuf') \in Int
  BY <1>3, DepthOfPlaces
<1>14. m = k
  <2>1. CASE p = Len(Outgoing[sent])
    BY <1>1, <1>4, <1>9, <2>1
  <2>2. CASE p # Len(Outgoing[sent])
    BY <1>3, <1>11, <1>13, <2>2
  <2> QED
    BY <2>1, <2>2
<1>15. wire' = rest
  BY <1>3, <1>14 DEF rest
<1>16. ASSUME p = Len(Outgoing[sent])
       PROVE  HasAction(strBuf') /\ wire' = <<>> /\ Later = <<>>
  <2>1. strBuf' = Bytes(sent)
    BY <1>8, <1>10, <1>16, SubSeqFull
  <2>2. strBuf'[1][1] = sent
    BY <1>2, <1>9, <2>1, BytesType
  <2>3. HasAction(strBuf')
    BY <2>1, <2>2 DEF HasAction
  <2>4. Len(rest) = 0 /\ Len(Later) = 0
    BY <1>1, <1>4, <1>9, <1>16
  <2>5. rest = <<>> /\ Later = <<>>
    BY <1>1, <1>4, <2>4, EmptySeq
  <2> QED
    BY <1>15, <2>3, <2>5
<1> QED
  BY <1>1, <1>2, <1>6, <1>9, <1>12, <1>15, <1>16

(* What is written or lost stays where it was in the message.              *)
LEMMA PatientWrite ==
    ASSUME CommonInv, PatientInv, window = 1, NEW k \in 1..Len(out), Write(k)
    PROVE  PatientInv'
<1>1. /\ Len(got) \in Nat /\ sent \in Nat
      /\ wire \in Seq(Byte) /\ out \in Seq(Byte) /\ Held \in Seq(Byte)
  BY DEF CommonInv, TypeOK, Held
<1>2. /\ ~closed /\ ~broken /\ wire' = wire \o SubSeq(out, 1, k)
      /\ out' = SubSeq(out, k + 1, Len(out)) /\ lost' = lost
      /\ broken' = broken /\ UNCHANGED <<sent, pc, got, ended, closed>>
      /\ Held' = Held
  BY DEF Write, link, Held
<1>3. ~ended /\ pc # "crashed" /\ pc # "thrown"
  BY <1>2 DEF PatientInv
<1>4. out # <<>>
  <2>1. Len(out) # 0
    BY <1>1
  <2> QED
    BY <2>1, EmptySeq
<1>5. sent = Len(got) + 1 /\ Held \o wire \o Later = Bytes(sent)
  BY <1>3, <1>4, InFlight
<1>6. lost = <<>> /\ sent > Len(got)
  <2>1. sent > Len(got)
    BY <1>1, <1>5
  <2> QED
    BY <1>2, <1>3, <1>4, <2>1 DEF PatientInv
<1> DEFINE a == SubSeq(out, 1, k)
           b == SubSeq(out, k + 1, Len(out))
<1>7. a \in Seq(Byte) /\ b \in Seq(Byte) /\ a \o b = out
  <2>1. k \in 0..Len(out)
    BY <1>1
  <2> QED
    BY <1>1, <2>1, Split
<1>8. wire' = wire \o a /\ out' = b
  BY <1>2
<1> HIDE DEF a, b
<1>9. Later = out /\ Later' = b
  BY <1>1, <1>2, <1>6, <1>7, <1>8, ConcatEmptySeq DEF Later
<1>10. Held' \o wire' \o Later' = Held \o wire \o Later
  <2>1. Held \o wire \in Seq(Byte)
    BY <1>1, ConcatProperties
  <2>2. Held \o (wire \o a) = (Held \o wire) \o a
    BY <1>1, <1>7, Associative, Zenon
  <2>3. ((Held \o wire) \o a) \o b = (Held \o wire) \o (a \o b)
    BY <1>7, <2>1, Associative, Zenon
  <2> QED
    BY <1>2, <1>7, <1>8, <1>9, <2>2, <2>3
<1>11. /\ Held' \o wire' \o Later' = Bytes(sent')
       /\ Len(Held') < Len(Outgoing[sent'])
  <2>1. Bytes(sent') = Bytes(sent) /\ Outgoing[sent'] = Outgoing[sent]
    BY <1>2
  <2>2. Held' \o wire' \o Later' = Bytes(sent)
    BY <1>5, <1>10
  <2>3. Len(Held) < Len(Outgoing[sent])
    BY <1>3, <1>6 DEF PatientInv
  <2> QED
    BY <1>2, <2>1, <2>2, <2>3
<1>12. /\ sent' # Len(got') /\ ~ended' /\ pc' # "crashed" /\ pc' # "thrown"
       /\ lost' = <<>>
  BY <1>1, <1>2, <1>3, <1>5, <1>6
<1> QED
  BY <1>11, <1>12 DEF PatientInv, Later

LEMMA PatientLoss ==
    ASSUME CommonInv, PatientInv, window = 1, WriteNothing \/ WriteFails \/ Break
    PROVE  PatientInv'
<1>1. /\ Len(got) \in Nat /\ sent \in Nat /\ sent - Len(got) \in 0..1
      /\ wire \in Seq(Byte) /\ out \in Seq(Byte) /\ lost \in Seq(Byte)
      /\ Held \in Seq(Byte) /\ Len(wire) \in Nat
      /\ Later \in Seq(Byte)
  BY LaterType DEF CommonInv, TypeOK, Held
<1>2. UNCHANGED <<window, sent, pc, got, ended>> /\ Held' = Held
      /\ closed \in BOOLEAN /\ (closed => closed') /\ (broken => broken')
  BY DEF WriteNothing, WriteFails, Break, peer, Held, CommonInv, TypeOK
<1>3. CASE WriteNothing \/ WriteFails
  <2>1. /\ wire' = wire /\ ~closed /\ out # <<>> /\ out' = <<>>
        /\ lost' = lost \o out /\ broken' = broken
        /\ WriteNothing \/ broken
    BY <1>3 DEF WriteNothing, WriteFails
  <2>2. Later' = Later
    BY <1>1, <2>1, ConcatEmptySeq DEF Later
  <2>3. sent # Len(got) /\ ~ended
    BY <2>1 DEF PatientInv
  <2> QED
    BY <1>2, <2>1, <2>2, <2>3 DEF PatientInv, Later
<1>4. CASE Break
  <2>1. PICK k \in 0..Len(wire) :
           /\ wire' = SubSeq(wire, 1, k)
           /\ lost' = SubSeq(wire, k + 1, Len(wire)) \o lost
    BY <1>4 DEF Break
  <2> DEFINE a == SubSeq(wire, 1, k)
             b == SubSeq(wire, k + 1, Len(wire))
  <2>2. a \in Seq(Byte) /\ b \in Seq(Byte) /\ a \o b = wire
    BY <1>1, Split
  <2>3. wire' = a /\ lost' = b \o lost /\ out' = out /\ broken' = TRUE
    BY <1>4, <2>1 DEF Break, peer
  <2> HIDE DEF a, b
  <2>4. wire = <<>> => a = <<>> /\ b = <<>>
    <3>1. Len(a) \in Nat /\ Len(b) \in Nat /\ Len(wire) = Len(a) + Len(b)
      BY <2>2, ConcatProperties
    <3>2. wire = <<>> => Len(a) = 0 /\ Len(b) = 0
      BY <3>1
    <3> QED
      BY <2>2, <3>2, EmptySeq
  <2>5. Held' \o wire' \o Later' = Held \o wire \o Later
    <3>1. Held \o a \in Seq(Byte)
      BY <1>1, <2>2, ConcatProperties
    <3>2. (b \o lost) \o out = b \o (lost \o out)
      <4>1. b \in Seq(Byte) /\ lost \in Seq(Byte) /\ out \in Seq(Byte)
        BY <1>1, <2>2
      <4> QED
        BY <4>1, Associative
    <3>3. (Held \o a) \o (b \o Later) = ((Held \o a) \o b) \o Later
      BY <1>1, <2>2, <3>1, Associative, Zenon
    <3>4. (Held \o a) \o b = Held \o (a \o b)
      BY <1>1, <2>2, Associative, Zenon
    <3>5. Later' = b \o Later
      <4>1. Later' = lost' \o out' /\ Later = lost \o out
        BY DEF Later
      <4> QED
        BY <2>3, <3>2, <4>1, Zenon
    <3> QED
      BY <1>2, <2>2, <2>3, <3>3, <3>4, <3>5
  <2>6. wire = <<>> => wire' = <<>> /\ lost' = lost
    BY <1>1, <2>3, <2>4, ConcatEmptySeq
  <2>7. sent > Len(got) /\ ~ended /\ pc # "thrown" =>
           Held' \o wire' \o Later' = Bytes(sent')
    BY <1>2, <2>5 DEF PatientInv, Later
  <2>8. broken' = TRUE /\ out' = out
    BY <2>3
  <2> HIDE DEF a, b
  <2> QED
    BY <1>2, <2>6, <2>7, <2>8 DEF PatientInv, Later
<1> QED
  BY <1>3, <1>4

LEMMA PatientInductive ==
    CommonInv /\ PatientInv /\ [Next]_vars => PatientInv'
<1> SUFFICES ASSUME CommonInv, PatientInv, [Next]_vars, window' = 1
             PROVE  PatientInv'
  BY DEF PatientInv
<1>1. window = 1
  BY DEF Next, Receiver, PeerSends, SendMessage, Close, Write, WriteNothing,
         WriteFails, Break, Call, ReadMore, ReadMessage, ReadFragment,
         ReadEndOfFile, ReadFails, Read, vars, peer
<1>2. /\ Len(got) \in Nat /\ sent \in Nat /\ sent - Len(got) \in 0..1
      /\ wire \in Seq(Byte) /\ out \in Seq(Byte) /\ Held \in Seq(Byte)
  BY <1>1, MessageAssumption DEF CommonInv, TypeOK, Held
<1>3. CASE PeerSends
  <2>1. /\ ~closed /\ sent - Len(got) < 1 /\ sent + 1 \in 1..Len(Outgoing)
        /\ sent' = sent + 1 /\ out' = Bytes(sent + 1) /\ wire' = wire
        /\ pc' = pc /\ Held' = Held /\ got' = got /\ ended' = ended
        /\ closed' = closed /\ lost' = lost /\ broken' = broken
    BY <1>1, <1>2, <1>3, MessageAssumption
       DEF PeerSends, SendMessage, link, Held, CommonInv, TypeOK
  <2>2. sent = Len(got) /\ Held = <<>> /\ wire = <<>> /\ lost = <<>>
    <3>1. sent = Len(got)
      BY <1>2, <2>1
    <3> QED
      BY <1>1, <3>1 DEF PatientInv
  <2>3. /\ Bytes(sent + 1) \in Seq(Byte)
        /\ Len(Bytes(sent + 1)) = Len(Outgoing[sent + 1])
        /\ Bytes(sent + 1) # <<>>
    BY <2>1, BytesType
  <2>4. <<>> \o <<>> \o (<<>> \o Bytes(sent + 1)) = Bytes(sent + 1)
    <3>1. <<>> \in Seq(Byte) /\ <<>> \o <<>> = <<>>
      BY EmptySeq, ConcatEmptySeq
    <3>2. <<>> \o Bytes(sent + 1) = Bytes(sent + 1)
      BY <2>3, ConcatEmptySeq
    <3> QED
      BY <3>1, <3>2
  <2>5. Len(<<>>) = 0 /\ Len(Outgoing[sent + 1]) > 0
    BY <2>3, EmptySeq
  <2>6. sent' # Len(got')
    BY <1>2, <2>1, <2>2
  <2>7. /\ Held' \o wire' \o (lost' \o out') = Bytes(sent')
        /\ Len(Held') < Len(Outgoing[sent']) /\ lost' = <<>>
    BY <2>1, <2>2, <2>4, <2>5
  <2>8. /\ pc' # "crashed" /\ ~ended'
        /\ pc' = "thrown" => broken' /\ wire' = <<>>
    BY <1>1, <2>1 DEF PatientInv
  <2> QED
    BY <2>6, <2>7, <2>8 DEF PatientInv
<1>4. CASE \/ \E k \in 1..Len(out) : Write(k)
           \/ WriteNothing \/ WriteFails \/ Break
  BY <1>1, <1>4, PatientWrite, PatientLoss
<1>5. CASE Close \/ UNCHANGED vars
  <2>1. /\ sent' = sent /\ out' = out /\ wire' = wire /\ pc' = pc
        /\ strBuf' = strBuf /\ got' = got /\ ended' = ended
        /\ closed => closed'
        /\ broken' = broken /\ lost' = lost
    BY <1>5 DEF Close, vars, peer, link
  <2>2. Held' = Held
    BY <2>1 DEF Held
  <2> QED
    BY <1>1, <2>1, <2>2 DEF PatientInv
<1>6. CASE Call
  <2>1. /\ sent' = sent /\ out' = out /\ wire' = wire /\ pc' = "reading"
        /\ got' = got /\ ended' = ended /\ closed' = closed
        /\ Held' = <<>> /\ Held = <<>> /\ pc = "idle"
        /\ lost' = lost /\ broken' = broken
    BY <1>6 DEF Call, peer, link, Held
  <2> QED
    BY <1>1, <2>1 DEF PatientInv
<1>7. CASE ReadEndOfFile
  <2>1. /\ sent' = sent /\ out' = out /\ wire' = wire /\ wire = <<>>
        /\ pc' = "idle" /\ got' = got /\ ended' = TRUE
        /\ closed' = closed /\ closed = TRUE /\ Held' = <<>>
        /\ lost' = lost
    BY <1>7 DEF ReadEndOfFile, peer, link, Held
  <2> QED
    BY <1>1, <2>1 DEF PatientInv
<1>11. CASE ReadFails
  <2>1. /\ UNCHANGED <<sent, out, wire, got, ended, closed, broken, lost>>
        /\ wire = <<>> /\ broken /\ pc' = "thrown" /\ Held' = <<>>
    BY <1>11 DEF ReadFails, peer, link, Held
  <2> QED
    BY <1>1, <2>1 DEF PatientInv
<1>8. ASSUME NEW k \in 1..Len(wire), ReadMore(k) PROVE PatientInv'
  <2>1. /\ Read(k) /\ ~Parses(strBuf') /\ sent' = sent /\ out' = out
        /\ pc' = "reading" /\ got' = got /\ ended' = ended
        /\ Held' = strBuf' /\ lost' = lost /\ broken' = broken
        /\ pc = "reading" /\ Later' = Later
    BY <1>8 DEF ReadMore, Read, peer, link, Held, Later
  <2>2. /\ ~ended /\ sent = Len(got) + 1
        /\ strBuf' \o wire' \o Later = Bytes(sent)
        /\ Len(strBuf') <= Len(Outgoing[sent])
        /\ Len(strBuf') # Len(Outgoing[sent])
    BY <1>1, <2>1, PatientRead
  <2>3. Len(strBuf') \in Nat /\ Len(Outgoing[sent]) \in Nat
    <3>1. strBuf' \in Seq(Byte)
      BY <2>1, ReadKeeps DEF CommonInv
    <3>2. sent \in 1..Len(Outgoing)
      BY <1>2, <2>2 DEF CommonInv, TypeOK
    <3>3. Len(Bytes(sent)) \in Nat /\ Len(Bytes(sent)) = Len(Outgoing[sent])
      BY <3>2, BytesType
    <3> QED
      BY <3>1, <3>3
  <2>4. Len(Held') < Len(Outgoing[sent])
    BY <2>1, <2>2, <2>3
  <2>5. lost # <<>> => broken \/ out = <<>>
    BY <1>1, <1>2, <2>1, <2>2 DEF PatientInv
  <2>6. Held' \o wire' \o (lost' \o out') = Bytes(sent)
    BY <2>1, <2>2 DEF Later
  <2> QED
    BY <1>2, <2>1, <2>2, <2>4, <2>5, <2>6 DEF PatientInv
<1>9. ASSUME NEW k \in 1..Len(wire), ReadMessage(k) PROVE PatientInv'
  <2>1. /\ Read(k) /\ Parses(strBuf') /\ sent' = sent /\ out' = out
        /\ pc' = "idle" /\ got' = Append(got, strBuf'[1][1])
        /\ ended' = ended /\ Held' = <<>> /\ lost' = lost
    BY <1>9 DEF ReadMessage, peer, link, Held
  <2>2. /\ ~ended /\ sent = Len(got) + 1 /\ wire' = <<>>
        /\ lost = <<>> /\ out = <<>>
    BY <1>1, <2>1, PatientRead, LaterType
  <2>3. Len(got') = Len(got) + 1
    BY <2>1 DEF CommonInv, TypeOK
  <2> QED
    BY <1>2, <2>1, <2>2, <2>3 DEF PatientInv
<1>10. ASSUME NEW k \in 1..Len(wire), ReadFragment(k) PROVE FALSE
  <2>1. Read(k) /\ Parses(strBuf') /\ ~HasAction(strBuf')
    BY <1>10 DEF ReadFragment
  <2> QED
    BY <1>1, <2>1, PatientRead
<1> QED
  BY <1>3, <1>4, <1>5, <1>6, <1>7, <1>8, <1>9, <1>10, <1>11 DEF Next, Receiver

LEMMA PatientAtStart == Init => PatientInv
<1> SUFFICES ASSUME Init PROVE PatientInv
  OBVIOUS
<1>1. /\ Held = <<>> /\ wire = <<>> /\ out = <<>> /\ pc = "idle"
      /\ sent = 0 /\ Len(got) = 0 /\ ~ended /\ lost = <<>>
  BY DEF Init, Held
<1> QED
  BY <1>1 DEF PatientInv

LEMMA PatientInvariant == Spec => []PatientInv
<1> QED
  BY PatientAtStart, PatientInductive, CommonInvariant, PTL DEF Spec

(* A message of a peer that waits loses nothing but what a broken          *)
(* connection or a failed write swallowed: its bytes are kept, on the      *)
(* wire, swallowed or to be written, in this order.                        *)
THEOREM NothingIsLost == Spec => []NothingLost
<1>1. PatientInv => NothingLost
  BY DEF PatientInv, NothingLost, Held
<1> QED
  BY <1>1, PatientInvariant, PTL

(* No part of a message of a peer that waits is taken for a message: the   *)
(* text of a read is an object only when it is the whole message.          *)
THEOREM NoFragmentIsRead == Spec => []NoFragment
<1>1. PatientInv => NoFragment
  BY DEF PatientInv, NoFragment
<1> QED
  BY <1>1, PatientInvariant, PTL
==============================================================================
