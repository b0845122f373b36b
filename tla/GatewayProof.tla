----------------------------- MODULE GatewayProof -----------------------------
(***************************************************************************)
(* Proofs about the conversion and the gateway, for every width of the     *)
(* fields, every size of the table and any number of devices and           *)
(* conversations.                                                          *)
(*                                                                         *)
(* The first sections are about texts: what match finds in a text that was *)
(* put together field by field, and what a field of bytes or of characters *)
(* reads as after it was printed.  Then come the kinds of packets, one by  *)
(* one, and at last the gateway as a state machine.                        *)
(***************************************************************************)
EXTENDS Gateway, RoutingTableProof, SequenceTheorems

-----------------------------------------------------------------------------
(* Looking for a key.                                                      *)

(* A sequence of entries, whatever their values are.                       *)
IsText(s) == \E E : s \in Seq(E)

LEMMA TextLength ==
  ASSUME NEW s, IsText(s)
  PROVE  DOMAIN s = 1 .. Len(s) /\ Len(s) \in Nat
BY LenProperties DEF IsText

(* match returns the value of the first entry with the key.                *)
LEMMA MatchFirst ==
  ASSUME NEW text, IsText(text), NEW key, NEW k \in 1 .. Len(text), text[k].key = key,
         \A j \in 1 .. k - 1 : text[j].key # key
  PROVE  Matched(text, key) = <<text[k].value>>
<1> DEFINE found == {j \in DOMAIN text : text[j].key = key}
<1>1. DOMAIN text = 1 .. Len(text) /\ Len(text) \in Nat
  BY TextLength
<1>2. found \in SUBSET Nat /\ k \in found
  BY <1>1
<1>3. Min(found) \in found /\ \A j \in found : Min(found) <= j
  BY <1>2, MinOfNaturals
<1>4. PICK m \in 1 .. Len(text) : m = Min(found) /\ text[m].key = key
  BY <1>1, <1>3
<1>5. m = k
  <2>1. m <= k
    BY <1>2, <1>3, <1>4
  <2>2. ~ (m \in 1 .. k - 1)
    BY <1>4
  <2> QED
    BY <1>1, <2>1, <2>2
<1> QED
  BY <1>2, <1>4, <1>5 DEF Matched

(* Without such an entry it returns nothing.                               *)
LEMMA MatchNone ==
  ASSUME NEW text, IsText(text), NEW key, \A j \in 1 .. Len(text) : text[j].key # key
  PROVE  Matched(text, key) = <<>>
<1>1. DOMAIN text = 1 .. Len(text)
  BY TextLength
<1> QED
  BY <1>1 DEF Matched

LEMMA FirstEntry ==
  ASSUME NEW text, IsText(text), NEW key
  PROVE  \/ \A j \in 1 .. Len(text) : text[j].key # key
         \/ \E k \in 1 .. Len(text) : /\ text[k].key = key
                                       /\ \A j \in 1 .. k - 1 : text[j].key # key
<1> SUFFICES ASSUME NEW i \in 1 .. Len(text), text[i].key = key
             PROVE  \E k \in 1 .. Len(text) : /\ text[k].key = key
                                              /\ \A j \in 1 .. k - 1 : text[j].key # key
  OBVIOUS
<1> DEFINE found == {j \in 1 .. Len(text) : text[j].key = key}
<1>1. Len(text) \in Nat
  BY TextLength
<1>2. found \in SUBSET Nat /\ found # {}
  OBVIOUS
<1>3. PICK m \in 1 .. Len(text) : text[m].key = key /\ \A j \in found : m <= j
  BY <1>2, MinOfNaturals
<1>4. ASSUME NEW j \in 1 .. m - 1 PROVE text[j].key # key
  <2>1. j \in 1 .. Len(text) /\ ~ (m <= j)
    BY <1>1
  <2> QED
    BY <1>3, <2>1
<1> QED
  BY <1>3, <1>4

Field(k, v) == <<[key |-> k, value |-> v]>>

LEMMA FieldAlone ==
  ASSUME NEW k, NEW v
  PROVE  /\ IsText(Field(k, v))
         /\ \A key : Matched(Field(k, v), key) = IF k = key THEN <<v>> ELSE <<>>
<1> DEFINE e == [key |-> k, value |-> v]
           text == <<e>>
<1>1. e.key = k /\ e.value = v
  OBVIOUS
<1>2. text = Field(k, v)
  BY DEF Field
<1> HIDE DEF e
<1>3. text \in Seq({e}) /\ Len(text) = 1 /\ text[1] = e
  OBVIOUS
<1>4. IsText(text)
  BY <1>3 DEF IsText
<1> HIDE DEF text
<1>5. ASSUME NEW key, k = key PROVE Matched(text, key) = <<v>>
  <2>1. text[1].key = key /\ 1 \in 1 .. Len(text) /\ \A j \in 1 .. 1 - 1 : text[j].key # key
    BY <1>1, <1>3, <1>5
  <2>2. Matched(text, key) = <<text[1].value>>
    BY <1>4, <2>1, MatchFirst
  <2> QED
    BY <1>1, <1>3, <2>2
<1>6. ASSUME NEW key, k # key PROVE Matched(text, key) = <<>>
  <2>1. \A j \in 1 .. Len(text) : text[j].key # key
    BY <1>1, <1>3, <1>6
  <2> QED
    BY <1>4, <2>1, MatchNone
<1> QED
  BY <1>2, <1>4, <1>5, <1>6

(* Concatenation under a name that the provers leave alone.                *)
s ++ t == s \o t

(* A key is looked for in the first text, then in the second.              *)
LEMMA MatchConcat ==
  ASSUME NEW s, IsText(s), NEW t, IsText(t), NEW key
  PROVE  /\ IsText(s ++ t)
         /\ Matched(s ++ t, key) = IF Matched(s, key) # <<>> THEN Matched(s, key)
                                      ELSE Matched(t, key)
<1> DEFINE st == s ++ t
<1>1. /\ IsText(st)
      /\ Len(s) \in Nat /\ Len(t) \in Nat
      /\ Len(st) = Len(s) + Len(t)
      /\ \A i \in 1 .. Len(s) : st[i] = s[i]
      /\ \A i \in 1 .. Len(t) : st[Len(s) + i] = t[i]
  <2>1. PICK E, F : s \in Seq(E) /\ t \in Seq(F)
    BY DEF IsText
  <2> DEFINE G == E \cup F
  <2>2. s \in Seq(G) /\ t \in Seq(G)
    BY <2>1, SeqMonotonic
  <2> HIDE DEF G
  <2> QED
    BY <2>2, ConcatProperties, LenProperties DEF IsText, ++
<1> DEFINE First(u, k) == u[k].key = key /\ \A j \in 1 .. k - 1 : u[j].key # key
<1>2. ASSUME NEW u, IsText(u)
      PROVE  (\A j \in 1 .. Len(u) : u[j].key # key) \/ \E k \in 1 .. Len(u) : First(u, k)
  BY <1>2, FirstEntry
<1>3. CASE \E k \in 1 .. Len(s) : First(s, k)
  <2>1. PICK k \in 1 .. Len(s) : First(s, k)
    BY <1>3
  <2>2. Matched(s, key) = <<s[k].value>>
    BY <2>1, MatchFirst
  <2>3. k \in 1 .. Len(st) /\ First(st, k) /\ st[k] = s[k]
    BY <1>1, <2>1
  <2>4. Matched(st, key) = <<st[k].value>>
    BY <1>1, <2>3, MatchFirst
  <2> QED
    BY <1>1, <2>2, <2>3, <2>4
<1>4. CASE \A j \in 1 .. Len(s) : s[j].key # key
  <2>1. Matched(s, key) = <<>>
    BY <1>4, MatchNone
  <2>2. CASE \E k \in 1 .. Len(t) : First(t, k)
    <3>1. PICK k \in 1 .. Len(t) : First(t, k)
      BY <2>2
    <3>2. Matched(t, key) = <<t[k].value>>
      BY <3>1, MatchFirst
    <3> DEFINE i == Len(s) + k
    <3>3. i \in 1 .. Len(st) /\ st[i] = t[k]
      BY <1>1
    <3>4. ASSUME NEW j \in 1 .. i - 1 PROVE st[j].key # key
      <4>1. CASE j <= Len(s)
        BY <1>1, <1>4, <4>1
      <4>2. CASE j > Len(s)
        <5>1. j - Len(s) \in 1 .. k - 1 /\ j - Len(s) \in 1 .. Len(t)
          BY <1>1, <3>1, <4>2
        <5>2. st[Len(s) + (j - Len(s))] = t[j - Len(s)]
          BY <1>1, <5>1
        <5>3. Len(s) + (j - Len(s)) = j
          BY <1>1
        <5> QED
          BY <3>1, <5>1, <5>2, <5>3
      <4> QED
        BY <1>1, <4>1, <4>2
    <3> HIDE DEF i
    <3>5. st[i].key = key
      BY <3>1, <3>3
    <3>6. Matched(st, key) = <<st[i].value>>
      BY <1>1, <3>3, <3>4, <3>5, MatchFirst
    <3> QED
      BY <1>1, <2>1, <3>2, <3>3, <3>6
  <2>3. CASE \A j \in 1 .. Len(t) : t[j].key # key
    <3>1. Matched(t, key) = <<>>
      BY <2>3, MatchNone
    <3>2. ASSUME NEW j \in 1 .. Len(st) PROVE st[j].key # key
      <4>1. CASE j <= Len(s)
        BY <1>1, <1>4, <4>1
      <4>2. CASE j > Len(s)
        <5>1. j - Len(s) \in 1 .. Len(t) /\ Len(s) + (j - Len(s)) = j
          BY <1>1, <4>2
        <5> QED
          BY <1>1, <2>3, <5>1
      <4> QED
        BY <1>1, <4>1, <4>2
    <3>3. Matched(st, key) = <<>>
      BY <1>1, <3>2, MatchNone
    <3> QED
      BY <1>1, <2>1, <3>1, <3>3
  <2> QED
    BY <1>2, <2>2, <2>3
<1> QED
  BY <1>2, <1>3, <1>4

-----------------------------------------------------------------------------
(* Fields of bytes.                                                        *)

LEMMA MaxOfRange ==
  ASSUME NEW n \in Nat, NEW S \in SUBSET (1 .. n), S # {}
  PROVE  Max(S) \in S /\ \A j \in S : j <= Max(S)
<1> DEFINE rest == {n - j : j \in S}
<1>1. rest \in SUBSET Nat /\ rest # {}
  <2>1. \A j \in S : n - j \in Nat
    OBVIOUS
  <2> QED
    BY <2>1
<1>2. PICK m \in S : \A r \in rest : n - m <= r
  <2>1. Min(rest) \in rest /\ \A r \in rest : Min(rest) <= r
    BY <1>1, MinOfNaturals
  <2>2. PICK m \in S : Min(rest) = n - m
    BY <2>1
  <2> QED
    BY <2>1, <2>2
<1>3. \A j \in S : m >= j
  <2> SUFFICES ASSUME NEW j \in S PROVE m >= j
    OBVIOUS
  <2>1. n - m <= n - j
    BY <1>2
  <2> QED
    BY <2>1
<1> QED
  BY <1>3 DEF Max

(* What addHexField prints of the bytes of a field.                        *)
Printed(value, size) == addHexField("data", value, size)[1].value

(* A value that does not end in a zero loses the zeros in front; one of    *)
(* zeros alone is printed as one zero.                                     *)
LEMMA HexField ==
  ASSUME NEW width \in Nat, NEW size \in 1 .. width, NEW value \in Bytes(width)
  PROVE  /\ \A key : addHexField(key, value, size)
                     = <<[key |-> key, value |-> Printed(value, size)]>>
         /\ Printed(value, size) \in Seq(Byte)
         /\ value[size] # 0 =>
              \E first \in 1 .. size :
                /\ Len(Printed(value, size)) = size - first + 1
                /\ \A i \in 1 .. size - first + 1 :
                     Printed(value, size)[i] = value[first + i - 1]
                /\ \A i \in 1 .. first - 1 : value[i] = 0
         /\ (\A i \in 1 .. size : value[i] = 0) => Printed(value, size) = <<0>>
<1> DEFINE v == SubSeq(value, 1, size)
           I == {i \in 1 .. Len(v) : NonZero(v[i])}
<1>1. /\ v \in Seq(Byte) /\ Len(v) = size /\ DOMAIN v = 1 .. size
      /\ \A i \in 1 .. size : v[i] = value[i]
  <2>1. \A i \in 1 .. size : value[i] \in Byte
    BY DEF Bytes
  <2>2. /\ v \in Seq(Byte) /\ Len(v) = size
        /\ \A i \in 1 .. size - 1 + 1 : v[i] = value[1 + i - 1]
    BY <2>1, SubSeqProperties
  <2>3. \A i \in 1 .. size : i \in 1 .. size - 1 + 1 /\ 1 + i - 1 = i
    OBVIOUS
  <2> QED
    BY <2>2, <2>3, LenProperties
<1> HIDE DEF v
<1> DEFINE body == IF \E k \in DOMAIN v : v[k] # 0
                   THEN SubSeq(v, SelectInSeq(v, NonZero), SelectLastInSeq(v, NonZero))
                   ELSE <<0>>
<1>2. \A key : addHexField(key, value, size) = <<[key |-> key, value |-> body]>>
  BY DEF addHexField, v
<1> HIDE DEF body
<1>3. Printed(value, size) = body
  <2>1. addHexField("data", value, size) = <<[key |-> "data", value |-> body]>>
    BY <1>2
  <2> QED
    BY <2>1 DEF Printed
<1>4. CASE \E k \in DOMAIN v : v[k] # 0
  <2>1. I \in SUBSET Nat /\ I \in SUBSET (1 .. size) /\ I # {}
    BY <1>1, <1>4 DEF NonZero
  <2> HIDE DEF I
  <2>2. /\ Min(I) \in I /\ \A j \in I : Min(I) <= j
        /\ Max(I) \in I /\ \A j \in I : j <= Max(I)
    <3>1. size \in Nat
      OBVIOUS
    <3> QED
      BY <2>1, <3>1, MinOfNaturals, MaxOfRange
  <2>3. SelectInSeq(v, NonZero) = Min(I) /\ SelectLastInSeq(v, NonZero) = Max(I)
    BY <2>1 DEF SelectInSeq, SelectLastInSeq, I
  <2>4. PICK first \in 1 .. size, last \in 1 .. size :
          /\ first = Min(I) /\ last = Max(I)
    BY <2>1, <2>2
  <2>5. Printed(value, size) = SubSeq(v, first, last)
    BY <1>3, <1>4, <2>3, <2>4 DEF body
  <2>6. /\ SubSeq(v, first, last) \in Seq(Byte)
        /\ Len(SubSeq(v, first, last)) = IF first <= last THEN last - first + 1 ELSE 0
        /\ \A i \in 1 .. last - first + 1 : SubSeq(v, first, last)[i] = v[first + i - 1]
    <3>1. \A i \in first .. last : v[i] \in Byte
      BY <1>1, ElementOfSeq
    <3> QED
      BY <3>1, SubSeqProperties
  <2>7. ASSUME value[size] # 0
        PROVE  last = size /\ \A i \in 1 .. first - 1 : value[i] = 0
    <3>1. size \in I
      BY <1>1, <2>7 DEF NonZero, I
    <3>2. last = size
      BY <2>2, <2>4, <3>1
    <3>3. ASSUME NEW i \in 1 .. first - 1 PROVE value[i] = 0
      <4>1. i \in 1 .. size /\ ~ (first <= i)
        OBVIOUS
      <4> QED
        BY <1>1, <2>2, <2>4, <4>1 DEF NonZero, I
    <3> QED
      BY <3>2, <3>3
  <2>8. ASSUME value[size] # 0
        PROVE  /\ Len(Printed(value, size)) = size - first + 1
               /\ \A i \in 1 .. size - first + 1 :
                    Printed(value, size)[i] = value[first + i - 1]
    <3>1. \A i \in 1 .. size - first + 1 : first + i - 1 \in 1 .. size
      OBVIOUS
    <3> QED
      BY <1>1, <2>5, <2>6, <2>7, <2>8, <3>1
  <2> QED
    BY <1>1, <1>2, <1>3, <1>4, <2>5, <2>6, <2>7, <2>8
<1>5. CASE ~ \E k \in DOMAIN v : v[k] # 0
  <2>1. Printed(value, size) = <<0>>
    BY <1>3, <1>5 DEF body
  <2>2. value[size] = 0
    BY <1>1, <1>5
  <2> QED
    BY <1>2, <1>3, <2>1, <2>2 DEF Byte
<1> QED
  BY <1>4, <1>5

LEMMA BytesLength ==
  ASSUME NEW n \in Nat, NEW value \in Bytes(n)
  PROVE  value \in Seq(Byte) /\ Len(value) = n
BY DEF Bytes

LEMMA ZerosLength ==
  ASSUME NEW n \in Nat
  PROVE  Zeros(n) \in Seq(Byte) /\ Len(Zeros(n)) = n /\ \A i \in 1 .. n : Zeros(n)[i] = 0
BY DEF Zeros, Byte

(* Read into a field at least as wide, it is filled up from the left.      *)
LEMMA HexRead ==
  ASSUME NEW width \in Nat, NEW size \in 1 .. width, NEW value \in Bytes(width),
         value[size] # 0, NEW wide \in Nat, wide >= size
  PROVE  LET read == atox(<<Printed(value, size)>>, wide)
         IN  /\ read \in Seq(Byte) /\ Len(read) = wide
             /\ \A i \in 1 .. wide :
                  read[i] = IF i > wide - size THEN value[i - (wide - size)] ELSE 0
<1> DEFINE f    == Printed(value, size)
           read == atox(<<f>>, wide)
<1>1. PICK first \in 1 .. size :
        /\ Len(f) = size - first + 1
        /\ \A i \in 1 .. size - first + 1 : f[i] = value[first + i - 1]
        /\ \A i \in 1 .. first - 1 : value[i] = 0
  BY HexField
<1>2. f \in Seq(Byte)
  BY HexField
<1> HIDE DEF f
<1>3. read = IF Len(f) >= wide THEN SubSeq(f, 1, wide) ELSE Zeros(wide - Len(f)) \o f
  BY DEF atox
<1> HIDE DEF read
<1>4. CASE Len(f) >= wide
  <2>1. Len(f) = wide /\ wide = size /\ first = 1
    BY <1>1, <1>4
  <2>2. read = f
    BY <1>2, <1>3, <1>4, <2>1, SubSeqFull
  <2>3. \A i \in 1 .. wide : i > wide - size /\ i - (wide - size) = first + i - 1
    BY <2>1
  <2> QED
    BY <1>1, <1>2, <2>1, <2>2, <2>3 DEF f, read
<1>5. CASE ~ (Len(f) >= wide)
  <2> DEFINE pad == wide - Len(f)
             z   == Zeros(pad)
  <2>1. pad \in Nat /\ pad + Len(f) = wide
    BY <1>1, <1>5
  <2>2. z \in Seq(Byte) /\ Len(z) = pad /\ \A i \in 1 .. pad : z[i] = 0
    BY <2>1, ZerosLength
  <2> HIDE DEF z
  <2>3. /\ read \in Seq(Byte) /\ Len(read) = pad + Len(f)
        /\ \A i \in 1 .. pad + Len(f) :
             read[i] = IF i <= pad THEN z[i] ELSE f[i - pad]
    <3>1. read = z \o f
      BY <1>3, <1>5 DEF z
    <3> QED
      BY <1>2, <2>2, <3>1, ConcatProperties
  <2>4. ASSUME NEW i \in 1 .. wide
        PROVE  read[i] = IF i > wide - size THEN value[i - (wide - size)] ELSE 0
    <3>1. CASE i <= pad
      <4>1. read[i] = 0
        <5>1. i \in 1 .. pad /\ i \in 1 .. pad + Len(f)
          BY <2>1, <3>1
        <5>2. z[i] = 0
          BY <2>2, <5>1
        <5> QED
          BY <2>3, <3>1, <5>1, <5>2
      <4>2. i > wide - size => i - (wide - size) \in 1 .. first - 1
        BY <1>1, <2>1, <3>1
      <4> QED
        BY <1>1, <4>1, <4>2
    <3>2. CASE i > pad
      <4>1. read[i] = f[i - pad]
        BY <2>1, <2>3, <3>2
      <4>2. /\ i > wide - size
            /\ i - pad \in 1 .. size - first + 1
            /\ first + (i - pad) - 1 = i - (wide - size)
        BY <1>1, <2>1, <3>2
      <4> QED
        BY <1>1, <4>1, <4>2
    <3> QED
      BY <2>1, <3>1, <3>2
  <2> QED
    BY <2>1, <2>3, <2>4 DEF f, read
<1> QED
  BY <1>1, <1>4, <1>5

(* So a field that does not end in a zero byte comes back as it was.       *)
LEMMA HexKept ==
  ASSUME NEW size \in Nat \ {0}, NEW value \in Bytes(size), value[size] # 0
  PROVE  atox(<<Printed(value, size)>>, size) = value
<1> DEFINE read == atox(<<Printed(value, size)>>, size)
<1>1. /\ read \in Seq(Byte) /\ Len(read) = size
      /\ \A i \in 1 .. size :
           read[i] = IF i > size - size THEN value[i - (size - size)] ELSE 0
  BY HexRead
<1> HIDE DEF read
<1>2. value \in Seq(Byte) /\ Len(value) = size
  BY BytesLength
<1>3. \A i \in 1 .. size : read[i] = value[i]
  BY <1>1
<1> QED
  BY <1>1, <1>2, <1>3, SeqEqual DEF read

(* A single byte always does.                                              *)
LEMMA ByteKept ==
  ASSUME NEW value \in Bytes(1)
  PROVE  atox(<<Printed(value, 1)>>, 1) = value
<1>1. CASE value[1] # 0
  BY <1>1, HexKept
<1>2. CASE value[1] = 0
  <2>1. Printed(value, 1) = <<0>>
    BY <1>2, HexField
  <2>2. value \in Seq(Byte) /\ Len(value) = 1
    BY BytesLength
  <2>3. value = <<0>>
    BY <1>2, <2>2
  <2>4. atox(<<<<0>>>>, 1) = SubSeq(<<0>>, 1, 1)
    BY DEF atox
  <2>5. SubSeq(value, 1, Len(value)) = value
    BY <2>2, SubSeqFull
  <2> QED
    BY <2>1, <2>2, <2>3, <2>4, <2>5
<1> QED
  BY <1>1, <1>2

-----------------------------------------------------------------------------
(* Fields of characters.                                                   *)

(* What addCharField prints of the characters of a field.                  *)
Characters(value, size) == addCharField("data", value, size)[1].value

(* A string loses the NULs behind it and gets them back.                   *)
LEMMA CharField ==
  ASSUME NEW size \in Nat, NEW value \in Bytes(size)
  PROVE  /\ \A key : addCharField(key, value, size)
                     = <<[key |-> key, value |-> Characters(value, size)]>>
         /\ Characters(value, size) \in Seq(Byte)
         /\ IsString(value) => Copied(<<Characters(value, size)>>, size) = value
<1> DEFINE nul == {k \in 1 .. size : value[k] = 0}
           end == IF nul = {} THEN size ELSE Min(nul) - 1
           body == SubSeq(value, 1, end)
<1>1. \A key : addCharField(key, value, size) = <<[key |-> key, value |-> body]>>
  BY DEF addCharField
<1>2. end \in 0 .. size /\ (end < size => value[end + 1] = 0)
  <2>1. nul \in SUBSET Nat
    OBVIOUS
  <2>2. nul # {} => Min(nul) \in nul
    BY <2>1, MinOfNaturals
  <2>3. CASE nul = {}
    BY <2>3
  <2>4. CASE nul # {}
    <3>1. PICK k \in 1 .. size : k = Min(nul) /\ value[k] = 0
      BY <2>2, <2>4
    <3>2. end = k - 1
      BY <2>4, <3>1
    <3> QED
      BY <3>1, <3>2
  <2> QED
    BY <2>3, <2>4
<1> HIDE DEF end
<1>3. /\ body \in Seq(Byte) /\ Len(body) = end
      /\ \A i \in 1 .. end : body[i] = value[i]
  <2>1. \A i \in 1 .. end : value[i] \in Byte
    BY <1>2 DEF Bytes
  <2>2. /\ body \in Seq(Byte) /\ Len(body) = IF 1 <= end THEN end - 1 + 1 ELSE 0
        /\ \A i \in 1 .. end - 1 + 1 : body[i] = value[1 + i - 1]
    BY <1>2, <2>1, SubSeqProperties
  <2> QED
    BY <1>2, <2>2
<1> HIDE DEF body
<1>4. Characters(value, size) = body
  <2>1. addCharField("data", value, size) = <<[key |-> "data", value |-> body]>>
    BY <1>1
  <2> QED
    BY <2>1 DEF Characters
<1>5. value \in Seq(Byte) /\ Len(value) = size
  BY BytesLength
<1>6. ASSUME IsString(value) PROVE Copied(<<body>>, size) = value
  <2>1. \A i \in end + 1 .. size : value[i] = 0
    <3> SUFFICES ASSUME NEW i \in end + 1 .. size PROVE value[i] = 0
      OBVIOUS
    <3>1. DOMAIN value = 1 .. size
      BY DEF Bytes
    <3>2. value[end + 1] = 0 /\ end + 1 \in 1 .. size
      BY <1>2
    <3> QED
      BY <1>2, <1>6, <3>1, <3>2 DEF IsString
  <2>2. CASE end >= size
    <3>1. Copied(<<body>>, size) = SubSeq(body, 1, size) /\ end = size
      BY <1>2, <1>3, <2>2 DEF Copied
    <3>2. SubSeq(body, 1, size) = body
      BY <1>3, <3>1, SubSeqFull
    <3> QED
      BY <1>3, <1>5, <3>1, <3>2, SeqEqual
  <2>3. CASE end < size
    <3> DEFINE pad  == size - end
               z    == Zeros(pad)
               read == body \o z
    <3>1. Copied(<<body>>, size) = read
      BY <1>2, <1>3, <2>3 DEF Copied
    <3>2. pad \in Nat /\ end + pad = size
      BY <1>2, <2>3
    <3>3. z \in Seq(Byte) /\ Len(z) = pad /\ \A i \in 1 .. pad : z[i] = 0
      BY <3>2, ZerosLength
    <3> HIDE DEF z
    <3>4. /\ read \in Seq(Byte) /\ Len(read) = end + pad
          /\ \A i \in 1 .. end + pad : read[i] = IF i <= end THEN body[i] ELSE z[i - end]
      BY <1>3, <3>3, ConcatProperties
    <3> HIDE DEF read
    <3>5. ASSUME NEW i \in 1 .. size PROVE read[i] = value[i]
      <4>1. CASE i <= end
        BY <1>2, <1>3, <3>2, <3>4, <4>1
      <4>2. CASE i > end
        <5>1. i - end \in 1 .. pad /\ i \in end + 1 .. size
          BY <1>2, <3>2, <4>2
        <5> QED
          BY <1>2, <2>1, <3>2, <3>3, <3>4, <4>2, <5>1
      <4> QED
        BY <1>2, <4>1, <4>2
    <3> QED
      BY <1>5, <3>1, <3>2, <3>4, <3>5, SeqEqual
  <2> QED
    BY <1>2, <2>2, <2>3
<1> QED
  BY <1>1, <1>3, <1>4, <1>6

-----------------------------------------------------------------------------
(* Texts, field by field.                                                  *)

(* Text c is text b with a field added: the keys of b keep their values.   *)
Grown(b, c, k, v) ==
  /\ IsText(c)
  /\ \A key : Matched(c, key) = IF Matched(b, key) # <<>> THEN Matched(b, key)
                                ELSE IF k = key THEN <<v>> ELSE <<>>

LEMMA FieldAppended ==
  ASSUME NEW s, IsText(s), NEW k, NEW v
  PROVE  Grown(s, s ++ Field(k, v), k, v)
<1>1. IsText(s ++ Field(k, v))
  BY FieldAlone, MatchConcat
<1>2. ASSUME NEW key
      PROVE  Matched(s ++ Field(k, v), key)
             = IF Matched(s, key) # <<>> THEN Matched(s, key)
               ELSE IF k = key THEN <<v>> ELSE <<>>
  <2>1. IsText(Field(k, v)) /\ Matched(Field(k, v), key) = IF k = key THEN <<v>> ELSE <<>>
    BY FieldAlone
  <2>2. Matched(s ++ Field(k, v), key)
        = IF Matched(s, key) # <<>> THEN Matched(s, key) ELSE Matched(Field(k, v), key)
    BY <2>1, MatchConcat
  <2> QED
    BY <2>1, <2>2
<1> QED
  BY <1>1, <1>2 DEF Grown

(* Every text begins with the rdid and the datatype.                       *)
LEMMA Headed ==
  ASSUME NEW rdid, NEW dt, NEW body, IsText(body),
         NEW text, text = Field("rdid", rdid) ++ Field("dt", dt) ++ body
  PROVE  /\ IsText(text)
         /\ Matched(text, "rdid") = <<rdid>> /\ Matched(text, "dt") = <<dt>>
         /\ \A key : key \notin {"rdid", "dt"} => Matched(text, key) = Matched(body, key)
<1> DEFINE h == Field("rdid", rdid)
           hh == h ++ Field("dt", dt)
<1>2. IsText(h) /\ \A key : Matched(h, key) = IF "rdid" = key THEN <<rdid>> ELSE <<>>
  BY FieldAlone
<1> HIDE DEF h
<1>3. /\ IsText(hh)
      /\ \A key : Matched(hh, key) = IF Matched(h, key) # <<>> THEN Matched(h, key)
                                   ELSE IF "dt" = key THEN <<dt>> ELSE <<>>
  BY <1>2, FieldAppended DEF Grown
<1> HIDE DEF hh
<1>4. text = hh ++ body
  BY DEF h, hh
<1>5. IsText(text)
  BY <1>3, <1>4, MatchConcat
<1>6. ASSUME NEW key
      PROVE  Matched(text, key) = IF Matched(hh, key) # <<>> THEN Matched(hh, key)
                                  ELSE Matched(body, key)
  <2>1. Matched(hh ++ body, key)
        = IF Matched(hh, key) # <<>> THEN Matched(hh, key) ELSE Matched(body, key)
    BY <1>3, MatchConcat
  <2> QED
    BY <1>4, <2>1
<1>7. Matched(hh, "rdid") = <<rdid>>
  <2>1. Matched(h, "rdid") = <<rdid>>
    BY <1>2
  <2> QED
    BY <1>3, <2>1
<1>8. Matched(hh, "dt") = <<dt>>
  <2>1. Matched(h, "dt") = <<>>
    BY <1>2
  <2> QED
    BY <1>3, <2>1
<1>9. ASSUME NEW key, key \notin {"rdid", "dt"} PROVE Matched(text, key) = Matched(body, key)
  <2>1. Matched(h, key) = <<>>
    BY <1>2, <1>9
  <2>2. Matched(hh, key) = <<>>
    BY <1>3, <1>9, <2>1
  <2> QED
    BY <1>6, <2>2
<1> QED
  BY <1>5, <1>6, <1>7, <1>8, <1>9

(* The fields of a Peacock, an Eyeball and a Chirp are found under their   *)
(* keys: no key is printed twice.                                          *)
LEMMA PeacockFields ==
  ASSUME NEW v1, NEW v2, NEW v3, NEW v4,
         NEW v5, NEW v6, NEW v7, NEW v8,
         NEW v9, NEW v10, NEW v11,
         NEW body, body = Field("sida", v1) ++ Field("classa", v2) ++ Field("dira", v3)
                          ++ Field("labela", v4) ++ Field("unitsa", v5)
                          ++ Field("sidb", v6) ++ Field("classb", v7) ++ Field("dirb", v8)
                          ++ Field("labelb", v9) ++ Field("unitsb", v10)
                          ++ Field("additional", v11)
  PROVE  /\ IsText(body)
         /\ Matched(body, "sida") = <<v1>> /\ Matched(body, "classa") = <<v2>>
         /\ Matched(body, "dira") = <<v3>> /\ Matched(body, "labela") = <<v4>>
         /\ Matched(body, "unitsa") = <<v5>> /\ Matched(body, "sidb") = <<v6>>
         /\ Matched(body, "classb") = <<v7>> /\ Matched(body, "dirb") = <<v8>>
         /\ Matched(body, "labelb") = <<v9>> /\ Matched(body, "unitsb") = <<v10>>
         /\ Matched(body, "additional") = <<v11>>
<1> DEFINE b1 == Field("sida", v1)
           b2 == b1 ++ Field("classa", v2)
           b3 == b2 ++ Field("dira", v3)
           b4 == b3 ++ Field("labela", v4)
           b5 == b4 ++ Field("unitsa", v5)
           b6 == b5 ++ Field("sidb", v6)
           b7 == b6 ++ Field("classb", v7)
           b8 == b7 ++ Field("dirb", v8)
           b9 == b8 ++ Field("labelb", v9)
           b10 == b9 ++ Field("unitsb", v10)
           b11 == b10 ++ Field("additional", v11)
<1>0. body = b11
  OBVIOUS
<1>1. IsText(b1) /\ \A key : Matched(b1, key) = IF "sida" = key THEN <<v1>> ELSE <<>>
  BY FieldAlone
<1> HIDE DEF b1
<1>2. Grown(b1, b2, "classa", v2)
  BY <1>1, FieldAppended DEF Grown
<1> HIDE DEF b2
<1>3. Grown(b2, b3, "dira", v3)
  BY <1>2, FieldAppended DEF Grown
<1> HIDE DEF b3
<1>4. Grown(b3, b4, "labela", v4)
  BY <1>3, FieldAppended DEF Grown
<1> HIDE DEF b4
<1>5. Grown(b4, b5, "unitsa", v5)
  BY <1>4, FieldAppended DEF Grown
<1> HIDE DEF b5
<1>6. Grown(b5, b6, "sidb", v6)
  BY <1>5, FieldAppended DEF Grown
<1> HIDE DEF b6
<1>7. Grown(b6, b7, "classb", v7)
  BY <1>6, FieldAppended DEF Grown
<1> HIDE DEF b7
<1>8. Grown(b7, b8, "dirb", v8)
  BY <1>7, FieldAppended DEF Grown
<1> HIDE DEF b8
<1>9. Grown(b8, b9, "labelb", v9)
  BY <1>8, FieldAppended DEF Grown
<1> HIDE DEF b9
<1>10. Grown(b9, b10, "unitsb", v10)
  BY <1>9, FieldAppended DEF Grown
<1> HIDE DEF b10
<1>11. Grown(b10, b11, "additional", v11)
  BY <1>10, FieldAppended DEF Grown
<1> HIDE DEF b11
<1>12. Matched(b11, "sida") = <<v1>>
  <2>1. Matched(b6, "sida") = <<v1>>
    BY <1>1, <1>2, <1>3, <1>4, <1>5, <1>6 DEF Grown
  <2> QED
    BY <2>1, <1>7, <1>8, <1>9, <1>10, <1>11 DEF Grown
<1>13. Matched(b11, "classa") = <<v2>>
  <2>1. Matched(b6, "classa") = <<v2>>
    BY <1>1, <1>2, <1>3, <1>4, <1>5, <1>6 DEF Grown
  <2> QED
    BY <2>1, <1>7, <1>8, <1>9, <1>10, <1>11 DEF Grown
<1>14. Matched(b11, "dira") = <<v3>>
  <2>1. Matched(b6, "dira") = <<v3>>
    BY <1>1, <1>2, <1>3, <1>4, <1>5, <1>6 DEF Grown
  <2> QED
    BY <2>1, <1>7, <1>8, <1>9, <1>10, <1>11 DEF Grown
<1>15. Matched(b11, "labela") = <<v4>>
  <2>1. Matched(b6, "labela") = <<v4>>
    BY <1>1, <1>2, <1>3, <1>4, <1>5, <1>6 DEF Grown
  <2> QED
    BY <2>1, <1>7, <1>8, <1>9, <1>10, <1>11 DEF Grown
<1>16. Matched(b11, "unitsa") = <<v5>>
  <2>1. Matched(b6, "unitsa") = <<v5>>
    BY <1>1, <1>2, <1>3, <1>4, <1>5, <1>6 DEF Grown
  <2> QED
    BY <2>1, <1>7, <1>8, <1>9, <1>10, <1>11 DEF Grown
<1>17. Matched(b11, "sidb") = <<v6>>
  BY <1>1, <1>2, <1>3, <1>4, <1>5, <1>6, <1>7, <1>8, <1>9, <1>10, <1>11 DEF Grown
<1>18. Matched(b11, "classb") = <<v7>>
  BY <1>1, <1>2, <1>3, <1>4, <1>5, <1>6, <1>7, <1>8, <1>9, <1>10, <1>11 DEF Grown
<1>19. Matched(b11, "dirb") = <<v8>>
  BY <1>1, <1>2, <1>3, <1>4, <1>5, <1>6, <1>7, <1>8, <1>9, <1>10, <1>11 DEF Grown
<1>20. Matched(b11, "labelb") = <<v9>>
  BY <1>1, <1>2, <1>3, <1>4, <1>5, <1>6, <1>7, <1>8, <1>9, <1>10, <1>11 DEF Grown
<1>21. Matched(b11, "unitsb") = <<v10>>
  BY <1>1, <1>2, <1>3, <1>4, <1>5, <1>6, <1>7, <1>8, <1>9, <1>10, <1>11 DEF Grown
<1>22. Matched(b11, "additional") = <<v11>>
  BY <1>1, <1>2, <1>3, <1>4, <1>5, <1>6, <1>7, <1>8, <1>9, <1>10, <1>11 DEF Grown
<1> QED
  BY <1>0, <1>11, <1>12, <1>13, <1>14, <1>15, <1>16, <1>17, <1>18, <1>19, <1>20, <1>21,
     <1>22 DEF Grown

LEMMA EyeballFields ==
  ASSUME NEW v1, NEW v2, NEW v3, NEW v4, NEW v5,
         NEW body, body = Field("manid", v1) ++ Field("modnum", v2) ++ Field("sn", v3)
                       ++ Field("profile", v4) ++ Field("mode", v5)
  PROVE  /\ IsText(body)
         /\ Matched(body, "manid") = <<v1>>
         /\ Matched(body, "modnum") = <<v2>>
         /\ Matched(body, "sn") = <<v3>>
         /\ Matched(body, "profile") = <<v4>>
         /\ Matched(body, "mode") = <<v5>>
<1> DEFINE b1 == Field("manid", v1)
           b2 == b1 ++ Field("modnum", v2)
           b3 == b2 ++ Field("sn", v3)
           b4 == b3 ++ Field("profile", v4)
           b5 == b4 ++ Field("mode", v5)
<1>0. body = b5
  OBVIOUS
<1>1. IsText(b1) /\ \A key : Matched(b1, key) = IF "manid" = key THEN <<v1>> ELSE <<>>
  BY FieldAlone
<1> HIDE DEF b1
<1>2. Grown(b1, b2, "modnum", v2)
  BY <1>1, FieldAppended DEF Grown
<1> HIDE DEF b2
<1>3. Grown(b2, b3, "sn", v3)
  BY <1>2, FieldAppended DEF Grown
<1> HIDE DEF b3
<1>4. Grown(b3, b4, "profile", v4)
  BY <1>3, FieldAppended DEF Grown
<1> HIDE DEF b4
<1>5. Grown(b4, b5, "mode", v5)
  BY <1>4, FieldAppended DEF Grown
<1> HIDE DEF b5
<1>6. Matched(b5, "manid") = <<v1>>
  BY <1>1, <1>2, <1>3, <1>4, <1>5 DEF Grown
<1>7. Matched(b5, "modnum") = <<v2>>
  BY <1>1, <1>2, <1>3, <1>4, <1>5 DEF Grown
<1>8. Matched(b5, "sn") = <<v3>>
  BY <1>1, <1>2, <1>3, <1>4, <1>5 DEF Grown
<1>9. Matched(b5, "profile") = <<v4>>
  BY <1>1, <1>2, <1>3, <1>4, <1>5 DEF Grown
<1>10. Matched(b5, "mode") = <<v5>>
  BY <1>1, <1>2, <1>3, <1>4, <1>5 DEF Grown
<1> QED
  BY <1>0, <1>5, <1>6, <1>7, <1>8, <1>9, <1>10 DEF Grown

LEMMA ChirpFields ==
  ASSUME NEW v1, NEW v2,
         NEW body, body = Field("sid", v1) ++ Field("data", v2)
  PROVE  /\ IsText(body)
         /\ Matched(body, "sid") = <<v1>>
         /\ Matched(body, "data") = <<v2>>
<1> DEFINE b1 == Field("sid", v1)
           b2 == b1 ++ Field("data", v2)
<1>0. body = b2
  OBVIOUS
<1>1. IsText(b1) /\ \A key : Matched(b1, key) = IF "sid" = key THEN <<v1>> ELSE <<>>
  BY FieldAlone
<1> HIDE DEF b1
<1>2. Grown(b1, b2, "data", v2)
  BY <1>1, FieldAppended DEF Grown
<1> HIDE DEF b2
<1>3. Matched(b2, "sid") = <<v1>>
  BY <1>1, <1>2 DEF Grown
<1>4. Matched(b2, "data") = <<v2>>
  BY <1>1, <1>2 DEF Grown
<1> QED
  BY <1>0, <1>2, <1>3, <1>4 DEF Grown

-----------------------------------------------------------------------------
(* What is printed, read back, by the kind of the packet.                  *)

(* The text of a packet.                                                   *)
Spelled(rdid, p) ==
  Field("rdid", rdid) ++ Field("dt", PrintedType(p.datatype)) ++ Fields(p)

LEMMA ConvertPrints ==
  ASSUME NEW T, NEW ip, NEW p, sgRouterToServerConvert(T, ip, p) # <<>>
  PROVE  sgRouterToServerConvert(T, ip, p) = Spelled(RdidToPrint(T, ip, p), p)
BY DEF sgRouterToServerConvert, Spelled, Field, ++, addIntField, addNameField

(* The payload is chosen by the datatype that was printed; every other     *)
(* key is looked for in the fields.                                        *)
LEMMA SpelledRead ==
  ASSUME NEW T, NEW rdid, NEW p, IsText(Fields(p)),
         PrintedType(p.datatype) = p.datatype
  PROVE  LET text == Spelled(rdid, p)
         IN  /\ sgServerToRouterConvert(T, text).payload = Payload(T, text)
             /\ Datatype(text) = p.datatype
             /\ Matched(text, "rdid") = <<rdid>>
             /\ \A key : key \notin {"rdid", "dt"} =>
                  Matched(text, key) = Matched(Fields(p), key)
<1> DEFINE text == Spelled(rdid, p)
           body == Fields(p)
<1>1. text = Field("rdid", rdid) ++ Field("dt", p.datatype) ++ body
  BY DEF Spelled
<1>2. IsText(body)
  BY DEF body
<1> HIDE DEF text, body
<1>3. /\ Matched(text, "rdid") = <<rdid>> /\ Matched(text, "dt") = <<p.datatype>>
      /\ \A key : key \notin {"rdid", "dt"} => Matched(text, key) = Matched(body, key)
  BY <1>1, <1>2, Headed
<1>4. Datatype(text) = p.datatype
  BY <1>3 DEF Datatype
<1>5. sgServerToRouterConvert(T, text).payload = Payload(T, text)
  BY DEF sgServerToRouterConvert
<1> QED
  BY <1>3, <1>4, <1>5 DEF text, body

LEMMA HexFieldKept ==
  ASSUME NEW size \in Nat \ {0}, NEW value \in Bytes(size), value[size] # 0
  PROVE  /\ \A key : addHexField(key, value, size) = Field(key, Printed(value, size))
         /\ atox(<<Printed(value, size)>>, size) = value
<1>1. size \in Nat /\ size \in 1 .. size
  OBVIOUS
<1> QED
  BY <1>1, HexField, HexKept DEF Field

LEMMA ByteFieldKept ==
  ASSUME NEW value \in Bytes(1)
  PROVE  /\ \A key : addHexField(key, value, 1) = Field(key, Printed(value, 1))
         /\ atox(<<Printed(value, 1)>>, 1) = value
<1>1. 1 \in Nat /\ 1 \in 1 .. 1
  OBVIOUS
<1> QED
  BY <1>1, HexField, ByteKept DEF Field

LEMMA CharFieldKept ==
  ASSUME NEW size \in Nat, NEW value \in Bytes(size), IsString(value)
  PROVE  /\ \A key : addCharField(key, value, size) = Field(key, Characters(value, size))
         /\ Copied(<<Characters(value, size)>>, size) = value
BY CharField DEF Field

(* A Chirp comes back, and so does the notice of a device that left.       *)
LEMMA ChirpRead ==
  ASSUME NEW T, NEW rdid, NEW dt \in {"DATA_SENSOR_TO_SERVER", "NETWORK_DISCONNECTS_SENSOR"},
         NEW p \in [datatype : {dt}, sid : Bytes(1), data : Bytes(ChirpSize)],
         IsString(p.data)
  PROVE  sgServerToRouterConvert(T, Spelled(rdid, p)).payload[1] = p
<1> DEFINE text == Spelled(rdid, p)
           body == Fields(p)
           v1   == Printed(p.sid, 1)
           v2   == Characters(p.data, ChirpSize)
<1>1. /\ p.datatype = dt /\ p.sid \in Bytes(1) /\ p.data \in Bytes(ChirpSize)
      /\ p = [datatype |-> dt, sid |-> p.sid, data |-> p.data]
  OBVIOUS
<1>2. PrintedType(p.datatype) = p.datatype /\ sgPayloadGetType(p.datatype) = "CHIRPING"
  BY <1>1 DEF PrintedType, sgPayloadGetType
<1>3. body = addHexField("sid", p.sid, 1) ++ addCharField("data", p.data, ChirpSize)
  BY <1>2 DEF Fields, ++
<1>4. ChirpSize \in Nat
  BY WidthAssumption
<1>5. /\ addHexField("sid", p.sid, 1) = Field("sid", v1)
      /\ atox(<<v1>>, 1) = p.sid
  <2>1. 1 \in Nat /\ 1 \in 1 .. 1
    OBVIOUS
  <2> QED
    BY <1>1, <2>1, ByteFieldKept
<1>6. /\ addCharField("data", p.data, ChirpSize) = Field("data", v2)
      /\ Copied(<<v2>>, ChirpSize) = p.data
  BY <1>1, <1>4, CharFieldKept
<1> HIDE DEF v1, v2, body, text
<1>7. IsText(body) /\ Matched(body, "sid") = <<v1>> /\ Matched(body, "data") = <<v2>>
  <2>1. body = Field("sid", v1) ++ Field("data", v2)
    BY <1>3, <1>5, <1>6, Zenon
  <2> QED
    BY <2>1, ChirpFields
<1>8. /\ sgServerToRouterConvert(T, text).payload = Payload(T, text)
      /\ Datatype(text) = dt
      /\ Matched(text, "sid") = <<v1>> /\ Matched(text, "data") = <<v2>>
  BY <1>1, <1>2, <1>7, SpelledRead DEF text, body
<1>9. Payload(T, text) = <<convertChirp(text)>>
  BY <1>1, <1>2, <1>8 DEF Payload
<1>10. convertChirp(text) = p
  BY <1>1, <1>5, <1>6, <1>8 DEF convertChirp
<1> QED
  BY <1>8, <1>9, <1>10 DEF text

(* The text of an identity.                                                *)
LEMMA EyeballText ==
  ASSUME NEW T, NEW rdid, NEW d \in Devices, NEW text, text = Spelled(rdid, Eyeball(d))
  PROVE  /\ sgServerToRouterConvert(T, text).payload = <<convertEyeball(text)>>
         /\ Datatype(text) = "EYEBALL" /\ Matched(text, "rdid") = <<rdid>>
         /\ Matched(text, "manid") = <<Printed(d, IdSize)>>
         /\ Matched(text, "modnum") = <<Printed(d, IdSize)>>
         /\ Matched(text, "sn") = <<Printed(d, IdSize)>>
         /\ Matched(text, "profile") = <<Printed(<<0>>, 1)>>
         /\ Matched(text, "mode") = <<Printed(<<1>>, 1)>>
<1> DEFINE p    == Eyeball(d)
           body == Fields(p)
           id   == Printed(d, IdSize)
           v4   == Printed(<<0>>, 1)
           v5   == Printed(<<1>>, 1)
<1>1. /\ p.datatype = "EYEBALL" /\ p.manid = d /\ p.modnum = d /\ p.serial_number = d
      /\ p.profile = <<0>> /\ p.mode = <<1>>
  BY DEF Eyeball
<1>2. /\ IdSize \in Nat /\ IdSize \in 1 .. IdSize /\ d \in Bytes(IdSize)
      /\ 1 \in Nat /\ 1 \in 1 .. 1 /\ <<0>> \in Bytes(1) /\ <<1>> \in Bytes(1)
  BY WidthAssumption DEF Devices, Bytes, Byte
<1> HIDE DEF p
<1>3. PrintedType(p.datatype) = p.datatype /\ sgPayloadGetType(p.datatype) = "EYEBALLING"
  BY <1>1 DEF PrintedType, sgPayloadGetType
<1>4. body = addHexField("manid", d, IdSize) ++ addHexField("modnum", d, IdSize)
             ++ addHexField("sn", d, IdSize)
             ++ addHexField("profile", <<0>>, 1) ++ addHexField("mode", <<1>>, 1)
  BY <1>1, <1>3 DEF Fields, ++
<1>5. \A key : addHexField(key, d, IdSize) = Field(key, id)
  BY <1>2, HexField DEF Field
<1>6. addHexField("profile", <<0>>, 1) = Field("profile", v4)
  BY <1>2, ByteFieldKept
<1>7. addHexField("mode", <<1>>, 1) = Field("mode", v5)
  BY <1>2, ByteFieldKept
<1> HIDE DEF id, v4, v5, body
<1>8. body = Field("manid", id) ++ Field("modnum", id) ++ Field("sn", id)
             ++ Field("profile", v4) ++ Field("mode", v5)
  BY <1>4, <1>5, <1>6, <1>7
<1>9. /\ IsText(body)
      /\ Matched(body, "manid") = <<id>> /\ Matched(body, "modnum") = <<id>>
      /\ Matched(body, "sn") = <<id>>
      /\ Matched(body, "profile") = <<v4>> /\ Matched(body, "mode") = <<v5>>
  BY <1>8, EyeballFields
<1>10. /\ sgServerToRouterConvert(T, text).payload = Payload(T, text)
       /\ Datatype(text) = "EYEBALL" /\ Matched(text, "rdid") = <<rdid>>
       /\ \A key : key \notin {"rdid", "dt"} => Matched(text, key) = Matched(body, key)
  BY <1>1, <1>3, <1>9, SpelledRead DEF body, p
<1>11. Payload(T, text) = <<convertEyeball(text)>>
  BY <1>1, <1>3, <1>10 DEF Payload
<1> QED
  BY <1>9, <1>10, <1>11 DEF id, v4, v5

LEMMA EyeballRead ==
  ASSUME NEW T, NEW rdid, NEW d \in Devices, EndsInByte(d)
  PROVE  sgServerToRouterConvert(T, Spelled(rdid, Eyeball(d))).payload[1] = Eyeball(d)
<1> DEFINE text == Spelled(rdid, Eyeball(d))
<1>1. atox(<<Printed(d, IdSize)>>, IdSize) = d
  <2>1. IdSize \in Nat \ {0} /\ d \in Bytes(IdSize)
    BY WidthAssumption DEF Devices, Bytes
  <2>2. Len(d) = IdSize
    BY <2>1, BytesLength
  <2>3. d[IdSize] # 0
    BY <2>2 DEF EndsInByte
  <2> QED
    BY <2>1, <2>3, HexKept
<1>2. atox(<<Printed(<<0>>, 1)>>, 1) = <<0>> /\ atox(<<Printed(<<1>>, 1)>>, 1) = <<1>>
  <2>1. <<0>> \in Bytes(1) /\ <<1>> \in Bytes(1)
    BY DEF Bytes, Byte
  <2> QED
    BY <2>1, ByteKept
<1> HIDE DEF text
<1>3. /\ sgServerToRouterConvert(T, text).payload = <<convertEyeball(text)>>
      /\ Datatype(text) = "EYEBALL"
      /\ Matched(text, "manid") = <<Printed(d, IdSize)>>
      /\ Matched(text, "modnum") = <<Printed(d, IdSize)>>
      /\ Matched(text, "sn") = <<Printed(d, IdSize)>>
      /\ Matched(text, "profile") = <<Printed(<<0>>, 1)>>
      /\ Matched(text, "mode") = <<Printed(<<1>>, 1)>>
  BY EyeballText DEF text
<1>4. convertEyeball(text) = Eyeball(d)
  BY <1>1, <1>2, <1>3 DEF convertEyeball, Eyeball
<1> QED
  BY <1>3, <1>4 DEF text

(* The eleven fields of a Peacock come back.                               *)
LEMMA PeacockRead ==
  ASSUME NEW T, NEW rdid, NEW p \in Peacocks,
         IsString(p.IO_A_label), IsString(p.IO_A_units), IsString(p.IO_B_label)
  PROVE  sgServerToRouterConvert(T, Spelled(rdid, p)).payload[1] = p
<1> DEFINE text == Spelled(rdid, p)
           body == Fields(p)
           v1 == Printed(p.IO_A_id, 1)
           v2 == Printed(p.IO_A_class, 1)
           v3 == Printed(p.IO_A_direc, 1)
           v4 == Characters(p.IO_A_label, LabelSize)
           v5 == Characters(p.IO_A_units, UnitsSize)
           v6 == Printed(p.IO_B_id, 1)
           v7 == Printed(p.IO_B_class, 1)
           v8 == Printed(p.IO_B_direc, 1)
           v9 == Characters(p.IO_B_label, LabelSize)
           v10 == Characters(p.IO_B_units, UnitsSize)
           v11 == Printed(p.additional_IO_needed, 1)
<1>1. /\ p.datatype = "PEACOCK"
      /\ p.IO_A_id \in Bytes(1) /\ p.IO_A_class \in Bytes(1) /\ p.IO_A_direc \in Bytes(1)
      /\ p.IO_A_label \in Bytes(LabelSize) /\ IsString(p.IO_A_label)
      /\ p.IO_A_units \in Bytes(UnitsSize) /\ IsString(p.IO_A_units)
      /\ p.IO_B_id \in Bytes(1) /\ p.IO_B_class \in Bytes(1) /\ p.IO_B_direc \in Bytes(1)
      /\ p.IO_B_label \in Bytes(LabelSize) /\ IsString(p.IO_B_label)
      /\ p.IO_B_units \in Bytes(UnitsSize) /\ IsString(p.IO_B_units)
      /\ p.additional_IO_needed \in Bytes(1)
      /\ p = [datatype |-> "PEACOCK", IO_A_id |-> p.IO_A_id,
              IO_A_class |-> p.IO_A_class,
              IO_A_direc |-> p.IO_A_direc,
              IO_A_label |-> p.IO_A_label,
              IO_A_units |-> p.IO_A_units,
              IO_B_id |-> p.IO_B_id,
              IO_B_class |-> p.IO_B_class,
              IO_B_direc |-> p.IO_B_direc,
              IO_B_label |-> p.IO_B_label,
              IO_B_units |-> p.IO_B_units,
              additional_IO_needed |-> p.additional_IO_needed]
  <2>1. <<0>> \in Bytes(1) /\ <<1>> \in Bytes(1)
    BY DEF Bytes, Byte
  <2>2. Zeros(UnitsSize) \in Bytes(UnitsSize) /\ IsString(Zeros(UnitsSize))
    BY DEF Bytes, Byte, Zeros, IsString
  <2> QED
    BY <2>1, <2>2 DEF Peacocks
<1>2. PrintedType(p.datatype) = p.datatype /\ sgPayloadGetType(p.datatype) = "PEACOCKING"
  BY <1>1 DEF PrintedType, sgPayloadGetType
<1>3. body = addHexField("sida", p.IO_A_id, 1) ++ addHexField("classa", p.IO_A_class, 1)
          ++ addHexField("dira", p.IO_A_direc, 1)
          ++ addCharField("labela", p.IO_A_label, LabelSize)
          ++ addCharField("unitsa", p.IO_A_units, UnitsSize)
          ++ addHexField("sidb", p.IO_B_id, 1) ++ addHexField("classb", p.IO_B_class, 1)
          ++ addHexField("dirb", p.IO_B_direc, 1)
          ++ addCharField("labelb", p.IO_B_label, LabelSize)
          ++ addCharField("unitsb", p.IO_B_units, UnitsSize)
          ++ addHexField("additional", p.additional_IO_needed, 1)
  BY <1>2 DEF Fields, ++
<1>4. LabelSize \in Nat /\ UnitsSize \in Nat /\ 1 \in 1 .. 1
  BY WidthAssumption
<1>5. /\ addHexField("sida", p.IO_A_id, 1) = Field("sida", v1)
      /\ atox(<<v1>>, 1) = p.IO_A_id
  BY <1>1, <1>4, ByteFieldKept
<1>6. /\ addHexField("classa", p.IO_A_class, 1) = Field("classa", v2)
      /\ atox(<<v2>>, 1) = p.IO_A_class
  BY <1>1, <1>4, ByteFieldKept
<1>7. /\ addHexField("dira", p.IO_A_direc, 1) = Field("dira", v3)
      /\ atox(<<v3>>, 1) = p.IO_A_direc
  BY <1>1, <1>4, ByteFieldKept
<1>8. /\ addCharField("labela", p.IO_A_label, LabelSize) = Field("labela", v4)
      /\ Copied(<<v4>>, LabelSize) = p.IO_A_label
  BY <1>1, <1>4, CharFieldKept
<1>9. /\ addCharField("unitsa", p.IO_A_units, UnitsSize) = Field("unitsa", v5)
      /\ Copied(<<v5>>, UnitsSize) = p.IO_A_units
  BY <1>1, <1>4, CharFieldKept
<1>10. /\ addHexField("sidb", p.IO_B_id, 1) = Field("sidb", v6)
      /\ atox(<<v6>>, 1) = p.IO_B_id
  BY <1>1, <1>4, ByteFieldKept
<1>11. /\ addHexField("classb", p.IO_B_class, 1) = Field("classb", v7)
      /\ atox(<<v7>>, 1) = p.IO_B_class
  BY <1>1, <1>4, ByteFieldKept
<1>12. /\ addHexField("dirb", p.IO_B_direc, 1) = Field("dirb", v8)
      /\ atox(<<v8>>, 1) = p.IO_B_direc
  BY <1>1, <1>4, ByteFieldKept
<1>13. /\ addCharField("labelb", p.IO_B_label, LabelSize) = Field("labelb", v9)
      /\ Copied(<<v9>>, LabelSize) = p.IO_B_label
  BY <1>1, <1>4, CharFieldKept
<1>14. /\ addCharField("unitsb", p.IO_B_units, UnitsSize) = Field("unitsb", v10)
      /\ Copied(<<v10>>, UnitsSize) = p.IO_B_units
  BY <1>1, <1>4, CharFieldKept
<1>15. /\ addHexField("additional", p.additional_IO_needed, 1) = Field("additional", v11)
      /\ atox(<<v11>>, 1) = p.additional_IO_needed
  BY <1>1, <1>4, ByteFieldKept
<1> HIDE DEF v1, v2, v3, v4, v5, v6, v7, v8, v9, v10, v11, body, text
<1>16. body = Field("sida", v1) ++ Field("classa", v2) ++ Field("dira", v3)
           ++ Field("labela", v4) ++ Field("unitsa", v5) ++ Field("sidb", v6)
           ++ Field("classb", v7) ++ Field("dirb", v8) ++ Field("labelb", v9)
           ++ Field("unitsb", v10) ++ Field("additional", v11)
  BY <1>3, <1>5, <1>6, <1>7, <1>8, <1>9, <1>10, <1>11, <1>12, <1>13, <1>14, <1>15
<1>17. /\ IsText(body)
        /\ Matched(body, "sida") = <<v1>>
        /\ Matched(body, "classa") = <<v2>>
        /\ Matched(body, "dira") = <<v3>>
        /\ Matched(body, "labela") = <<v4>>
        /\ Matched(body, "unitsa") = <<v5>>
        /\ Matched(body, "sidb") = <<v6>>
        /\ Matched(body, "classb") = <<v7>>
        /\ Matched(body, "dirb") = <<v8>>
        /\ Matched(body, "labelb") = <<v9>>
        /\ Matched(body, "unitsb") = <<v10>>
        /\ Matched(body, "additional") = <<v11>>
  BY <1>16, PeacockFields
<1>18. /\ sgServerToRouterConvert(T, text).payload = Payload(T, text)
        /\ Datatype(text) = "PEACOCK"
        /\ Matched(text, "sida") = <<v1>>
        /\ Matched(text, "classa") = <<v2>>
        /\ Matched(text, "dira") = <<v3>>
        /\ Matched(text, "labela") = <<v4>>
        /\ Matched(text, "unitsa") = <<v5>>
        /\ Matched(text, "sidb") = <<v6>>
        /\ Matched(text, "classb") = <<v7>>
        /\ Matched(text, "dirb") = <<v8>>
        /\ Matched(text, "labelb") = <<v9>>
        /\ Matched(text, "unitsb") = <<v10>>
        /\ Matched(text, "additional") = <<v11>>
  <2>1. /\ sgServerToRouterConvert(T, text).payload = Payload(T, text)
        /\ Datatype(text) = "PEACOCK"
        /\ \A key : key \notin {"rdid", "dt"} => Matched(text, key) = Matched(body, key)
    BY <1>1, <1>2, <1>17, SpelledRead DEF text, body
  <2> QED
    BY <1>17, <2>1
<1>19. Payload(T, text) = <<convertPeacock(text)>>
  BY <1>1, <1>2, <1>18 DEF Payload
<1>20. convertPeacock(text) = p
  BY <1>1, <1>5, <1>6, <1>7, <1>8, <1>9, <1>10, <1>11, <1>12, <1>13, <1>14, <1>15,
     <1>18 DEF convertPeacock
<1> QED
  BY <1>18, <1>19, <1>20 DEF text

(* The digits of a key, printed and read: the wider field is filled from   *)
(* the left.                                                               *)
LEMMA KeyRead ==
  ASSUME NEW key \in Bytes(KeySize)
  PROVE  SameKey(key, atox(<<Printed(key, PrintedKey)>>, KeySize))
<1> DEFINE read == atox(<<Printed(key, PrintedKey)>>, KeySize)
           front == SubSeq(key, 1, PrintedKey)
<1>1. KeySize \in Nat /\ PrintedKey \in 1 .. KeySize
  BY WidthAssumption
<1>2. Len(front) = PrintedKey /\ \A i \in 1 .. PrintedKey : front[i] = key[i]
  <2>1. \A i \in 1 .. PrintedKey : key[i] \in Byte
    BY <1>1 DEF Bytes
  <2>2. /\ Len(front) = IF 1 <= PrintedKey THEN PrintedKey - 1 + 1 ELSE 0
        /\ \A i \in 1 .. PrintedKey - 1 + 1 : front[i] = key[1 + i - 1]
    BY <1>1, <2>1, SubSeqProperties
  <2> QED
    BY <1>1, <2>2
<1> HIDE DEF front
<1> SUFFICES ASSUME key[PrintedKey] # 0, NEW i \in 0 .. KeySize - 1
             PROVE  Digit(read, i) = Digit(front, i)
  BY DEF SameKey, front
<1>3. /\ Len(read) = KeySize
      /\ \A j \in 1 .. KeySize :
           read[j] = IF j > KeySize - PrintedKey THEN key[j - (KeySize - PrintedKey)] ELSE 0
  BY <1>1, HexRead
<1> HIDE DEF read
<1>4. /\ KeySize - i \in 1 .. KeySize
      /\ i < PrintedKey => /\ KeySize - i > KeySize - PrintedKey
                           /\ (KeySize - i) - (KeySize - PrintedKey) = PrintedKey - i
                           /\ PrintedKey - i \in 1 .. PrintedKey
      /\ ~ (i < PrintedKey) => ~ (KeySize - i > KeySize - PrintedKey)
  BY <1>1
<1>5. Digit(read, i) = IF i < PrintedKey THEN key[PrintedKey - i] ELSE 0
  BY <1>1, <1>3, <1>4 DEF Digit
<1>6. Digit(front, i) = IF i < PrintedKey THEN key[PrintedKey - i] ELSE 0
  BY <1>2, <1>4 DEF Digit
<1> QED
  BY <1>5, <1>6

(* The keys of a Mock and of a challenge.                                  *)
LEMMA MockRead ==
  ASSUME NEW T, NEW rdid, NEW p \in Mocks
  PROVE  SameKey(p.pubkey, sgServerToRouterConvert(T, Spelled(rdid, p)).payload[1].pubkey)
<1> DEFINE text == Spelled(rdid, p)
           body == Fields(p)
           v    == Printed(p.pubkey, PrintedKey)
<1>1. p.datatype = "MOCK_WITH_KEY" /\ p.pubkey \in Bytes(KeySize)
  BY DEF Mocks
<1>2. PrintedType(p.datatype) = p.datatype /\ sgPayloadGetType(p.datatype) = "MOCKING"
  BY <1>1 DEF PrintedType, sgPayloadGetType
<1>3. KeySize \in Nat /\ PrintedKey \in 1 .. KeySize
  BY WidthAssumption
<1>4. body = Field("senspubkey", v)
  <2>1. body = addHexField("senspubkey", p.pubkey, PrintedKey)
    BY <1>2 DEF Fields
  <2> QED
    BY <1>1, <1>3, <2>1, HexField DEF Field
<1> HIDE DEF v, body, text
<1>5. IsText(body) /\ Matched(body, "senspubkey") = <<v>>
  BY <1>4, FieldAlone
<1>6. /\ sgServerToRouterConvert(T, text).payload = Payload(T, text)
      /\ Datatype(text) = p.datatype
      /\ Matched(text, "senspubkey") = <<v>>
  <2>1. /\ sgServerToRouterConvert(T, text).payload = Payload(T, text)
        /\ Datatype(text) = p.datatype
        /\ \A key : key \notin {"rdid", "dt"} => Matched(text, key) = Matched(body, key)
    BY <1>2, <1>5, SpelledRead DEF text, body
  <2> QED
    BY <1>5, <2>1
<1>7. Payload(T, text) = <<convertMock(text)>>
  BY <1>2, <1>6 DEF Payload
<1>8. convertMock(text).pubkey = atox(<<v>>, KeySize)
  BY <1>6 DEF convertMock
<1> QED
  BY <1>1, <1>6, <1>7, <1>8, KeyRead DEF v, text

LEMMA SquawkRead ==
  ASSUME NEW T, NEW rdid, NEW p \in Squawks
  PROVE  SameKey(p.data, sgServerToRouterConvert(T, Spelled(rdid, p)).payload[1].data)
<1> DEFINE text == Spelled(rdid, p)
           body == Fields(p)
           v    == Printed(p.data, PrintedKey)
<1>1. p.datatype = "SENSOR_CHALLENGE_SERVER" /\ p.data \in Bytes(KeySize)
  BY DEF Squawks
<1>2. PrintedType(p.datatype) = p.datatype /\ sgPayloadGetType(p.datatype) = "SQUAWKING"
  BY <1>1 DEF PrintedType, sgPayloadGetType
<1>3. KeySize \in Nat /\ PrintedKey \in 1 .. KeySize
  BY WidthAssumption
<1>4. body = Field("data", v)
  <2>1. body = addHexField("data", p.data, PrintedKey)
    BY <1>2 DEF Fields
  <2> QED
    BY <1>1, <1>3, <2>1, HexField DEF Field
<1> HIDE DEF v, body, text
<1>5. IsText(body) /\ Matched(body, "data") = <<v>>
  BY <1>4, FieldAlone
<1>6. /\ sgServerToRouterConvert(T, text).payload = Payload(T, text)
      /\ Datatype(text) = p.datatype
      /\ Matched(text, "data") = <<v>>
  <2>1. /\ sgServerToRouterConvert(T, text).payload = Payload(T, text)
        /\ Datatype(text) = p.datatype
        /\ \A key : key \notin {"rdid", "dt"} => Matched(text, key) = Matched(body, key)
    BY <1>2, <1>5, SpelledRead DEF text, body
  <2> QED
    BY <1>5, <2>1
<1>7. Payload(T, text) = <<convertSquawk(text)>>
  BY <1>2, <1>6 DEF Payload
<1>8. convertSquawk(text).data = atox(<<v>>, KeySize)
  BY <1>6 DEF convertSquawk
<1> QED
  BY <1>1, <1>6, <1>7, <1>8, KeyRead DEF v, text

LEMMA StatusRead ==
  ASSUME NEW T, NEW rdid, NEW p \in StatusReports
  PROVE  sgServerToRouterConvert(T, Spelled(rdid, p)).payload[1] = p
<1> DEFINE text == Spelled(rdid, p)
           body == Fields(p)
<1>1. /\ p.datatype = "SERVSTATUS"
      /\ p = [datatype |-> "SERVSTATUS", status |-> p.status]
  BY DEF StatusReports
<1>2. PrintedType(p.datatype) = p.datatype /\ sgPayloadGetType(p.datatype) = "HEARTBEAT"
  BY <1>1 DEF PrintedType, sgPayloadGetType
<1>3. body = Field("status", p.status)
  BY <1>2 DEF Fields, Field, addNameField
<1> HIDE DEF body, text
<1>4. IsText(body) /\ Matched(body, "status") = <<p.status>>
  BY <1>3, FieldAlone
<1>5. /\ sgServerToRouterConvert(T, text).payload = Payload(T, text)
      /\ Datatype(text) = p.datatype
      /\ Matched(text, "status") = <<p.status>>
  <2>1. /\ sgServerToRouterConvert(T, text).payload = Payload(T, text)
        /\ Datatype(text) = p.datatype
        /\ \A key : key \notin {"rdid", "dt"} => Matched(text, key) = Matched(body, key)
    BY <1>2, <1>4, SpelledRead DEF text, body
  <2> QED
    BY <1>4, <2>1
<1>6. Payload(T, text) = <<convertIRStatus(text)>>
  BY <1>2, <1>5 DEF Payload
<1>7. convertIRStatus(text) = p
  <2>1. Matched(text, "status") # <<>> /\ Matched(text, "status")[1] = p.status
    BY <1>5
  <2>2. convertIRStatus(text)
        = [datatype |-> Datatype(text), status |-> Matched(text, "status")[1]]
    BY <2>1, Zenon DEF convertIRStatus
  <2> QED
    BY <1>1, <1>5, <2>1, <2>2
<1> QED
  BY <1>5, <1>6, <1>7 DEF text

-----------------------------------------------------------------------------
(* What the server answers, read.                                          *)

LEMMA PairConcat ==
  ASSUME NEW a, NEW b
  PROVE  <<a, b>> = <<a>> \o <<b>>
<1> DEFINE s  == <<a>>
           t  == <<b>>
           st == s \o t
           ab == <<a, b>>
           G  == {a, b}
<1>1. s \in Seq(G) /\ Len(s) = 1 /\ s[1] = a /\ t \in Seq(G) /\ Len(t) = 1 /\ t[1] = b
  OBVIOUS
<1>2. ab \in Seq(G) /\ Len(ab) = 2 /\ ab[1] = a /\ ab[2] = b
  OBVIOUS
<1> HIDE DEF s, t, G, ab
<1>3. /\ st \in Seq(G) /\ Len(st) = Len(s) + Len(t)
      /\ \A i \in 1 .. Len(s) + Len(t) :
           st[i] = IF i <= Len(s) THEN s[i] ELSE t[i - Len(s)]
  BY <1>1, ConcatProperties
<1> HIDE DEF st
<1>4. Len(st) = 2 /\ st[1] = a /\ st[2] = b
  BY <1>1, <1>3
<1>5. \A i \in 1 .. 2 : st[i] = ab[i]
  <2> SUFFICES ASSUME NEW i \in 1 .. 2 PROVE st[i] = ab[i]
    OBVIOUS
  <2>1. i = 1 \/ i = 2
    OBVIOUS
  <2> QED
    BY <1>2, <1>4, <2>1
<1>6. ab = st
  BY <1>2, <1>3, <1>4, <1>5, SeqEqual
<1> QED
  BY <1>6 DEF st, ab, s, t

(* What follows rdid and dt in an answer.                                  *)
LEMMA AnswerText ==
  ASSUME NEW k, NEW dt \in AnswerTypes
  PROVE  /\ IsText(Text(k, dt))
         /\ Matched(Text(k, dt), "rdid") = <<k.rdid>>
         /\ Matched(Text(k, dt), "dt") = <<dt>>
         /\ dt = "PECK" => Matched(Text(k, dt), "sn") = <<k.sn>>
<1> DEFINE peck == <<Entry("ip", <<>>), Entry("sid", <<1>>), Entry("recognition", <<1>>),
                     Entry("manid", k.manid), Entry("modnum", k.modnum), Entry("sn", k.sn)>>
           text == Text(k, dt)
<1>1. \E body : /\ text = Field("rdid", k.rdid) ++ Field("dt", dt) ++ body
                /\ IsText(body)
                /\ dt = "PECK" => body = peck
  <2>1. /\ IsText(peck) /\ IsText(<<>>)
        /\ IsText(<<Entry("servpubkey", <<1>>)>>)
        /\ IsText(<<Entry("data", <<1>>)>>) /\ IsText(<<Entry("data", <<>>)>>)
        /\ IsText(<<Entry("status", "ack")>>)
    <3>1. \A e : IsText(<<e>>)
      <4>1. \A e : <<e>> \in Seq({e})
        OBVIOUS
      <4> QED
        BY <4>1 DEF IsText
    <3>2. \A a, b, c, d, e, f : IsText(<<a, b, c, d, e, f>>)
      <4>1. \A a, b, c, d, e, f : <<a, b, c, d, e, f>> \in Seq({a, b, c, d, e, f})
        OBVIOUS
      <4> QED
        BY <4>1 DEF IsText
    <3>3. <<>> \in Seq({})
      OBVIOUS
    <3> QED
      BY <3>1, <3>2, <3>3 DEF IsText
  <2> DEFINE head == <<Entry("rdid", k.rdid), Entry("dt", dt)>>
  <2>2. head = Field("rdid", k.rdid) ++ Field("dt", dt)
    <3>1. \A a, b : <<a, b>> = <<a>> \o <<b>>
      BY PairConcat
    <3>2. head = <<Entry("rdid", k.rdid)>> \o <<Entry("dt", dt)>>
      BY <3>1, Zenon
    <3> QED
      BY <3>2, Zenon DEF Entry, Field, ++
  <2> HIDE DEF head, peck
  <2>3. CASE dt = "PECK"
    <3>1. text = head ++ peck
      BY <2>3 DEF Text, head, peck, ++
    <3> QED
      BY <2>1, <2>2, <3>1
  <2>4. CASE dt = "SING_WITH_KEY"
    <3>1. text = head ++ <<Entry("servpubkey", <<1>>)>>
      BY <2>4 DEF Text, head, ++
    <3> QED
      BY <2>1, <2>2, <2>4, <3>1
  <2>5. CASE dt = "NEST"
    <3>1. text = head ++ <<>>
      BY <2>5 DEF Text, head, ++
    <3> QED
      BY <2>1, <2>2, <2>5, <3>1
  <2>6. CASE dt = "SERVER_CHALLENGE_SENSOR"
    <3>1. text = head ++ <<Entry("data", <<1>>)>>
      BY <2>6 DEF Text, head, ++
    <3> QED
      BY <2>1, <2>2, <2>6, <3>1
  <2>7. CASE dt = "NETWORK_DISCONNECTS_SENSOR"
    <3>1. text = head ++ <<Entry("data", <<>>)>>
      BY <2>7 DEF Text, head, ++
    <3> QED
      BY <2>1, <2>2, <2>7, <3>1
  <2>8. CASE dt = "SERVSTATUS"
    <3>1. text = head ++ <<Entry("status", "ack")>>
      BY <2>8 DEF Text, head, ++
    <3> QED
      BY <2>1, <2>2, <2>8, <3>1
  <2> QED
    BY <2>3, <2>4, <2>5, <2>6, <2>7, <2>8 DEF AnswerTypes
<1>2. Matched(peck, "sn") = <<k.sn>>
  <2> DEFINE sn == Entry("sn", k.sn)
  <2>1. IsText(peck) /\ Len(peck) = 6 /\ peck[6] = sn
    <3>1. \A a, b, c, d, e, f : LET s == <<a, b, c, d, e, f>>
                                IN  s \in Seq({a, b, c, d, e, f}) /\ Len(s) = 6 /\ s[6] = f
      OBVIOUS
    <3> QED
      BY <3>1 DEF IsText
  <2>2. /\ peck[1].key = "ip" /\ peck[2].key = "sid" /\ peck[3].key = "recognition"
        /\ peck[4].key = "manid" /\ peck[5].key = "modnum" /\ peck[6].key = "sn"
    BY DEF Entry
  <2> HIDE DEF peck
  <2>3. ASSUME NEW j \in 1 .. 6 - 1 PROVE peck[j].key # "sn"
    <3>1. j \in {1, 2, 3, 4, 5}
      OBVIOUS
    <3> QED
      BY <2>2, <3>1
  <2>4. 6 \in 1 .. Len(peck) /\ peck[6].value = k.sn
    BY <2>1 DEF Entry
  <2> QED
    BY <2>1, <2>2, <2>3, <2>4, MatchFirst
<1> HIDE DEF peck, text
<1>3. PICK body : /\ text = Field("rdid", k.rdid) ++ Field("dt", dt) ++ body
                  /\ IsText(body)
                  /\ dt = "PECK" => body = peck
  BY <1>1
<1>4. /\ IsText(text)
      /\ Matched(text, "rdid") = <<k.rdid>> /\ Matched(text, "dt") = <<dt>>
      /\ \A key : key \notin {"rdid", "dt"} => Matched(text, key) = Matched(body, key)
  BY <1>3, Headed
<1>5. ASSUME dt = "PECK" PROVE Matched(text, "sn") = <<k.sn>>
  BY <1>2, <1>3, <1>4, <1>5
<1> QED
  BY <1>4, <1>5 DEF text

-----------------------------------------------------------------------------
(* The inductive invariant.                                                *)

(* A device that holds a slot is in the table.                             *)
Present == \A i \in Indices : owner[i] # NoDevice => i \in Sensors \cap Occupied(table)

(* The server got a conversation from an Eyeball: its rdid is one of the   *)
(* table's, and not the 0 that is never printed.                           *)
Conversation(k) ==
  /\ k.rdid \in Rdids \ {0} /\ k.ip \in Sensors
  /\ k.device \in Devices /\ k.sn = Printed(k.device, IdSize)

Packets ==
  {Eyeball(d) : d \in Devices} \cup Mocks \cup Squawks \cup Peacocks \cup StatusReports
  \cup [datatype : {"DATA_SENSOR_TO_SERVER", "NETWORK_DISCONNECTS_SENSOR"},
        sid : Bytes(1), data : Bytes(ChirpSize)]

(* A text on its way to the server spells the packet.                      *)
Spells ==
  printed # <<>> => /\ printed[1].packet \in Packets
                    /\ \E rdid \in Rdids : printed[1].text = Spelled(rdid, printed[1].packet)

(* An answer on its way was read from the text of a conversation, with     *)
(* the table as it still is.                                               *)
Answered(k, dt) ==
  LET read == sgServerToRouterConvert(table, Text(k, dt))
  IN  <<[to |-> k, failed |-> read.failed, payload |-> read.payload,
         ip_addr |-> read.ip_addr]>>

Reads ==
  answer # <<>> => \E dt \in AnswerTypes : /\ Conversation(answer[1].to)
                                           /\ answer = Answered(answer[1].to, dt)

GatewayLegal ==
  /\ Legal(table)
  /\ owner \in [Indices -> Devices \cup {NoDevice}]
  /\ Present
  /\ \A k \in known : Conversation(k)
  /\ Spells
  /\ Reads

(* The router alone: the state the daemon starts the gateway in.           *)
LEMMA RouterAlone ==
  LET U == routingTableAssignIPStatic(routingTableInit, Router, 0)
  IN  Legal(U) /\ Occupied(U) = {Router}
<1> DEFINE T == routingTableInit
           U == routingTableAssignIPStatic(T, Router, 0)
<1>1. Legal(T) /\ Occupied(T) = {}
  BY EmptyLegal
<1>2. T.table_alloc = 0
  BY DEF routingTableInit
<1> HIDE DEF T
<1>3. Router \in Indices /\ Router # N - 1 /\ Router >= 1 /\ 0 \in Rdids
  BY TableAssumption DEF Router, Indices, Rdids
<1>4. T.routing_table[Router] = NoNode
  BY <1>1, <1>3 DEF Occupied
<1>5. locationToTablePtr(Router) = Router /\ ~ routingTableLookup(T, Router)
  BY <1>1, <1>3, OccupiedTracked
<1>6. U = Install(T, Router, 0)
  BY <1>2, <1>3, <1>5, TableAssumption DEF routingTableAssignIPStatic, CanAssign, tableChkFull
<1>7. Legal(Install(T, Router, 0)) /\ Occupied(Install(T, Router, 0)) = {Router}
  <2>1. T.table_alloc < N - 3 /\ Router \in {Router} \cup Sensors
    BY <1>2, TableAssumption
  <2> QED
    BY <1>1, <1>3, <1>4, <2>1, InstallLegal
<1> QED
  BY <1>6, <1>7 DEF T

LEMMA InitGateway == Init => GatewayLegal
<1> SUFFICES ASSUME Init PROVE GatewayLegal
  OBVIOUS
<1>1. Legal(table) /\ owner = [i \in Indices |-> NoDevice] /\ known = {}
      /\ printed = <<>> /\ answer = <<>>
  BY RouterAlone DEF Init
<1> QED
  BY <1>1 DEF GatewayLegal, Present, Spells, Reads

(* What sgTCPSend prints.                                                  *)
LEMMA PrintsSpelled ==
  ASSUME NEW T, Legal(T), NEW ip \in Sensors \cap Occupied(T), NEW p,
         sgPayloadGetType(p.datatype) # "PECKING", Prints(T, ip, p) # <<>>
  PROVE  LET rdid == T.routing_table[ip].rdid
         IN  /\ Prints(T, ip, p) = <<[ip |-> ip, packet |-> p, text |-> Spelled(rdid, p)]>>
             /\ rdid \in Rdids \ {0}
             /\ routingTableIPToRDID(T, ip) = rdid
<1> DEFINE rdid == T.routing_table[ip].rdid
<1>1. routingTableIPToRDID(T, ip) = rdid
  BY LeasedAddress
<1>2. ip # N
  BY DEF Sensors
<1>3. rdid \in Rdids
  BY DEF Legal, Tables, Nodes, Occupied
<1> HIDE DEF rdid
<1>4. RdidToPrint(T, ip, p) = rdid
  BY <1>1, <1>2 DEF RdidToPrint
<1>5. sgRouterToServerConvert(T, ip, p) # <<>>
  BY DEF Prints
<1>6. ~ PrintFails(T, ip, p)
  BY <1>5 DEF sgRouterToServerConvert
<1>7. rdid # 0
  BY <1>2, <1>4, <1>6 DEF PrintFails
<1>8. sgRouterToServerConvert(T, ip, p) = Spelled(rdid, p)
  BY <1>4, <1>5, ConvertPrints
<1>9. Prints(T, ip, p) = <<[ip |-> ip, packet |-> p, text |-> Spelled(rdid, p)]>>
  BY <1>5, <1>8 DEF Prints
<1> QED
  BY <1>1, <1>3, <1>7, <1>9 DEF rdid

(* A device joins: the server may learn of it under the rdid it was given. *)
LEMMA ArrivesLegal ==
  ASSUME GatewayLegal, Arrives
  PROVE  GatewayLegal'
<1>1. PICK d \in Devices, garbage \in Garbage :
        /\ Idle
        /\ ~ tableChkFull(table)
        /\ table' = routingTableAssignIP(table, garbage)
        /\ owner' = [owner EXCEPT ![AssignedIP(table, N)] = d]
        /\ printed' = Prints(table', AssignedIP(table, N), Eyeball(d))
        /\ \/ known' = known
           \/ printed' # <<>> /\ known' = Learns(d, AssignedIP(table, N), printed'[1].text)
        /\ answer' = answer
  BY Zenon DEF Arrives
<1> DEFINE ip   == AssignedIP(table, N)
           V    == [table EXCEPT !.tableptr = NextSlot(table)]
           rdid == table'.routing_table[ip].rdid
<1>2. /\ Legal(table) /\ owner \in [Indices -> Devices \cup {NoDevice}] /\ Present
      /\ \A k \in known : Conversation(k)
  BY DEF GatewayLegal
<1>3. answer' = <<>>
  BY <1>1 DEF Idle
<1>4. ip = NextSlot(table)
  BY <1>1 DEF AssignedIP
<1>5. /\ ip \in Sensors
      /\ Legal(table') /\ Occupied(table') = Occupied(table) \cup {ip}
  <2>1. /\ ip \in Sensors /\ V.routing_table[ip] = NoNode
        /\ Legal(V) /\ Occupied(V) = Occupied(table) /\ V.table_alloc < N - 3
        /\ table' = Install(V, ip, garbage)
    BY <1>1, <1>2, <1>4, AssignInstalls
  <2>2. garbage \in Rdids
    BY TableAssumption DEF Rdids
  <2> HIDE DEF V, ip
  <2> QED
    BY <2>1, <2>2, InstallLegal
<1> HIDE DEF ip
<1>6. owner' \in [Indices -> Devices \cup {NoDevice}]
  BY <1>1, <1>2 DEF ip
<1>7. Present'
  <2> SUFFICES ASSUME NEW i \in Indices, owner'[i] # NoDevice
               PROVE  i \in Sensors \cap Occupied(table')
    BY DEF Present, Occupied
  <2>1. owner' = [owner EXCEPT ![ip] = d]
    BY <1>1 DEF ip
  <2>2. CASE i = ip
    BY <1>5, <2>2
  <2>3. CASE i # ip
    BY <1>2, <1>5, <2>1, <2>3 DEF Present
  <2> QED
    BY <2>2, <2>3
<1>8. ASSUME printed' # <<>>
      PROVE  /\ printed' = <<[ip |-> ip, packet |-> Eyeball(d),
                               text |-> Spelled(rdid, Eyeball(d))]>>
             /\ rdid \in Rdids \ {0}
  <2>1. sgPayloadGetType(Eyeball(d).datatype) # "PECKING"
    BY DEF Eyeball, sgPayloadGetType
  <2>2. printed' = Prints(table', ip, Eyeball(d))
    BY <1>1 DEF ip
  <2> QED
    BY <1>5, <1>8, <2>1, <2>2, PrintsSpelled
<1> HIDE DEF rdid
<1>9. \A k \in known' : Conversation(k)
  <2>1. CASE known' = known
    BY <1>2, <2>1
  <2>2. CASE printed' # <<>> /\ known' = Learns(d, ip, printed'[1].text)
    <3> DEFINE text == printed'[1].text
    <3>1. text = Spelled(rdid, Eyeball(d)) /\ rdid \in Rdids \ {0}
      BY <1>8, <2>2
    <3> HIDE DEF text
    <3>2. Matched(text, "rdid")[1] = rdid /\ Matched(text, "sn")[1] = Printed(d, IdSize)
      <4>1. /\ sgServerToRouterConvert(table, text).payload = <<convertEyeball(text)>>
            /\ Matched(text, "rdid") = <<rdid>> /\ Matched(text, "sn") = <<Printed(d, IdSize)>>
        BY <3>1, EyeballText
      <4> QED
        BY <4>1
    <3> SUFFICES ASSUME NEW k \in known', k \notin known PROVE Conversation(k)
      BY <1>2
    <3>3. k = [rdid |-> rdid, manid |-> Matched(text, "manid")[1],
               modnum |-> Matched(text, "modnum")[1], sn |-> Printed(d, IdSize),
               device |-> d, ip |-> ip]
      BY <2>2, <3>2 DEF Learns, text
    <3> QED
      BY <1>5, <3>1, <3>3 DEF Conversation
  <2> QED
    BY <1>1, <2>1, <2>2 DEF ip
<1>10. Spells'
  <2> SUFFICES ASSUME printed' # <<>>
               PROVE  /\ printed'[1].packet \in Packets
                      /\ \E r \in Rdids : printed'[1].text = Spelled(r, printed'[1].packet)
    BY DEF Spells
  <2> QED
    BY <1>8 DEF Packets
<1> QED
  BY <1>3, <1>5, <1>6, <1>7, <1>9, <1>10 DEF GatewayLegal, Reads

(* Freeing one slot empties no other.                                      *)
LEMMA FreeOthers ==
  ASSUME NEW T, T \in Tables, NEW ip \in Indices
  PROVE  Occupied(T) \ {ip} \subseteq Occupied(routingTableFreeIP(T, ip))
<1> DEFINE U == [Put(T, ip, NoNode) EXCEPT !.table_alloc = @ - 1]
<1>1. locationToTablePtr(ip) = ip
  BY TableAssumption DEF locationToTablePtr, Indices
<1>2. routingTableFreeIP(T, ip) = T \/ routingTableFreeIP(T, ip) = U
  BY <1>1 DEF routingTableFreeIP
<1>3. U.routing_table = [T.routing_table EXCEPT ![ip] = NoNode]
  BY DEF Put, Tables
<1> HIDE DEF U
<1>4. \A i \in Occupied(T) \ {ip} : U.routing_table[i] = T.routing_table[i]
  BY <1>3 DEF Tables, Occupied
<1> QED
  BY <1>2, <1>4 DEF Occupied

(* A device leaves: nobody else loses his slot.                            *)
LEMMA LeavesLegal ==
  ASSUME GatewayLegal, Leaves
  PROVE  GatewayLegal'
<1> DEFINE notice == [datatype |-> "NETWORK_DISCONNECTS_SENSOR", sid |-> <<0>>,
                      data |-> Zeros(ChirpSize)]
<1>1. PICK ip \in Sensors :
        /\ Idle /\ owner[ip] # NoDevice
        /\ printed' = Prints(table, ip, notice)
        /\ table' = routingTableFreeIP(table, ip)
        /\ owner' = [owner EXCEPT ![ip] = NoDevice]
        /\ known' = known /\ answer' = answer
  BY DEF Leaves
<1>2. /\ Legal(table) /\ owner \in [Indices -> Devices \cup {NoDevice}] /\ Present
      /\ \A k \in known : Conversation(k)
  BY DEF GatewayLegal
<1>3. answer' = <<>>
  BY <1>1 DEF Idle
<1>4. ip \in Indices /\ ip \in Addresses /\ ip \in Sensors \cap Occupied(table)
  BY <1>1, <1>2, TableAssumption DEF Sensors, Indices, Addresses, Present
<1>5. Legal(table') /\ Occupied(table) \ {ip} \subseteq Occupied(table')
  BY <1>1, <1>2, <1>4, FreeLegal, FreeOthers DEF Legal
<1>6. owner' \in [Indices -> Devices \cup {NoDevice}]
  BY <1>1, <1>2
<1>7. Present'
  <2> SUFFICES ASSUME NEW i \in Indices, owner'[i] # NoDevice
               PROVE  i \in Sensors \cap Occupied(table')
    BY DEF Present, Occupied
  <2>1. i # ip /\ owner[i] # NoDevice
    BY <1>1, <1>2, <1>4
  <2> QED
    BY <1>2, <1>5, <2>1 DEF Present
<1>8. notice \in Packets /\ sgPayloadGetType(notice.datatype) # "PECKING"
  <2>1. <<0>> \in Bytes(1) /\ Zeros(ChirpSize) \in Bytes(ChirpSize)
    BY DEF Bytes, Byte, Zeros
  <2> QED
    BY <2>1 DEF Packets, sgPayloadGetType
<1> HIDE DEF notice
<1>9. Spells'
  <2> SUFFICES ASSUME printed' # <<>>
               PROVE  /\ printed'[1].packet \in Packets
                      /\ \E r \in Rdids : printed'[1].text = Spelled(r, printed'[1].packet)
    BY DEF Spells
  <2> DEFINE rdid == table.routing_table[ip].rdid
  <2>1. /\ printed' = <<[ip |-> ip, packet |-> notice, text |-> Spelled(rdid, notice)]>>
        /\ rdid \in Rdids
    BY <1>1, <1>2, <1>4, <1>8, PrintsSpelled
  <2> HIDE DEF rdid
  <2> QED
    BY <1>8, <2>1
<1>10. \A k \in known' : Conversation(k)
  BY <1>1, <1>2
<1> QED
  BY <1>3, <1>5, <1>6, <1>7, <1>9, <1>10 DEF GatewayLegal, Reads

LEMMA ReportsLegal ==
  ASSUME GatewayLegal, Reports
  PROVE  GatewayLegal'
<1>1. PICK ip \in Sensors,
           p \in Mocks \cup Squawks \cup Peacocks \cup Chirps \cup StatusReports :
        /\ Idle /\ owner[ip] # NoDevice
        /\ printed' = Prints(table, ip, p)
        /\ table' = table /\ owner' = owner /\ known' = known /\ answer' = answer
  BY DEF Reports
<1>2. answer' = <<>>
  BY <1>1 DEF Idle
<1>3. Legal(table) /\ ip \in Sensors \cap Occupied(table)
  BY <1>1, TableAssumption DEF GatewayLegal, Present, Sensors, Indices
<1>4. p \in Packets
  <2>1. Chirps \subseteq Packets
    BY DEF Chirps, Packets
  <2> QED
    BY <2>1 DEF Packets
<1>5. sgPayloadGetType(p.datatype) # "PECKING"
  <2>1. p.datatype \in {"MOCK_WITH_KEY", "SENSOR_CHALLENGE_SERVER", "PEACOCK",
                        "DATA_SENSOR_TO_SERVER", "SERVSTATUS"}
    BY DEF Mocks, Squawks, Peacocks, Chirps, StatusReports
  <2> QED
    BY <2>1 DEF sgPayloadGetType
<1>6. Spells'
  <2> SUFFICES ASSUME printed' # <<>>
               PROVE  /\ printed'[1].packet \in Packets
                      /\ \E r \in Rdids : printed'[1].text = Spelled(r, printed'[1].packet)
    BY DEF Spells
  <2> DEFINE rdid == table.routing_table[ip].rdid
  <2>1. /\ printed' = <<[ip |-> ip, packet |-> p, text |-> Spelled(rdid, p)]>>
        /\ rdid \in Rdids
    BY <1>1, <1>3, <1>5, PrintsSpelled
  <2> HIDE DEF rdid
  <2> QED
    BY <1>4, <2>1
<1> QED
  BY <1>1, <1>2, <1>6 DEF GatewayLegal, Reads, Present, Legal, Counted, Unreserved, Distinct,
                          Uniform, Occupied

(* The text of an answer is read with the table as it is on arrival.       *)
LEMMA AnswersLegal ==
  ASSUME GatewayLegal, Answers
  PROVE  GatewayLegal'
<1>1. PICK k \in known, dt \in AnswerTypes :
        /\ Idle
        /\ answer' = Answered(k, dt)
        /\ table' = table /\ owner' = owner /\ known' = known /\ printed' = printed
  BY Zenon DEF Answers, Answered
<1>2. printed' = <<>> /\ Conversation(k)
  BY <1>1 DEF Idle, GatewayLegal
<1>3. answer'[1].to = k /\ Answered(k, dt)' = Answered(k, dt)
  BY <1>1 DEF Answered
<1>4. Reads'
  BY <1>1, <1>2, <1>3 DEF Reads
<1> QED
  BY <1>1, <1>2, <1>4 DEF GatewayLegal, Spells, Present, Legal, Counted, Unreserved, Distinct,
                          Uniform, Occupied

LEMMA GatewayStep == GatewayLegal /\ [Next]_vars => GatewayLegal'
<1> SUFFICES ASSUME GatewayLegal, [Next]_vars PROVE GatewayLegal'
  OBVIOUS
<1>1. CASE Delivered
  BY <1>1 DEF Delivered, GatewayLegal, Spells, Reads, Present, Legal, Counted, Unreserved,
              Distinct, Uniform, Occupied
<1>2. CASE Forgets
  BY <1>2 DEF Forgets, Idle, GatewayLegal, Spells, Reads, Present, Legal, Counted, Unreserved,
              Distinct, Uniform, Occupied
<1>3. CASE UNCHANGED vars
  <2>1. Answered(answer[1].to, "PECK")' = Answered(answer[1].to, "PECK")
    BY <1>3 DEF vars, Answered
  <2> QED
    BY <1>3 DEF vars, GatewayLegal, Spells, Reads, Answered, Present, Legal, Counted,
                Unreserved, Distinct, Uniform, Occupied
<1> QED
  BY <1>1, <1>2, <1>3, ArrivesLegal, LeavesLegal, ReportsLegal, AnswersLegal DEF Next

(* Whatever joins, leaves, reports and answers, in whatever order.         *)
THEOREM GatewayInvariant == Spec => []GatewayLegal
BY InitGateway, GatewayStep, PTL DEF Spec

-----------------------------------------------------------------------------
(* The properties.                                                         *)

(* An answer as it was read.                                               *)
LEMMA AnswerRead ==
  ASSUME NEW k, Conversation(k), NEW dt \in AnswerTypes
  PROVE  LET a == Answered(k, dt)[1]
         IN  /\ Answered(k, dt) # <<>> /\ a.to = k
             /\ a.payload # <<>> /\ a.payload[1].datatype = dt
             /\ a.failed => k.rdid % ByteValues = ByteValues - 1
             /\ dt = "PECK" =>
                  /\ a.payload[1].assigned_ip = routingTableRDIDToIP(table, k.rdid)
                  /\ a.payload[1].serial_number = atox(<<k.sn>>, IdSize)
             /\ dt # "PECK" => a.ip_addr = routingTableRDIDToIP(table, k.rdid)
<1> DEFINE text == Text(k, dt)
           read == sgServerToRouterConvert(table, text)
           a    == Answered(k, dt)[1]
<1>1. /\ Matched(text, "rdid") = <<k.rdid>> /\ Matched(text, "dt") = <<dt>>
      /\ dt = "PECK" => Matched(text, "sn") = <<k.sn>>
  BY AnswerText
<1> HIDE DEF text
<1>2. /\ Answered(k, dt) # <<>> /\ a.to = k /\ a.failed = read.failed
      /\ a.payload = read.payload /\ a.ip_addr = read.ip_addr
  BY DEF Answered, text
<1> HIDE DEF a
<1>3. /\ Datatype(text) = dt /\ \A missing : RdidOf(text, missing) = k.rdid
      /\ k.rdid # 0
  <2>1. Datatype(text) = dt
    BY <1>1 DEF Datatype
  <2>2. \A missing : RdidOf(text, missing) = k.rdid
    BY <1>1 DEF RdidOf
  <2> QED
    BY <2>1, <2>2 DEF Conversation
<1>4. /\ read.payload = Payload(table, text)
      /\ read.failed = (Payload(table, text) = <<>> \/ IsMinusOne(k.rdid))
      /\ read.ip_addr = IF sgPayloadGetType(dt) = "PECKING" THEN N
                        ELSE routingTableRDIDToIP(table, k.rdid)
  BY <1>3 DEF sgServerToRouterConvert
<1> HIDE DEF read
<1>5. CASE dt = "PECK"
  <2>1. Payload(table, text) = <<convertPeck(table, text)>>
    BY <1>3, <1>5 DEF Payload, sgPayloadGetType
  <2>2. /\ convertPeck(table, text).datatype = dt
        /\ convertPeck(table, text).assigned_ip = routingTableRDIDToIP(table, k.rdid)
        /\ convertPeck(table, text).serial_number = atox(<<k.sn>>, IdSize)
    BY <1>1, <1>3, <1>5 DEF convertPeck
  <2>3. /\ a.payload # <<>> /\ a.payload[1].datatype = dt
        /\ a.payload[1].assigned_ip = routingTableRDIDToIP(table, k.rdid)
        /\ a.payload[1].serial_number = atox(<<k.sn>>, IdSize)
    BY <1>2, <1>4, <2>1, <2>2
  <2>4. a.failed => k.rdid % ByteValues = ByteValues - 1
    <3>1. Payload(table, text) # <<>>
      BY <2>1
    <3> QED
      BY <1>2, <1>4, <3>1, Zenon DEF IsMinusOne
  <2> QED
    BY <1>2, <1>5, <2>3, <2>4 DEF a
<1>6. CASE dt # "PECK"
  <2>1. sgPayloadGetType(dt) # "PECKING"
    BY <1>6 DEF AnswerTypes, sgPayloadGetType
  <2>2. \E payload : Payload(table, text) = <<payload>> /\ payload.datatype = dt
    <3>1. CASE dt = "SING_WITH_KEY"
      <4>1. Payload(table, text) = <<convertSing(text)>>
        BY <1>3, <3>1 DEF Payload, sgPayloadGetType
      <4> QED
        BY <1>3, <4>1 DEF convertSing
    <3>2. CASE dt = "NEST"
      <4>1. Payload(table, text) = <<convertNest(text)>>
        BY <1>3, <3>2 DEF Payload, sgPayloadGetType
      <4> QED
        BY <1>3, <4>1 DEF convertNest
    <3>3. CASE dt = "SERVER_CHALLENGE_SENSOR"
      <4>1. Payload(table, text) = <<convertSquawk(text)>>
        BY <1>3, <3>3 DEF Payload, sgPayloadGetType
      <4> QED
        BY <1>3, <4>1 DEF convertSquawk
    <3>4. CASE dt = "NETWORK_DISCONNECTS_SENSOR"
      <4>1. Payload(table, text) = <<convertChirp(text)>>
        BY <1>3, <3>4 DEF Payload, sgPayloadGetType
      <4> QED
        BY <1>3, <4>1 DEF convertChirp
    <3>5. CASE dt = "SERVSTATUS"
      <4>1. Payload(table, text) = <<convertIRStatus(text)>>
        BY <1>3, <3>5 DEF Payload, sgPayloadGetType
      <4>2. \A s, d : [datatype |-> d, status |-> s].datatype = d
        OBVIOUS
      <4>3. convertIRStatus(text).datatype = Datatype(text)
        BY <4>2, Zenon DEF convertIRStatus
      <4> QED
        BY <1>3, <4>1, <4>3
    <3> QED
      BY <1>6, <3>1, <3>2, <3>3, <3>4, <3>5 DEF AnswerTypes
  <2>3. /\ a.payload # <<>> /\ a.payload[1].datatype = dt
        /\ a.ip_addr = routingTableRDIDToIP(table, k.rdid)
    BY <1>2, <1>4, <2>1, <2>2
  <2>4. a.failed => k.rdid % ByteValues = ByteValues - 1
    <3>1. Payload(table, text) # <<>>
      BY <2>2
    <3> QED
      BY <1>2, <1>4, <3>1, Zenon DEF IsMinusOne
  <2> QED
    BY <1>2, <1>6, <2>3, <2>4 DEF a
<1> QED
  BY <1>5, <1>6 DEF a

(* An answer for a device that is still in the table, under the rdid of    *)
(* its conversation, reaches it, whatever joined and left meanwhile.       *)
THEOREM AnswerSafety == Spec => []AnswersFindTheirDevice
<1>1. GatewayLegal => AnswersFindTheirDevice
  <2> SUFFICES ASSUME GatewayLegal, answer # <<>>, StillThere(answer[1].to)
               PROVE  /\ Destination(answer[1]) = answer[1].to.ip
                      /\ answer[1].failed =>
                           answer[1].to.rdid % ByteValues = ByteValues - 1
    BY DEF AnswersFindTheirDevice
  <2> DEFINE k == answer[1].to
  <2>1. PICK dt \in AnswerTypes : Conversation(k) /\ answer = Answered(k, dt)
    BY DEF GatewayLegal, Reads
  <2>2. k.ip \in Occupied(table)
    <3>1. k.ip \in Indices /\ owner[k.ip] = k.device /\ k.device # NoDevice
      BY <2>1, TableAssumption, DeviceAssumption DEF Conversation, StillThere, Sensors, Indices
    <3> QED
      BY <3>1 DEF GatewayLegal, Present
  <2>3. routingTableRDIDToIP(table, k.rdid) = k.ip
    BY <2>2, LeasedAddress DEF GatewayLegal, StillThere
  <2> HIDE DEF k
  <2>4. /\ answer[1].payload[1].datatype = dt
        /\ answer[1].failed => k.rdid % ByteValues = ByteValues - 1
        /\ dt = "PECK" => answer[1].payload[1].assigned_ip = routingTableRDIDToIP(table, k.rdid)
        /\ dt # "PECK" => answer[1].ip_addr = routingTableRDIDToIP(table, k.rdid)
    BY <2>1, AnswerRead
  <2>5. Destination(answer[1]) = k.ip
    BY <2>3, <2>4 DEF Destination
  <2> QED
    BY <2>4, <2>5 DEF k
<1> QED
  BY <1>1, GatewayInvariant, PTL

(* A Peck carries the identity of the device it admits.                    *)
THEOREM PeckSafety == Spec => []PeckNamesItsSensor
<1>1. GatewayLegal => PeckNamesItsSensor
  <2> SUFFICES ASSUME GatewayLegal, answer # <<>>, answer[1].payload[1].datatype = "PECK",
                      EndsInByte(answer[1].to.device)
               PROVE  answer[1].payload[1].serial_number = answer[1].to.device
    BY DEF PeckNamesItsSensor
  <2> DEFINE k == answer[1].to
             d == answer[1].to.device
  <2>1. PICK dt \in AnswerTypes : Conversation(k) /\ answer = Answered(k, dt)
    BY DEF GatewayLegal, Reads
  <2>2. d \in Devices /\ k.sn = Printed(d, IdSize)
    BY <2>1 DEF Conversation
  <2> HIDE DEF k
  <2>3. answer[1].payload[1].serial_number = atox(<<k.sn>>, IdSize)
    BY <2>1, AnswerRead
  <2>4. d \in Bytes(IdSize) /\ IdSize \in Nat \ {0}
    BY <2>2, WidthAssumption DEF Devices, Bytes
  <2>5. d[IdSize] # 0
    BY <2>4, BytesLength DEF EndsInByte
  <2> HIDE DEF d
  <2>6. atox(<<k.sn>>, IdSize) = d
    BY <2>2, <2>4, <2>5, HexKept
  <2> QED
    BY <2>3, <2>6 DEF d
<1> QED
  BY <1>1, GatewayInvariant, PTL

(* What the router prints, it reads back, field by field.                  *)
THEOREM ReadBackSafety == Spec => []ReadsBack
<1>1. GatewayLegal => ReadsBack
  <2> SUFFICES ASSUME GatewayLegal, printed # <<>> PROVE ReadsBack
    BY DEF ReadsBack
  <2> DEFINE p    == printed[1].packet
             read == sgServerToRouterConvert(table, printed[1].text).payload[1]
             kind == sgPayloadGetType(p.datatype)
  <2>1. p \in Packets
    BY DEF GatewayLegal, Spells
  <2>2. PICK rdid : printed[1].text = Spelled(rdid, p)
    BY DEF GatewayLegal, Spells
  <2>3. read = sgServerToRouterConvert(table, Spelled(rdid, p)).payload[1]
    BY <2>2
  <2> HIDE DEF p, read
  <2>4. CASE p \in {Eyeball(d) : d \in Devices}
    <3>1. PICK d \in Devices : p = Eyeball(d)
      BY <2>4
    <3>2. kind = "EYEBALLING" /\ p.serial_number = d
      BY <3>1 DEF Eyeball, sgPayloadGetType
    <3>3. EndsInByte(d) => read = p
      BY <2>3, <3>1, EyeballRead
    <3> QED
      BY <3>2, <3>3 DEF ReadsBack, p, read
  <2>5. CASE p \in Mocks
    <3>1. kind = "MOCKING"
      BY <2>5 DEF Mocks, sgPayloadGetType
    <3>2. SameKey(p.pubkey, read.pubkey)
      BY <2>3, <2>5, MockRead
    <3> QED
      BY <3>1, <3>2 DEF ReadsBack, p, read
  <2>6. CASE p \in Squawks
    <3>1. kind = "SQUAWKING"
      BY <2>6 DEF Squawks, sgPayloadGetType
    <3>2. SameKey(p.data, read.data)
      BY <2>3, <2>6, SquawkRead
    <3> QED
      BY <3>1, <3>2 DEF ReadsBack, p, read
  <2>7. CASE p \in Peacocks
    <3>1. kind = "PEACOCKING"
      BY <2>7 DEF Peacocks, sgPayloadGetType
    <3>2. IsString(p.IO_A_label) /\ IsString(p.IO_A_units) /\ IsString(p.IO_B_label) => read = p
      BY <2>3, <2>7, PeacockRead
    <3> QED
      BY <3>1, <3>2 DEF ReadsBack, p, read
  <2>8. CASE p \in StatusReports
    <3>1. kind = "HEARTBEAT"
      BY <2>8 DEF StatusReports, sgPayloadGetType
    <3>2. read = p
      BY <2>3, <2>8, StatusRead
    <3> QED
      BY <3>1, <3>2 DEF ReadsBack, p, read
  <2>9. CASE p \in [datatype : {"DATA_SENSOR_TO_SERVER", "NETWORK_DISCONNECTS_SENSOR"},
                    sid : Bytes(1), data : Bytes(ChirpSize)]
    <3>1. kind = "CHIRPING"
      BY <2>9 DEF sgPayloadGetType
    <3>2. PICK dt \in {"DATA_SENSOR_TO_SERVER", "NETWORK_DISCONNECTS_SENSOR"} :
            p \in [datatype : {dt}, sid : Bytes(1), data : Bytes(ChirpSize)]
      BY <2>9
    <3>3. IsString(p.data) => read = p
      BY <2>3, <3>2, ChirpRead
    <3> QED
      BY <3>1, <3>3 DEF ReadsBack, p, read
  <2> QED
    BY <2>1, <2>4, <2>5, <2>6, <2>7, <2>8, <2>9 DEF Packets
<1> QED
  BY <1>1, GatewayInvariant, PTL
=============================================================================
