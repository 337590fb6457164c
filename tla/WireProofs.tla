----------------------------- MODULE WireProofs -----------------------------
(***************************************************************************)
(* A connection carries whole messages, in order: for any set of messages  *)
(* that fit the buffer, any capacity of the kernel and any reads and       *)
(* writes, also when either end goes in the middle of a message.           *)
(*                                                                         *)
(* First the packet functions: what is appended, ciphered, authenticated   *)
(* and prepended comes out again (RoundTrip), the length included, so the  *)
(* bytes of a message determine it (MessageBack, LengthBack).  Then the    *)
(* stream: what is under way is the frames of the messages not yet         *)
(* received, or a beginning of them (InStep), and each step of either end  *)
(* keeps it so (SyncSnd to SyncBody).  Both are inductions over the items  *)
(* and the messages, made with sets of numbers (AllNumbers) and with the   *)
(* recursive functions unfolded (AppendedDef, AfterItemsDef, TrainDef).    *)
(***************************************************************************)
EXTENDS Wire, SequenceTheorems, WellFoundedInduction, TLAPS

----------------------------------------------------------------------------
(* Induction                                                               *)

\* Every set of numbers that is not empty has a least one.
LEMMA LeastNumber ==
    ASSUME NEW T \in SUBSET Nat, T # {}
    PROVE  \E x \in T : \A y \in T : x <= y
<1> DEFINE R == {ss \in Nat \X Nat : ss[1] < ss[2]}
<1>1. IsWellFoundedOn(R, Nat)
  BY NatLessThanWellFounded DEF OpToRel
<1> HIDE DEF R
<1>2. PICK x \in T : \A y \in T : <<y, x>> \notin R
  BY <1>1, WFMin
<1>3. \A y \in T : y \in Nat /\ x \in Nat /\ <<y, x>> \in Nat \X Nat
  OBVIOUS
<1>4. \A y \in T : ~(y < x)
  BY <1>2, <1>3 DEF R
<1>. QED  BY <1>3, <1>4

\* Induction, for a set of numbers instead of a property.
LEMMA AllNumbers ==
    ASSUME NEW S \in SUBSET Nat, 0 \in S, \A n \in S : n + 1 \in S
    PROVE  S = Nat
<1>1. SUFFICES ASSUME Nat \ S # {} PROVE FALSE
  OBVIOUS
<1>2. PICK x \in Nat \ S : \A y \in Nat \ S : x <= y
  BY <1>1, LeastNumber
<1>3. x - 1 \in Nat
  BY <1>2
<1>. QED  BY <1>2, <1>3

----------------------------------------------------------------------------
(* Bytes: sequences of whatever                                            *)

\* A sequence; what its elements are does not matter.
Bytes(s) == \E S : s \in Seq(S)

\* Two sequences are sequences over a common set.
LEMMA Common ==
    ASSUME NEW s, NEW t, Bytes(s), Bytes(t)
    PROVE  \E S : s \in Seq(S) /\ t \in Seq(S)
<1>1. PICK S : s \in Seq(S)
  BY DEF Bytes
<1>2. PICK T : t \in Seq(T)
  BY DEF Bytes
<1>3. s \in Seq(S \cup T) /\ t \in Seq(S \cup T)
  BY <1>1, <1>2, SeqMonotonic
<1>. QED  BY <1>3

\* The length and the positions of a sequence.
LEMMA BytesLen ==
    ASSUME NEW s, Bytes(s)
    PROVE  Len(s) \in Nat /\ DOMAIN s = 1 .. Len(s)
BY DEF Bytes

\* Nothing is a sequence too.
LEMMA NoBytes == Bytes(<<>>) /\ Len(<<>>) = 0
BY EmptySeq DEF Bytes

\* Sequences of one length with the same elements are one.
LEMMA SameBytes ==
    ASSUME NEW s, NEW t, Bytes(s), Bytes(t), Len(s) = Len(t),
           \A i \in 1 .. Len(s) : s[i] = t[i]
    PROVE  s = t
<1>1. PICK S : s \in Seq(S) /\ t \in Seq(S)
  BY Common
<1>. QED  BY <1>1, SeqEqual

\* A function on the first n numbers.
LEMMA Row ==
    ASSUME NEW n \in Nat, NEW f, DOMAIN f = 1 .. n, f = [i \in 1 .. n |-> f[i]]
    PROVE  Bytes(f) /\ Len(f) = n
<1>1. PICK S : S = {f[i] : i \in 1 .. n}
  OBVIOUS
<1>2. f \in [1 .. n -> S]
  <2>1. \A i \in 1 .. n : f[i] \in S
    BY <1>1
  <2>. QED  BY <2>1, Zenon
<1>3. f \in Seq(S)
  BY <1>2, SMT
<1>4. Len(f) = n
  BY <1>2, SMT
<1>. QED  BY <1>3, <1>4 DEF Bytes

\* Joining two sequences.
LEMMA Joined ==
    ASSUME NEW s, NEW t, Bytes(s), Bytes(t)
    PROVE  /\ Bytes(s \o t) /\ Len(s \o t) = Len(s) + Len(t)
           /\ \A i \in 1 .. Len(s) : (s \o t)[i] = s[i]
           /\ \A i \in 1 .. Len(t) : (s \o t)[Len(s) + i] = t[i]
<1>1. PICK S : s \in Seq(S) /\ t \in Seq(S)
  BY Common
<1>2. Len(s) \in Nat /\ Len(t) \in Nat
  BY <1>1
<1>3. \A i \in 1 .. Len(s) + Len(t) :
         (s \o t)[i] = IF i <= Len(s) THEN s[i] ELSE t[i - Len(s)]
  BY <1>1, ConcatProperties
<1>4. s \o t \in Seq(S) /\ Len(s \o t) = Len(s) + Len(t)
  BY <1>1, ConcatProperties
<1>5. ASSUME NEW i \in 1 .. Len(t) PROVE (s \o t)[Len(s) + i] = t[i]
  <2>1. Len(s) + i \in 1 .. Len(s) + Len(t) /\ ~(Len(s) + i <= Len(s))
        /\ Len(s) + i - Len(s) = i
    BY <1>2
  <2>. QED  BY <1>3, <2>1
<1>. QED  BY <1>2, <1>3, <1>4, <1>5 DEF Bytes

\* Joining is associative and <<>> changes nothing.
LEMMA JoinedThrice ==
    ASSUME NEW s, NEW t, NEW u, Bytes(s), Bytes(t), Bytes(u)
    PROVE  (s \o t) \o u = s \o (t \o u)
<1>1. PICK S : s \in Seq(S) /\ t \in Seq(S)
  BY Common
<1>2. PICK T : u \in Seq(T)
  BY DEF Bytes
<1>3. s \in Seq(S \cup T) /\ t \in Seq(S \cup T) /\ u \in Seq(S \cup T)
  BY <1>1, <1>2, SeqMonotonic
<1>. QED  BY <1>3, ConcatAssociative

\* Nothing joined to a sequence.
LEMMA JoinedNothing ==
    ASSUME NEW s, Bytes(s)
    PROVE  s \o <<>> = s /\ <<>> \o s = s
BY ConcatEmptySeq DEF Bytes

\* A part of a sequence.
LEMMA Part ==
    ASSUME NEW s, Bytes(s), NEW a \in Nat, NEW b \in Nat, a <= b, b <= Len(s)
    PROVE  /\ Bytes(SubSeq(s, a + 1, b)) /\ Len(SubSeq(s, a + 1, b)) = b - a
           /\ \A i \in 1 .. b - a : SubSeq(s, a + 1, b)[i] = s[a + i]
<1>1. PICK S : s \in Seq(S)
  BY DEF Bytes
<1>2. Len(s) \in Nat
  BY <1>1
<1>3. \A i \in a + 1 .. b : s[i] \in S
  BY <1>1, <1>2, ElementOfSeq
<1>4. /\ SubSeq(s, a + 1, b) \in Seq(S)
      /\ Len(SubSeq(s, a + 1, b)) = IF a + 1 <= b THEN b - (a + 1) + 1 ELSE 0
      /\ \A i \in 1 .. b - (a + 1) + 1 : SubSeq(s, a + 1, b)[i] = s[(a + 1) + i - 1]
  <2> HIDE DEF Bytes
  <2>1. a + 1 \in Int /\ b \in Int
    OBVIOUS
  <2>. QED  BY <1>3, <2>1, SubSeqProperties
<1>5. ASSUME NEW i \in 1 .. b - a
      PROVE  SubSeq(s, a + 1, b)[i] = s[a + i]
  <2>1. i \in 1 .. b - (a + 1) + 1 /\ (a + 1) + i - 1 = a + i
    OBVIOUS
  <2>. QED  BY <1>4, <2>1
<1>6. Len(SubSeq(s, a + 1, b)) = b - a
  BY <1>4
<1>. QED  BY <1>4, <1>5, <1>6 DEF Bytes

\* So many elements after the first a, whatever they are.
LEMMA PartAfter ==
    ASSUME NEW d, NEW a \in Nat, NEW n \in Nat
    PROVE  /\ Bytes(SubSeq(d, a + 1, a + n)) /\ Len(SubSeq(d, a + 1, a + n)) = n
           /\ \A i \in 1 .. n : SubSeq(d, a + 1, a + n)[i] = d[a + i]
<1> DEFINE S == {d[i] : i \in a + 1 .. a + n}
           h == SubSeq(d, a + 1, a + n)
<1>1. \A i \in a + 1 .. a + n : d[i] \in S
  OBVIOUS
<1> HIDE DEF S
<1>2. /\ h \in Seq(S)
      /\ Len(h) = IF a + 1 <= a + n THEN a + n - (a + 1) + 1 ELSE 0
      /\ \A i \in 1 .. a + n - (a + 1) + 1 : h[i] = d[a + 1 + i - 1]
  <2>1. a + 1 \in Int /\ a + n \in Int
    OBVIOUS
  <2>. QED  BY <1>1, <2>1, SubSeqProperties
<1> HIDE DEF h
<1>3. Len(h) = n
  BY <1>2
<1>4. ASSUME NEW i \in 1 .. n PROVE h[i] = d[a + i]
  <2>1. i \in 1 .. a + n - (a + 1) + 1 /\ a + 1 + i - 1 = a + i
    OBVIOUS
  <2>. QED  BY <1>2, <2>1
<1>. QED  BY <1>2, <1>3, <1>4 DEF h, Bytes

\* The bytes of a buffer between two places, when they are those of b.
LEMMA PartIs ==
    ASSUME NEW d, Bytes(d), NEW a \in Nat, NEW b, Bytes(b), a + Len(b) <= Len(d)
    PROVE  (\A i \in 1 .. Len(b) : d[a + i] = b[i])
              => SubSeq(d, a + 1, a + Len(b)) = b
<1> DEFINE n == Len(b)
           e == SubSeq(d, a + 1, a + n)
<1>1. n \in Nat
  BY BytesLen
<1>2. Bytes(e) /\ Len(e) = n /\ \A i \in 1 .. n : e[i] = d[a + i]
  BY <1>1, PartAfter
<1> HIDE DEF e
<1>3. ASSUME \A i \in 1 .. Len(b) : d[a + i] = b[i] PROVE e = b
  <2>1. Len(e) = Len(b) /\ \A i \in 1 .. Len(e) : e[i] = b[i]
    BY <1>2, <1>3
  <2>. QED  BY <1>2, <2>1, SameBytes
<1>. QED  BY <1>3 DEF e

\* The two halves of a joined sequence.
LEMMA Halves ==
    ASSUME NEW s, NEW t, Bytes(s), Bytes(t)
    PROVE  /\ SubSeq(s \o t, 1, Len(s)) = s
           /\ SubSeq(s \o t, Len(s) + 1, Len(s) + Len(t)) = t
<1> DEFINE x == s \o t
           f == SubSeq(x, 0 + 1, Len(s))
           g == SubSeq(x, Len(s) + 1, Len(s) + Len(t))
<1>1. Len(s) \in Nat /\ Len(t) \in Nat
  BY BytesLen
<1>2. /\ Bytes(x) /\ Len(x) = Len(s) + Len(t)
      /\ \A i \in 1 .. Len(s) : x[i] = s[i]
      /\ \A i \in 1 .. Len(t) : x[Len(s) + i] = t[i]
  BY Joined
<1>0. f = SubSeq(s \o t, 1, Len(s)) /\ g = SubSeq(s \o t, Len(s) + 1, Len(s) + Len(t))
  OBVIOUS
<1> HIDE DEF x
<1>3. /\ Bytes(f) /\ Len(f) = Len(s) - 0
      /\ \A i \in 1 .. Len(s) - 0 : f[i] = x[0 + i]
  BY <1>1, <1>2, Part
<1>4. /\ Bytes(g) /\ Len(g) = Len(s) + Len(t) - Len(s)
      /\ \A i \in 1 .. Len(s) + Len(t) - Len(s) : g[i] = x[Len(s) + i]
  <2>1. Len(s) <= Len(s) + Len(t) /\ Len(s) + Len(t) \in Nat
    BY <1>1
  <2>. QED  BY <1>1, <1>2, <2>1, Part
<1> HIDE DEF f, g
<1>5. f = s
  BY <1>1, <1>2, <1>3, SameBytes
<1>6. Len(g) = Len(t) /\ \A i \in 1 .. Len(g) : g[i] = t[i]
  BY <1>1, <1>2, <1>4
<1>7. g = t
  BY <1>4, <1>6, SameBytes
<1>. QED  BY <1>0, <1>5, <1>7

\* Cut anywhere, a sequence is its two parts.
LEMMA Cut ==
    ASSUME NEW s, Bytes(s), NEW a \in Nat, a <= Len(s)
    PROVE  /\ Bytes(SubSeq(s, 1, a)) /\ Len(SubSeq(s, 1, a)) = a
           /\ Bytes(SubSeq(s, a + 1, Len(s)))
           /\ Len(SubSeq(s, a + 1, Len(s))) = Len(s) - a
           /\ SubSeq(s, 1, a) \o SubSeq(s, a + 1, Len(s)) = s
<1> DEFINE f == SubSeq(s, 0 + 1, a)
           g == SubSeq(s, a + 1, Len(s))
<1>1. Len(s) \in Nat
  BY BytesLen
<1>2. /\ Bytes(f) /\ Len(f) = a - 0
      /\ \A i \in 1 .. a - 0 : f[i] = s[0 + i]
  BY <1>1, Part
<1>3. /\ Bytes(g) /\ Len(g) = Len(s) - a
      /\ \A i \in 1 .. Len(s) - a : g[i] = s[a + i]
  BY <1>1, Part
<1>4. f = SubSeq(s, 1, a)
  OBVIOUS
<1> HIDE DEF f, g
<1>b. Bytes(f) /\ Bytes(g)
  BY <1>2, <1>3
<1>c. Len(f) = a /\ \A i \in 1 .. a : f[i] = s[i]
  BY <1>2
<1>5. /\ Bytes(f \o g) /\ Len(f \o g) = Len(f) + Len(g)
      /\ \A i \in 1 .. Len(f) : (f \o g)[i] = f[i]
      /\ \A i \in 1 .. Len(g) : (f \o g)[Len(f) + i] = g[i]
  BY <1>b, Joined
<1>6. ASSUME NEW i \in 1 .. Len(s) PROVE (f \o g)[i] = s[i]
  <2>1. CASE i <= a
    <3>1. i \in 1 .. Len(f) /\ i \in 1 .. a
      BY <1>1, <1>c, <2>1
    <3>2. (f \o g)[i] = f[i]
      BY <1>5, <3>1
    <3>. QED  BY <1>c, <3>1, <3>2
  <2>2. CASE i > a
    <3>1. i - a \in 1 .. Len(g) /\ Len(f) + (i - a) = i /\ a + (i - a) = i
      BY <1>1, <1>c, <1>3, <2>2
    <3>2. i - a \in 1 .. Len(s) - a
      BY <1>1, <2>2
    <3>3. (f \o g)[Len(f) + (i - a)] = g[i - a]
      BY <1>5, <3>1
    <3>4. g[i - a] = s[a + (i - a)]
      BY <1>3, <3>2
    <3>. QED  BY <3>1, <3>3, <3>4
  <2>3. i <= a \/ i > a
    BY <1>1
  <2>. QED  BY <2>1, <2>2, <2>3
<1>7. f \o g = s
  <2>1. Len(f \o g) = Len(s)
    BY <1>1, <1>c, <1>3, <1>5
  <2>. QED  BY <1>5, <1>6, <2>1, SameBytes
<1>. QED  BY <1>b, <1>c, <1>3, <1>4, <1>7 DEF g

----------------------------------------------------------------------------
(* Packets                                                                 *)

USE BufSizeAssumption, LenWidthAssumption, HmacLenAssumption, BlockLenAssumption

\* A packet whose length and position lie in the buffer.
Sound(p) ==
    /\ p = [data |-> p.data, ptr |-> p.ptr, len |-> p.len]
    /\ Bytes(p.data) /\ Len(p.data) = BufSize
    /\ p.ptr \in Nat /\ p.len \in Nat /\ p.ptr <= p.len /\ p.len <= BufSize

\* What is left of a packet to extract.
Rest(p) == SubSeq(p.data, p.ptr + 1, p.len)

\* The bytes of an item are as many as it is wide.
LEMMA ItemBytes ==
    ASSUME NEW item, item.width \in Nat
    PROVE  /\ Bytes(BytesOf(item)) /\ Len(BytesOf(item)) = item.width
           /\ \A i \in 1 .. item.width : BytesOf(item)[i] = <<item.val, i>>
<1> DEFINE f == BytesOf(item)
<1>1. DOMAIN f = 1 .. item.width /\ f = [i \in 1 .. item.width |-> f[i]]
  BY DEF BytesOf
<1>2. \A i \in 1 .. item.width : f[i] = <<item.val, i>>
  BY DEF BytesOf
<1> HIDE DEF f
<1>3. Bytes(f) /\ Len(f) = item.width
  BY <1>1, Row
<1>. QED  BY <1>2, <1>3 DEF f

\* The empty buffer.
LEMMA NewData == Bytes(NewPacket.data) /\ Len(NewPacket.data) = BufSize
<1> DEFINE f == NewPacket.data
<1>1. DOMAIN f = 1 .. BufSize /\ f = [i \in 1 .. BufSize |-> f[i]]
  BY DEF NewPacket
<1> HIDE DEF f
<1>2. Bytes(f) /\ Len(f) = BufSize
  BY <1>1, Row
<1>. QED  BY <1>2 DEF f

\* Writing into the buffer leaves what is before, and its size, alone.
LEMMA Overwritten ==
    ASSUME NEW d, Bytes(d), Len(d) = BufSize, NEW at \in Nat, NEW s, Bytes(s),
           at + Len(s) <= BufSize
    PROVE  /\ Bytes(Overwrite(d, at, s)) /\ Len(Overwrite(d, at, s)) = BufSize
           /\ \A i \in 1 .. at : Overwrite(d, at, s)[i] = d[i]
           /\ \A i \in 1 .. Len(s) : Overwrite(d, at, s)[at + i] = s[i]
<1> DEFINE f == SubSeq(d, 1, at)
           g == SubSeq(d, at + Len(s) + 1, BufSize)
           fs == f \o s
<1>0. Len(s) \in Nat
  BY BytesLen
<1>1. Bytes(f) /\ Len(f) = at /\ \A i \in 1 .. at : f[i] = d[i]
  <2> DEFINE h == SubSeq(d, 0 + 1, at)
  <2>1. at <= BufSize
    BY <1>0
  <2>2. /\ Bytes(h) /\ Len(h) = at - 0
        /\ \A i \in 1 .. at - 0 : h[i] = d[0 + i]
    BY <2>1, Part
  <2>3. h = f
    OBVIOUS
  <2> HIDE DEF h, f
  <2>. QED  BY <2>2, <2>3
<1>2. Bytes(g) /\ Len(g) = BufSize - (at + Len(s))
  <2>1. at + Len(s) \in Nat
    BY <1>0
  <2>. QED  BY <2>1, Part
<1> HIDE DEF f, g
<1>3. /\ Bytes(fs) /\ Len(fs) = Len(f) + Len(s)
      /\ \A i \in 1 .. Len(f) : fs[i] = f[i]
      /\ \A i \in 1 .. Len(s) : fs[Len(f) + i] = s[i]
  BY <1>1, Joined
<1> HIDE DEF fs
<1> DEFINE o == fs \o g
<1>4. /\ Bytes(o) /\ Len(o) = Len(fs) + Len(g)
      /\ \A i \in 1 .. Len(fs) : o[i] = fs[i]
  BY <1>2, <1>3, Joined
<1>5. o = Overwrite(d, at, s)
  BY DEF Overwrite, f, g, fs
<1> HIDE DEF o
<1>6. Len(o) = BufSize
  BY <1>0, <1>1, <1>2, <1>3, <1>4
<1>7. \A i \in 1 .. at : o[i] = d[i]
  BY <1>0, <1>1, <1>3, <1>4
<1>8. ASSUME NEW i \in 1 .. Len(s) PROVE o[at + i] = s[i]
  <2>1. at + i \in 1 .. Len(fs)
    BY <1>0, <1>1, <1>3
  <2>2. fs[at + i] = s[i]
    BY <1>1, <1>3
  <2>. QED  BY <1>4, <2>1, <2>2
<1>. QED  BY <1>4, <1>5, <1>6, <1>7, <1>8

\* A buffer that begins with the bytes s: what a packet of it holds.
LEMMA Holds ==
    ASSUME NEW d, Bytes(d), Len(d) = BufSize, NEW s, Bytes(s), Len(s) <= BufSize,
           \A i \in 1 .. Len(s) : d[i] = s[i]
    PROVE  SubSeq(d, 1, Len(s)) = s
<1>1. Len(s) \in Nat
  BY BytesLen
<1>2. 0 \in Nat /\ 0 + Len(s) <= Len(d) /\ \A i \in 1 .. Len(s) : d[0 + i] = s[i]
  BY <1>1
<1>3. SubSeq(d, 0 + 1, 0 + Len(s)) = s
  BY <1>2, PartIs
<1>4. 0 + 1 = 1 /\ 0 + Len(s) = Len(s)
  BY <1>1
<1>. QED  BY <1>3, <1>4

\* The packet a receive makes of the bytes it has read.
LEMMA FilledHolds ==
    ASSUME NEW s, Bytes(s), Len(s) <= BufSize
    PROVE  /\ Sound(Filled(s)) /\ Filled(s).ptr = 0 /\ Filled(s).len = Len(s)
           /\ Contents(Filled(s)) = s /\ Rest(Filled(s)) = s
<1> DEFINE d == Overwrite(NewPacket.data, 0, s)
           p == Filled(s)
<1>0. Len(s) \in Nat
  BY BytesLen
<1>1. /\ Bytes(d) /\ Len(d) = BufSize
      /\ \A i \in 1 .. Len(s) : d[0 + i] = s[i]
  <2>1. 0 \in Nat /\ 0 + Len(s) <= BufSize
    BY <1>0
  <2>. QED  BY <2>1, NewData, Overwritten
<1>2. p = [data |-> d, ptr |-> 0, len |-> Len(s)]
  BY DEF Filled
<1> HIDE DEF d
<1>3. \A i \in 1 .. Len(s) : d[i] = s[i]
  BY <1>0, <1>1
<1>4. SubSeq(d, 1, Len(s)) = s
  BY <1>1, <1>3, Holds
<1> HIDE DEF p
<1>5. p.data = d /\ p.ptr = 0 /\ p.len = Len(s)
      /\ p = [data |-> p.data, ptr |-> p.ptr, len |-> p.len]
  BY <1>2
<1>6. Sound(p)
  BY <1>0, <1>1, <1>5 DEF Sound
<1>7. p.ptr + 1 = 1
  BY <1>5
<1>. QED  BY <1>4, <1>5, <1>6, <1>7 DEF p, Contents, Rest

\* A packet holds as many bytes as it is long.
LEMMA ContentsLen ==
    ASSUME NEW p, p.len \in Nat
    PROVE  Bytes(Contents(p)) /\ Len(Contents(p)) = p.len
           /\ \A i \in 1 .. p.len : Contents(p)[i] = p.data[i]
<1> DEFINE d == p.data
           n == p.len
           h == SubSeq(d, 0 + 1, 0 + n)
<1>1. Bytes(h) /\ Len(h) = n /\ \A i \in 1 .. n : h[i] = d[0 + i]
  <2>1. 0 \in Nat /\ n \in Nat
    OBVIOUS
  <2>. QED  BY <2>1, PartAfter
<1>2. h = Contents(p)
  BY DEF Contents
<1> HIDE DEF h, d
<1>3. \A i \in 1 .. n : h[i] = d[i]
  BY <1>1
<1>. QED  BY <1>1, <1>2, <1>3 DEF d

\* An item before the contents (prepend_item and its like).
LEMMA PrependHolds ==
    ASSUME NEW p, p.ptr \in Nat, p.len \in Nat, p.ptr <= p.len, NEW item,
           item.width \in Nat, p.len + item.width <= BufSize
    PROVE  LET q == PrependItem(p, item)
           IN  /\ Sound(q) /\ q.len = p.len + item.width
               /\ Contents(q) = BytesOf(item) \o Contents(p)
<1> DEFINE s == BytesOf(item) \o Contents(p)
           d == Overwrite(NewPacket.data, 0, s)
           q == PrependItem(p, item)
<1>1. Bytes(s) /\ Len(s) = p.len + item.width
  <2>1. Bytes(BytesOf(item)) /\ Len(BytesOf(item)) = item.width
    BY ItemBytes
  <2>2. Bytes(Contents(p)) /\ Len(Contents(p)) = p.len
    BY ContentsLen
  <2>. QED  BY <2>1, <2>2, Joined
<1> HIDE DEF s
<1>2. /\ Bytes(d) /\ Len(d) = BufSize
      /\ \A i \in 1 .. Len(s) : d[0 + i] = s[i]
  BY <1>1, NewData, Overwritten
<1>3. q = [data |-> d, ptr |-> p.ptr + item.width, len |-> p.len + item.width]
  BY DEF PrependItem, s
<1> HIDE DEF d, q
<1>4. \A i \in 1 .. Len(s) : d[i] = s[i]
  BY <1>1, <1>2
<1>5. SubSeq(d, 1, Len(s)) = s
  BY <1>1, <1>2, <1>4, Holds
<1>6. /\ q.data = d /\ q.ptr = p.ptr + item.width /\ q.len = p.len + item.width
      /\ q = [data |-> q.data, ptr |-> q.ptr, len |-> q.len]
  BY <1>3
<1>7. Sound(q)
  BY <1>2, <1>6 DEF Sound
<1>8. Contents(q) = s
  BY <1>1, <1>5, <1>6 DEF Contents
<1>. QED  BY <1>6, <1>7, <1>8 DEF s, q

\* An item after the contents (append_item).
LEMMA AppendHolds ==
    ASSUME NEW p, Sound(p), p.ptr = p.len, NEW item,
           item.width \in Nat, p.len + item.width <= BufSize
    PROVE  LET q == AppendItem(p, item)
           IN  /\ Sound(q) /\ q.ptr = q.len /\ q.len = p.len + item.width
               /\ \A i \in 1 .. p.len : q.data[i] = p.data[i]
               /\ \A i \in 1 .. item.width :
                     q.data[p.len + i] = BytesOf(item)[i]
<1> DEFINE s == BytesOf(item)
           d == Overwrite(p.data, p.ptr, s)
           q == AppendItem(p, item)
<1>0. p.ptr \in Nat /\ p.len \in Nat /\ Bytes(p.data) /\ Len(p.data) = BufSize
  BY DEF Sound
<1>1. Bytes(s) /\ Len(s) = item.width
  BY ItemBytes
<1> HIDE DEF s
<1>2. /\ Bytes(d) /\ Len(d) = BufSize
      /\ \A i \in 1 .. p.ptr : d[i] = p.data[i]
      /\ \A i \in 1 .. Len(s) : d[p.ptr + i] = s[i]
  <2>1. p.ptr + Len(s) <= BufSize
    BY <1>1
  <2>. QED  BY <1>0, <1>1, <2>1, Overwritten
<1>3. q = [data |-> d, ptr |-> p.ptr + item.width, len |-> p.len + item.width]
  BY DEF AppendItem, s
<1> HIDE DEF d, q
<1>6. /\ q.data = d /\ q.ptr = p.ptr + item.width /\ q.len = p.len + item.width
      /\ q = [data |-> q.data, ptr |-> q.ptr, len |-> q.len]
  BY <1>3
<1>7. Sound(q)
  BY <1>0, <1>2, <1>6 DEF Sound
<1>. QED  BY <1>0, <1>1, <1>2, <1>6, <1>7 DEF s, q

\* What is left, byte by byte.
LEMMA RestHolds ==
    ASSUME NEW p, Sound(p)
    PROVE  /\ Bytes(Rest(p)) /\ Len(Rest(p)) = p.len - p.ptr
           /\ \A i \in 1 .. p.len - p.ptr : Rest(p)[i] = p.data[p.ptr + i]
<1>1. /\ p.ptr \in Nat /\ p.len \in Nat /\ p.ptr <= p.len /\ p.len <= Len(p.data)
      /\ Bytes(p.data)
  BY DEF Sound
<1>. QED  BY <1>1, Part DEF Rest

\* Extracting the first part of what is left.
LEMMA ExtractHolds ==
    ASSUME NEW p, Sound(p), NEW b, NEW r, Bytes(b), Bytes(r), Rest(p) = b \o r
    PROVE  LET q == AfterExtract(p, Len(b))
           IN  /\ Extracted(p, Len(b)) = b
               /\ Sound(q) /\ Rest(q) = r
<1> DEFINE q == AfterExtract(p, Len(b))
           x == b \o r
           d == p.data
           a == p.ptr
           m == p.len
           n == Len(b)
           l == Len(r)
<1>1. /\ a \in Nat /\ m \in Nat /\ a <= m /\ m <= BufSize
      /\ Bytes(d) /\ Len(d) = BufSize /\ n \in Nat /\ l \in Nat
  BY BytesLen DEF Sound
<1>2. /\ Len(x) = n + l
      /\ \A i \in 1 .. n : x[i] = b[i]
      /\ \A i \in 1 .. l : x[n + i] = r[i]
  BY Joined
<1>3. Len(x) = m - a /\ \A i \in 1 .. m - a : x[i] = d[a + i]
  BY RestHolds
<1>4. q = [data |-> d, ptr |-> a + n, len |-> m]
  BY DEF AfterExtract, Sound
<1>5. /\ Extracted(p, n) = SubSeq(d, a + 1, a + n)
      /\ Rest(q) = SubSeq(q.data, q.ptr + 1, q.len)
      /\ Len(b) = n /\ Len(r) = l
  BY DEF Extracted, Rest
<1> HIDE DEF q, x, d, a, m, n, l
<1>6. m = a + n + l /\ m - a = n + l
  BY <1>1, <1>2, <1>3
<1>7. \A i \in 1 .. n : d[a + i] = b[i]
  <2>1. \A i \in 1 .. n : i \in 1 .. m - a
    BY <1>1, <1>6
  <2>. QED  BY <1>2, <1>3, <2>1
<1>8. ASSUME NEW i \in 1 .. l PROVE d[a + n + i] = r[i]
  <2>1. n + i \in 1 .. m - a /\ a + (n + i) = a + n + i
    BY <1>1, <1>6
  <2>. QED  BY <1>2, <1>3, <2>1
<1>9. SubSeq(d, a + 1, a + n) = b
  <2>1. a + Len(b) <= Len(d)
    BY <1>1, <1>5, <1>6
  <2>2. \A i \in 1 .. Len(b) : d[a + i] = b[i]
    BY <1>5, <1>7
  <2>3. SubSeq(d, a + 1, a + Len(b)) = b
    BY <1>1, <2>1, <2>2, PartIs
  <2>. QED  BY <1>5, <2>3
<1>10. SubSeq(d, a + n + 1, a + n + l) = r
  <2> DEFINE c == a + n
  <2>1. c \in Nat /\ c + Len(r) <= Len(d)
    BY <1>1, <1>5, <1>6
  <2>2. \A i \in 1 .. Len(r) : d[c + i] = r[i]
    BY <1>5, <1>8
  <2> HIDE DEF c
  <2>3. SubSeq(d, c + 1, c + Len(r)) = r
    BY <1>1, <2>1, <2>2, PartIs
  <2>. QED  BY <1>5, <2>3 DEF c
<1>11. /\ q.data = d /\ q.ptr = a + n /\ q.len = m
       /\ q = [data |-> q.data, ptr |-> q.ptr, len |-> q.len]
  BY <1>4
<1>12. Sound(q)
  BY <1>1, <1>6, <1>11 DEF Sound
<1>13. Rest(q) = r
  BY <1>5, <1>6, <1>10, <1>11
<1>14. Extracted(p, n) = b
  BY <1>5, <1>9
<1>. QED  BY <1>12, <1>13, <1>14 DEF q, n

\* What truncate leaves.
LEMMA TruncateHolds ==
    ASSUME NEW p, Sound(p)
    PROVE  /\ Sound(Truncate(p)) /\ Contents(Truncate(p)) = Rest(p)
           /\ Rest(Truncate(p)) = Rest(p) /\ Bytes(Rest(p))
           /\ Len(Rest(p)) = p.len - p.ptr
<1>1. /\ p.ptr \in Nat /\ p.len \in Nat /\ p.ptr <= p.len /\ p.len <= BufSize
      /\ Bytes(p.data) /\ Len(p.data) = BufSize
  BY DEF Sound
<1>2. Bytes(Rest(p)) /\ Len(Rest(p)) = p.len - p.ptr
  BY <1>1, Part DEF Rest
<1>3. Len(Rest(p)) <= BufSize
  BY <1>1, <1>2
<1>4. Truncate(p) = Filled(Rest(p))
  BY DEF Truncate, Rest
<1>. QED  BY <1>2, <1>3, <1>4, FilledHolds

----------------------------------------------------------------------------
(* The functions of a packet's items                                       *)

\* What appending one item after the other makes.
LEMMA AppendedDef ==
    ASSUME NEW items, Len(items) \in Nat
    PROVE  LET P == Appended(items)
           IN  /\ P[0] = NewPacket
               /\ \A i \in 1 .. Len(items) : P[i] = AppendItem(P[i - 1], items[i])
<1> DEFINE n == Len(items)
           Rec(f, k) == f = [i \in 0 .. k |->
              IF i = 0 THEN NewPacket ELSE AppendItem(f[i - 1], items[i])]
           T == {k \in Nat : \E f : Rec(f, k)}
<1>1. 0 \in T
  <2>1. Rec([i \in 0 .. 0 |-> NewPacket], 0)
    OBVIOUS
  <2>. QED  BY <2>1
<1>2. ASSUME NEW k \in T PROVE k + 1 \in T
  <2>1. PICK f : Rec(f, k)
    OBVIOUS
  <2> DEFINE g == [i \in 0 .. k + 1 |->
                IF i = k + 1 THEN AppendItem(f[k], items[k + 1]) ELSE f[i]]
  <2>2. ASSUME NEW i \in 0 .. k + 1
        PROVE  g[i] = IF i = 0 THEN NewPacket ELSE AppendItem(g[i - 1], items[i])
    <3>1. CASE i = k + 1
      <4>1. i # 0 /\ i - 1 = k /\ k \in 0 .. k + 1 /\ k # k + 1
        BY <3>1
      <4>2. g[i] = AppendItem(f[k], items[k + 1]) /\ g[k] = f[k]
        BY <3>1, <4>1
      <4>. QED  BY <3>1, <4>1, <4>2
    <3>2. CASE i # k + 1
      <4>1. i \in 0 .. k /\ (i # 0 => i - 1 \in 0 .. k + 1 /\ i - 1 # k + 1)
        BY <3>2
      <4>2. g[i] = f[i] /\ (i # 0 => g[i - 1] = f[i - 1])
        BY <3>2, <4>1
      <4>. QED  BY <2>1, <4>1, <4>2
    <3>. QED  BY <3>1, <3>2
  <2>3. g = [i \in 0 .. k + 1 |->
                IF i = 0 THEN NewPacket ELSE AppendItem(g[i - 1], items[i])]
    <3> HIDE DEF g
    <3>1. g = [i \in 0 .. k + 1 |-> g[i]]
      BY DEF g
    <3>. QED  BY <2>2, <3>1
  <2>4. Rec(g, k + 1)
    BY <2>3
  <2> HIDE DEF g
  <2>5. \E f1 : Rec(f1, k + 1)
    BY <2>4
  <2>6. k + 1 \in Nat
    OBVIOUS
  <2> HIDE DEF Rec
  <2>. QED  BY <2>5, <2>6
<1>3. T = Nat
  <2> HIDE DEF T
  <2>1. T \in SUBSET Nat
    BY DEF T
  <2>. QED  BY <1>1, <1>2, <2>1, AllNumbers
<1>4. \E f : Rec(f, n)
  BY <1>3
<1>5. Rec(Appended(items), n)
  BY <1>4 DEF Appended
<1> DEFINE P == Appended(items)
<1> HIDE DEF P
<1>6. P = [i \in 0 .. n |->
              IF i = 0 THEN NewPacket ELSE AppendItem(P[i - 1], items[i])]
  BY <1>5 DEF P
<1>7. P[0] = NewPacket
  BY <1>6
<1>8. ASSUME NEW i \in 1 .. n PROVE P[i] = AppendItem(P[i - 1], items[i])
  BY <1>6
<1>. QED  BY <1>7, <1>8 DEF P

\* What extracting items of these widths, one after the other, leaves.
LEMMA AfterItemsDef ==
    ASSUME NEW p, NEW widths, Len(widths) \in Nat
    PROVE  LET A == AfterItems(p, widths)
           IN  /\ A[0] = p
               /\ \A i \in 1 .. Len(widths) : A[i] = AfterExtract(A[i - 1], widths[i])
<1> DEFINE n == Len(widths)
           Rec(f, k) == f = [i \in 0 .. k |->
              IF i = 0 THEN p ELSE AfterExtract(f[i - 1], widths[i])]
           T == {k \in Nat : \E f : Rec(f, k)}
<1>1. 0 \in T
  <2>1. Rec([i \in 0 .. 0 |-> p], 0)
    OBVIOUS
  <2>. QED  BY <2>1
<1>2. ASSUME NEW k \in T PROVE k + 1 \in T
  <2>1. PICK f : Rec(f, k)
    OBVIOUS
  <2> DEFINE g == [i \in 0 .. k + 1 |->
                IF i = k + 1 THEN AfterExtract(f[k], widths[k + 1]) ELSE f[i]]
  <2>2. ASSUME NEW i \in 0 .. k + 1
        PROVE  g[i] = IF i = 0 THEN p ELSE AfterExtract(g[i - 1], widths[i])
    <3>1. CASE i = k + 1
      <4>1. i # 0 /\ i - 1 = k /\ k \in 0 .. k + 1 /\ k # k + 1
        BY <3>1
      <4>2. g[i] = AfterExtract(f[k], widths[k + 1]) /\ g[k] = f[k]
        BY <3>1, <4>1
      <4>. QED  BY <3>1, <4>1, <4>2
    <3>2. CASE i # k + 1
      <4>1. i \in 0 .. k /\ (i # 0 => i - 1 \in 0 .. k + 1 /\ i - 1 # k + 1)
        BY <3>2
      <4>2. g[i] = f[i] /\ (i # 0 => g[i - 1] = f[i - 1])
        BY <3>2, <4>1
      <4>. QED  BY <2>1, <4>1, <4>2
    <3>. QED  BY <3>1, <3>2
  <2>3. g = [i \in 0 .. k + 1 |->
                IF i = 0 THEN p ELSE AfterExtract(g[i - 1], widths[i])]
    <3> HIDE DEF g
    <3>1. g = [i \in 0 .. k + 1 |-> g[i]]
      BY DEF g
    <3>. QED  BY <2>2, <3>1
  <2>4. Rec(g, k + 1)
    BY <2>3
  <2> HIDE DEF g
  <2>5. \E f1 : Rec(f1, k + 1)
    BY <2>4
  <2>6. k + 1 \in Nat
    OBVIOUS
  <2> HIDE DEF Rec
  <2>. QED  BY <2>5, <2>6
<1>3. T = Nat
  <2> HIDE DEF T
  <2>1. T \in SUBSET Nat
    BY DEF T
  <2>. QED  BY <1>1, <1>2, <2>1, AllNumbers
<1>4. \E f : Rec(f, n)
  BY <1>3
<1>5. Rec(AfterItems(p, widths), n)
  BY <1>4 DEF AfterItems
<1> DEFINE A == AfterItems(p, widths)
<1> HIDE DEF A
<1>6. A = [i \in 0 .. n |-> IF i = 0 THEN p ELSE AfterExtract(A[i - 1], widths[i])]
  BY <1>5 DEF A
<1>7. A[0] = p
  BY <1>6
<1>8. ASSUME NEW i \in 1 .. n PROVE A[i] = AfterExtract(A[i - 1], widths[i])
  BY <1>6
<1>. QED  BY <1>7, <1>8 DEF A

\* The lengths while the items are appended.
LEMMA ItemsLen ==
    ASSUME NEW items, Len(items) \in Nat,
           \A i \in 1 .. Len(items) : items[i].width \in Nat
    PROVE  LET P == Appended(items)
           IN  /\ \A i \in 0 .. Len(items) : P[i].len \in Nat /\ P[i].ptr = P[i].len
               /\ \A i \in 1 .. Len(items) : P[i].len = P[i - 1].len + items[i].width
               /\ \A i, k \in 0 .. Len(items) : i <= k => P[i].len <= P[k].len
<1> DEFINE P == Appended(items)
           n == Len(items)
           T == {k \in Nat : k <= n => P[k].len \in Nat /\ P[k].ptr = P[k].len}
<1>1. /\ P[0] = NewPacket
      /\ \A i \in 1 .. n : P[i] = AppendItem(P[i - 1], items[i])
  BY AppendedDef
<1> HIDE DEF P
<1>2. ASSUME NEW i \in 1 .. n
      PROVE  /\ P[i].len = P[i - 1].len + items[i].width
             /\ P[i].ptr = P[i - 1].ptr + items[i].width
  <2> DEFINE p == P[i - 1]
  <2>1. P[i] = AppendItem(p, items[i])
    BY <1>1
  <2> HIDE DEF p
  <2>2. P[i].len = p.len + items[i].width /\ P[i].ptr = p.ptr + items[i].width
    BY <2>1 DEF AppendItem
  <2>. QED  BY <2>2 DEF p
<1>3. T = Nat
  <2>1. 0 \in T
    BY <1>1 DEF NewPacket
  <2>2. ASSUME NEW k \in T PROVE k + 1 \in T
    <3>1. SUFFICES ASSUME k + 1 <= n
                   PROVE  P[k + 1].len \in Nat /\ P[k + 1].ptr = P[k + 1].len
      OBVIOUS
    <3>2. k \in Nat /\ k <= n /\ k + 1 \in 1 .. n /\ (k + 1) - 1 = k
      BY <3>1
    <3>3. P[k].len \in Nat /\ P[k].ptr = P[k].len
      BY <3>2
    <3>4. items[k + 1].width \in Nat
      BY <3>2
    <3>5. /\ P[k + 1].len = P[k].len + items[k + 1].width
          /\ P[k + 1].ptr = P[k].ptr + items[k + 1].width
      BY <1>2, <3>2
    <3>. QED  BY <3>3, <3>4, <3>5
  <2>3. T \in SUBSET Nat
    OBVIOUS
  <2> HIDE DEF T
  <2>. QED  BY <2>1, <2>2, <2>3, AllNumbers
<1>4. ASSUME NEW i \in 0 .. n PROVE P[i].len \in Nat /\ P[i].ptr = P[i].len
  <2>1. i \in T
    BY <1>3
  <2>. QED  BY <2>1
<1>5. ASSUME NEW i \in 0 .. n, NEW k \in 0 .. n, i <= k PROVE P[i].len <= P[k].len
  <2> DEFINE U == {m \in Nat : i + m <= n => P[i].len <= P[i + m].len}
  <2>1. 0 \in U
    <3>1. P[i].len \in Nat /\ i + 0 = i
      BY <1>4
    <3>2. P[i].len <= P[i].len
      BY <3>1
    <3>. QED  BY <3>1, <3>2
  <2>2. ASSUME NEW m \in U PROVE m + 1 \in U
    <3>1. SUFFICES ASSUME i + (m + 1) <= n PROVE P[i].len <= P[i + (m + 1)].len
      OBVIOUS
    <3> DEFINE l == i + m
    <3>2. /\ l \in 0 .. n /\ l + 1 \in 1 .. n /\ l + 1 = i + (m + 1)
          /\ (l + 1) - 1 = l
      BY <3>1
    <3>3. P[i].len <= P[l].len
      BY <3>2
    <3> HIDE DEF l
    <3>4. P[l + 1].len = P[l].len + items[l + 1].width
          /\ items[l + 1].width \in Nat /\ P[l].len \in Nat /\ P[i].len \in Nat
      BY <1>2, <1>4, <3>2
    <3>5. P[i].len <= P[l + 1].len
      BY <3>3, <3>4
    <3>. QED  BY <3>2, <3>5
  <2>3. U \in SUBSET Nat
    OBVIOUS
  <2> HIDE DEF U
  <2>4. U = Nat
    BY <2>1, <2>2, <2>3, AllNumbers
  <2>5. k - i \in Nat /\ i + (k - i) = k
    BY <1>5
  <2>6. k - i \in U
    BY <2>4, <2>5
  <2>. QED  BY <2>5, <2>6 DEF U
<1>. QED  BY <1>2, <1>4, <1>5 DEF P

\* The buffer holds the items where they were appended.
LEMMA ItemsHold ==
    ASSUME NEW items, Len(items) \in Nat,
           \A i \in 1 .. Len(items) : items[i].width \in Nat,
           Appended(items)[Len(items)].len <= BufSize
    PROVE  LET P == Appended(items)
               n == Len(items)
           IN  /\ Sound(P[n]) /\ P[n].ptr = P[n].len
               /\ \A i \in 1 .. n : \A j \in 1 .. items[i].width :
                     P[n].data[P[i - 1].len + j] = BytesOf(items[i])[j]
<1> DEFINE P == Appended(items)
           n == Len(items)
           Held(k) == \A i \in 1 .. k : \A j \in 1 .. items[i].width :
                         P[k].data[P[i - 1].len + j] = BytesOf(items[i])[j]
           T == {k \in Nat : k <= n => Sound(P[k]) /\ Held(k)}
<1>1. /\ P[0] = NewPacket
      /\ \A i \in 1 .. n : P[i] = AppendItem(P[i - 1], items[i])
  BY AppendedDef
<1>2. /\ \A i \in 0 .. n : P[i].len \in Nat /\ P[i].ptr = P[i].len
      /\ \A i \in 1 .. n : P[i].len = P[i - 1].len + items[i].width
      /\ \A i, k \in 0 .. n : i <= k => P[i].len <= P[k].len
  BY ItemsLen
<1>3. P[n].len <= BufSize
  OBVIOUS
<1> HIDE DEF P
<1>4. 0 \in T
  <2>1. NewPacket = [data |-> NewPacket.data, ptr |-> 0, len |-> 0]
    BY DEF NewPacket
  <2>2. Sound(NewPacket)
    BY <2>1, NewData DEF Sound
  <2>. QED  BY <1>1, <2>2
<1>5. ASSUME NEW k \in T PROVE k + 1 \in T
  <2>1. SUFFICES ASSUME k + 1 <= n PROVE Sound(P[k + 1]) /\ Held(k + 1)
    <3> HIDE DEF Held, n
    <3>. QED  OBVIOUS
  <2> DEFINE p == P[k]
             item == items[k + 1]
             q == P[k + 1]
  <2>2. /\ k \in Nat /\ k <= n /\ k \in 0 .. n /\ k + 1 \in 1 .. n
        /\ k + 1 \in 0 .. n /\ n \in 0 .. n /\ (k + 1) - 1 = k
    BY <2>1
  <2>3. Sound(p) /\ Held(k)
    BY <2>2
  <2>4. p.ptr = p.len /\ item.width \in Nat /\ q.len = p.len + item.width
        /\ q.len <= P[n].len /\ q.len \in Nat /\ p.len \in Nat /\ P[n].len \in Nat
    BY <1>2, <2>2
  <2>5. p.len + item.width <= BufSize
    BY <1>3, <2>4
  <2>6. q = AppendItem(p, item)
    BY <1>1, <2>2
  <2> HIDE DEF p, item, q
  <2>7. /\ Sound(q)
        /\ \A i \in 1 .. p.len : q.data[i] = p.data[i]
        /\ \A i \in 1 .. item.width : q.data[p.len + i] = BytesOf(item)[i]
    BY <2>3, <2>4, <2>5, <2>6, AppendHolds
  <2>8. ASSUME NEW i \in 1 .. k + 1, NEW j \in 1 .. items[i].width
        PROVE  q.data[P[i - 1].len + j] = BytesOf(items[i])[j]
    <3>1. CASE i = k + 1
      <4>1. i - 1 = k /\ items[i] = item
        BY <3>1, <2>2 DEF item
      <4>2. P[i - 1] = p
        BY <4>1 DEF p
      <4>. QED  BY <2>7, <4>1, <4>2
    <3>2. CASE i # k + 1
      <4>1. i \in 1 .. k /\ i \in 1 .. n /\ i - 1 \in 0 .. n /\ i \in 0 .. n
        BY <2>2, <3>2
      <4>2. p.data[P[i - 1].len + j] = BytesOf(items[i])[j]
        BY <2>3, <4>1 DEF p
      <4>3. P[i].len = P[i - 1].len + items[i].width /\ P[i - 1].len \in Nat
            /\ items[i].width \in Nat
        BY <1>2, <4>1
      <4>4. P[i].len <= p.len
        BY <1>2, <2>2, <4>1 DEF p
      <4>5. P[i - 1].len + j \in 1 .. p.len
        <5> DEFINE a == P[i - 1].len
                   w == items[i].width
                   l == p.len
        <5>1. a \in Nat /\ w \in Nat /\ l \in Nat /\ j \in 1 .. w /\ a + w <= l
          BY <2>4, <4>3, <4>4
        <5> HIDE DEF a, w, l
        <5>2. a + j \in 1 .. l
          BY <5>1
        <5>. QED  BY <5>2 DEF a, l
      <4>. QED  BY <2>7, <4>2, <4>5
    <3>. QED  BY <3>1, <3>2
  <2>. QED  BY <2>7, <2>8 DEF q
<1>6. T = Nat
  <2>1. T \in SUBSET Nat
    OBVIOUS
  <2> HIDE DEF T
  <2>. QED  BY <1>4, <1>5, <2>1, AllNumbers
<1>7. Sound(P[n]) /\ Held(n)
  <2>1. n \in T
    BY <1>6
  <2>. QED  BY <2>1
<1>8. P[n].ptr = P[n].len
  BY <1>2
<1>. QED  BY <1>7, <1>8 DEF P

\* Whoever has the bytes of the items and their widths extracts the items.
LEMMA ItemsBack ==
    ASSUME NEW items, Len(items) \in Nat,
           \A i \in 1 .. Len(items) : items[i].width \in Nat,
           Appended(items)[Len(items)].len <= BufSize,
           NEW p, Sound(p), Rest(p) = Contents(Appended(items)[Len(items)])
    PROVE  ItemsOf(p, Widths(items)) = [i \in 1 .. Len(items) |-> BytesOf(items[i])]
<1> DEFINE P == Appended(items)
           n == Len(items)
           w == Widths(items)
           A == AfterItems(p, w)
           T == {k \in Nat : k <= n =>
                   A[k].data = p.data /\ A[k].ptr = p.ptr + P[k].len
                   /\ A[k] = [data |-> A[k].data, ptr |-> A[k].ptr, len |-> A[k].len]}
<1>1. /\ \A i \in 0 .. n : P[i].len \in Nat /\ P[i].ptr = P[i].len
      /\ \A i \in 1 .. n : P[i].len = P[i - 1].len + items[i].width
      /\ \A i, k \in 0 .. n : i <= k => P[i].len <= P[k].len
  BY ItemsLen
<1>2. /\ Sound(P[n])
      /\ \A i \in 1 .. n : \A j \in 1 .. items[i].width :
            P[n].data[P[i - 1].len + j] = BytesOf(items[i])[j]
  BY ItemsHold
<1>3. Len(w) = n /\ \A i \in 1 .. n : w[i] = items[i].width
  <2>1. DOMAIN w = 1 .. n /\ w = [i \in 1 .. n |-> w[i]]
    BY DEF Widths
  <2>2. \A i \in 1 .. n : w[i] = items[i].width
    BY DEF Widths
  <2> HIDE DEF w
  <2>. QED  BY <2>1, <2>2, Row
<1> HIDE DEF w
<1>4. A[0] = p /\ \A i \in 1 .. n : A[i] = AfterExtract(A[i - 1], w[i])
  BY <1>3, AfterItemsDef
<1>5. P[0].len = 0
  <2>1. P[0] = NewPacket
    BY AppendedDef
  <2>. QED  BY <2>1 DEF NewPacket
<1> DEFINE c == Contents(P[n])
<1>6. \A i \in 1 .. P[n].len : c[i] = P[n].data[i]
  BY <1>1, ContentsLen
<1>7. /\ p = [data |-> p.data, ptr |-> p.ptr, len |-> p.len]
      /\ p.ptr \in Nat /\ p.len \in Nat /\ p.ptr <= p.len /\ p.len <= Len(p.data)
      /\ Bytes(p.data)
  BY DEF Sound
<1>8. Len(c) = P[n].len /\ Len(c) = p.len - p.ptr
      /\ \A i \in 1 .. p.len - p.ptr : c[i] = p.data[p.ptr + i]
  BY <1>1, ContentsLen, RestHolds
<1> HIDE DEF P, A, c
<1>9. T = Nat
  <2>1. 0 \in T
    BY <1>4, <1>5, <1>7
  <2>2. ASSUME NEW k \in T PROVE k + 1 \in T
    <3>1. SUFFICES ASSUME k + 1 <= n
                   PROVE  /\ A[k + 1].data = p.data
                          /\ A[k + 1].ptr = p.ptr + P[k + 1].len
                          /\ A[k + 1] = [data |-> A[k + 1].data,
                                          ptr |-> A[k + 1].ptr, len |-> A[k + 1].len]
      OBVIOUS
    <3>2. k \in Nat /\ k <= n /\ k \in 0 .. n /\ k + 1 \in 1 .. n /\ (k + 1) - 1 = k
          /\ k + 1 \in 0 .. n
      BY <3>1
    <3> DEFINE a == A[k]
               b == A[k + 1]
    <3>3. /\ a.data = p.data /\ a.ptr = p.ptr + P[k].len
          /\ a = [data |-> a.data, ptr |-> a.ptr, len |-> a.len]
      BY <3>2
    <3>4. b = AfterExtract(a, items[k + 1].width)
      BY <1>3, <1>4, <3>2
    <3> HIDE DEF a, b
    <3>5. b = [data |-> a.data, ptr |-> a.ptr + items[k + 1].width, len |-> a.len]
      BY <3>3, <3>4 DEF AfterExtract
    <3>6. /\ P[k + 1].len = P[k].len + items[k + 1].width
          /\ P[k].len \in Nat /\ items[k + 1].width \in Nat
      BY <1>1, <3>2
    <3>7. b.ptr = p.ptr + P[k + 1].len
      BY <1>7, <3>3, <3>5, <3>6
    <3>8. b.data = p.data /\ b = [data |-> b.data, ptr |-> b.ptr, len |-> b.len]
      BY <3>3, <3>5
    <3>. QED  BY <3>7, <3>8 DEF b
  <2>3. T \in SUBSET Nat
    OBVIOUS
  <2> HIDE DEF T
  <2>. QED  BY <2>1, <2>2, <2>3, AllNumbers
<1>10. ASSUME NEW i \in 1 .. n
       PROVE  Extracted(A[i - 1], w[i]) = BytesOf(items[i])
  <2> DEFINE a == A[i - 1]
             b == BytesOf(items[i])
             l == P[i - 1].len
             m == items[i].width
             at == p.ptr + l
  <2>1. /\ i - 1 \in Nat /\ i - 1 <= n /\ i - 1 \in 0 .. n /\ i \in 0 .. n /\ n \in 0 .. n
        /\ i <= n
    OBVIOUS
  <2>2. a.data = p.data /\ a.ptr = at
    <3>1. i - 1 \in T
      BY <1>9, <2>1
    <3>. QED  BY <2>1, <3>1
  <2>3. l \in Nat /\ m \in Nat /\ P[i].len = l + m /\ P[i].len <= P[n].len
    BY <1>1, <2>1
  <2>4. Bytes(b) /\ Len(b) = m
    BY ItemBytes
  <2> HIDE DEF a, b, l, m
  <2>5. at \in Nat /\ at + Len(b) <= Len(p.data)
    BY <1>7, <1>8, <2>3, <2>4
  <2>6. ASSUME NEW j \in 1 .. Len(b) PROVE p.data[at + j] = b[j]
    <3>1. l + j \in 1 .. P[n].len /\ l + j \in 1 .. p.len - p.ptr
          /\ p.ptr + (l + j) = at + j
      BY <1>7, <1>8, <2>3, <2>4
    <3>2. c[l + j] = p.data[at + j]
      BY <1>8, <3>1
    <3>3. c[l + j] = P[n].data[l + j]
      BY <1>6, <3>1
    <3>4. P[n].data[l + j] = b[j]
      BY <1>2, <2>4 DEF b, l, m
    <3>. QED  BY <3>2, <3>3, <3>4
  <2> HIDE DEF at
  <2>7. SubSeq(p.data, at + 1, at + Len(b)) = b
    BY <1>7, <2>4, <2>5, <2>6, PartIs
  <2>8. w[i] = Len(b)
    BY <1>3, <2>4 DEF m
  <2>9. Extracted(a, w[i]) = SubSeq(a.data, a.ptr + 1, a.ptr + w[i])
    BY DEF Extracted
  <2>. QED  BY <2>2, <2>7, <2>8, <2>9 DEF a, b
<1>11. ItemsOf(p, w) = [i \in 1 .. n |-> Extracted(A[i - 1], w[i])]
  BY <1>3 DEF ItemsOf, A
<1>12. ItemsOf(p, w) = [i \in 1 .. n |-> BytesOf(items[i])]
  BY <1>10, <1>11
<1>. QED  BY <1>12 DEF w

----------------------------------------------------------------------------
(* Messages                                                                *)

\* The lengths of what a handler builds.
LEMMA BuildLen ==
    ASSUME NEW m \in Messages
    PROVE  LET plain == Appended(m.items)[Len(m.items)]
               secret == IF m.enc THEN Enc(plain) ELSE plain
               inner == IF m.hmac THEN AddHmac(secret) ELSE secret
           IN  /\ Len(m.items) \in Nat
               /\ \A i \in 1 .. Len(m.items) : m.items[i].width \in Nat
               /\ plain.len \in Nat /\ secret.len \in Nat /\ inner.len \in Nat
               /\ plain.ptr \in Nat /\ secret.ptr \in Nat /\ inner.ptr \in Nat
               /\ plain.ptr <= plain.len /\ secret.ptr <= secret.len
               /\ inner.ptr <= inner.len
               /\ plain.len <= secret.len /\ secret.len <= inner.len
               /\ Build(m) = PrependItem(inner, m.hdr)
               /\ m.hdr.width \in Nat \ {0}
               /\ LenWidth + inner.len + m.hdr.width <= BufSize
<1> DEFINE items == m.items
           plain == Appended(items)[Len(items)]
           secret == IF m.enc THEN Enc(plain) ELSE plain
           inner == IF m.hmac THEN AddHmac(secret) ELSE secret
<1>1. IsMessage(m)
  BY MessagesAssumption
<1>2. Len(items) \in Nat /\ \A i \in 1 .. Len(items) : items[i].width \in Nat
  BY <1>1 DEF IsMessage, IsItem
<1>3. m.hdr.width \in Nat \ {0} /\ LenWidth + Build(m).len <= BufSize
  BY <1>1 DEF IsMessage, IsItem
<1>4. plain.len \in Nat /\ plain.ptr = plain.len
  <2>1. Len(items) \in 0 .. Len(items)
    BY <1>2
  <2>. QED  BY <1>2, <2>1, ItemsLen
<1>5. Build(m) = PrependItem(inner, m.hdr)
  BY DEF Build
<1> HIDE DEF plain
<1>6. secret.len \in Nat /\ secret.ptr \in Nat /\ secret.ptr <= secret.len
      /\ plain.len <= secret.len
  <2>1. CASE m.enc
    <3> DEFINE t == Contents(plain)
               c == Cipher(t)
               cl == CipherLen(plain.len)
    <3>1. Len(t) = plain.len
      BY <1>4, ContentsLen
    <3>2. cl \in Nat /\ plain.len <= cl
      <4> DEFINE n == plain.len
                 q == n \div BlockLen
      <4>1. q \in Nat /\ n < (q + 1) * BlockLen
        BY <1>4
      <4>. QED  BY <1>4, <4>1 DEF CipherLen
    <3>3. Len(c) = cl
      <4> DEFINE it == Item(<<"cipher", t>>, CipherLen(Len(t)))
      <4>1. it.width = cl
        BY <3>1 DEF Item
      <4>2. c = BytesOf(it)
        BY DEF Cipher
      <4> HIDE DEF it, c
      <4>. QED  BY <3>2, <4>1, <4>2, ItemBytes
    <3> HIDE DEF c, cl
    <3>4. secret = [data |-> Overwrite(NewPacket.data, 0, c), ptr |-> 0, len |-> Len(c)]
      BY <2>1 DEF Enc, Filled, c
    <3>. QED  BY <3>2, <3>3, <3>4
  <2>2. CASE ~m.enc
    BY <1>4, <2>2
  <2>. QED  BY <2>1, <2>2
<1> HIDE DEF secret
<1>7. inner.len \in Nat /\ inner.ptr \in Nat /\ inner.ptr <= inner.len
      /\ secret.len <= inner.len
  <2>1. CASE m.hmac
    <3> DEFINE it == Item(<<"hmac", Contents(secret)>>, HmacLen)
    <3>1. inner = PrependItem(secret, it)
      BY <2>1 DEF AddHmac
    <3>2. it.width = HmacLen
      BY DEF Item
    <3> HIDE DEF it, inner
    <3>3. inner.len = secret.len + HmacLen /\ inner.ptr = secret.ptr + HmacLen
      BY <3>1, <3>2 DEF PrependItem
    <3>. QED  BY <1>6, <3>3
  <2>2. CASE ~m.hmac
    BY <1>6, <2>2
  <2>. QED  BY <2>1, <2>2
<1> HIDE DEF inner
<1>8. Build(m).len = inner.len + m.hdr.width
  BY <1>5 DEF PrependItem
<1>9. LenWidth + inner.len + m.hdr.width <= BufSize
  BY <1>3, <1>7, <1>8
<1>. QED  BY <1>2, <1>3, <1>4, <1>5, <1>6, <1>7, <1>9 DEF plain, secret, inner

\* The HMAC of a packet's contents: what AddHmac puts before them is taken off
\* again, and is what hmac_check computes.
LEMMA HmacBack ==
    ASSUME NEW p, p.ptr \in Nat, p.len \in Nat, p.ptr <= p.len,
           NEW q, Sound(q), Rest(q) = Contents(AddHmac(p)), p.len + HmacLen <= BufSize
    PROVE  /\ HmacCheck(q)
           /\ Sound(RemHmac(q)) /\ Rest(RemHmac(q)) = Contents(p)
<1> DEFINE t == Contents(p)
           it == Item(<<"hmac", t>>, HmacLen)
           b == BytesOf(it)
           x == AfterExtract(q, HmacLen)
<1>1. it.width = HmacLen
  BY DEF Item
<1>2. AddHmac(p) = PrependItem(p, it)
  BY DEF AddHmac
<1>3. b = Hmac(t)
  BY DEF Hmac
<1>4. Bytes(t)
  BY ContentsLen
<1> HIDE DEF it, t
<1>5. Bytes(b) /\ Len(b) = HmacLen
  BY <1>1, ItemBytes
<1>6. Contents(AddHmac(p)) = b \o t
  BY <1>1, <1>2, PrependHolds DEF t
<1> HIDE DEF b, x
<1>7. Rest(q) = b \o t
  BY <1>6
<1>8. Extracted(q, Len(b)) = b /\ Sound(AfterExtract(q, Len(b)))
      /\ Rest(AfterExtract(q, Len(b))) = t
  BY <1>4, <1>5, <1>7, ExtractHolds
<1>9. Extracted(q, HmacLen) = b /\ Sound(x) /\ Rest(x) = t
  BY <1>5, <1>8 DEF x
<1>10. RemHmac(q) = Truncate(x)
  BY DEF RemHmac, x
<1>11. Sound(Truncate(x)) /\ Contents(Truncate(x)) = t /\ Rest(Truncate(x)) = t
  BY <1>9, TruncateHolds
<1>12. HmacCheck(q)
  BY <1>3, <1>9, <1>10, <1>11 DEF HmacCheck
<1>. QED  BY <1>10, <1>11, <1>12 DEF t

\* The cipher text of a packet's contents is deciphered to them.
LEMMA CipherBack ==
    ASSUME NEW p, p.len \in Nat, Enc(p).len <= BufSize, p.len <= BufSize,
           NEW q, Sound(q), Rest(q) = Contents(Enc(p))
    PROVE  CanDec(q) /\ Sound(Dec(q)) /\ Rest(Dec(q)) = Contents(p)
<1> DEFINE t == Contents(p)
           it == Item(<<"cipher", t>>, CipherLen(Len(t)))
           c == Cipher(t)
           text == Contents(Truncate(q))
<1>1. it.width = CipherLen(Len(t)) /\ it.val = <<"cipher", t>>
  BY DEF Item
<1>2. c = BytesOf(it)
  BY DEF Cipher
<1>3. Bytes(t) /\ Len(t) = p.len
  BY ContentsLen
<1>4. Enc(p) = Filled(c)
  BY DEF Enc
<1>5. CipherLen(Len(t)) \in Nat \ {0}
  <2> DEFINE n == p.len
             k == n \div BlockLen
  <2>1. k \in Nat /\ (k + 1) * BlockLen \in Nat \ {0}
    OBVIOUS
  <2>. QED  BY <1>3, <2>1 DEF CipherLen
<1>6. text = Rest(q)
  BY TruncateHolds
<1>7. CanDec(q) <=> (text # <<>> /\ text[1][1][1] = "cipher" /\ text = Cipher(text[1][1][2]))
  BY DEF CanDec
<1>8. Dec(q) = Filled(text[1][1][2])
  BY DEF Dec
<1> HIDE DEF it, t, c, text
<1>9. /\ Bytes(c) /\ Len(c) = it.width /\ it.width \in Nat \ {0}
      /\ c[1] = <<<<"cipher", t>>, 1>>
  <2>1. it.width \in Nat /\ 1 \in 1 .. it.width
    BY <1>1, <1>5
  <2>2. /\ Bytes(BytesOf(it)) /\ Len(BytesOf(it)) = it.width
        /\ \A i \in 1 .. it.width : BytesOf(it)[i] = <<it.val, i>>
    BY <2>1, ItemBytes
  <2>3. c[1] = <<it.val, 1>>
    BY <1>2, <2>1, <2>2
  <2>. QED  BY <1>1, <1>2, <1>5, <2>2, <2>3
<1>10. Len(c) <= BufSize
  BY <1>4 DEF Filled
<1>11. Contents(Enc(p)) = c
  BY <1>4, <1>9, <1>10, FilledHolds
<1>12. text = c
  BY <1>6, <1>11
<1>13. text[1][1][1] = "cipher" /\ text[1][1][2] = t
  BY <1>9, <1>12
<1>14. text # <<>>
  BY <1>9, <1>12, NoBytes
<1>15. CanDec(q)
  BY <1>7, <1>12, <1>13, <1>14 DEF c
<1>16. Sound(Filled(t)) /\ Rest(Filled(t)) = t
  BY <1>3, FilledHolds
<1>. QED  BY <1>8, <1>13, <1>15, <1>16 DEF t

\* Whatever its layout, the receiver of a message that has its bytes reads the
\* message: its HMAC holds, its cipher text is deciphered, its items come out.
THEOREM RoundTrip ==
    ASSUME NEW m \in Messages
    PROVE  Reads(Filled(Contents(Build(m))), m)
<1> DEFINE items == m.items
           plain == Appended(items)[Len(items)]
           secret == IF m.enc THEN Enc(plain) ELSE plain
           inner == IF m.hmac THEN AddHmac(secret) ELSE secret
           p == Filled(Contents(Build(m)))
           w == m.hdr.width
           body == AfterExtract(p, w)
           bare == IF m.hmac THEN RemHmac(body) ELSE body
           rest == IF m.enc THEN Dec(bare) ELSE bare
<1>1. /\ Len(items) \in Nat
      /\ \A i \in 1 .. Len(items) : items[i].width \in Nat
      /\ plain.len \in Nat /\ secret.len \in Nat /\ inner.len \in Nat
      /\ plain.ptr \in Nat /\ secret.ptr \in Nat /\ inner.ptr \in Nat
      /\ plain.ptr <= plain.len /\ secret.ptr <= secret.len
      /\ inner.ptr <= inner.len
      /\ plain.len <= secret.len /\ secret.len <= inner.len
      /\ Build(m) = PrependItem(inner, m.hdr)
      /\ w \in Nat \ {0}
      /\ LenWidth + inner.len + w <= BufSize
  BY BuildLen
<1>2. m.enc \in BOOLEAN /\ m.hmac \in BOOLEAN
  BY MessagesAssumption DEF IsMessage
<1>3. /\ m.enc => secret = Enc(plain)
      /\ ~m.enc => secret = plain
      /\ m.hmac => inner = AddHmac(secret)
      /\ ~m.hmac => inner = secret
      /\ m.hmac => bare = RemHmac(body)
      /\ ~m.hmac => bare = body
      /\ m.enc => rest = Dec(bare)
      /\ ~m.enc => rest = bare
  OBVIOUS
<1>4. Reads(p, m) <=>
        /\ Extracted(p, w) = BytesOf(m.hdr)
        /\ m.hmac => HmacCheck(body)
        /\ m.enc => CanDec(bare)
        /\ ItemsOf(rest, Widths(items)) = [i \in 1 .. Len(items) |-> BytesOf(items[i])]
  BY DEF Reads
<1>5. plain = Appended(items)[Len(items)] /\ body = AfterExtract(p, w)
  OBVIOUS
<1> DEFINE b == BytesOf(m.hdr)
           c == Contents(inner)
<1> HIDE DEF items, plain, secret, inner, bare, rest, w, body
<1>6. Bytes(b) /\ Len(b) = w
  BY <1>1, ItemBytes DEF w
<1>7. Bytes(c) /\ Len(c) = inner.len
  BY <1>1, ContentsLen
<1>8. inner.len + m.hdr.width <= BufSize /\ m.hdr.width \in Nat
  BY <1>1 DEF w
<1>9. Contents(Build(m)) = b \o c /\ Build(m).len = inner.len + w
  BY <1>1, <1>8, PrependHolds DEF w
<1> HIDE DEF b, c
<1>10. Bytes(b \o c) /\ Len(b \o c) <= BufSize
  <2>1. Bytes(b \o c) /\ Len(b \o c) = Len(b) + Len(c)
    BY <1>6, <1>7, Joined
  <2>. QED  BY <1>1, <1>6, <1>7, <2>1
<1>11. Sound(p) /\ Rest(p) = b \o c
  BY <1>9, <1>10, FilledHolds
<1> HIDE DEF p
<1>12. Extracted(p, w) = b /\ Sound(body) /\ Rest(body) = c
  <2>1. Extracted(p, Len(b)) = b /\ Sound(AfterExtract(p, Len(b)))
        /\ Rest(AfterExtract(p, Len(b))) = c
    BY <1>6, <1>7, <1>11, ExtractHolds
  <2>. QED  BY <1>5, <1>6, <2>1
<1>13. (m.hmac => HmacCheck(body)) /\ Sound(bare) /\ Rest(bare) = Contents(secret)
  <2>1. CASE m.hmac
    <3>1. Rest(body) = Contents(AddHmac(secret))
      BY <1>3, <1>12, <2>1 DEF c
    <3>2. secret.len + HmacLen <= BufSize
      <4> DEFINE it == Item(<<"hmac", Contents(secret)>>, HmacLen)
      <4>1. inner = PrependItem(secret, it)
        BY <1>3, <2>1 DEF AddHmac
      <4>2. it.width = HmacLen
        BY DEF Item
      <4> HIDE DEF it
      <4>3. inner.len = secret.len + HmacLen
        BY <4>1, <4>2 DEF PrependItem
      <4>. QED  BY <1>1, <4>3
    <3>3. HmacCheck(body) /\ Sound(RemHmac(body))
          /\ Rest(RemHmac(body)) = Contents(secret)
      BY <1>1, <1>12, <3>1, <3>2, HmacBack
    <3>. QED  BY <1>3, <2>1, <3>3
  <2>2. CASE ~m.hmac
    BY <1>3, <1>12, <2>2 DEF c
  <2>. QED  BY <1>2, <2>1, <2>2
<1>14. (m.enc => CanDec(bare)) /\ Sound(rest) /\ Rest(rest) = Contents(plain)
  <2>1. CASE m.enc
    <3>1. Rest(bare) = Contents(Enc(plain))
      BY <1>3, <1>13, <2>1
    <3>2. Enc(plain).len <= BufSize /\ plain.len <= BufSize
      <4>1. secret.len <= BufSize /\ plain.len <= BufSize
        BY <1>1
      <4>. QED  BY <1>3, <2>1, <4>1
    <3>3. CanDec(bare) /\ Sound(Dec(bare)) /\ Rest(Dec(bare)) = Contents(plain)
      BY <1>1, <1>13, <3>1, <3>2, CipherBack
    <3>. QED  BY <1>3, <2>1, <3>3
  <2>2. CASE ~m.enc
    BY <1>3, <1>13, <2>2
  <2>. QED  BY <1>2, <2>1, <2>2
<1>15. ItemsOf(rest, Widths(items)) = [i \in 1 .. Len(items) |-> BytesOf(items[i])]
  <2>1. plain.len <= BufSize
    BY <1>1
  <2>2. Appended(items)[Len(items)].len <= BufSize
    BY <1>5, <2>1
  <2>3. Rest(rest) = Contents(Appended(items)[Len(items)])
    BY <1>5, <1>14
  <2>. QED  BY <1>1, <1>14, <2>2, <2>3, ItemsBack
<1>. QED  BY <1>4, <1>12, <1>13, <1>14, <1>15 DEF b, p

\* An interval tells its length.
LEMMA SameRange ==
    ASSUME NEW a \in Nat, NEW b \in Nat, 1 .. a = 1 .. b
    PROVE  a = b
<1>1. CASE a < b
  <2>1. b \in 1 .. b /\ b \notin 1 .. a
    BY <1>1
  <2>. QED  BY <2>1
<1>2. CASE b < a
  <2>1. a \in 1 .. a /\ a \notin 1 .. b
    BY <1>2
  <2>. QED  BY <2>1
<1>. QED  BY <1>1, <1>2

\* Items with the same bytes are one item.
LEMMA SameItem ==
    ASSUME NEW x, NEW y, IsItem(x), IsItem(y), x.width = y.width,
           BytesOf(x) = BytesOf(y)
    PROVE  x = y
<1>1. x = [val |-> x.val, width |-> x.width] /\ y = [val |-> y.val, width |-> y.width]
      /\ x.width \in Nat \ {0} /\ y.width \in Nat \ {0}
  BY DEF IsItem, Item
<1>2. BytesOf(x)[1] = <<x.val, 1>> /\ BytesOf(y)[1] = <<y.val, 1>>
  <2>1. 1 \in 1 .. x.width /\ 1 \in 1 .. y.width
    BY <1>1
  <2>. QED  BY <2>1 DEF BytesOf
<1>3. x.val = y.val
  BY <1>2
<1>. QED  BY <1>1, <1>3

\* No packet reads as two messages.
LEMMA OneReading ==
    ASSUME NEW p, p.ptr \in Nat, NEW m \in Messages, NEW k \in Messages,
           Reads(p, m), Reads(p, k)
    PROVE  m = k
<1>1. IsMessage(m) /\ IsMessage(k)
  BY MessagesAssumption
<1>2. m.hdr.val = k.hdr.val
  <2>1. ASSUME NEW x \in Messages, Reads(p, x)
        PROVE  <<x.hdr.val, 1>> = p.data[p.ptr + 1]
    <3> DEFINE w == x.hdr.width
               d == p.data
               a == p.ptr
               h == SubSeq(d, a + 1, a + w)
    <3>1. w \in Nat /\ 1 \in 1 .. w
      <4>1. IsMessage(x)
        BY MessagesAssumption
      <4>2. IsItem(x.hdr)
        BY <4>1 DEF IsMessage
      <4>3. w \in Nat \ {0}
        BY <4>2 DEF IsItem
      <4>. QED  BY <4>3
    <3>2. h = BytesOf(x.hdr)
      BY <2>1 DEF Reads, Extracted
    <3>3. BytesOf(x.hdr)[1] = <<x.hdr.val, 1>>
      BY <3>1 DEF BytesOf
    <3> HIDE DEF w, d, a
    <3>4. h[1] = d[a + 1]
      <4>1. a \in Nat
        BY DEF a
      <4>2. \A i \in 1 .. w : h[i] = d[a + i]
        BY <3>1, <4>1, PartAfter
      <4>. QED  BY <3>1, <4>2
    <3>. QED  BY <3>2, <3>3, <3>4 DEF d, a
  <2>2. <<m.hdr.val, 1>> = <<k.hdr.val, 1>>
    BY <2>1
  <2>. QED  BY <2>2
<1>3. SameLayout(m, k)
  BY <1>2, MessagesAssumption
<1>4. m.hdr = k.hdr
  <2>1. IsItem(m.hdr) /\ IsItem(k.hdr) /\ m.hdr.width = k.hdr.width
    BY <1>1, <1>3 DEF IsMessage, SameLayout
  <2>2. BytesOf(m.hdr) = BytesOf(k.hdr)
    <3>1. /\ Extracted(p, m.hdr.width) = BytesOf(m.hdr)
          /\ Extracted(p, k.hdr.width) = BytesOf(k.hdr)
      BY DEF Reads
    <3>. QED  BY <2>1, <3>1
  <2>. QED  BY <2>1, <2>2, SameItem
<1>5. m.hmac = k.hmac /\ m.enc = k.enc /\ Widths(m.items) = Widths(k.items)
  BY <1>3 DEF SameLayout
<1>6. [i \in 1 .. Len(m.items) |-> BytesOf(m.items[i])]
        = [i \in 1 .. Len(k.items) |-> BytesOf(k.items[i])]
  <2> DEFINE Rest1(x) == LET body == AfterExtract(p, x.hdr.width)
                             bare == IF x.hmac THEN RemHmac(body) ELSE body
                         IN  IF x.enc THEN Dec(bare) ELSE bare
  <2>1. \A x \in {m, k} : ItemsOf(Rest1(x), Widths(x.items))
                             = [i \in 1 .. Len(x.items) |-> BytesOf(x.items[i])]
    BY DEF Reads
  <2>2. Rest1(m) = Rest1(k)
    BY <1>4, <1>5
  <2> HIDE DEF Rest1
  <2>. QED  BY <1>5, <2>1, <2>2
<1> DEFINE s == m.items
           t == k.items
<1>7. /\ Bytes(s) /\ Bytes(t) /\ \A i \in DOMAIN s : IsItem(s[i])
      /\ \A i \in DOMAIN t : IsItem(t[i])
  BY <1>1 DEF IsMessage, Bytes
<1>8. DOMAIN s = 1 .. Len(s) /\ DOMAIN t = 1 .. Len(t) /\ Len(s) \in Nat /\ Len(t) \in Nat
  BY <1>7, BytesLen
<1>9. Len(s) = Len(t) /\ \A i \in 1 .. Len(s) : s[i].width = t[i].width
  <2>1. [i \in 1 .. Len(s) |-> s[i].width] = [i \in 1 .. Len(t) |-> t[i].width]
    BY <1>5 DEF Widths
  <2> HIDE DEF s, t
  <2>2. 1 .. Len(s) = 1 .. Len(t)
    BY <2>1
  <2>3. Len(s) = Len(t)
    BY <1>8, <2>2, SameRange
  <2>. QED  BY <2>1, <2>3
<1>10. ASSUME NEW i \in 1 .. Len(s) PROVE s[i] = t[i]
  <2> HIDE DEF s, t
  <2>1. BytesOf(s[i]) = BytesOf(t[i])
    BY <1>6, <1>9 DEF s, t
  <2>2. IsItem(s[i]) /\ IsItem(t[i]) /\ s[i].width = t[i].width
    BY <1>7, <1>8, <1>9
  <2>. QED  BY <2>1, <2>2, SameItem
<1>11. s = t
  BY <1>7, <1>9, <1>10, SameBytes
<1>12. /\ m = [hdr |-> m.hdr, items |-> m.items, hmac |-> m.hmac, enc |-> m.enc]
       /\ k = [hdr |-> k.hdr, items |-> k.items, hmac |-> k.hmac, enc |-> k.enc]
  BY <1>1 DEF IsMessage
<1>. QED  BY <1>4, <1>5, <1>11, <1>12

\* What a handler makes of the bytes of a message is the message.
LEMMA MessageBack ==
    ASSUME NEW m \in Messages
    PROVE  MessageOf(Filled(Contents(Build(m)))) = m
<1> DEFINE p == Filled(Contents(Build(m)))
<1>1. Reads(p, m)
  BY RoundTrip
<1>2. p.ptr \in Nat
  BY DEF Filled
<1> HIDE DEF p
<1>3. \A k \in Messages : Reads(p, k) => k = m
  BY <1>1, <1>2, OneReading
<1>4. MessageOf(p) = CHOOSE k \in Messages : Reads(p, k)
  BY <1>1 DEF MessageOf
<1>5. MessageOf(p) \in Messages /\ Reads(p, MessageOf(p))
  BY <1>1, <1>4
<1>. QED  BY <1>3, <1>5 DEF p

----------------------------------------------------------------------------
(* Frames                                                                  *)

\* The length of a message is read as it was written.
LEMMA LengthBack ==
    /\ \A n \in 1 .. BufSize : /\ Bytes(LenBytes(n)) /\ Len(LenBytes(n)) = LenWidth
                               /\ LenOf(LenBytes(n)) = n
    /\ \A n, l \in 1 .. BufSize : LenBytes(n) = LenBytes(l) => n = l
<1>1. ASSUME NEW n \in 1 .. BufSize
      PROVE  /\ Bytes(LenBytes(n)) /\ Len(LenBytes(n)) = LenWidth
             /\ LenBytes(n)[1] = <<<<"num", n>>, 1>>
  <2> DEFINE it == Item(Num(n), LenWidth)
  <2>1. it.width = LenWidth /\ it.val = <<"num", n>> /\ LenBytes(n) = BytesOf(it)
    BY DEF LenBytes, Item, Num
  <2> HIDE DEF it
  <2>2. it.width \in Nat /\ 1 \in 1 .. it.width
    BY <2>1
  <2>. QED  BY <2>1, <2>2, ItemBytes
<1>2. ASSUME NEW n \in 1 .. BufSize, NEW l \in 1 .. BufSize, LenBytes(n) = LenBytes(l)
      PROVE  n = l
  <2>1. <<<<"num", n>>, 1>> = <<<<"num", l>>, 1>>
    BY <1>1, <1>2
  <2>. QED  BY <2>1
<1>3. ASSUME NEW n \in 1 .. BufSize PROVE LenOf(LenBytes(n)) = n
  <2> DEFINE b == LenBytes(n)
  <2>1. \E k \in 1 .. BufSize : b = LenBytes(k)
    OBVIOUS
  <2>2. LenOf(b) = CHOOSE k \in 1 .. BufSize : b = LenBytes(k)
    BY <2>1 DEF LenOf
  <2>3. LenOf(b) \in 1 .. BufSize /\ b = LenBytes(LenOf(b))
    <3> HIDE DEF b
    <3>. QED  BY <2>1, <2>2
  <2>. QED  BY <1>2, <2>3
<1>. QED  BY <1>1, <1>2, <1>3

\* The bytes of a message, without its length.
Body(m) == Contents(Build(m))

\* What snd writes of a message: its length and its bytes.
LEMMA FrameIs ==
    ASSUME NEW m \in Messages
    PROVE  /\ Frames[m] = LenBytes(Len(Body(m))) \o Body(m)
           /\ Bytes(Body(m)) /\ Len(Body(m)) \in 1 .. BufSize
           /\ Bytes(Frames[m])
           /\ Len(Frames[m]) = LenWidth + Len(Body(m))
           /\ MessageOf(Filled(Body(m))) = m
<1> DEFINE b == Build(m)
<1>1. /\ b.ptr \in Nat /\ b.len \in Nat \ {0} /\ b.ptr <= b.len
      /\ b.len + LenWidth <= BufSize
  <2>1. PICK p : /\ p.len \in Nat /\ p.ptr \in Nat /\ p.ptr <= p.len
                 /\ b = PrependItem(p, m.hdr) /\ m.hdr.width \in Nat \ {0}
                 /\ LenWidth + p.len + m.hdr.width <= BufSize
    BY BuildLen
  <2> HIDE DEF b
  <2>2. b.ptr = p.ptr + m.hdr.width /\ b.len = p.len + m.hdr.width
    BY <2>1 DEF PrependItem
  <2> DEFINE w == m.hdr.width
             l == p.len
             a == p.ptr
  <2>3. /\ l \in Nat /\ a \in Nat /\ a <= l /\ w \in Nat \ {0}
        /\ LenWidth + l + w <= BufSize /\ b.ptr = a + w /\ b.len = l + w
    BY <2>1, <2>2
  <2> HIDE DEF w, l, a
  <2>. QED  BY <2>3
<1> DEFINE it == Item(Num(b.len), LenWidth)
<1>2. Frames[m] = Contents(PrependItem(b, it))
  BY DEF Frames, PrependLen
<1>3. MessageOf(Filled(Contents(b))) = m
  BY MessageBack
<1> HIDE DEF b
<1>4. it.width = LenWidth /\ BytesOf(it) = LenBytes(b.len)
  BY DEF LenBytes, Item
<1> HIDE DEF it
<1>5. b.len \in Nat /\ it.width \in Nat /\ b.len + it.width <= BufSize
  BY <1>1, <1>4
<1>6. Frames[m] = BytesOf(it) \o Contents(b)
  BY <1>1, <1>2, <1>5, PrependHolds
<1>7. Bytes(Contents(b)) /\ Len(Contents(b)) = b.len
  BY <1>5, ContentsLen
<1>8. b.len \in 1 .. BufSize
  BY <1>1
<1>9. Bytes(LenBytes(b.len)) /\ Len(LenBytes(b.len)) = LenWidth
  BY <1>8, LengthBack
<1>10. Frames[m] = LenBytes(b.len) \o Contents(b)
  BY <1>4, <1>6
<1>11. Bytes(Frames[m]) /\ Len(Frames[m]) = LenWidth + b.len
  <2> DEFINE x == LenBytes(b.len)
             y == Contents(b)
  <2>1. Bytes(x) /\ Bytes(y) /\ Len(x) = LenWidth /\ Len(y) = b.len /\ Frames[m] = x \o y
    BY <1>7, <1>9, <1>10
  <2> HIDE DEF x, y
  <2>2. Bytes(x \o y) /\ Len(x \o y) = Len(x) + Len(y)
    BY <2>1, Joined
  <2>. QED  BY <2>1, <2>2
<1>. QED  BY <1>3, <1>7, <1>8, <1>10, <1>11 DEF Body, b

\* The train of the messages from the k-th on.
LEMMA TrainDef ==
    ASSUME NEW ms \in Seq(Messages), NEW k \in Nat, k <= Len(ms)
    PROVE  \E T : /\ T[0] = <<>>
                  /\ \A i \in 1 .. Len(ms) - k : T[i] = T[i - 1] \o Frames[ms[k + i]]
                  /\ Train(ms, k) = T[Len(ms) - k]
<1> DEFINE n == Len(ms) - k
           Rec(f, j) == f = [i \in 0 .. j |->
              IF i = 0 THEN <<>> ELSE f[i - 1] \o Frames[ms[k + i]]]
           T == {j \in Nat : \E f : Rec(f, j)}
<1>1. 0 \in T
  <2>1. Rec([i \in 0 .. 0 |-> <<>>], 0)
    OBVIOUS
  <2>. QED  BY <2>1
<1>2. ASSUME NEW j \in T PROVE j + 1 \in T
  <2>1. PICK f : Rec(f, j)
    OBVIOUS
  <2> DEFINE g == [i \in 0 .. j + 1 |->
                IF i = j + 1 THEN f[j] \o Frames[ms[k + (j + 1)]] ELSE f[i]]
  <2>2. ASSUME NEW i \in 0 .. j + 1
        PROVE  g[i] = IF i = 0 THEN <<>> ELSE g[i - 1] \o Frames[ms[k + i]]
    <3>1. CASE i = j + 1
      <4>1. i # 0 /\ i - 1 = j /\ j \in 0 .. j + 1 /\ j # j + 1
        BY <3>1
      <4>2. g[i] = f[j] \o Frames[ms[k + (j + 1)]] /\ g[j] = f[j]
        BY <3>1, <4>1
      <4>. QED  BY <3>1, <4>1, <4>2
    <3>2. CASE i # j + 1
      <4>1. i \in 0 .. j /\ (i # 0 => i - 1 \in 0 .. j + 1 /\ i - 1 # j + 1)
        BY <3>2
      <4>2. g[i] = f[i] /\ (i # 0 => g[i - 1] = f[i - 1])
        BY <3>2, <4>1
      <4>. QED  BY <2>1, <4>1, <4>2
    <3>. QED  BY <3>1, <3>2
  <2>3. g = [i \in 0 .. j + 1 |->
                IF i = 0 THEN <<>> ELSE g[i - 1] \o Frames[ms[k + i]]]
    <3> HIDE DEF g
    <3>1. g = [i \in 0 .. j + 1 |-> g[i]]
      BY DEF g
    <3>. QED  BY <2>2, <3>1
  <2>4. Rec(g, j + 1)
    BY <2>3
  <2> HIDE DEF g
  <2>5. \E f1 : Rec(f1, j + 1)
    BY <2>4
  <2>6. j + 1 \in Nat
    OBVIOUS
  <2> HIDE DEF Rec
  <2>. QED  BY <2>5, <2>6
<1>3. T = Nat
  <2> HIDE DEF T
  <2>1. T \in SUBSET Nat
    BY DEF T
  <2>. QED  BY <1>1, <1>2, <2>1, AllNumbers
<1>4. n \in Nat
  OBVIOUS
<1>5. \E f : Rec(f, n)
  <2> HIDE DEF n, Rec
  <2>. QED  BY <1>3, <1>4
<1> DEFINE F == CHOOSE f : Rec(f, n)
<1>6. Rec(F, n)
  <2> HIDE DEF Rec, n
  <2>. QED  BY <1>5
<1>7. Train(ms, k) = F[n]
  BY DEF Train
<1> HIDE DEF F
<1>8. F = [i \in 0 .. n |-> IF i = 0 THEN <<>> ELSE F[i - 1] \o Frames[ms[k + i]]]
  BY <1>6
<1>9. F[0] = <<>> /\ \A i \in 1 .. n : F[i] = F[i - 1] \o Frames[ms[k + i]]
  BY <1>4, <1>8
<1>. QED  BY <1>7, <1>9

\* A train is bytes, and that of no message is none.
LEMMA TrainBytes ==
    ASSUME NEW ms \in Seq(Messages), NEW k \in Nat, k <= Len(ms)
    PROVE  Bytes(Train(ms, k)) /\ (k = Len(ms) => Train(ms, k) = <<>>)
<1> DEFINE n == Len(ms) - k
<1>1. PICK T : /\ T[0] = <<>>
               /\ \A i \in 1 .. n : T[i] = T[i - 1] \o Frames[ms[k + i]]
               /\ Train(ms, k) = T[n]
  BY TrainDef
<1> DEFINE B == {i \in Nat : i <= n => Bytes(T[i])}
<1>2. 0 \in B
  BY <1>1, NoBytes
<1>3. ASSUME NEW i \in B PROVE i + 1 \in B
  <2>1. SUFFICES ASSUME i + 1 <= n PROVE Bytes(T[i + 1])
    OBVIOUS
  <2>2. i \in Nat /\ i <= n /\ i + 1 \in 1 .. n /\ (i + 1) - 1 = i
        /\ k + (i + 1) \in 1 .. Len(ms)
    BY <2>1
  <2>3. ms[k + (i + 1)] \in Messages
    BY <2>2, ElementOfSeq
  <2>4. Bytes(T[i]) /\ Bytes(Frames[ms[k + (i + 1)]])
    BY <2>2, <2>3, FrameIs
  <2>5. T[i + 1] = T[i] \o Frames[ms[k + (i + 1)]]
    BY <1>1, <2>2
  <2>. QED  BY <2>4, <2>5, Joined
<1>4. B \in SUBSET Nat
  OBVIOUS
<1>5. n \in Nat
  OBVIOUS
<1>6. Bytes(T[n])
  <2>1. B = Nat
    <3> HIDE DEF B
    <3>. QED  BY <1>2, <1>3, <1>4, AllNumbers
  <2>2. n \in B /\ n <= n
    BY <1>5, <2>1
  <2>. QED  BY <2>2
<1>7. k = Len(ms) => n = 0
  OBVIOUS
<1> HIDE DEF n
<1>. QED  BY <1>1, <1>6, <1>7

\* One message more.
LEMMA TrainAppend ==
    ASSUME NEW ms \in Seq(Messages), NEW k \in Nat, k <= Len(ms), NEW m \in Messages
    PROVE  Train(Append(ms, m), k) = Train(ms, k) \o Frames[m]
<1> DEFINE n == Len(ms) - k
           l == Append(ms, m)
           j == Len(l) - k
<1>1. /\ l \in Seq(Messages) /\ Len(l) = Len(ms) + 1 /\ l[Len(ms) + 1] = m
      /\ \A i \in 1 .. Len(ms) : l[i] = ms[i]
  BY AppendProperties
<1>2. /\ n \in Nat /\ j = n + 1 /\ k <= Len(l) /\ k + (n + 1) = Len(ms) + 1
  BY <1>1
<1>3. PICK T : /\ T[0] = <<>>
               /\ \A i \in 1 .. n : T[i] = T[i - 1] \o Frames[ms[k + i]]
               /\ Train(ms, k) = T[n]
  BY TrainDef
<1>4. PICK U : /\ U[0] = <<>>
               /\ \A i \in 1 .. j : U[i] = U[i - 1] \o Frames[l[k + i]]
               /\ Train(l, k) = U[j]
  <2> HIDE DEF l
  <2>. QED  BY <1>1, <1>2, TrainDef
<1> DEFINE B == {i \in Nat : i <= n => U[i] = T[i]}
<1>5. 0 \in B
  BY <1>3, <1>4
<1>6. ASSUME NEW i \in B PROVE i + 1 \in B
  <2>1. SUFFICES ASSUME i + 1 <= n PROVE U[i + 1] = T[i + 1]
    OBVIOUS
  <2>2. i \in Nat /\ i <= n /\ i + 1 \in 1 .. n /\ (i + 1) - 1 = i
        /\ i + 1 \in 1 .. j /\ k + (i + 1) \in 1 .. Len(ms)
    BY <1>2, <2>1
  <2>3. U[i] = T[i] /\ l[k + (i + 1)] = ms[k + (i + 1)]
    BY <1>1, <2>2
  <2> HIDE DEF l, j, n
  <2>4. U[i + 1] = U[i] \o Frames[l[k + (i + 1)]]
    BY <1>4, <2>2
  <2>5. T[i + 1] = T[i] \o Frames[ms[k + (i + 1)]]
    BY <1>3, <2>2
  <2>. QED  BY <2>3, <2>4, <2>5
<1>7. B \in SUBSET Nat
  OBVIOUS
<1>8. U[n] = T[n]
  <2>1. B = Nat
    <3> HIDE DEF B
    <3>. QED  BY <1>5, <1>6, <1>7, AllNumbers
  <2>2. n \in B /\ n <= n
    BY <1>2, <2>1
  <2>. QED  BY <2>2
<1>9. n + 1 \in 1 .. j /\ (n + 1) - 1 = n
  BY <1>2
<1> HIDE DEF n, l, j
<1>10. U[n + 1] = U[n] \o Frames[l[k + (n + 1)]]
  BY <1>4, <1>9
<1>. QED  BY <1>1, <1>2, <1>3, <1>4, <1>8, <1>10 DEF l

\* The train begins with the frame of its first message.
LEMMA TrainHead ==
    ASSUME NEW ms \in Seq(Messages), NEW k \in Nat, k < Len(ms)
    PROVE  /\ ms[k + 1] \in Messages
           /\ Train(ms, k) = Frames[ms[k + 1]] \o Train(ms, k + 1)
<1> DEFINE n == Len(ms) - (k + 1)
           j == Len(ms) - k
           f == Frames[ms[k + 1]]
<1>1. n \in Nat /\ j = n + 1 /\ k + 1 \in Nat /\ k + 1 <= Len(ms) /\ k <= Len(ms)
  OBVIOUS
<1>2. PICK T : /\ T[0] = <<>>
               /\ \A i \in 1 .. j : T[i] = T[i - 1] \o Frames[ms[k + i]]
               /\ Train(ms, k) = T[j]
  BY <1>1, TrainDef
<1>3. PICK U : /\ U[0] = <<>>
               /\ \A i \in 1 .. n : U[i] = U[i - 1] \o Frames[ms[(k + 1) + i]]
               /\ Train(ms, k + 1) = U[n]
  BY <1>1, TrainDef
<1>4. ms[k + 1] \in Messages
  BY ElementOfSeq
<1>5. Bytes(f)
  BY <1>4, FrameIs
<1> DEFINE Good(i) == Bytes(U[i]) /\ T[i + 1] = f \o U[i]
           B == {i \in Nat : i <= n => Good(i)}
<1>6. 0 \in B
  <2>1. 1 \in 1 .. j /\ 1 - 1 = 0 /\ 0 + 1 = 1
    BY <1>1
  <2> HIDE DEF j, n
  <2>2. T[1] = T[0] \o f
    BY <1>2, <2>1
  <2> HIDE DEF f
  <2>3. T[1] = f /\ U[0] = <<>> /\ f \o <<>> = f
    BY <1>2, <1>3, <1>5, <2>2, JoinedNothing
  <2>4. Bytes(U[0]) /\ T[0 + 1] = f \o U[0]
    BY <2>1, <2>3, NoBytes
  <2>. QED  BY <2>4
<1>7. ASSUME NEW i \in B PROVE i + 1 \in B
  <2>1. SUFFICES ASSUME i + 1 <= n PROVE Good(i + 1)
    <3> HIDE DEF Good
    <3>. QED  OBVIOUS
  <2> DEFINE g == Frames[ms[(k + 1) + (i + 1)]]
  <2>2. /\ i \in Nat /\ i <= n /\ i + 1 \in 1 .. n /\ (i + 1) - 1 = i
        /\ (i + 1) + 1 \in 1 .. j /\ ((i + 1) + 1) - 1 = i + 1
        /\ k + ((i + 1) + 1) = (k + 1) + (i + 1)
        /\ (k + 1) + (i + 1) \in 1 .. Len(ms)
    BY <1>1, <2>1
  <2>3. Bytes(g)
    <3>1. ms[(k + 1) + (i + 1)] \in Messages
      BY <2>2, ElementOfSeq
    <3>. QED  BY <3>1, FrameIs
  <2>4. Bytes(U[i]) /\ T[i + 1] = f \o U[i]
    BY <2>2
  <2> HIDE DEF B, j, n, f
  <2>5. U[i + 1] = U[i] \o g
    BY <1>3, <2>2
  <2>6. T[(i + 1) + 1] = T[i + 1] \o g
    BY <1>2, <2>2
  <2> HIDE DEF g
  <2>7. (f \o U[i]) \o g = f \o (U[i] \o g)
    <3> DEFINE u == U[i]
    <3>1. Bytes(u)
      BY <2>4
    <3> HIDE DEF u
    <3>2. (f \o u) \o g = f \o (u \o g)
      BY <1>5, <2>3, <3>1, JoinedThrice
    <3>. QED  BY <3>2 DEF u
  <2>8. Bytes(U[i] \o g)
    BY <2>3, <2>4, Joined
  <2>. QED  BY <2>4, <2>5, <2>6, <2>7, <2>8
<1>8. B \in SUBSET Nat
  OBVIOUS
<1>9. T[n + 1] = f \o U[n]
  <2>1. B = Nat
    <3> HIDE DEF B
    <3>. QED  BY <1>6, <1>7, <1>8, AllNumbers
  <2>2. Good(n)
    <3> HIDE DEF Good, n
    <3>1. n \in B /\ n <= n
      BY <1>1, <2>1
    <3>. QED  BY <3>1
  <2>. QED  BY <2>2
<1> HIDE DEF n, j
<1>. QED  BY <1>1, <1>2, <1>3, <1>4, <1>9

\* A beginning of a sequence, said in two ways.
LEMMA Beginning ==
    ASSUME NEW t, NEW w, Bytes(t), Bytes(w)
    PROVE  (Len(w) <= Len(t) /\ w = SubSeq(t, 1, Len(w)))
              <=> (\E z : Bytes(z) /\ t = w \o z)
<1>1. ASSUME Len(w) <= Len(t), w = SubSeq(t, 1, Len(w))
      PROVE  \E z : Bytes(z) /\ t = w \o z
  <2> DEFINE a == Len(w)
             z == SubSeq(t, a + 1, Len(t))
  <2>1. a \in Nat /\ a <= Len(t)
    BY <1>1, BytesLen
  <2> HIDE DEF a
  <2>2. Bytes(z) /\ SubSeq(t, 1, a) \o z = t
    BY <2>1, Cut
  <2>3. SubSeq(t, 1, a) = w
    BY <1>1 DEF a
  <2> HIDE DEF z
  <2>. QED  BY <2>2, <2>3
<1>2. ASSUME NEW z, Bytes(z), t = w \o z
      PROVE  Len(w) <= Len(t) /\ w = SubSeq(t, 1, Len(w))
  <2>1. Len(t) = Len(w) + Len(z)
    BY <1>2, Joined
  <2>2. Len(w) \in Nat /\ Len(z) \in Nat
    BY <1>2, BytesLen
  <2> DEFINE lw == Len(w)
             lz == Len(z)
             lt == Len(t)
  <2>3. lw \in Nat /\ lz \in Nat /\ lt = lw + lz
    BY <2>1, <2>2
  <2> HIDE DEF lw, lz, lt
  <2>4. lw <= lt
    BY <2>3
  <2>5. w = SubSeq(t, 1, Len(w))
    BY <1>2, Halves
  <2>. QED  BY <2>4, <2>5 DEF lw, lt
<1>. QED  BY <1>1, <1>2

----------------------------------------------------------------------------
(* The bytes under way and the messages they are                           *)

\* Joining, for the provers an operator they know by these facts only.
Join(s, t) == s \o t

\* The length of joined sequences.
LEMMA JoinBytes ==
    ASSUME NEW s, NEW t, Bytes(s), Bytes(t)
    PROVE  Bytes(Join(s, t)) /\ Len(Join(s, t)) = Len(s) + Len(t)
BY Zenon, Joined DEF Join

\* Joining is associative.
LEMMA JoinThrice ==
    ASSUME NEW s, NEW t, NEW u, Bytes(s), Bytes(t), Bytes(u)
    PROVE  Join(Join(s, t), u) = Join(s, Join(t, u))
<1>1. (s \o t) \o u = s \o (t \o u)
  BY JoinedThrice, SMTT(30)
<1>. QED  BY <1>1, Zenon DEF Join

\* Nothing joined to a sequence.
LEMMA JoinNothing ==
    ASSUME NEW s, Bytes(s)
    PROVE  Join(s, <<>>) = s /\ Join(<<>>, s) = s
BY JoinedNothing DEF Join

\* Two ways to cut a sequence at one place.
LEMMA JoinCancel ==
    ASSUME NEW a, NEW b, NEW c, NEW d, Bytes(a), Bytes(b), Bytes(c), Bytes(d),
           Join(a, b) = Join(c, d), Len(a) = Len(c)
    PROVE  a = c /\ b = d
<1>1. /\ SubSeq(Join(a, b), 1, Len(a)) = a
      /\ SubSeq(Join(a, b), Len(a) + 1, Len(a) + Len(b)) = b
  BY Halves DEF Join
<1>2. /\ SubSeq(Join(c, d), 1, Len(c)) = c
      /\ SubSeq(Join(c, d), Len(c) + 1, Len(c) + Len(d)) = d
  BY Halves DEF Join
<1>3. Len(b) = Len(d)
  <2>1. Len(Join(a, b)) = Len(a) + Len(b) /\ Len(Join(c, d)) = Len(c) + Len(d)
    BY JoinBytes
  <2>. QED  BY <2>1, BytesLen
<1>. QED  BY <1>1, <1>2, <1>3

\* A beginning of a sequence.
LEMMA JoinBeginning ==
    ASSUME NEW t, NEW w, Bytes(t), Bytes(w)
    PROVE  (Len(w) <= Len(t) /\ w = SubSeq(t, 1, Len(w)))
              <=> (\E z : Bytes(z) /\ t = Join(w, z))
BY Beginning DEF Join

\* A frame, as joined sequences.
LEMMA JoinFrame ==
    ASSUME NEW m \in Messages
    PROVE  Frames[m] = Join(LenBytes(Len(Body(m))), Body(m))
BY FrameIs DEF Join

\* A train that is not empty, as joined sequences.
LEMMA JoinTrain ==
    ASSUME NEW ms \in Seq(Messages), NEW k \in Nat, k < Len(ms)
    PROVE  /\ ms[k + 1] \in Messages
           /\ Train(ms, k) = Join(Frames[ms[k + 1]], Train(ms, k + 1))
BY TrainHead DEF Join

\* The bytes w are those of the messages ms after the first k, all of them as
\* long as the writer is there.
InSync(w, ms, k, there) ==
    /\ Len(w) <= Len(Train(ms, k))
    /\ w = SubSeq(Train(ms, k), 1, Len(w))
    /\ there => w = Train(ms, k)

\* A message is sent.
LEMMA SyncSnd ==
    ASSUME NEW ms \in Seq(Messages), NEW k \in Nat, k <= Len(ms), NEW m \in Messages,
           NEW w, InSync(w, ms, k, TRUE)
    PROVE  InSync(Join(w, Frames[m]), Append(ms, m), k, TRUE)
<1> DEFINE x == Join(w, Frames[m])
           l == Append(ms, m)
<1>1. w = Train(ms, k)
  BY DEF InSync
<1>2. x = Train(l, k)
  BY <1>1, TrainAppend DEF Join
<1>3. Bytes(x)
  <2>1. Bytes(w) /\ Bytes(Frames[m])
    BY <1>1, TrainBytes, FrameIs
  <2>. QED  BY <2>1, JoinBytes
<1> HIDE DEF x, l
<1>4. x = Join(x, <<>>) /\ Bytes(<<>>)
  BY <1>3, JoinNothing, NoBytes
<1>5. Len(x) <= Len(x) /\ x = SubSeq(x, 1, Len(x))
  BY <1>3, <1>4, JoinBeginning
<1>6. InSync(x, l, k, TRUE)
  BY <1>2, <1>5 DEF InSync
<1>. QED  BY <1>6 DEF x, l

\* The writer goes, with what it has not written.
LEMMA SyncCut ==
    ASSUME NEW ms \in Seq(Messages), NEW k \in Nat, k <= Len(ms),
           NEW w, NEW y, Bytes(w), Bytes(y), NEW there, InSync(Join(w, y), ms, k, there)
    PROVE  InSync(w, ms, k, FALSE)
<1> DEFINE t == Train(ms, k)
           x == Join(w, y)
<1>1. Bytes(t)
  BY TrainBytes
<1>2. Bytes(x)
  BY JoinBytes
<1>3. Len(x) <= Len(t) /\ x = SubSeq(t, 1, Len(x))
  BY DEF InSync
<1> HIDE DEF t, x
<1>4. PICK z : Bytes(z) /\ t = Join(x, z)
  BY <1>1, <1>2, <1>3, JoinBeginning
<1>5. t = Join(w, Join(y, z)) /\ Bytes(Join(y, z))
  <2>1. Join(Join(w, y), z) = Join(w, Join(y, z))
    BY <1>4, JoinThrice
  <2>2. Bytes(Join(y, z))
    BY <1>4, JoinBytes
  <2>. QED  BY <1>4, <2>1, <2>2 DEF x
<1>6. Len(w) <= Len(t) /\ w = SubSeq(t, 1, Len(w))
  <2> DEFINE u == Join(y, z)
  <2>1. t = Join(w, u) /\ Bytes(u)
    BY <1>5
  <2> HIDE DEF u
  <2>. QED  BY <1>1, <2>1, JoinBeginning
<1>. QED  BY <1>6 DEF InSync, t

\* Where the reader is in step and has read something, there is a message it
\* has not received, and the bytes begin with those of that message.
LEMMA SyncHead ==
    ASSUME NEW ms \in Seq(Messages), NEW k \in Nat, k <= Len(ms),
           NEW x, NEW y, Bytes(x), Bytes(y), Len(x) >= 1, NEW there
    PROVE  InSync(Join(x, y), ms, k, there) =>
              /\ k < Len(ms)
              /\ \E m, r, z :
                    /\ m \in Messages /\ m = ms[k + 1] /\ r = Train(ms, k + 1) /\ Bytes(r) /\ Bytes(z)
                    /\ Join(x, Join(y, z)) = Join(LenBytes(Len(Body(m))), Join(Body(m), r))
                    /\ there => Join(x, y) = Join(LenBytes(Len(Body(m))), Join(Body(m), r))
<1> DEFINE t == Train(ms, k)
           w == Join(x, y)
<1>1. Bytes(t)
  BY TrainBytes
<1>2. Bytes(w) /\ Len(w) = Len(x) + Len(y)
  BY JoinBytes
<1>s. SUFFICES ASSUME InSync(w, ms, k, there)
      PROVE  /\ k < Len(ms)
             /\ \E m, r, z :
                    /\ m \in Messages /\ m = ms[k + 1] /\ r = Train(ms, k + 1) /\ Bytes(r) /\ Bytes(z)
                    /\ Join(x, Join(y, z)) = Join(LenBytes(Len(Body(m))), Join(Body(m), r))
                    /\ there => Join(x, y) = Join(LenBytes(Len(Body(m))), Join(Body(m), r))
  OBVIOUS
<1>3. Len(w) <= Len(t) /\ w = SubSeq(t, 1, Len(w)) /\ (there => w = t)
  BY <1>s DEF InSync
<1>4. k = Len(ms) => t = <<>>
  BY TrainBytes
<1> HIDE DEF t, w
<1>5. Len(t) >= 1
  BY <1>1, <1>2, <1>3, BytesLen
<1>6. k < Len(ms)
  <2>1. k # Len(ms)
    BY <1>4, <1>5, NoBytes
  <2>. QED  BY <2>1
<1> DEFINE m == ms[k + 1]
           r == Train(ms, k + 1)
           b == Body(m)
           h == LenBytes(Len(b))
<1>7. m \in Messages /\ t = Join(Frames[m], r)
  BY <1>6, JoinTrain DEF t
<1>8. Bytes(r)
  <2>1. k + 1 \in Nat /\ k + 1 <= Len(ms)
    BY <1>6
  <2>. QED  BY <2>1, TrainBytes
<1>9. Frames[m] = Join(h, b) /\ Bytes(b) /\ Len(b) \in 1 .. BufSize
  BY <1>7, FrameIs, JoinFrame
<1>10. Bytes(h)
  BY <1>9, LengthBack
<1>c. m = ms[k + 1] /\ r = Train(ms, k + 1)
  OBVIOUS
<1> HIDE DEF r, b, h
<1>11. Join(Join(h, b), r) = Join(h, Join(b, r))
  BY <1>8, <1>9, <1>10, JoinThrice
<1>12. PICK z : Bytes(z) /\ t = Join(w, z)
  BY <1>1, <1>2, <1>3, JoinBeginning
<1>13. Join(Join(x, y), z) = Join(x, Join(y, z))
  BY <1>12, JoinThrice
<1>14. Join(x, Join(y, z)) = Join(h, Join(b, r))
  BY <1>7, <1>9, <1>11, <1>12, <1>13 DEF w
<1>15. there => Join(x, y) = Join(h, Join(b, r))
  BY <1>3, <1>7, <1>9, <1>11 DEF w
<1> HIDE DEF m
<1>. QED  BY <1>6, <1>7, <1>8, <1>c, <1>12, <1>14, <1>15 DEF b, h

\* The reader has read a length: it is that of the next message.
LEMMA SyncLen ==
    ASSUME NEW ms \in Seq(Messages), NEW k \in Nat, k <= Len(ms),
           NEW b, NEW y, Bytes(b), Bytes(y), Len(b) = LenWidth, NEW there
    PROVE  InSync(Join(b, y), ms, k, there)
              => LenOf(b) \in 1 .. BufSize /\ b = LenBytes(LenOf(b))
<1>s. SUFFICES ASSUME InSync(Join(b, y), ms, k, there)
      PROVE  LenOf(b) \in 1 .. BufSize /\ b = LenBytes(LenOf(b))
  OBVIOUS
<1>1. Len(b) >= 1
  OBVIOUS
<1>2. PICK m, r, z :
         /\ m \in Messages /\ Bytes(r) /\ Bytes(z)
         /\ Join(b, Join(y, z)) = Join(LenBytes(Len(Body(m))), Join(Body(m), r))
  BY <1>s, <1>1, SyncHead
<1> DEFINE c == Body(m)
           h == LenBytes(Len(c))
           u == Join(y, z)
           v == Join(c, r)
<1>3. Bytes(c) /\ Len(c) \in 1 .. BufSize
  BY <1>2, FrameIs
<1>4. Bytes(h) /\ Len(h) = LenWidth /\ LenOf(h) = Len(c)
  BY <1>3, LengthBack
<1>6. h = LenBytes(Len(c))
  OBVIOUS
<1> HIDE DEF c
<1>7. Bytes(u) /\ Bytes(v)
  BY <1>2, <1>3, JoinBytes
<1>8. Join(b, u) = Join(h, v)
  BY <1>2 DEF c
<1> HIDE DEF h, u, v
<1>9. Len(b) = Len(h)
  BY <1>4
<1>10. b = h
  BY <1>4, <1>7, <1>8, <1>9, JoinCancel
<1>. QED  BY <1>3, <1>4, <1>6, <1>10

\* The reader has read a body: it is that of the next message, and the bytes
\* after it are those of the messages after that.
LEMMA SyncBody ==
    ASSUME NEW ms \in Seq(Messages), NEW k \in Nat, k <= Len(ms),
           NEW b, NEW y, Bytes(b), Bytes(y), Len(b) \in 1 .. BufSize, NEW there
    PROVE  InSync(Join(Join(LenBytes(Len(b)), b), y), ms, k, there) =>
              /\ k < Len(ms) /\ ms[k + 1] \in Messages
              /\ MessageOf(Filled(b)) = ms[k + 1]
              /\ InSync(y, ms, k + 1, there)
<1> DEFINE g == LenBytes(Len(b))
           x == Join(g, b)
<1>s. SUFFICES ASSUME InSync(Join(x, y), ms, k, there)
      PROVE  /\ k < Len(ms) /\ ms[k + 1] \in Messages
             /\ MessageOf(Filled(b)) = ms[k + 1]
             /\ InSync(y, ms, k + 1, there)
  OBVIOUS
<1>1. Bytes(g) /\ Len(g) = LenWidth
  BY LengthBack
<1> HIDE DEF g
<1>2. Bytes(x) /\ Len(x) = Len(g) + Len(b)
  BY <1>1, JoinBytes
<1>3. Len(x) >= 1
  BY <1>1, <1>2
<1> HIDE DEF x
<1>4. k < Len(ms)
  BY <1>s, <1>2, <1>3, SyncHead
<1>5. PICK m, r, z :
         /\ m \in Messages /\ m = ms[k + 1] /\ r = Train(ms, k + 1)
         /\ Bytes(r) /\ Bytes(z)
         /\ Join(x, Join(y, z)) = Join(LenBytes(Len(Body(m))), Join(Body(m), r))
         /\ there => Join(x, y) = Join(LenBytes(Len(Body(m))), Join(Body(m), r))
  BY <1>s, <1>2, <1>3, SyncHead
<1> DEFINE c == Body(m)
           h == LenBytes(Len(c))
           v == Join(c, r)
           u == Join(y, z)
<1>6. Bytes(c) /\ Len(c) \in 1 .. BufSize /\ MessageOf(Filled(c)) = m
  BY <1>5, FrameIs
<1>7. Bytes(h) /\ Len(h) = LenWidth /\ (g = h => Len(b) = Len(c))
  BY <1>6, LengthBack DEF g
<1>9. Join(x, u) = Join(h, v) /\ (there => Join(x, y) = Join(h, v))
  BY <1>5
<1> HIDE DEF c, h
<1>10. Bytes(u) /\ Bytes(v)
  BY <1>5, <1>6, JoinBytes
<1> HIDE DEF v, u
<1>8. ASSUME NEW f, Bytes(f)
      PROVE  Join(x, f) = Join(h, v) => b = c /\ f = r
  <2> DEFINE a == Join(b, f)
  <2>1. Bytes(a)
    BY <1>8, JoinBytes
  <2>2. Join(Join(g, b), f) = Join(g, Join(b, f))
    BY <1>1, <1>8, JoinThrice
  <2>s. SUFFICES ASSUME Join(x, f) = Join(h, v) PROVE b = c /\ f = r
    OBVIOUS
  <2>3. Join(g, a) = Join(h, v)
    BY <2>2, <2>s DEF x
  <2>4. a = Join(b, f)
    OBVIOUS
  <2> HIDE DEF a
  <2>5. Len(g) = Len(h)
    BY <1>1, <1>7
  <2>6. g = h /\ a = v
    BY <1>1, <1>7, <1>10, <2>1, <2>3, <2>5, JoinCancel
  <2>7. Join(b, f) = Join(c, r)
    BY <2>4, <2>6 DEF v
  <2>8. Len(b) = Len(c)
    BY <1>7, <2>6
  <2>9. Bytes(f) /\ Bytes(c) /\ Bytes(r)
    BY <1>5, <1>6, <1>8
  <2>. QED  BY <2>7, <2>8, <2>9, JoinCancel
<1>11. b = c /\ u = r
  BY <1>8, <1>9, <1>10
<1>12. there => y = r
  BY <1>8, <1>9
<1>13. r = Join(y, z)
  BY <1>11 DEF u
<1>14. Len(y) <= Len(r) /\ y = SubSeq(r, 1, Len(y))
  BY <1>5, <1>13, JoinBeginning
<1>15. InSync(y, ms, k + 1, there)
  BY <1>5, <1>12, <1>14 DEF InSync
<1>. QED  BY <1>4, <1>5, <1>6, <1>11, <1>15

----------------------------------------------------------------------------
(* The two ends                                                            *)

\* The buffers are bytes.
WireBytes == Bytes(out) /\ Bytes(stream) /\ Bytes(in)

\* The inductive invariant.
WireInv == WireTypeOK /\ WireBytes /\ InStep

\* What the reader has of a message: its length, once it is taken, and bytes.
Ahead(ph, i, n) == IF ph = "body" THEN Join(LenBytes(Len(i) + n), i) ELSE i

\* The bytes under way begin with what the reader has.
LEMMA Way ==
    WireBytes => /\ UnderWay = Join(Ahead(phase, in, need), Join(stream, out))
                 /\ Bytes(Ahead(phase, in, need)) /\ Bytes(Join(stream, out))
                 /\ Bytes(UnderWay)
<1>1. SUFFICES ASSUME WireBytes
      PROVE  /\ UnderWay = Join(Ahead(phase, in, need), Join(stream, out))
             /\ Bytes(Ahead(phase, in, need)) /\ Bytes(Join(stream, out))
             /\ Bytes(UnderWay)
  OBVIOUS
<1>2. Bytes(out) /\ Bytes(stream) /\ Bytes(in)
  BY <1>1 DEF WireBytes
<1> DEFINE a == Ahead(phase, in, need)
           l == IF phase = "body" THEN LenBytes(Len(in) + need) ELSE <<>>
<1>3. Bytes(l)
  <2>1. CASE phase = "body"
    <3> DEFINE it == Item(Num(Len(in) + need), LenWidth)
    <3>1. it.width = LenWidth /\ l = BytesOf(it)
      BY <2>1 DEF Item, LenBytes
    <3> HIDE DEF it, l
    <3>2. it.width \in Nat
      BY <3>1
    <3>. QED  BY <3>1, <3>2, ItemBytes
  <2>2. CASE phase # "body"
    BY <2>2, NoBytes
  <2>. QED  BY <2>1, <2>2
<1>4. a = Join(l, in)
  <2>1. CASE phase = "body"
    BY <2>1 DEF Ahead
  <2>2. CASE phase # "body"
    <3>1. a = in /\ l = <<>>
      BY <2>2 DEF Ahead
    <3> HIDE DEF a, l
    <3>. QED  BY <1>2, <3>1, JoinNothing
  <2>. QED  BY <2>1, <2>2
<1>5. UnderWay = Join(Join(Join(l, in), stream), out)
  BY DEF UnderWay, Join
<1> HIDE DEF a, l
<1>6. Bytes(a) /\ Bytes(Join(stream, out))
  BY <1>2, <1>3, <1>4, JoinBytes
<1>7. Join(Join(a, stream), out) = Join(a, Join(stream, out))
  BY <1>2, <1>6, JoinThrice
<1>8. Bytes(Join(a, Join(stream, out)))
  BY <1>6, JoinBytes
<1>. QED  BY <1>4, <1>5, <1>6, <1>7, <1>8 DEF a

\* The same after a step.
LEMMA WayNext ==
    WireBytes' =>
       /\ UnderWay' = Join(Ahead(phase', in', need'), Join(stream', out'))
       /\ Bytes(Ahead(phase', in', need')) /\ Bytes(Join(stream', out'))
       /\ Bytes(UnderWay')
<1>1. (WireBytes => /\ UnderWay = Join(Ahead(phase, in, need), Join(stream, out))
                    /\ Bytes(Ahead(phase, in, need)) /\ Bytes(Join(stream, out))
                    /\ Bytes(UnderWay))'
  BY Way, PTL
<1>. QED  BY <1>1

\* Being in step, in terms of InSync.
LEMMA InStepIs ==
    InStep <=> (phase # "eof" =>
                  /\ phase = "len" => Len(in) + need = LenWidth
                  /\ phase = "body" => Len(in) + need \in 1 .. BufSize
                  /\ Len(rcvd) <= Len(sent)
                  /\ InSync(UnderWay, sent, Len(rcvd), open))
BY DEF InStep, InSync

\* The same after a step.
LEMMA InStepNext ==
    InStep' <=> (phase' # "eof" =>
                  /\ phase' = "len" => Len(in') + need' = LenWidth
                  /\ phase' = "body" => Len(in') + need' \in 1 .. BufSize
                  /\ Len(rcvd') <= Len(sent')
                  /\ InSync(UnderWay', sent', Len(rcvd'), open'))
BY DEF InStep, InSync

\* Nothing is under way at first.
LEMMA WireInvInit == WireInit => WireInv
<1>1. SUFFICES ASSUME WireInit PROVE WireInv
  OBVIOUS
<1>2. out = <<>> /\ stream = <<>> /\ in = <<>> /\ phase = "len" /\ need = LenWidth
      /\ sent = <<>> /\ rcvd = <<>> /\ open = TRUE
  BY <1>1 DEF WireInit
<1>3. Bytes(<<>>) /\ Len(<<>>) = 0
  BY NoBytes
<1>4. WireBytes
  BY <1>2, <1>3 DEF WireBytes
<1>5. sent \in Seq(Messages) /\ rcvd \in Seq(Messages)
  BY <1>2, EmptySeq
<1>6. WireTypeOK
  BY <1>2, <1>3, <1>5, CapacityAssumption DEF WireTypeOK
<1>7. Train(sent, Len(rcvd)) = <<>> /\ Len(rcvd) <= Len(sent)
  <2>1. <<>> \in Seq(Messages) /\ 0 \in Nat /\ 0 <= Len(<<>>) /\ 0 = Len(<<>>)
    BY <1>2, <1>3, <1>5
  <2>2. Train(<<>>, 0) = <<>>
    BY <2>1, TrainBytes
  <2>. QED  BY <1>2, <1>3, <2>2
<1>8. UnderWay = <<>>
  <2>1. Ahead(phase, in, need) = <<>>
    BY <1>2 DEF Ahead
  <2>2. UnderWay = Join(<<>>, Join(<<>>, <<>>))
    BY <1>2, <1>4, <2>1, Way
  <2>. QED  BY <1>3, <2>2, JoinNothing
<1>9. InSync(<<>>, sent, Len(rcvd), open)
  <2>1. <<>> = Join(<<>>, <<>>)
    BY <1>3, JoinNothing
  <2>2. Len(<<>>) <= Len(<<>>) /\ <<>> = SubSeq(<<>>, 1, Len(<<>>))
    BY <1>3, <2>1, JoinBeginning
  <2>. QED  BY <1>7, <2>2 DEF InSync
<1>10. InStep
  <2>1. Len(in) + need = LenWidth
    BY <1>2, <1>3
  <2>2. InSync(UnderWay, sent, Len(rcvd), open)
    BY <1>8, <1>9
  <2>3. phase # "body"
    BY <1>2
  <2>. QED  BY <1>7, <2>1, <2>2, <2>3, InStepIs
<1>. QED  BY <1>4, <1>6, <1>10 DEF WireInv

\* A message handed to snd.
LEMMA SndKeeps ==
    ASSUME WireInv, NEW m \in Messages, Snd(m)
    PROVE  WireInv'
<1>1. /\ open /\ out = <<>> /\ out' = Frames[m] /\ sent' = Append(sent, m)
      /\ stream' = stream /\ in' = in /\ phase' = phase /\ need' = need
      /\ rcvd' = rcvd /\ open' = open
  BY DEF Snd
<1>2. WireTypeOK /\ WireBytes /\ InStep
  BY DEF WireInv
<1>3. sent \in Seq(Messages) /\ rcvd \in Seq(Messages) /\ open = TRUE
  BY <1>1, <1>2 DEF WireTypeOK
<1>4. sent' \in Seq(Messages) /\ Len(sent') = Len(sent) + 1
  BY <1>1, <1>3, AppendProperties
<1>5. WireTypeOK'
  BY <1>1, <1>2, <1>4 DEF WireTypeOK
<1>6. Bytes(stream) /\ Bytes(in) /\ Bytes(Frames[m])
  BY <1>2, FrameIs DEF WireBytes
<1>7. WireBytes'
  BY <1>1, <1>6 DEF WireBytes
<1> DEFINE k == Len(rcvd)
           a == Ahead(phase, in, need)
<1>8. Bytes(a) /\ UnderWay = Join(a, Join(stream, <<>>))
      /\ UnderWay' = Join(a, Join(stream, Frames[m]))
  BY <1>1, <1>2, <1>7, Way, WayNext
<1> HIDE DEF a
<1>9. UnderWay' = Join(UnderWay, Frames[m])
  <2>1. UnderWay = Join(a, stream)
    BY <1>6, <1>8, JoinNothing
  <2>2. Join(Join(a, stream), Frames[m]) = Join(a, Join(stream, Frames[m]))
    BY <1>6, <1>8, JoinThrice
  <2>. QED  BY <1>8, <2>1, <2>2
<1>10. ASSUME phase # "eof"
       PROVE  Len(rcvd') <= Len(sent') /\ InSync(UnderWay', sent', Len(rcvd'), open')
  <2>1. k \in Nat /\ k <= Len(sent) /\ InSync(UnderWay, sent, k, TRUE)
    <3>1. Len(rcvd) <= Len(sent) /\ InSync(UnderWay, sent, Len(rcvd), open)
      BY <1>2, <1>10, InStepIs
    <3>2. InSync(UnderWay, sent, Len(rcvd), TRUE)
      BY <1>3, <3>1
    <3>3. Len(rcvd) \in Nat
      BY <1>3
    <3>. QED  BY <3>1, <3>2, <3>3
  <2>2. k <= Len(sent')
    BY <1>3, <1>4, <2>1
  <2> HIDE DEF k
  <2>3. InSync(Join(UnderWay, Frames[m]), Append(sent, m), k, TRUE)
    BY <1>3, <2>1, SyncSnd
  <2>. QED  BY <1>1, <1>3, <1>9, <2>2, <2>3 DEF k
<1>11. InStep'
  BY <1>1, <1>2, <1>10, InStepIs, InStepNext
<1>. QED  BY <1>5, <1>7, <1>11 DEF WireInv

\* A part of what is to be written gets into the kernel.
LEMMA WriteKeeps ==
    ASSUME WireInv, NEW k \in 1 .. Capacity, Write(k)
    PROVE  WireInv'
<1>1. /\ k <= Len(out) /\ Len(stream) + k <= Capacity
      /\ stream' = Join(stream, SubSeq(out, 1, k)) /\ out' = SubSeq(out, k + 1, Len(out))
      /\ in' = in /\ phase' = phase /\ need' = need
      /\ sent' = sent /\ rcvd' = rcvd /\ open' = open
  BY DEF Write, Join
<1>2. WireTypeOK /\ WireBytes /\ InStep
  BY DEF WireInv
<1>3. Bytes(stream) /\ Bytes(in) /\ Bytes(out) /\ k \in Nat
  BY <1>2, CapacityAssumption DEF WireBytes
<1> DEFINE f == SubSeq(out, 1, k)
           g == SubSeq(out, k + 1, Len(out))
<1>4. Bytes(f) /\ Len(f) = k /\ Bytes(g) /\ Join(f, g) = out
  BY <1>1, <1>3, Cut DEF Join
<1>5. stream' = Join(stream, f) /\ out' = g
  BY <1>1
<1> HIDE DEF f, g
<1>6. Bytes(stream') /\ Len(stream') = Len(stream) + k
  BY <1>3, <1>4, <1>5, JoinBytes
<1>7. WireBytes'
  BY <1>1, <1>3, <1>4, <1>5, <1>6 DEF WireBytes
<1>8. Len(stream') \in 0 .. Capacity
  <2>1. Len(stream) \in Nat
    BY <1>3, BytesLen
  <2>. QED  BY <1>1, <1>3, <1>6, <2>1, CapacityAssumption
<1>9. WireTypeOK'
  BY <1>1, <1>2, <1>8 DEF WireTypeOK
<1>10. UnderWay' = UnderWay
  <2> DEFINE a == Ahead(phase, in, need)
  <2>1. UnderWay = Join(a, Join(stream, out)) /\ UnderWay' = Join(a, Join(stream', out'))
    BY <1>1, <1>2, <1>7, Way, WayNext
  <2> HIDE DEF a
  <2>2. Join(Join(stream, f), g) = Join(stream, Join(f, g))
    BY <1>3, <1>4, JoinThrice
  <2>. QED  BY <1>4, <1>5, <2>1, <2>2
<1>11. InStep'
  BY <1>1, <1>2, <1>10, InStepIs, InStepNext
<1>. QED  BY <1>7, <1>9, <1>11 DEF WireInv

\* The writer goes.
LEMMA CloseKeeps ==
    ASSUME WireInv, Close
    PROVE  WireInv'
<1>1. /\ open' = FALSE /\ out' = <<>>
      /\ stream' = stream /\ in' = in /\ phase' = phase /\ need' = need
      /\ sent' = sent /\ rcvd' = rcvd
  BY DEF Close
<1>2. WireTypeOK /\ WireBytes /\ InStep
  BY DEF WireInv
<1>3. Bytes(stream) /\ Bytes(in) /\ Bytes(out)
  BY <1>2 DEF WireBytes
<1>4. WireBytes'
  BY <1>1, <1>3, NoBytes DEF WireBytes
<1>5. WireTypeOK'
  BY <1>1, <1>2 DEF WireTypeOK
<1>6. Bytes(UnderWay') /\ UnderWay = Join(UnderWay', out)
  <2> DEFINE a == Ahead(phase, in, need)
  <2>1. Bytes(a) /\ UnderWay = Join(a, Join(stream, out))
        /\ UnderWay' = Join(a, Join(stream, <<>>)) /\ Bytes(UnderWay')
    BY <1>1, <1>2, <1>4, Way, WayNext
  <2> HIDE DEF a
  <2>2. Join(stream, <<>>) = stream
    BY <1>3, JoinNothing
  <2>3. Join(Join(a, stream), out) = Join(a, Join(stream, out))
    BY <1>3, <2>1, JoinThrice
  <2>. QED  BY <2>1, <2>2, <2>3
<1>7. ASSUME phase # "eof"
      PROVE  Len(rcvd') <= Len(sent') /\ InSync(UnderWay', sent', Len(rcvd'), open')
  <2> DEFINE k == Len(rcvd)
             w == UnderWay'
  <2>1. Len(rcvd) <= Len(sent) /\ InSync(UnderWay, sent, Len(rcvd), open)
    BY <1>2, <1>7, InStepIs
  <2>2. sent \in Seq(Messages) /\ k \in Nat
    BY <1>2 DEF WireTypeOK
  <2>3. InSync(Join(w, out), sent, k, open) /\ k <= Len(sent) /\ Bytes(w)
    BY <1>6, <2>1
  <2> HIDE DEF k, w
  <2>4. InSync(w, sent, k, FALSE)
    BY <1>3, <2>2, <2>3, SyncCut
  <2>. QED  BY <1>1, <2>1, <2>4 DEF k, w
<1>8. InStep'
  BY <1>1, <1>2, <1>7, InStepIs, InStepNext
<1>. QED  BY <1>4, <1>5, <1>8 DEF WireInv

\* The reader goes, or a write fails because it has gone.
LEMMA EndKeeps ==
    ASSUME WireInv, phase' = "eof", Bytes(in'), Bytes(out'),
           stream' = stream, need' = need, sent' = sent, rcvd' = rcvd, open' = open
    PROVE  WireInv'
<1>1. WireTypeOK /\ WireBytes /\ InStep
  BY DEF WireInv
<1>2. WireTypeOK' /\ WireBytes'
  BY <1>1 DEF WireTypeOK, WireBytes
<1>3. InStep'
  BY InStepNext
<1>. QED  BY <1>2, <1>3 DEF WireInv

\* A read: what has been read moves from the kernel to the reader, and is a
\* length or a body when it is complete.
LEMMA ReadKeeps ==
    ASSUME WireInv, NEW k \in 1 .. Capacity, Read(k)
    PROVE  /\ WireInv'
           /\ \/ rcvd' = rcvd
              \/ Len(rcvd) < Len(sent) /\ rcvd' = Append(rcvd, sent[Len(rcvd) + 1])
<1> DEFINE f == SubSeq(stream, 1, k)
           y == SubSeq(stream, k + 1, Len(stream))
           b == Join(in, f)
           n == need - k
           c == Len(rcvd)
           z == Join(y, out)
<1>1. /\ phase # "eof" /\ k <= need /\ k <= Len(stream) /\ stream' = y
      /\ ReadDone(b, n) /\ out' = out /\ sent' = sent /\ open' = open
  BY DEF Read, Join
<1>2. WireTypeOK /\ WireBytes /\ InStep
  BY DEF WireInv
<1>3. /\ phase \in {"len", "body"} /\ need \in 1 .. BufSize /\ k \in Nat
      /\ sent \in Seq(Messages) /\ rcvd \in Seq(Messages) /\ c \in Nat
      /\ Len(stream) \in 0 .. Capacity
  BY <1>1, <1>2, CapacityAssumption DEF WireTypeOK
<1>4. Bytes(stream) /\ Bytes(in) /\ Bytes(out)
  BY <1>2 DEF WireBytes
<1>5. /\ phase = "len" => Len(in) + need = LenWidth
      /\ phase = "body" => Len(in) + need \in 1 .. BufSize
      /\ c <= Len(sent) /\ InSync(UnderWay, sent, c, open)
  BY <1>1, <1>2, InStepIs
<1>6. /\ Bytes(f) /\ Len(f) = k /\ Bytes(y) /\ Len(y) = Len(stream) - k
      /\ Join(f, y) = stream
  BY <1>1, <1>3, <1>4, Cut DEF Join
<1>7. \/ n # 0 /\ in' = b /\ need' = n /\ phase' = phase /\ rcvd' = rcvd
      \/ /\ n = 0 /\ phase = "len" /\ phase' = "body"
         /\ in' = <<>> /\ need' = LenOf(b) /\ rcvd' = rcvd
      \/ /\ n = 0 /\ phase = "body" /\ phase' = "len"
         /\ in' = <<>> /\ need' = LenWidth
         /\ rcvd' = Append(rcvd, MessageOf(Filled(b)))
  <2> HIDE DEF b, n
  <2>. QED  BY <1>1, <1>3 DEF ReadDone
<1> HIDE DEF f, y
<1>8. Bytes(b) /\ Len(b) = Len(in) + k /\ Len(in) \in Nat
  BY <1>4, <1>6, JoinBytes, BytesLen
<1>9. Len(b) + n = Len(in) + need /\ n \in Nat
  BY <1>1, <1>3, <1>8
<1>10. Bytes(z) /\ Len(stream') \in 0 .. Capacity /\ Bytes(stream')
  <2>1. Bytes(z)
    BY <1>4, <1>6, JoinBytes
  <2>2. Len(stream') \in 0 .. Capacity
    BY <1>1, <1>3, <1>6, CapacityAssumption
  <2>. QED  BY <1>1, <1>6, <2>1, <2>2
<1>b. b = Join(in, f)
  OBVIOUS
<1> HIDE DEF b
<1> DEFINE g == Ahead(phase, b, n)
<1>11. UnderWay = Join(g, z) /\ Bytes(g)
  \* what was read is part of what the reader has now
  <2> DEFINE a == Ahead(phase, in, need)
  <2>1. UnderWay = Join(a, Join(stream, out)) /\ Bytes(a)
    BY <1>2, Way
  <2>2. g = Join(a, f)
    <3>1. CASE phase = "body"
      <4> DEFINE l == LenBytes(Len(in) + need)
      <4>1. a = Join(l, in) /\ g = Join(l, b)
        BY <1>9, <3>1 DEF Ahead
      <4>2. Bytes(l)
        BY <1>5, <3>1, LengthBack
      <4> HIDE DEF l
      <4>3. Join(Join(l, in), f) = Join(l, Join(in, f))
        BY <1>4, <1>6, <4>2, JoinThrice
      <4> HIDE DEF a, g
      <4>. QED  BY <1>b, <4>1, <4>3
    <3>2. CASE phase # "body"
      BY <1>b, <3>2 DEF Ahead
    <3>. QED  BY <3>1, <3>2
  <2> HIDE DEF a, g
  <2>3. Join(stream, out) = Join(f, z)
    BY <1>4, <1>6, JoinThrice
  <2>4. Join(Join(a, f), z) = Join(a, Join(f, z))
    BY <1>6, <1>10, <2>1, JoinThrice
  <2>5. Bytes(g)
    BY <1>6, <2>1, <2>2, JoinBytes
  <2>. QED  BY <2>1, <2>2, <2>3, <2>4, <2>5
<1>12. CASE n # 0
  <2>1. in' = b /\ need' = n /\ phase' = phase /\ rcvd' = rcvd
    BY <1>7, <1>12
  <2>2. WireBytes'
    BY <1>1, <1>4, <1>8, <1>10, <2>1 DEF WireBytes
  <2>3. n \in 1 .. BufSize
    BY <1>3, <1>9, <1>12
  <2>4. WireTypeOK'
    BY <1>1, <1>2, <1>10, <2>1, <2>3 DEF WireTypeOK
  <2>5. UnderWay' = UnderWay
    BY <1>1, <1>11, <2>1, <2>2, WayNext
  <2>6. Len(in') + need' = Len(in) + need
    BY <1>9, <2>1
  <2>7. InStep'
    <3>1. Len(rcvd') <= Len(sent') /\ InSync(UnderWay', sent', Len(rcvd'), open')
      BY <1>1, <1>5, <2>1, <2>5
    <3>. QED  BY <1>5, <2>1, <2>6, <3>1, InStepNext
  <2>. QED  BY <2>1, <2>2, <2>4, <2>7 DEF WireInv
<1>13. CASE n = 0 /\ phase = "len"
  <2>1. in' = <<>> /\ need' = LenOf(b) /\ phase' = "body" /\ rcvd' = rcvd
    BY <1>3, <1>7, <1>13
  <2>2. WireBytes'
    BY <1>1, <1>4, <1>10, <2>1, NoBytes DEF WireBytes
  <2>3. Len(b) = LenWidth /\ g = b
    BY <1>5, <1>8, <1>9, <1>13 DEF Ahead
  <2>4. InSync(Join(b, z), sent, c, open)
    BY <1>5, <1>11, <2>3
  <2> HIDE DEF z, c
  <2>5. LenOf(b) \in 1 .. BufSize /\ b = LenBytes(LenOf(b))
    BY <1>3, <1>5, <1>8, <1>10, <2>3, <2>4, SyncLen
  <2>6. WireTypeOK'
    BY <1>1, <1>2, <1>10, <2>1, <2>5 DEF WireTypeOK
  <2>7. Len(in') + need' = LenOf(b)
    BY <2>1, <2>5, NoBytes
  <2>8. Ahead(phase', in', need') = b
    <3>1. Ahead(phase', in', need') = Join(LenBytes(Len(in') + need'), <<>>)
      BY <2>1 DEF Ahead
    <3>2. Ahead(phase', in', need') = Join(b, <<>>)
      BY <2>5, <2>7, <3>1
    <3>. QED  BY <1>8, <3>2, JoinNothing
  <2>9. UnderWay' = Join(b, z)
    BY <1>1, <2>2, <2>8, WayNext DEF z
  <2>10. InStep'
    <3>1. Len(rcvd') <= Len(sent') /\ InSync(UnderWay', sent', Len(rcvd'), open')
      BY <1>1, <1>5, <2>1, <2>4, <2>9 DEF c
    <3>2. phase' # "len" /\ Len(in') + need' \in 1 .. BufSize
      BY <2>1, <2>5, <2>7
    <3>. QED  BY <3>1, <3>2, InStepNext
  <2>. QED  BY <2>1, <2>2, <2>6, <2>10 DEF WireInv
<1>14. CASE n = 0 /\ phase = "body"
  <2>1. in' = <<>> /\ need' = LenWidth /\ phase' = "len"
        /\ rcvd' = Append(rcvd, MessageOf(Filled(b)))
    BY <1>3, <1>7, <1>14
  <2>2. WireBytes'
    BY <1>1, <1>4, <1>10, <2>1, NoBytes DEF WireBytes
  <2>3. Len(b) \in 1 .. BufSize
    BY <1>5, <1>8, <1>9, <1>14
  <2>4. g = Join(LenBytes(Len(b)), b)
    <3>1. Len(b) + n = Len(b)
      BY <1>8, <1>14
    <3>2. g = Join(LenBytes(Len(b) + n), b)
      BY <1>14 DEF Ahead
    <3>. QED  BY <3>1, <3>2
  <2>5. InSync(Join(Join(LenBytes(Len(b)), b), z), sent, c, open)
    BY <1>5, <1>11, <2>4
  <2> DEFINE m == sent[c + 1]
  <2> HIDE DEF z, c
  <2>6. /\ c < Len(sent) /\ m \in Messages /\ MessageOf(Filled(b)) = m
        /\ InSync(z, sent, c + 1, open)
    BY <1>3, <1>5, <1>8, <1>10, <2>3, <2>5, SyncBody
  <2>7. rcvd' = Append(rcvd, m)
    BY <2>1, <2>6
  <2> HIDE DEF m
  <2>8. rcvd' \in Seq(Messages) /\ Len(rcvd') = c + 1
    BY <1>3, <2>6, <2>7, AppendProperties DEF c
  <2>9. WireTypeOK'
    BY <1>1, <1>2, <1>10, <2>1, <2>8, LenWidthAssumption DEF WireTypeOK
  <2>10. UnderWay' = z
    <3>1. Ahead(phase', in', need') = <<>>
      BY <2>1 DEF Ahead
    <3>2. UnderWay' = Join(<<>>, z)
      BY <1>1, <2>2, <3>1, WayNext DEF z
    <3>. QED  BY <1>10, <3>2, JoinNothing
  <2>11. InStep'
    <3>1. c + 1 <= Len(sent)
      BY <1>3, <2>6
    <3>2. Len(rcvd') <= Len(sent') /\ InSync(UnderWay', sent', Len(rcvd'), open')
      BY <1>1, <2>6, <2>8, <2>10, <3>1
    <3>3. phase' # "body" /\ Len(in') + need' = LenWidth
      BY <2>1, NoBytes
    <3>. QED  BY <3>2, <3>3, InStepNext
  <2>. QED  BY <2>2, <2>6, <2>7, <2>9, <2>11 DEF WireInv, m, c
<1>. QED  BY <1>3, <1>12, <1>13, <1>14

----------------------------------------------------------------------------
(* Theorems                                                                *)

\* Every step keeps the invariant.
LEMMA WireInvNext == WireInv /\ [WireNext]_wireVars => WireInv'
<1>1. SUFFICES ASSUME WireInv, [WireNext]_wireVars PROVE WireInv'
  OBVIOUS
<1>2. Bytes(in) /\ Bytes(out)
  BY <1>1 DEF WireInv, WireBytes
<1>3. ASSUME NEW m \in Messages, Snd(m) PROVE WireInv'
  BY <1>1, <1>3, SndKeeps
<1>4. ASSUME NEW k \in 1 .. Capacity, Write(k) PROVE WireInv'
  BY <1>1, <1>4, WriteKeeps
<1>5. ASSUME NEW k \in 1 .. Capacity, Read(k) PROVE WireInv'
  BY <1>1, <1>5, ReadKeeps
<1>6. CASE Close
  BY <1>1, <1>6, CloseKeeps
<1>7. CASE WriteFails
  BY <1>1, <1>2, <1>7, EndKeeps, NoBytes DEF WriteFails
<1>8. CASE ReadEof
  BY <1>1, <1>2, <1>8, EndKeeps, NoBytes DEF ReadEof
<1>9. CASE Leave
  BY <1>1, <1>2, <1>9, EndKeeps, NoBytes DEF Leave
<1>10. CASE UNCHANGED wireVars
  BY <1>1, <1>10 DEF wireVars, WireInv, WireTypeOK, WireBytes, InStep, UnderWay, Train
<1>. QED
  BY <1>1, <1>3, <1>4, <1>5, <1>6, <1>7, <1>8, <1>9, <1>10
  DEF WireNext, Writer, Reader, WireFinished

\* The buffers and counters stay in their ranges, and what the handlers extract
\* are messages (network.cpp:105-193).
THEOREM WireTypesHold == WireSpec => []WireTypeOK
<1>1. WireInv => WireTypeOK
  BY DEF WireInv
<1>. QED  BY <1>1, WireInvInit, WireInvNext, PTL DEF WireSpec

\* For any messages, any size of the kernel's buffer and any reads and writes
\* the reader never loses its place in the stream (network.cpp:169-193).
THEOREM ReaderInStep == WireSpec => []InStep
<1>1. WireInv => InStep
  BY DEF WireInv
<1>. QED  BY <1>1, WireInvInit, WireInvNext, PTL DEF WireSpec

\* A connection is a channel of whole messages in order: every step of its two
\* ends is a step of Channel, or none (packet.cpp, security.cpp,
\* network.cpp:105-193).
THEOREM WireIsChannel == WireSpec => ImplementsChannel
<1>1. WireInit => C!Init
  BY DEF WireInit, C!Init
<1>2. WireInv /\ [WireNext]_wireVars => [C!Next]_C!vars
  <2>1. SUFFICES ASSUME WireInv, [WireNext]_wireVars PROVE [C!Next]_C!vars
    OBVIOUS
  <2>2. ASSUME NEW m \in Messages, Snd(m) PROVE [C!Next]_C!vars
    BY <2>2 DEF Snd, C!Next, C!Send
  <2>3. ASSUME NEW k \in 1 .. Capacity, Read(k) PROVE [C!Next]_C!vars
    <3>1. \/ rcvd' = rcvd
          \/ Len(rcvd) < Len(sent) /\ rcvd' = Append(rcvd, sent[Len(rcvd) + 1])
      BY <2>1, <2>3, ReadKeeps
    <3>2. sent' = sent /\ open' = open
      BY <2>3 DEF Read
    <3>. QED  BY <3>1, <3>2 DEF C!Next, C!Deliver, C!vars
  <2>4. CASE Close
    BY <2>4 DEF Close, C!Next, C!Close
  <2>5. ASSUME NEW k \in 1 .. Capacity, Write(k) PROVE [C!Next]_C!vars
    BY <2>5 DEF Write, C!vars
  <2>6. CASE WriteFails \/ ReadEof \/ Leave \/ UNCHANGED wireVars
    BY <2>6 DEF WriteFails, ReadEof, Leave, wireVars, C!vars
  <2>. QED
    BY <2>1, <2>2, <2>3, <2>4, <2>5, <2>6 DEF WireNext, Writer, Reader, WireFinished
<1>. QED
  BY <1>1, <1>2, WireInvInit, WireInvNext, PTL DEF WireSpec, ImplementsChannel, C!Spec
=============================================================================
