-------------------------- MODULE BytesFieldProofs --------------------------
(***************************************************************************)
(* Theorems about BytesField, for every pair of widths and every set of    *)
(* declarations, of strings of any length and of bounds.                   *)
(***************************************************************************)
EXTENDS BytesField, PromiseProofs, SequenceTheorems

-----------------------------------------------------------------------------
(* Encodings.  A zero byte, or two, in front of a string.                  *)

Text == Seq(Nat)

\* One byte in front, and what is behind it.
LEMMA OneInFront ==
  ASSUME NEW s \in Text, NEW data \in Text
  PROVE  <<0>> \o s = data <=> data # <<>> /\ Head(data) = 0 /\ s = Tail(data)
<1>. DEFINE p == <<0>> \o s
<1>1. /\ p \in Text /\ Len(p) = Len(s) + 1 /\ p[1] = 0 /\ Len(s) \in Nat
      /\ \A i \in 1 .. Len(s) : p[i + 1] = s[i]
  <2>1. <<0>> \in Seq(Nat) /\ Len(<<0>>) = 1 /\ <<0>>[1] = 0
    OBVIOUS
  <2>2. Len(s) \in Nat
    BY DEF Text
  <2>. HIDE DEF p
  <2>3. /\ p \in Seq(Nat) /\ Len(p) = 1 + Len(s)
        /\ \A i \in 1 .. 1 + Len(s) : p[i] = IF i <= 1 THEN <<0>>[i] ELSE s[i - 1]
    BY <2>1, ConcatProperties DEF p, Text
  <2>. QED
    BY <2>1, <2>2, <2>3 DEF Text
<1>2. p # <<>> /\ Head(p) = 0
  BY <1>1 DEF Text
<1>3. Tail(p) = s
  <2>1. /\ Tail(p) \in Seq(Nat) /\ Len(Tail(p)) = Len(p) - 1
        /\ \A i \in 1 .. Len(Tail(p)) : Tail(p)[i] = p[i + 1]
    BY <1>1, <1>2, HeadTailProperties DEF Text
  <2>2. Len(Tail(p)) = Len(s)
    BY <1>1, <2>1
  <2>. HIDE DEF p
  <2>. QED
    BY <1>1, <2>1, <2>2, SeqEqual DEF Text
<1>. HIDE DEF p
<1>4. ASSUME data # <<>>, Head(data) = 0, s = Tail(data)
      PROVE  p = data
  <2>1. /\ Len(s) = Len(data) - 1 /\ Len(data) \in Nat \ {0}
        /\ \A i \in 1 .. Len(s) : s[i] = data[i + 1]
        /\ data[1] = 0
    BY <1>4, HeadTailProperties, EmptySeq DEF Text
  <2>2. Len(p) = Len(data)
    BY <1>1, <2>1
  <2>3. ASSUME NEW i \in 1 .. Len(p) PROVE p[i] = data[i]
    <3>1. CASE i = 1
      BY <1>1, <2>1, <3>1
    <3>2. CASE i # 1
      <4>1. i - 1 \in 1 .. Len(s) /\ (i - 1) + 1 = i
        BY <1>1, <2>1, <3>2
      <4>. QED
        BY <1>1, <2>1, <4>1
    <3>. QED
      BY <3>1, <3>2
  <2>. QED
    BY <1>1, <2>2, <2>3, SeqEqual DEF Text
<1>. QED
  BY <1>2, <1>3, <1>4 DEF p

\* Two bytes in front are one and another.
LEMMA TwoInFront ==
  ASSUME NEW s \in Text, NEW data \in Text
  PROVE  <<0, 0>> \o s = data <=>
           /\ data # <<>> /\ Head(data) = 0
           /\ Tail(data) # <<>> /\ Head(Tail(data)) = 0
           /\ s = Tail(Tail(data))
<1>1. <<0>> \in Text /\ <<0, 0>> = <<0>> \o <<0>>
  BY DEF Text
<1>2. <<0, 0>> \o s = <<0>> \o (<<0>> \o s)
  BY <1>1, ConcatAssociative DEF Text
<1>3. <<0>> \o s \in Text
  BY <1>1, ConcatProperties DEF Text
<1>4. <<0>> \o (<<0>> \o s) = data <=>
        data # <<>> /\ Head(data) = 0 /\ <<0>> \o s = Tail(data)
  BY <1>3, OneInFront
<1>5. data # <<>> => Tail(data) \in Text
  BY HeadTailProperties DEF Text
<1>6. data # <<>> =>
        (<<0>> \o s = Tail(data) <=>
           Tail(data) # <<>> /\ Head(Tail(data)) = 0 /\ s = Tail(Tail(data)))
  BY <1>5, OneInFront
<1>. QED
  BY <1>2, <1>4, <1>6

\* The ends of an entity: itself, what is behind its first byte, and behind
\* that; they are all strings.
LEMMA EndsOfEntity ==
  ASSUME NEW data \in Text
  PROVE  /\ Promise!Ends(data) \subseteq Text
         /\ data \in Promise!Ends(data)
         /\ data # <<>> => Tail(data) \in Promise!Ends(data)
         /\ data # <<>> /\ Tail(data) # <<>> => Tail(Tail(data)) \in Promise!Ends(data)
<1>. DEFINE n == Len(data)
<1>1. n \in Nat
  BY DEF Text
<1>2. \A k \in 1 .. n + 1 : SubSeq(data, k, n) \in Text
  <2>. SUFFICES ASSUME NEW k \in 1 .. n + 1 PROVE SubSeq(data, k, n) \in Text
    OBVIOUS
  <2>1. \A i \in k .. n : data[i] \in Nat
    BY <1>1, ElementOfSeq DEF Text
  <2>. QED
    BY <1>1, <2>1, SubSeqProperties DEF Text
<1>3. data = SubSeq(data, 1, n) /\ 1 \in 1 .. n + 1
  BY <1>1, SubSeqFull DEF Text
<1>4. ASSUME data # <<>> PROVE Tail(data) = SubSeq(data, 2, n) /\ 2 \in 1 .. n + 1
  BY <1>1, <1>4, TailIsSubSeq, EmptySeq DEF Text
<1>5. ASSUME data # <<>>, Tail(data) # <<>>
      PROVE  Tail(Tail(data)) = SubSeq(data, 3, n) /\ 3 \in 1 .. n + 1
  <2>. DEFINE t == Tail(data)
              u == SubSeq(data, 3, n)
  <2>1. /\ t \in Seq(Nat) /\ Len(t) = n - 1
        /\ \A i \in 1 .. Len(t) : t[i] = data[i + 1]
    BY <1>5, HeadTailProperties DEF Text
  <2>2. Len(t) \in Nat \ {0} /\ n >= 2
    BY <1>1, <1>5, <2>1, EmptySeq
  <2>3. /\ Tail(t) \in Seq(Nat) /\ Len(Tail(t)) = Len(t) - 1
        /\ \A i \in 1 .. Len(Tail(t)) : Tail(t)[i] = t[i + 1]
    BY <1>5, <2>1, HeadTailProperties
  <2>4. /\ u \in Seq(Nat) /\ Len(u) = n - 2
        /\ \A i \in 1 .. n - 2 : u[i] = data[i + 2]
    <3>1. \A i \in 3 .. n : data[i] \in Nat
      BY <1>1, ElementOfSeq DEF Text
    <3>2. /\ u \in Seq(Nat) /\ Len(u) = IF 3 <= n THEN n - 3 + 1 ELSE 0
          /\ \A i \in 1 .. n - 3 + 1 : u[i] = data[3 + i - 1]
      BY <1>1, <3>1, SubSeqProperties
    <3>. HIDE DEF u, n
    <3>3. \A i \in 1 .. n - 2 : i \in 1 .. n - 3 + 1 /\ 3 + i - 1 = i + 2
      BY <1>1
    <3>. QED
      BY <1>1, <2>2, <3>2, <3>3
  <2>. HIDE DEF t, u, n
  <2>5. Len(Tail(t)) = Len(u)
    BY <1>1, <2>1, <2>3, <2>4
  <2>6. ASSUME NEW i \in 1 .. Len(Tail(t)) PROVE Tail(t)[i] = u[i]
    <3>1. /\ i + 1 \in 1 .. Len(t) /\ i \in 1 .. n - 2 /\ (i + 1) + 1 = i + 2
      BY <1>1, <2>1, <2>3
    <3>. QED
      BY <2>1, <2>3, <2>4, <3>1
  <2>7. Tail(t) = u
    BY <2>3, <2>4, <2>5, <2>6, SeqEqual
  <2>. QED
    BY <1>1, <2>2, <2>7 DEF t, u
<1>. QED
  BY <1>2, <1>3, <1>4, <1>5 DEF Promise!Ends

\* A string that is not empty, seen from the front.
LEMMA FrontOfText ==
  ASSUME NEW data \in Text, data # <<>>
  PROVE  /\ Tail(data) \in Text
         /\ Len(data) = 1 <=> Tail(data) = <<>>
         /\ data = <<0>> <=> Head(data) = 0 /\ Tail(data) = <<>>
         /\ Tail(data) # <<>> => data[2] = Head(Tail(data))
<1>. DEFINE t == Tail(data)
<1>1. /\ t \in Seq(Nat) /\ Len(t) = Len(data) - 1 /\ Len(t) \in Nat
      /\ \A i \in 1 .. Len(t) : t[i] = data[i + 1]
      /\ Len(data) \in Nat \ {0}
  BY HeadTailProperties, EmptySeq DEF Text
<1>2. Len(t) = 0 <=> t = <<>>
  BY <1>1, EmptySeq
<1>3. data = <<0>> <=> Head(data) = 0 /\ t = <<>>
  <2>1. <<>> \in Text /\ <<0>> = <<0>> \o <<>>
    BY DEF Text
  <2>. QED
    BY <2>1, OneInFront
<1>4. t # <<>> => Head(t) = t[1] /\ t[1] = data[1 + 1]
  BY <1>1, <1>2, HeadTailProperties
<1>. HIDE DEF t
<1>5. /\ t \in Text
      /\ Len(data) = 1 <=> t = <<>>
      /\ data = <<0>> <=> Head(data) = 0 /\ t = <<>>
      /\ t # <<>> => data[2] = Head(t)
  BY <1>1, <1>2, <1>3, <1>4 DEF Text
<1>. QED
  BY <1>5 DEF t

\* The strings of which an entity is the encoding.
LEMMA EncodedAs ==
  ASSUME NEW data \in Text, data # <<>>, NEW nullable \in BOOLEAN, NEW s \in Text
  PROVE  Promise!Encoded(s, nullable) = data <=>
           IF Head(data) # 0 THEN s = data
           ELSE /\ Promise!NeedsPreamble(s)
                /\ IF nullable
                   THEN /\ Tail(data) # <<>> /\ Head(Tail(data)) = 0
                        /\ s = Tail(Tail(data))
                   ELSE s = Tail(data)
<1>1. <<0>> \o s = data <=> Head(data) = 0 /\ s = Tail(data)
  BY OneInFront
<1>2. <<0, 0>> \o s = data <=>
        /\ Head(data) = 0 /\ Tail(data) # <<>> /\ Head(Tail(data)) = 0
        /\ s = Tail(Tail(data))
  BY TwoInFront
<1>3. s = data => (Promise!NeedsPreamble(s) <=> Head(data) = 0)
  BY DEF Promise!NeedsPreamble
<1>4. CASE ~Promise!NeedsPreamble(s)
  BY <1>3, <1>4 DEF Promise!Encoded
<1>5. CASE Promise!NeedsPreamble(s) /\ nullable
  BY <1>2, <1>3, <1>5 DEF Promise!Encoded
<1>6. CASE Promise!NeedsPreamble(s) /\ ~nullable
  BY <1>1, <1>3, <1>6 DEF Promise!Encoded
<1>. QED
  BY <1>4, <1>5, <1>6

\* What a read came to, as the promise puts it.
Came(rd) ==
  IF rd.err # NoError THEN Promise!Failure(rd.err)
  ELSE IF rd.null THEN Promise!NoValue ELSE Promise!Value(rd.val)

\* What a read of a string may return.
TextContract(rd, nullable) ==
  /\ rd.null \in BOOLEAN
  /\ rd.err \in {NoError, EndOfStream, ErrOverlong}
  /\ rd.err = NoError /\ rd.null => nullable
  /\ rd.err = NoError /\ ~rd.null => rd.val \in Text

\* A single zero byte is NULL where one is allowed.
IsNoNull(data, nullable) == nullable => data # <<0>>

\* An entity is understood to be the one string of which it is the encoding,
LEMMA UnderstoodAs ==
  ASSUME NEW data \in Text, NEW nullable \in BOOLEAN, IsNoNull(data, nullable),
         NEW s \in Promise!Ends(data),
         \A u \in Promise!Ends(data) : Promise!Encoded(u, nullable) = data <=> u = s
  PROVE  Promise!Understood(data, nullable) = Promise!Value(s)
<1>. DEFINE meant == {u \in Promise!Ends(data) : Promise!Encoded(u, nullable) = data}
<1>1. meant = {s}
  OBVIOUS
<1>2. Promise!Understood(data, nullable) =
        IF meant = {} THEN Promise!Failure(Promise!ErrOverlong)
        ELSE Promise!Value(CHOOSE u \in meant : TRUE)
  BY DEF Promise!Understood, Promise!Null, IsNoNull
<1>. HIDE DEF meant
<1>3. (CHOOSE u \in meant : TRUE) = s
  BY <1>1
<1>. QED
  BY <1>1, <1>2, <1>3

\* or refused.
LEMMA RefusedAs ==
  ASSUME NEW data \in Text, NEW nullable \in BOOLEAN, IsNoNull(data, nullable),
         \A u \in Promise!Ends(data) : Promise!Encoded(u, nullable) # data
  PROVE  Promise!Understood(data, nullable) = Promise!Failure(ErrOverlong)
<1>. DEFINE meant == {u \in Promise!Ends(data) : Promise!Encoded(u, nullable) = data}
<1>1. meant = {}
  OBVIOUS
<1>2. Promise!Understood(data, nullable) =
        IF meant = {} THEN Promise!Failure(ErrOverlong)
        ELSE Promise!Value(CHOOSE u \in meant : TRUE)
  BY DEF Promise!Understood, Promise!Null, Promise!ErrOverlong, ErrOverlong, IsNoNull
<1>. HIDE DEF meant
<1>. QED
  BY <1>1, <1>2

\* The three ways to read the front of an entity.
LEMMA StrippedIs ==
  ASSUME NEW data \in Text, data # <<>>, NEW w
  PROVE  StripPreamble(w, data) =
           IF Head(data) # 0 THEN Read(w, data, FALSE, NoError)
           ELSE IF Tail(data) = <<>> \/ Head(Tail(data)) = 0
           THEN Read(w, Tail(data), FALSE, NoError)
           ELSE Read(w, <<>>, FALSE, ErrOverlong)
<1>1. /\ data = <<0>> <=> Head(data) = 0 /\ Tail(data) = <<>>
      /\ Tail(data) # <<>> => data[2] = Head(Tail(data))
  BY FrontOfText
<1>. QED
  BY <1>1 DEF StripPreamble

\* What an entity is understood to be when no zero byte has to be NULL,
LEMMA PlainIsUnderstood ==
  ASSUME NEW data \in Text, data # <<>>, NEW w
  PROVE  /\ TextContract(StripPreamble(w, data), FALSE)
         /\ Promise!Understood(data, FALSE) = Came(StripPreamble(w, data))
<1>. DEFINE t == Tail(data)
            rd == StripPreamble(w, data)
<1>1. /\ rd = IF Head(data) # 0 THEN Read(w, data, FALSE, NoError)
              ELSE IF t = <<>> \/ Head(t) = 0 THEN Read(w, t, FALSE, NoError)
              ELSE Read(w, <<>>, FALSE, ErrOverlong)
      /\ t \in Text
  BY StrippedIs, FrontOfText
<1>2. Came(rd) = IF Head(data) # 0 THEN Promise!Value(data)
                 ELSE IF t = <<>> \/ Head(t) = 0 THEN Promise!Value(t)
                 ELSE Promise!Failure(ErrOverlong)
  BY <1>1 DEF Came, Read, NoError, ErrOverlong
<1>3. TextContract(rd, FALSE)
  BY <1>1 DEF TextContract, Read, NoError, EndOfStream, ErrOverlong, Text
<1>4. /\ Promise!Ends(data) \subseteq Text
      /\ data \in Promise!Ends(data) /\ t \in Promise!Ends(data)
  BY EndsOfEntity
<1>5. \A s \in Promise!Ends(data) :
        Promise!Encoded(s, FALSE) = data <=>
          IF Head(data) # 0 THEN s = data
          ELSE (s = <<>> \/ Head(s) = 0) /\ s = t
  BY <1>4, EncodedAs DEF Promise!NeedsPreamble
<1>. HIDE DEF t, rd
<1>6. CASE Head(data) # 0
  <2>1. \A s \in Promise!Ends(data) : Promise!Encoded(s, FALSE) = data <=> s = data
    BY <1>5, <1>6
  <2>2. Promise!Understood(data, FALSE) = Promise!Value(data)
    BY <1>4, <2>1, UnderstoodAs DEF IsNoNull
  <2>. QED
    BY <1>2, <1>3, <1>6, <2>2 DEF rd
<1>7. CASE Head(data) = 0 /\ (t = <<>> \/ Head(t) = 0)
  <2>1. \A s \in Promise!Ends(data) : Promise!Encoded(s, FALSE) = data <=> s = t
    BY <1>5, <1>7
  <2>2. Promise!Understood(data, FALSE) = Promise!Value(t)
    BY <1>4, <2>1, UnderstoodAs DEF IsNoNull
  <2>. QED
    BY <1>2, <1>3, <1>7, <2>2 DEF rd
<1>8. CASE Head(data) = 0 /\ ~(t = <<>> \/ Head(t) = 0)
  <2>1. \A s \in Promise!Ends(data) : Promise!Encoded(s, FALSE) # data
    BY <1>5, <1>8
  <2>2. Promise!Understood(data, FALSE) = Promise!Failure(ErrOverlong)
    BY <2>1, RefusedAs DEF IsNoNull
  <2>. QED
    BY <1>2, <1>3, <1>8, <2>2 DEF rd
<1>. QED
  BY <1>6, <1>7, <1>8

\* and when a single one is.
LEMMA NullableIsUnderstood ==
  ASSUME NEW data \in Text, data # <<>>, NEW w
  PROVE  /\ TextContract(interpretASCII(w, data, TRUE), TRUE)
         /\ Promise!Understood(data, TRUE) = Came(interpretASCII(w, data, TRUE))
<1>. DEFINE t == Tail(data)
            u == Tail(t)
            rd == interpretASCII(w, data, TRUE)
<1>1. /\ t \in Text
      /\ Len(data) = 1 <=> t = <<>>
      /\ data = <<0>> <=> Head(data) = 0 /\ t = <<>>
      /\ t # <<>> => data[2] = Head(t)
  BY FrontOfText
<1>2. t # <<>> => u \in Text
  BY <1>1, FrontOfText
<1>3. rd = IF Head(data) # 0 THEN Read(w, data, FALSE, NoError)
           ELSE IF t = <<>> THEN Read(w, <<>>, TRUE, NoError)
           ELSE IF Head(t) # 0 THEN Read(w, <<>>, FALSE, ErrOverlong)
           ELSE IF u = <<>> \/ Head(u) = 0 THEN Read(w, u, FALSE, NoError)
           ELSE Read(w, <<>>, FALSE, ErrOverlong)
  <2>1. StripPreamble(w, data) =
          IF Head(data) # 0 THEN Read(w, data, FALSE, NoError)
          ELSE IF t = <<>> \/ Head(t) = 0 THEN Read(w, t, FALSE, NoError)
          ELSE Read(w, <<>>, FALSE, ErrOverlong)
    BY StrippedIs
  <2>2. t # <<>> => StripPreamble(w, t) =
          IF Head(t) # 0 THEN Read(w, t, FALSE, NoError)
          ELSE IF u = <<>> \/ Head(u) = 0 THEN Read(w, u, FALSE, NoError)
          ELSE Read(w, <<>>, FALSE, ErrOverlong)
    BY <1>1, StrippedIs
  <2>3. rd = IF Head(data) # 0 THEN StripPreamble(w, data)
             ELSE IF Len(data) = 1 THEN Read(w, <<>>, TRUE, NoError)
             ELSE IF data[2] # 0 THEN Read(w, <<>>, FALSE, ErrOverlong)
             ELSE StripPreamble(w, t)
    BY DEF interpretASCII
  <2>. HIDE DEF t, u, rd
  <2>. QED
    BY <1>1, <2>1, <2>2, <2>3
<1>. HIDE DEF rd
<1>4. /\ \A v : /\ Came(Read(w, v, FALSE, NoError)) = Promise!Value(v)
                /\ Came(Read(w, v, FALSE, ErrOverlong)) = Promise!Failure(ErrOverlong)
                /\ Came(Read(w, v, TRUE, NoError)) = Promise!NoValue
      /\ \A v \in Text : TextContract(Read(w, v, FALSE, NoError), TRUE)
      /\ \A v : /\ TextContract(Read(w, v, FALSE, ErrOverlong), TRUE)
                /\ TextContract(Read(w, v, TRUE, NoError), TRUE)
  BY DEF Came, TextContract, Read, NoError, EndOfStream, ErrOverlong
<1>5. TextContract(rd, TRUE)
  BY <1>2, <1>3, <1>4
<1>6. /\ Promise!Ends(data) \subseteq Text
      /\ data \in Promise!Ends(data) /\ (t # <<>> => u \in Promise!Ends(data))
  BY EndsOfEntity
<1>7. \A s \in Promise!Ends(data) :
        Promise!Encoded(s, TRUE) = data <=>
          IF Head(data) # 0 THEN s = data
          ELSE (s = <<>> \/ Head(s) = 0) /\ t # <<>> /\ Head(t) = 0 /\ s = u
  BY <1>6, EncodedAs DEF Promise!NeedsPreamble
<1>8. data = <<0>> => Promise!Understood(data, TRUE) = Promise!NoValue
  BY DEF Promise!Understood, Promise!Null, IsNoNull
<1>. HIDE DEF t, u
<1>9. CASE Head(data) # 0
  <2>1. \A s \in Promise!Ends(data) : Promise!Encoded(s, TRUE) = data <=> s = data
    BY <1>7, <1>9
  <2>2. data # <<0>>
    BY <1>1, <1>9
  <2>3. Promise!Understood(data, TRUE) = Promise!Value(data)
    BY <1>6, <2>1, <2>2, UnderstoodAs DEF IsNoNull
  <2>. QED
    BY <1>3, <1>4, <1>5, <1>9, <2>3 DEF rd
<1>10. CASE Head(data) = 0 /\ t = <<>>
  BY <1>1, <1>3, <1>4, <1>5, <1>8, <1>10 DEF rd
<1>11. CASE Head(data) = 0 /\ t # <<>> /\ Head(t) = 0 /\ (u = <<>> \/ Head(u) = 0)
  <2>1. \A s \in Promise!Ends(data) : Promise!Encoded(s, TRUE) = data <=> s = u
    BY <1>7, <1>11
  <2>2. data # <<0>> /\ u \in Promise!Ends(data)
    BY <1>1, <1>6, <1>11
  <2>3. Promise!Understood(data, TRUE) = Promise!Value(u)
    BY <2>1, <2>2, UnderstoodAs DEF IsNoNull
  <2>. QED
    BY <1>3, <1>4, <1>5, <1>11, <2>3 DEF rd
<1>12. CASE Head(data) = 0 /\ t # <<>> /\ ~(Head(t) = 0 /\ (u = <<>> \/ Head(u) = 0))
  <2>1. \A s \in Promise!Ends(data) : Promise!Encoded(s, TRUE) # data
    BY <1>7, <1>12
  <2>2. data # <<0>>
    BY <1>1, <1>12
  <2>3. Promise!Understood(data, TRUE) = Promise!Failure(ErrOverlong)
    BY <2>1, <2>2, RefusedAs DEF IsNoNull
  <2>. QED
    BY <1>3, <1>4, <1>5, <1>12, <2>3 DEF rd
<1>. QED
  BY <1>9, <1>10, <1>11, <1>12

-----------------------------------------------------------------------------
(* What is on the wire, and how it is read.                                *)

\* What a string is read from.
Readable(buf, nullable) == buf # <<>> => Head(buf) \in Promise!Strings(decl, nullable)

\* A string that is read is the one that was transmitted.
LEMMA StringIsTransmitted ==
  ASSUME decl.type \in Types, NEW nullable \in BOOLEAN, NEW w, Readable(w.buf, nullable)
  PROVE  /\ TextContract(readBytesValue(w, decl.type, nullable), nullable)
         /\ Promise!Transmitted(w.buf, nullable)
              = Came(readBytesValue(w, decl.type, nullable))
<1>. DEFINE data == Head(w.buf)
            x == AfterEntity(w)
            rd == readBytesValue(w, decl.type, nullable)
            T == Promise!Transmitted(w.buf, nullable)
            Good(r, t) == TextContract(r, nullable) /\ t = Came(r)
<1>1. /\ T = IF w.buf = <<>> THEN Promise!Failure(EndOfStream)
             ELSE IF decl.type = "ascii" THEN Promise!Understood(data, nullable)
             ELSE IF data = NULL THEN Promise!NoValue ELSE Promise!Value(data)
      /\ rd = IF w.buf = <<>> THEN Read(w, <<>>, FALSE, EndOfStream)
              ELSE IF decl.type = "ascii" THEN interpretASCII(x, data, nullable)
              ELSE IF nullable /\ data = NULL THEN Read(x, <<>>, TRUE, NoError)
              ELSE Read(x, data, FALSE, NoError)
  BY DEF Promise!Transmitted, Promise!EndOfStream, EndOfStream, readBytesValue
<1>2. /\ Good(Read(w, <<>>, FALSE, EndOfStream), Promise!Failure(EndOfStream))
      /\ nullable => Good(Read(x, <<>>, TRUE, NoError), Promise!NoValue)
      /\ \A v \in Text : Good(Read(x, v, FALSE, NoError), Promise!Value(v))
  BY DEF Came, TextContract, Read, NoError, EndOfStream, ErrOverlong
<1>3. w.buf # <<>> /\ decl.type = "ascii" => data \in Text /\ data # <<>>
  BY BytesAssumption DEF Readable, Promise!Strings, Text
<1>4. w.buf # <<>> /\ decl.type # "ascii" =>
        \/ data \in Text /\ data # NULL
        \/ nullable /\ data = NULL
  BY BytesAssumption DEF Readable, Promise!Strings, Text
<1>5. w.buf # <<>> /\ decl.type = "ascii" =>
        Good(interpretASCII(x, data, nullable), Promise!Understood(data, nullable))
  <2>1. CASE nullable = TRUE
    BY <1>3, <2>1, NullableIsUnderstood
  <2>2. CASE nullable = FALSE
    <3>1. interpretASCII(x, data, FALSE) = StripPreamble(x, data)
      BY DEF interpretASCII
    <3>. QED
      BY <1>3, <2>2, <3>1, PlainIsUnderstood
  <2>. QED
    BY <2>1, <2>2
<1>. HIDE DEF rd, T, x, data, Good
<1>6. Good(rd, T)
  <2>1. CASE w.buf = <<>>
    BY <1>1, <1>2, <2>1
  <2>2. CASE w.buf # <<>> /\ decl.type = "ascii"
    BY <1>1, <1>5, <2>2
  <2>3. CASE w.buf # <<>> /\ decl.type # "ascii"
    BY <1>1, <1>2, <1>4, <2>3
  <2>. QED
    BY <2>1, <2>2, <2>3
<1>. QED
  BY <1>6 DEF Good, rd, T

\* A subtraction length that is read is the one that was transmitted, with the
\* shift of an optional delta undone.
LEMMA SubtractionIsRead ==
  ASSUME NEW optional \in BOOLEAN, NEW w, NEW d, d = readDelta(w, optional)
  PROVE  /\ d.null \in BOOLEAN /\ d.err \in {NoError, EndOfStream, Overflow}
         /\ w.buf = <<>> => d.err = EndOfStream
         /\ w.buf # <<>> /\ Head(w.buf) \notin Int64 => d.err = Overflow
         /\ w.buf # <<>> /\ Head(w.buf) \in Int64 =>
              /\ d.err = NoError
              /\ d.null <=> optional /\ Head(w.buf) = 0
              /\ d.val = IF optional /\ Head(w.buf) > 0 THEN Head(w.buf) - 1 ELSE Head(w.buf)
              /\ d.val \in Int
         /\ IsWire(w) /\ w.buf # <<>> => d.wire.buf = Tail(w.buf)
<1>. DEFINE n == Head(w.buf)
            r == ReadInt(w)
<1>1. r = [wire |-> r.wire, null |-> r.null, val |-> r.val, err |-> r.err]
      /\ r.wire = AfterEntity(w) /\ r.null = FALSE
      /\ r.val = (IF w.buf # <<>> /\ n \in Int64 THEN n ELSE 0)
      /\ r.err = (IF w.buf = <<>> THEN EndOfStream
                  ELSE IF n \in Int64 THEN NoError ELSE Overflow)
  BY DEF ReadInt, ReadEntity
<1>2. d = IF optional
          THEN [r EXCEPT !.null = r.err = NoError /\ r.val = 0,
                         !.val = IF r.val > 0 THEN r.val - 1 ELSE r.val]
          ELSE r
  BY DEF readDelta, ReadNullableInt, UndoNullableShift
<1>3. Int64 \subseteq Int /\ NoError # EndOfStream /\ NoError # Overflow
  BY WidthAssumption DEF Int64, NoError, EndOfStream, Overflow
<1>4. IsWire(w) /\ w.buf # <<>> => AfterEntity(w).buf = Tail(w.buf)
  BY DEF AfterEntity, IsWire
<1>. HIDE DEF n, r
<1>5. /\ d.wire = r.wire /\ d.err = r.err /\ d.null \in BOOLEAN
      /\ d.null <=> optional /\ r.err = NoError /\ r.val = 0
      /\ d.val = IF optional /\ r.val > 0 THEN r.val - 1 ELSE r.val
  BY <1>1, <1>2
<1>. QED
  BY <1>1, <1>3, <1>4, <1>5 DEF n

-----------------------------------------------------------------------------
(* What a call returns and what it leaves.                                 *)

TextSlots == [State : States, Val : Text]

\* What is declared of a string or a byte vector.
LEMMA DeclaredFacts ==
  ASSUME NEW f \in BytesFields(Types, Text)
  PROVE  /\ f.type \in Types /\ f.op \in Operators
         /\ f.optional \in BOOLEAN /\ f.hasInitial \in BOOLEAN /\ f.initial \in Text
         /\ f.op = "Tail" => f.type = "ascii"
<1>1. <<>> \in Text
  BY DEF Text
<1>2. /\ f \in [type : Types, op : Operators, optional : BOOLEAN,
                hasInitial : BOOLEAN, initial : Text \cup {<<>>}]
      /\ f.op = "Tail" => f.type = "ascii"
  BY DEF BytesFields
<1>. QED
  BY <1>1, <1>2

\* A result is a record of five fields.
IsResult(res) ==
  res = [wire |-> res.wire, slot |-> res.slot, val |-> res.val,
         present |-> res.present, err |-> res.err]

\* What a successful call leaves in the slot.
StringKept(f, s, res) ==
  /\ f.op \in {"None", "Constant", "Default"} => res.slot = s
  /\ f.op \in {"Copy", "Tail"} =>
       IF res.present THEN res.slot = Assign(res.val) ELSE res.slot.State = "Empty"
  /\ f.op = "Delta" => res.slot = IF res.present THEN Assign(res.val) ELSE s

\* Only an optional copy or tail field can have an Empty slot.
EmptyTextIsLegal(f, s) ==
  s.State = "Empty" => f.optional /\ f.op \in {"Copy", "Tail"}

StringContract(f, s, res) ==
  /\ IsResult(res)
  /\ res.slot \in TextSlots
  /\ res.present \in BOOLEAN
  /\ res.err \in BytesErrors \cup {NoError}
  /\ res.present => res.val \in Text /\ res.err = NoError
  /\ res.err # NoError => res.slot = s
  /\ EmptyTextIsLegal(f, s) => EmptyTextIsLegal(f, res.slot)
  /\ res.err = NoError => StringKept(f, s, res) /\ f.op # "Increment"

\* The pieces the operators share.
LEMMA StringPieces ==
  ASSUME NEW f \in BytesFields(Types, Text), NEW s \in TextSlots, NEW w
  PROVE  /\ \A rd : TextContract(rd, f.optional) =>
              /\ f.op \in {"None", "Default"} => StringContract(f, s, DeliverRead(rd, s))
              /\ f.op = "Copy" => StringContract(f, s, DeliverAndKeep(rd, s))
              /\ f.op = "Tail" /\ (rd.err # NoError \/ rd.null) =>
                   StringContract(f, s, DeliverAndKeep(rd, s))
         /\ f.op \in {"Constant", "Default"} =>
              /\ StringContract(f, s, Present(w, s, f.initial))
              /\ StringContract(f, s, Absent(w, s))
         /\ \A e \in BytesErrors : StringContract(f, s, Fail(w, s, e))
         /\ f.op \in {"Copy", "Tail"} =>
              /\ s.State = "Assigned" => StringContract(f, s, Present(w, s, s.Val))
              /\ StringContract(f, s, ResolveUndefined(w, f, s))
              /\ s.State = "Empty" => StringContract(f, s, Absent(w, s))
         /\ f.op \in {"Delta", "Tail"} =>
              \A v \in Text : StringContract(f, s, Present(w, Assign(v), v))
         /\ f.op = "Delta" /\ f.optional => StringContract(f, s, Absent(w, s))
<1>1. /\ f.optional \in BOOLEAN /\ f.hasInitial \in BOOLEAN /\ f.initial \in Text
  BY DeclaredFacts
<1>2. s.State \in States /\ s.Val \in Text /\ s = [State |-> s.State, Val |-> s.Val]
  BY DEF TextSlots
<1>3. /\ SetEmpty(s) \in TextSlots /\ SetEmpty(s).State = "Empty"
      /\ \A v \in Text : Assign(v) \in TextSlots /\ Assign(v).State = "Assigned"
  BY <1>2 DEF SetEmpty, Assign, TextSlots, States
<1>4. /\ NoError \notin BytesErrors
      /\ {ErrD5, EndOfStream, ErrOverlong} \subseteq BytesErrors
  BY DEF BytesErrors, Errors, NoError, ErrD5, ErrD6, ErrD7, ErrOverlong,
         ErrUnsupported, EndOfStream, Overflow
<1>. USE DEF StringContract, EmptyTextIsLegal, StringKept, IsResult
<1>5. /\ f.op \in {"Constant", "Default"} =>
           /\ StringContract(f, s, Present(w, s, f.initial))
           /\ StringContract(f, s, Absent(w, s))
      /\ \A e \in BytesErrors : StringContract(f, s, Fail(w, s, e))
  BY <1>1, <1>2, <1>4 DEF Present, Absent, Fail
<1>6. f.op \in {"Copy", "Tail"} =>
        /\ s.State = "Assigned" => StringContract(f, s, Present(w, s, s.Val))
        /\ StringContract(f, s, ResolveUndefined(w, f, s))
        /\ s.State = "Empty" => StringContract(f, s, Absent(w, s))
  <2>1. s.State = "Assigned" => s = Assign(s.Val)
    BY <1>2 DEF Assign
  <2>. QED
    BY <1>1, <1>2, <1>3, <1>4, <2>1 DEF ResolveUndefined, Present, Absent, Fail
<1>7. /\ f.op \in {"Delta", "Tail"} =>
           \A v \in Text : StringContract(f, s, Present(w, Assign(v), v))
      /\ f.op = "Delta" /\ f.optional => StringContract(f, s, Absent(w, s))
  BY <1>1, <1>2, <1>3 DEF Present, Absent
<1>8. ASSUME NEW rd, TextContract(rd, f.optional)
      PROVE  /\ f.op \in {"None", "Default"} => StringContract(f, s, DeliverRead(rd, s))
             /\ f.op = "Copy" => StringContract(f, s, DeliverAndKeep(rd, s))
             /\ f.op = "Tail" /\ (rd.err # NoError \/ rd.null) =>
                  StringContract(f, s, DeliverAndKeep(rd, s))
  BY <1>1, <1>2, <1>3, <1>4, <1>8
     DEF TextContract, DeliverRead, DeliverAndKeep, Present, Absent, Fail
<1>. QED
  BY <1>5, <1>6, <1>7, <1>8

\* What an edit comes to is a string again.
LEMMA EditsAreText ==
  ASSUME NEW base \in Text, NEW part \in Text, NEW n \in Int, ~Exceeds(base, n)
  PROVE  applyStringDelta(base, n, part) \in Text
<1>1. Len(base) \in Nat /\ \A i \in 1 .. Len(base) : base[i] \in Nat
  BY ElementOfSeq DEF Text
<1>2. CASE n >= 0
  <2>1. Len(base) - n \in Int /\ Len(base) - n <= Len(base)
    BY <1>1, <1>2
  <2>2. \A i \in 1 .. (Len(base) - n) : base[i] \in Nat
    BY <1>1, <2>1
  <2>3. SubSeq(base, 1, Len(base) - n) \in Seq(Nat)
    BY <2>1, <2>2, SubSeqProperties
  <2>. QED
    BY <1>2, <2>3, ConcatProperties DEF applyStringDelta, DropLast, Text
<1>3. CASE ~(n >= 0)
  <2>1. -n - 1 + 1 \in Int /\ -n - 1 + 1 >= 1
    BY <1>3
  <2>2. \A i \in (-n - 1 + 1) .. Len(base) : base[i] \in Nat
    BY <1>1, <2>1
  <2>3. SubSeq(base, -n - 1 + 1, Len(base)) \in Seq(Nat)
    BY <1>1, <2>1, <2>2, SubSeqProperties
  <2>. QED
    BY <1>3, <2>3, ConcatProperties DEF applyStringDelta, DropFirst, Text
<1>. QED
  BY <1>2, <1>3

\* And so is what a tail leaves.
LEMMA TailsAreText ==
  ASSUME NEW base \in Text, NEW tail \in Text
  PROVE  applyTail(base, tail) \in Text
<1>1. /\ Len(base) \in Nat /\ Len(tail) \in Nat
      /\ \A i \in 1 .. Len(base) : base[i] \in Nat
  BY ElementOfSeq DEF Text
<1>2. CASE Len(tail) >= Len(base)
  BY <1>2 DEF applyTail
<1>3. CASE ~(Len(tail) >= Len(base))
  <2>1. Len(base) - Len(tail) \in Int /\ Len(base) - Len(tail) <= Len(base)
    BY <1>1
  <2>2. \A i \in 1 .. (Len(base) - Len(tail)) : base[i] \in Nat
    BY <1>1, <2>1
  <2>3. SubSeq(base, 1, Len(base) - Len(tail)) \in Seq(Nat)
    BY <2>1, <2>2, SubSeqProperties
  <2>. QED
    BY <1>3, <2>3, ConcatProperties DEF applyTail, DropLast, Text
<1>. QED
  BY <1>2, <1>3

-----------------------------------------------------------------------------
(* What the caller sees.                                                   *)

Outcome(res) == Promise!Returned(res.present, res.val, res.err)

\* What changing the value of a result makes of it.
LEMMA ChangedVal ==
  ASSUME NEW r, NEW a, NEW b, NEW c, NEW d, NEW e, NEW v,
         r = [wire |-> a, slot |-> b, val |-> c, present |-> d, err |-> e]
  PROVE  [r EXCEPT !.val = v] =
           [wire |-> a, slot |-> b, val |-> v, present |-> d, err |-> e]
OBVIOUS

\* How the caller sees the three ways to return.
LEMMA Shown ==
  ASSUME NEW w, NEW s
  PROVE  /\ \A v : Outcome(Blank(Present(w, s, v))) = Promise!Value(v)
         /\ Outcome(Blank(Absent(w, s))) = Promise!NoValue
         /\ \A e : Outcome(Blank(Fail(w, s, e))) = Promise!Failure(e)
<1>1. Promise!NoError = NoError
  BY DEF Promise!NoError, NoError
<1>2. ASSUME NEW v PROVE Outcome(Blank(Present(w, s, v))) = Promise!Value(v)
  BY <1>1 DEF Outcome, Blank, Present, Promise!Returned, Promise!Value
<1>3. ASSUME NEW e PROVE Outcome(Blank(Fail(w, s, e))) = Promise!Failure(e)
  <2>. DEFINE r == Fail(w, s, e)
  <2>1. r = [wire |-> w, slot |-> s, val |-> 0, present |-> FALSE, err |-> e]
    BY DEF Fail
  <2>. HIDE DEF r
  <2>2. Blank(r) = [wire |-> w, slot |-> s, val |-> <<>>, present |-> FALSE, err |-> e]
    BY <2>1, ChangedVal DEF Blank
  <2>. QED
    BY <2>2 DEF Outcome, Promise!Returned, Promise!Failure, r
<1>4. Absent(w, s) = Fail(w, s, NoError) /\ Promise!NoValue = Promise!Failure(NoError)
  BY <1>1 DEF Absent, Fail, Promise!NoValue, Promise!Failure, Promise!Returned
<1>. QED
  BY <1>2, <1>3, <1>4

\* What was read is what is seen, whether it is kept or not.
LEMMA ReadIsShown ==
  ASSUME NEW rd, NEW s
  PROVE  /\ Outcome(Blank(DeliverRead(rd, s))) = Came(rd)
         /\ Outcome(Blank(DeliverAndKeep(rd, s))) = Came(rd)
<1>. DEFINE Show(res) == Outcome(Blank(res))
<1>1. \A t : /\ Show(Present(rd.wire, t, rd.val)) = Promise!Value(rd.val)
             /\ Show(Absent(rd.wire, t)) = Promise!NoValue
             /\ Show(Fail(rd.wire, t, rd.err)) = Promise!Failure(rd.err)
  BY Shown
<1>. HIDE DEF Show
<1>2. /\ Show(DeliverRead(rd, s)) = Came(rd)
      /\ Show(DeliverAndKeep(rd, s)) = Came(rd)
  BY <1>1 DEF DeliverRead, DeliverAndKeep, Came
<1>. QED
  BY <1>2 DEF Show

\* What can be in the history of a field.
Deliveries == {Promise!NoValue} \cup {Promise!Value(v) : v \in Text}

\* What the caller sees of a call: the value, or the error.
LEMMA SeenOf ==
  ASSUME NEW f, NEW s, NEW res, StringContract(f, s, res)
  PROVE  /\ Outcome(Blank(res)) = IF res.present THEN Promise!Value(res.val)
                                 ELSE Promise!Failure(res.err)
         /\ Outcome(Blank(res)).present = res.present
         /\ Outcome(Blank(res)).err = res.err
         /\ Blank(res) = [wire |-> res.wire, slot |-> res.slot,
                          val |-> IF res.present THEN res.val ELSE <<>>,
                          present |-> res.present, err |-> res.err]
         /\ res.err = NoError => Outcome(Blank(res)) \in Deliveries
<1>1. /\ IsResult(res) /\ res.present \in BOOLEAN
      /\ res.present => res.val \in Text /\ res.err = NoError
  BY DEF StringContract
<1>2. Promise!NoError = NoError
  BY DEF Promise!NoError, NoError
<1>. DEFINE b == Blank(res)
<1>3. b = [wire |-> res.wire, slot |-> res.slot,
           val |-> IF res.present THEN res.val ELSE <<>>,
           present |-> res.present, err |-> res.err]
  <2>1. CASE res.present
    BY <1>1, <2>1 DEF Blank, IsResult
  <2>2. CASE ~res.present
    <3>1. b = [res EXCEPT !.val = <<>>]
      BY <2>2 DEF Blank
    <3>2. [res EXCEPT !.val = <<>>] =
            [wire |-> res.wire, slot |-> res.slot, val |-> <<>>,
             present |-> res.present, err |-> res.err]
      BY <1>1, ChangedVal DEF IsResult
    <3>. HIDE DEF b
    <3>. QED
      BY <2>2, <3>1, <3>2
  <2>. QED
    BY <2>1, <2>2
<1>. HIDE DEF b
<1>4. Outcome(b) = [present |-> res.present,
                    val |-> IF res.present THEN res.val ELSE <<>>, err |-> res.err]
  BY <1>3 DEF Outcome, Promise!Returned
<1>5. CASE res.present
  <2>1. res.present = TRUE
    BY <1>1, <1>5
  <2>2. Outcome(b) = Promise!Value(res.val)
    BY <1>1, <1>2, <1>4, <2>1 DEF Promise!Value, Promise!Returned
  <2>3. /\ Outcome(b) \in Deliveries
        /\ Outcome(b).present = res.present /\ Outcome(b).err = res.err
    <3>1. Outcome(b).present = res.present /\ Outcome(b).err = res.err
      BY <1>4
    <3>2. Outcome(b) \in Deliveries
      BY <1>1, <1>5, <2>2 DEF Deliveries
    <3>. QED
      BY <3>1, <3>2
  <2>. QED
    BY <1>3, <1>5, <2>2, <2>3 DEF b
<1>6. CASE ~res.present
  <2>1. res.present = FALSE
    BY <1>1, <1>6
  <2>2. Outcome(b) = Promise!Failure(res.err)
    BY <1>4, <2>1 DEF Promise!Failure, Promise!Returned
  <2>3. res.err = NoError => Outcome(b) = Promise!NoValue
    BY <1>2, <2>2 DEF Promise!Failure, Promise!NoValue, Promise!Returned
  <2>. QED
    BY <1>3, <1>4, <1>6, <2>2, <2>3 DEF Deliveries, b
<1>. QED
  BY <1>5, <1>6

-----------------------------------------------------------------------------
(* The slot agrees with the history.                                       *)

StringRemembers(f, s, l) ==
  /\ f.op \in {"None", "Constant", "Default", "Increment"} => s = UndefinedBytes
  /\ f.op \in {"Copy", "Tail"} =>
       IF l = <<>> THEN s = UndefinedBytes
       ELSE IF LastOutcome(l).present THEN s = Assign(LastOutcome(l).val)
       ELSE s.State = "Empty"
  /\ f.op = "Delta" =>
       IF PresentAt(l) = {} THEN s = UndefinedBytes ELSE s = Assign(Latest(l))

StringAgree(f, s, l) ==
  /\ f \in BytesFields(Types, Text)
  /\ s \in TextSlots
  /\ l \in Seq(Deliveries)
  /\ HasLatest(l)
  /\ EmptyTextIsLegal(f, s)
  /\ StringRemembers(f, s, l)

\* After a reset the slot agrees with the empty history,
LEMMA StringAgreeAtFirst ==
  ASSUME NEW f \in BytesFields(Types, Text)
  PROVE  StringAgree(f, UndefinedBytes, <<>>)
<1>1. PresentAt(<<>>) = {} /\ <<>> \in Seq(Deliveries) /\ <<>> \in Text
  BY DEF PresentAt, Text
<1>. QED
  BY <1>1 DEF StringAgree, HasLatest, EmptyTextIsLegal, StringRemembers, TextSlots,
              States, UndefinedBytes

\* and after every call with the history that the call makes.
LEMMA StringAgreeAfterCall ==
  ASSUME NEW f, NEW s, NEW l, StringAgree(f, s, l), NEW res, StringContract(f, s, res)
  PROVE  StringAgree(f, res.slot, Noted(l, Outcome(Blank(res))))
<1>. DEFINE e == Outcome(Blank(res))
<1>1. /\ e.present = res.present /\ e.err = res.err
      /\ res.present => e = Promise!Value(res.val)
      /\ res.err = NoError => e \in Deliveries
  BY SeenOf
<1>2. res.present => e.val = res.val
  BY <1>1 DEF Promise!Value, Promise!Returned
<1>3. /\ f \in BytesFields(Types, Text) /\ f.op \in Operators
      /\ l \in Seq(Deliveries) /\ HasLatest(l) /\ StringRemembers(f, s, l)
      /\ res.slot \in TextSlots /\ EmptyTextIsLegal(f, res.slot)
  BY DeclaredFacts DEF StringAgree, StringContract
<1>. HIDE DEF e
<1>4. CASE res.err # NoError
  <2>1. res.slot = s /\ Noted(l, e) = l
    BY <1>1, <1>4 DEF StringContract, Noted
  <2>. QED
    BY <2>1 DEF e
<1>5. CASE res.err = NoError
  <2>1. /\ Noted(l, e) = Append(l, e) /\ e \in Deliveries
        /\ StringKept(f, s, res) /\ f.op # "Increment"
    BY <1>1, <1>5 DEF StringContract, Noted
  <2>2. /\ Append(l, e) \in Seq(Deliveries) /\ Append(l, e) # <<>>
        /\ LastOutcome(Append(l, e)) = e
    BY <1>3, <2>1, AppendFacts
  <2>3. /\ HasLatest(Append(l, e))
        /\ e.present => /\ PresentAt(Append(l, e)) # {}
                        /\ Latest(Append(l, e)) = e.val
        /\ ~e.present =>
             /\ PresentAt(Append(l, e)) = PresentAt(l)
             /\ PresentAt(l) # {} => Latest(Append(l, e)) = Latest(l)
    BY <1>3, <2>1, LatestAfter
  <2>4. StringRemembers(f, res.slot, Append(l, e))
    BY <1>1, <1>2, <1>3, <2>1, <2>2, <2>3 DEF StringRemembers, StringKept
  <2>. QED
    BY <1>3, <2>1, <2>2, <2>3, <2>4 DEF StringAgree, e
<1>. QED
  BY <1>4, <1>5

-----------------------------------------------------------------------------
(* Every call keeps the contract and returns what is promised.             *)

\* What a decode can meet.
IsInput(w) ==
  /\ IsWire(w)
  /\ decl.op # "Delta" => Readable(w.buf, decl.optional)
  /\ decl.op = "Delta" /\ w.buf # <<>> => Readable(Tail(w.buf), FALSE)

\* A call is right.
Right(w, res) ==
  StringContract(decl, slot, res) /\ Outcome(Blank(res)) = Promise!Promised(w)

\* Which part of the promise applies.
LEMMA PromiseByOperator ==
  ASSUME NEW w
  PROVE  /\ decl.op \in {"None", "Delta"} => Promise!Promised(w) = Promise!Explicit(w)
         /\ decl.op = "Increment" => Promise!Promised(w) = Promise!Failure(ErrUnsupported)
         /\ decl.op = "Constant" =>
              Promise!Promised(w) = IF ~decl.optional \/ PresenceBit(w)
                                    THEN Promise!Value(decl.initial) ELSE Promise!NoValue
         /\ decl.op = "Default" =>
              Promise!Promised(w) = IF PresenceBit(w) THEN Promise!Explicit(w)
                                    ELSE Promise!Start
         /\ decl.op \in {"Copy", "Tail"} =>
              Promise!Promised(w) = IF PresenceBit(w) THEN Promise!Explicit(w)
                                    ELSE IF log = <<>> THEN Promise!Start ELSE LastOutcome(log)
         /\ decl.op \in {"None", "Default", "Copy"} =>
              Promise!Explicit(w) = Promise!Transmitted(w.buf, decl.optional)
         /\ decl.op = "Delta" => Promise!Explicit(w) = Promise!DeltaOf(w)
         /\ Promise!Start =
              IF decl.hasInitial THEN Promise!Value(decl.initial)
              ELSE IF decl.optional THEN Promise!NoValue
              ELSE Promise!Failure(IF decl.op = "Tail" THEN ErrD6 ELSE ErrD5)
<1>1. Promise!Selected(w) <=>
        \/ decl.op \in {"None", "Delta"}
        \/ decl.op = "Constant" /\ ~decl.optional
        \/ decl.op \notin {"None", "Delta"} /\ PresenceBit(w)
  BY DEF Promise!Selected, PresenceBit
<1>2. Promise!LastOutcome(log) = LastOutcome(log)
  BY DEF Promise!LastOutcome, LastOutcome
<1>3. Promise!Promised(w) =
        IF decl.op = "Increment" THEN Promise!Failure(ErrUnsupported)
        ELSE IF Promise!Selected(w) THEN Promise!Explicit(w) ELSE Promise!Implied
  BY DEF Promise!Promised, Promise!ErrUnsupported, ErrUnsupported
<1>4. Promise!Implied = IF decl.op = "Constant" THEN Promise!NoValue
                        ELSE IF decl.op = "Default" \/ log = <<>> THEN Promise!Start
                        ELSE LastOutcome(log)
  BY <1>2 DEF Promise!Implied
<1>5. /\ decl.op = "Constant" => Promise!Explicit(w) = Promise!Value(decl.initial)
      /\ decl.op = "Delta" => Promise!Explicit(w) = Promise!DeltaOf(w)
      /\ decl.op \in {"None", "Default", "Copy"} =>
           Promise!Explicit(w) = Promise!Transmitted(w.buf, decl.optional)
  <2>1. CASE decl.op = "Constant"
    BY <2>1 DEF Promise!Explicit
  <2>2. CASE decl.op = "Delta"
    BY <2>2 DEF Promise!Explicit
  <2>3. CASE decl.op \in {"None", "Default", "Copy"}
    BY <2>3 DEF Promise!Explicit
  <2>. QED
    BY <2>1, <2>2, <2>3
<1>6. Promise!Start = IF decl.hasInitial THEN Promise!Value(decl.initial)
                      ELSE IF decl.optional THEN Promise!NoValue
                      ELSE Promise!Failure(IF decl.op = "Tail" THEN ErrD6 ELSE ErrD5)
  BY DEF Promise!Start, Promise!ErrD5, Promise!ErrD6, ErrD5, ErrD6
<1>. QED
  BY <1>1, <1>3, <1>4, <1>5, <1>6

\* Consuming a bit changes nothing about the entities.
LEMMA BitsAndBuffers ==
  ASSUME NEW w, IsWire(w)
  PROVE  AfterBit(w).buf = w.buf
BY DEF AfterBit, IsWire

\* A read is right wherever the promise is what was transmitted.
LEMMA ReadsAreRight ==
  ASSUME StringAgree(decl, slot, log), NEW w, NEW x, x.buf = w.buf,
         Readable(w.buf, decl.optional),
         Promise!Promised(w) = Promise!Transmitted(w.buf, decl.optional)
  PROVE  LET rd == readBytesValue(x, decl.type, decl.optional)
         IN  /\ decl.op \in {"None", "Default"} => Right(w, DeliverRead(rd, slot))
             /\ decl.op = "Copy" => Right(w, DeliverAndKeep(rd, slot))
<1>. DEFINE rd == readBytesValue(x, decl.type, decl.optional)
<1>1. /\ decl \in BytesFields(Types, Text) /\ slot \in TextSlots
      /\ decl.type \in Types /\ decl.optional \in BOOLEAN
  BY DeclaredFacts DEF StringAgree
<1>2. /\ TextContract(rd, decl.optional)
      /\ Promise!Transmitted(w.buf, decl.optional) = Came(rd)
  BY <1>1, StringIsTransmitted
<1>3. /\ Outcome(Blank(DeliverRead(rd, slot))) = Came(rd)
      /\ Outcome(Blank(DeliverAndKeep(rd, slot))) = Came(rd)
  BY ReadIsShown
<1>. HIDE DEF rd
<1>4. /\ decl.op \in {"None", "Default"} => Right(w, DeliverRead(rd, slot))
      /\ decl.op = "Copy" => Right(w, DeliverAndKeep(rd, slot))
  BY <1>1, <1>2, <1>3, StringPieces DEF Right
<1>. QED
  BY <1>4 DEF rd

\* What was not transmitted is the last outcome, kept in the slot.
LEMMA LastIsKept ==
  ASSUME StringAgree(decl, slot, log), decl.op \in {"Copy", "Tail"}
  PROVE  /\ log = <<>> => slot.State = "Undefined"
         /\ log # <<>> /\ LastOutcome(log).present =>
              /\ slot.State = "Assigned" /\ slot.Val \in Text
              /\ slot.Val = LastOutcome(log).val /\ LastOutcome(log) = Promise!Value(slot.Val)
         /\ log # <<>> /\ ~LastOutcome(log).present =>
              /\ slot.State = "Empty" /\ decl.optional /\ LastOutcome(log) = Promise!NoValue
<1>1. /\ slot \in TextSlots /\ log \in Seq(Deliveries) /\ EmptyTextIsLegal(decl, slot)
      /\ IF log = <<>> THEN slot = UndefinedBytes
         ELSE IF LastOutcome(log).present THEN slot = Assign(LastOutcome(log).val)
         ELSE slot.State = "Empty"
  BY DEF StringAgree, StringRemembers
<1>2. log # <<>> => LastOutcome(log) \in Deliveries
  <2>1. log # <<>> => log[Len(log)] \in Deliveries
    BY <1>1
  <2>. QED
    BY <2>1 DEF LastOutcome
<1>3. /\ \A v : Promise!Value(v).present = TRUE /\ Promise!Value(v).val = v
      /\ Promise!NoValue.present = FALSE
  BY DEF Promise!Value, Promise!NoValue, Promise!Returned
<1>4. log # <<>> /\ LastOutcome(log).present => LastOutcome(log) = Promise!Value(LastOutcome(log).val)
  BY <1>2, <1>3 DEF Deliveries
<1>5. log # <<>> /\ ~LastOutcome(log).present => LastOutcome(log) = Promise!NoValue
  BY <1>2, <1>3 DEF Deliveries
<1>. QED
  BY <1>1, <1>4, <1>5 DEF TextSlots, EmptyTextIsLegal, UndefinedBytes, Assign

\* The answers to a presence bit that is not set.
LEMMA ImpliedAnswers ==
  ASSUME StringAgree(decl, slot, log), decl.op \in {"Copy", "Tail"}, NEW w,
         Promise!Promised(w) = IF log = <<>> THEN Promise!Start ELSE LastOutcome(log), NEW x
  PROVE  /\ slot.State = "Assigned" => Right(w, Present(x, slot, slot.Val))
         /\ slot.State = "Undefined" =>
              /\ decl.op = "Copy" \/ decl.hasInitial \/ decl.optional =>
                   Right(w, ResolveUndefined(x, decl, slot))
              /\ decl.op = "Tail" /\ ~(decl.hasInitial \/ decl.optional) =>
                   Right(w, Fail(x, slot, ErrD6))
         /\ slot.State = "Empty" =>
              /\ decl.optional
              /\ Right(w, Absent(x, slot))
<1>1. /\ decl \in BytesFields(Types, Text) /\ slot \in TextSlots
      /\ decl.optional \in BOOLEAN /\ decl.hasInitial \in BOOLEAN
  BY DeclaredFacts DEF StringAgree
<1>2. /\ log = <<>> => slot.State = "Undefined"
      /\ log # <<>> /\ LastOutcome(log).present =>
           /\ slot.State = "Assigned" /\ slot.Val \in Text
           /\ slot.Val = LastOutcome(log).val /\ LastOutcome(log) = Promise!Value(slot.Val)
      /\ log # <<>> /\ ~LastOutcome(log).present =>
           /\ slot.State = "Empty" /\ decl.optional /\ LastOutcome(log) = Promise!NoValue
  BY LastIsKept
<1>3. Promise!Start = IF decl.hasInitial THEN Promise!Value(decl.initial)
                      ELSE IF decl.optional THEN Promise!NoValue
                      ELSE Promise!Failure(IF decl.op = "Tail" THEN ErrD6 ELSE ErrD5)
  BY PromiseByOperator
<1>4. /\ slot.State = "Assigned" => StringContract(decl, slot, Present(x, slot, slot.Val))
      /\ StringContract(decl, slot, ResolveUndefined(x, decl, slot))
      /\ slot.State = "Empty" => StringContract(decl, slot, Absent(x, slot))
      /\ StringContract(decl, slot, Fail(x, slot, ErrD6))
  BY <1>1, StringPieces DEF BytesErrors, Errors
<1>. DEFINE Show(res) == Outcome(Blank(res))
<1>5. /\ \A t, v : Show(Present(x, t, v)) = Promise!Value(v)
      /\ \A t : Show(Absent(x, t)) = Promise!NoValue
      /\ \A t, e : Show(Fail(x, t, e)) = Promise!Failure(e)
  BY Shown
<1>. HIDE DEF Show
<1>6. slot.State = "Assigned" => Show(Present(x, slot, slot.Val)) = Promise!Promised(w)
  BY <1>2, <1>5
<1>7. slot.State = "Empty" =>
        decl.optional /\ Show(Absent(x, slot)) = Promise!Promised(w)
  BY <1>2, <1>5
<1>8. slot.State = "Undefined" =>
        /\ decl.op = "Copy" \/ decl.hasInitial \/ decl.optional =>
             Show(ResolveUndefined(x, decl, slot)) = Promise!Promised(w)
        /\ decl.op = "Tail" /\ ~(decl.hasInitial \/ decl.optional) =>
             Show(Fail(x, slot, ErrD6)) = Promise!Promised(w)
  BY <1>2, <1>3, <1>5 DEF ResolveUndefined
<1>. QED
  BY <1>4, <1>6, <1>7, <1>8 DEF Right, Show

\* Copy.
LEMMA CopyIsRight ==
  ASSUME NEW w, IsInput(w), StringAgree(decl, slot, log), decl.op \in {"Copy"}
  PROVE  Right(w, BytesCopy(w, decl, slot))
<1>. DEFINE x == AfterBit(w)
<1>1. /\ slot.State \in States /\ x.buf = w.buf /\ Readable(w.buf, decl.optional)
  BY BitsAndBuffers DEF StringAgree, TextSlots, IsInput
<1>2. Promise!Promised(w) = IF PresenceBit(w)
                            THEN Promise!Transmitted(w.buf, decl.optional)
                            ELSE IF log = <<>> THEN Promise!Start ELSE LastOutcome(log)
  BY PromiseByOperator
<1>. HIDE DEF x
<1>3. CASE PresenceBit(w)
  <2>1. BytesCopy(w, decl, slot)
          = DeliverAndKeep(readBytesValue(x, decl.type, decl.optional), slot)
    BY <1>3 DEF BytesCopy, x
  <2>2. Promise!Promised(w) = Promise!Transmitted(w.buf, decl.optional)
    BY <1>2, <1>3
  <2>. QED
    BY <1>1, <2>1, <2>2, ReadsAreRight
<1>4. CASE ~PresenceBit(w)
  <2>1. Promise!Promised(w) = IF log = <<>> THEN Promise!Start ELSE LastOutcome(log)
    BY <1>2, <1>4
  <2>2. /\ slot.State = "Assigned" => Right(w, Present(x, slot, slot.Val))
        /\ slot.State = "Undefined" => Right(w, ResolveUndefined(x, decl, slot))
        /\ slot.State = "Empty" => decl.optional /\ Right(w, Absent(x, slot))
    BY <2>1, ImpliedAnswers
  <2>3. CASE slot.State = "Assigned"
    <3>1. BytesCopy(w, decl, slot) = Present(x, slot, slot.Val)
      BY <1>4, <2>3 DEF BytesCopy, x
    <3>. QED
      BY <2>2, <2>3, <3>1
  <2>4. CASE slot.State = "Undefined"
    <3>1. BytesCopy(w, decl, slot) = ResolveUndefined(x, decl, slot)
      BY <1>4, <2>4 DEF BytesCopy, x
    <3>. QED
      BY <2>2, <2>4, <3>1
  <2>5. CASE slot.State = "Empty"
    <3>1. BytesCopy(w, decl, slot) = ResolveEmpty(x, decl, slot)
      BY <1>4, <2>5 DEF BytesCopy, x
    <3>. QED
      BY <2>2, <2>5, <3>1 DEF ResolveEmpty
  <2>. QED
    BY <1>1, <2>3, <2>4, <2>5 DEF States
<1>. QED
  BY <1>3, <1>4

\* Overwriting the back of a string, as the promise says it and as it is done.
LEMMA TailIsOverwritten ==
  ASSUME NEW base \in Text, NEW tail \in Text
  PROVE  applyTail(base, tail) = Promise!Overwritten(base, tail)
<1>1. Len(base) \in Nat /\ Len(tail) \in Nat
  BY DEF Text
<1>2. SubSeq(base, 1, 0) = <<>> /\ <<>> \o tail = tail
  BY ConcatEmptySeq DEF Text
<1>3. CASE Len(base) > Len(tail)
  BY <1>1, <1>3 DEF applyTail, DropLast, Promise!Overwritten
<1>4. CASE ~(Len(base) > Len(tail))
  <2>1. applyTail(base, tail) = tail
    BY <1>1, <1>4 DEF applyTail
  <2>2. Promise!Overwritten(base, tail) = SubSeq(base, 1, 0) \o tail
    BY <1>4 DEF Promise!Overwritten
  <2>. QED
    BY <1>2, <2>1, <2>2
<1>. QED
  BY <1>3, <1>4

\* The string that a tail overwrites, or a delta edits, is the one promised.
LEMMA BasesAreThePromised ==
  ASSUME StringAgree(decl, slot, log)
  PROVE  /\ decl.op = "Tail" =>
              tailBase(decl, slot) = Promise!TailBase /\ Promise!TailBase \in Text
         /\ decl.op = "Delta" =>
              /\ slot.State # "Empty"
              /\ stringBase(decl, slot) = Promise!LastString /\ Promise!LastString \in Text
<1>1. /\ decl.initial \in Text /\ decl.hasInitial \in BOOLEAN /\ <<>> \in Text
      /\ slot.Val \in Text /\ EmptyTextIsLegal(decl, slot)
  BY DeclaredFacts DEF StringAgree, TextSlots, Text
<1>2. /\ Promise!InitialString = IF decl.hasInitial THEN decl.initial ELSE <<>>
      /\ Promise!InitialString \in Text
  BY <1>1 DEF Promise!InitialString
<1>3. /\ Promise!TailBase = IF log # <<>> /\ LastOutcome(log).present THEN LastOutcome(log).val
                            ELSE Promise!InitialString
      /\ Promise!LastString = IF PresentAt(log) = {} THEN Promise!InitialString
                              ELSE Latest(log)
  BY DEF Promise!TailBase, Promise!LastString, Promise!LastOutcome, LastOutcome, Promise!Latest, Latest,
         Promise!PresentAt, PresentAt
<1>4. CASE decl.op = "Tail"
  <2>1. /\ log = <<>> => slot.State = "Undefined"
        /\ log # <<>> /\ LastOutcome(log).present =>
             /\ slot.State = "Assigned" /\ slot.Val \in Text
             /\ slot.Val = LastOutcome(log).val /\ LastOutcome(log) = Promise!Value(slot.Val)
        /\ log # <<>> /\ ~LastOutcome(log).present =>
             /\ slot.State = "Empty" /\ decl.optional /\ LastOutcome(log) = Promise!NoValue
    BY <1>4, LastIsKept
  <2>. QED
    BY <1>2, <1>3, <1>4, <2>1 DEF tailBase
<1>5. CASE decl.op = "Delta"
  <2>1. /\ slot.State # "Empty"
        /\ IF PresentAt(log) = {} THEN slot = UndefinedBytes ELSE slot = Assign(Latest(log))
    BY <1>1, <1>5 DEF StringAgree, StringRemembers, EmptyTextIsLegal
  <2>. QED
    BY <1>1, <1>2, <1>3, <1>5, <2>1 DEF stringBase, UndefinedBytes, Assign
<1>. QED
  BY <1>4, <1>5

\* Tail.
LEMMA TailIsRight ==
  ASSUME NEW w, IsInput(w), StringAgree(decl, slot, log), decl.op = "Tail"
  PROVE  Right(w, BytesTail(w, decl, slot))
<1>. DEFINE x == AfterBit(w)
            rd == readBytesValue(x, "ascii", decl.optional)
            v == applyTail(tailBase(decl, slot), rd.val)
            T == Promise!Transmitted(w.buf, decl.optional)
<1>1. /\ decl \in BytesFields(Types, Text) /\ slot \in TextSlots /\ slot.State \in States
      /\ decl.type = "ascii" /\ "ascii" \in Types
      /\ decl.optional \in BOOLEAN /\ decl.hasInitial \in BOOLEAN
      /\ Readable(w.buf, decl.optional) /\ x.buf = w.buf
  BY DeclaredFacts, BitsAndBuffers DEF StringAgree, TextSlots, IsInput, Types
<1>2. TextContract(rd, decl.optional) /\ T = Came(rd)
  <2>1. decl.type \in Types /\ Readable(x.buf, decl.optional)
    BY <1>1
  <2>2. /\ TextContract(readBytesValue(x, decl.type, decl.optional), decl.optional)
        /\ Promise!Transmitted(x.buf, decl.optional)
             = Came(readBytesValue(x, decl.type, decl.optional))
    BY <1>1, <2>1, StringIsTransmitted
  <2>. QED
    BY <1>1, <2>2
<1>3. Promise!Promised(w) = IF PresenceBit(w) THEN Promise!Explicit(w)
                            ELSE IF log = <<>> THEN Promise!Start ELSE LastOutcome(log)
  BY PromiseByOperator
<1>4. Promise!Explicit(w) =
        IF T.present THEN Promise!Value(Promise!Overwritten(Promise!TailBase, T.val)) ELSE T
  <2>1. CASE T.present
    BY <2>1 DEF Promise!Explicit
  <2>2. CASE ~T.present
    BY <2>2 DEF Promise!Explicit
  <2>. QED
    BY <2>1, <2>2
<1>5. tailBase(decl, slot) = Promise!TailBase /\ Promise!TailBase \in Text
  BY BasesAreThePromised
<1>6. rd.err = NoError /\ ~rd.null =>
        v \in Text /\ v = Promise!Overwritten(Promise!TailBase, rd.val)
  BY <1>2, <1>5, TailsAreText, TailIsOverwritten DEF TextContract
<1>7. /\ \A z : Promise!Value(z).present = TRUE /\ Promise!Value(z).val = z
      /\ \A e : Promise!Failure(e).present = FALSE
      /\ Promise!NoValue.present = FALSE
  BY DEF Promise!Value, Promise!Failure, Promise!NoValue, Promise!Returned
<1>8. /\ T.present <=> rd.err = NoError /\ ~rd.null
      /\ T.present => T.val = rd.val
  BY <1>2, <1>7 DEF Came, TextContract
<1>9. CASE PresenceBit(w) /\ (rd.err # NoError \/ rd.null)
  <2>1. BytesTail(w, decl, slot) = DeliverAndKeep(rd, slot)
    BY <1>9 DEF BytesTail
  <2>2. StringContract(decl, slot, DeliverAndKeep(rd, slot))
    BY <1>1, <1>2, <1>9, StringPieces
  <2>3. Outcome(Blank(DeliverAndKeep(rd, slot))) = Came(rd)
    BY ReadIsShown
  <2>. HIDE DEF rd, T, v, x
  <2>4. Promise!Promised(w) = Came(rd)
    BY <1>2, <1>3, <1>4, <1>8, <1>9
  <2>. QED
    BY <2>1, <2>2, <2>3, <2>4 DEF Right
<1>10. CASE PresenceBit(w) /\ rd.err = NoError /\ ~rd.null
  <2>1. BytesTail(w, decl, slot) = Present(rd.wire, Assign(v), v)
    BY <1>10 DEF BytesTail
  <2>2. StringContract(decl, slot, Present(rd.wire, Assign(v), v))
    BY <1>1, <1>6, <1>10, StringPieces
  <2>3. Outcome(Blank(Present(rd.wire, Assign(v), v))) = Promise!Value(v)
    BY Shown
  <2>. HIDE DEF rd, T, v, x
  <2>4. Promise!Promised(w) = Promise!Value(v)
    BY <1>3, <1>4, <1>6, <1>8, <1>10
  <2>. QED
    BY <2>1, <2>2, <2>3, <2>4 DEF Right
<1>11. CASE ~PresenceBit(w)
  <2>1. Promise!Promised(w) = IF log = <<>> THEN Promise!Start ELSE LastOutcome(log)
    BY <1>3, <1>11
  <2>2. /\ slot.State = "Assigned" => Right(w, Present(x, slot, slot.Val))
        /\ slot.State = "Undefined" =>
             /\ decl.hasInitial \/ decl.optional => Right(w, ResolveUndefined(x, decl, slot))
             /\ ~(decl.hasInitial \/ decl.optional) => Right(w, Fail(x, slot, ErrD6))
        /\ slot.State = "Empty" => decl.optional /\ Right(w, Absent(x, slot))
    BY <2>1, ImpliedAnswers
  <2>3. CASE slot.State = "Assigned"
    <3>1. BytesTail(w, decl, slot) = Present(x, slot, slot.Val)
      BY <1>11, <2>3 DEF BytesTail
    <3>. QED
      BY <2>2, <2>3, <3>1
  <2>4. CASE slot.State = "Undefined"
    <3>1. BytesTail(w, decl, slot) = IF decl.hasInitial \/ decl.optional
                                     THEN ResolveUndefined(x, decl, slot)
                                     ELSE Fail(x, slot, ErrD6)
      BY <1>11, <2>4 DEF BytesTail
    <3>. QED
      BY <2>2, <2>4, <3>1
  <2>5. CASE slot.State = "Empty"
    <3>1. BytesTail(w, decl, slot) = IF decl.optional THEN Absent(x, slot)
                                     ELSE Fail(x, slot, ErrD7)
      BY <1>11, <2>5 DEF BytesTail
    <3>. QED
      BY <2>2, <2>5, <3>1
  <2>. QED
    BY <1>1, <2>3, <2>4, <2>5 DEF States
<1>. QED
  BY <1>9, <1>10, <1>11

\* Editing a string, as the promise says it and as it is done.
LEMMA EditsAreEdited ==
  ASSUME NEW base \in Text, NEW n \in Int, NEW part
  PROVE  Promise!Edited(base, n, part) =
           IF Exceeds(base, n) THEN Promise!Failure(ErrD7)
           ELSE Promise!Value(applyStringDelta(base, n, part))
<1>1. Len(base) \in Nat
  BY DEF Text
<1>2. CASE n >= 0
  BY <1>1, <1>2
     DEF Exceeds, applyStringDelta, DropLast, Promise!Edited, Promise!ErrD7, ErrD7
<1>3. CASE ~(n >= 0)
  <2>1. -1 - n = -n - 1
    OBVIOUS
  <2>. QED
    BY <1>1, <1>3, <2>1
       DEF Exceeds, applyStringDelta, DropFirst, Promise!Edited, Promise!ErrD7, ErrD7
<1>. QED
  BY <1>2, <1>3

\* Delta.
LEMMA DeltaIsRight ==
  ASSUME NEW w, IsInput(w), StringAgree(decl, slot, log), decl.op = "Delta"
  PROVE  Right(w, BytesDelta(w, decl, slot))
<1>. DEFINE n    == Head(w.buf)
            d    == readDelta(w, decl.optional)
            part == readBytesValue(d.wire, decl.type, FALSE)
            base == stringBase(decl, slot)
            v    == applyStringDelta(base, d.val, part.val)
            T    == Promise!Transmitted(Tail(w.buf), FALSE)
            res  == BytesDelta(w, decl, slot)
            P    == Promise!Promised(w)
            C(r) == StringContract(decl, slot, r)
            Show(r) == Outcome(Blank(r))
<1>1. /\ decl \in BytesFields(Types, Text) /\ slot \in TextSlots
      /\ decl.type \in Types /\ decl.optional \in BOOLEAN
  BY DeclaredFacts DEF StringAgree
<1>2. /\ slot.State # "Empty"
      /\ base = Promise!LastString /\ base \in Text
  BY BasesAreThePromised
<1>3. P = Promise!DeltaOf(w)
  BY PromiseByOperator
<1>4. Promise!DeltaOf(w) =
        IF w.buf = <<>> THEN Promise!Failure(EndOfStream)
        ELSE IF n \notin Int64 THEN Promise!Failure(Overflow)
        ELSE IF decl.optional /\ n = 0 THEN Promise!NoValue
        ELSE IF T.err # NoError THEN T
        ELSE Promise!Edited(base, Promise!Subtraction(n), T.val)
  BY <1>2 DEF Promise!DeltaOf, Promise!EndOfStream, EndOfStream, Promise!Overflow, Overflow,
              Promise!Int64, Int64, Promise!NoError, NoError
<1>5. /\ d.null \in BOOLEAN /\ d.err \in {NoError, EndOfStream, Overflow}
      /\ w.buf = <<>> => d.err = EndOfStream
      /\ w.buf # <<>> /\ n \notin Int64 => d.err = Overflow
      /\ w.buf # <<>> /\ n \in Int64 =>
           /\ d.err = NoError
           /\ d.null <=> decl.optional /\ n = 0
           /\ d.val = IF decl.optional /\ n > 0 THEN n - 1 ELSE n
           /\ d.val \in Int
      /\ w.buf # <<>> => d.wire.buf = Tail(w.buf)
  BY <1>1, SubtractionIsRead DEF IsInput
<1>6. Promise!Subtraction(n) = IF decl.optional /\ n > 0 THEN n - 1 ELSE n
  BY DEF Promise!Subtraction
<1>7. w.buf # <<>> => TextContract(part, FALSE) /\ T = Came(part)
  <2>. SUFFICES ASSUME w.buf # <<>> PROVE TextContract(part, FALSE) /\ T = Came(part)
    OBVIOUS
  <2>1. Readable(d.wire.buf, FALSE) /\ d.wire.buf = Tail(w.buf) /\ FALSE \in BOOLEAN
    BY <1>5 DEF IsInput
  <2>. HIDE DEF d
  <2>2. /\ TextContract(readBytesValue(d.wire, decl.type, FALSE), FALSE)
        /\ Promise!Transmitted(d.wire.buf, FALSE)
             = Came(readBytesValue(d.wire, decl.type, FALSE))
    BY <1>1, <2>1, StringIsTransmitted
  <2>. QED
    BY <2>1, <2>2
<1>8. res = IF d.err # NoError THEN Fail(d.wire, slot, d.err)
            ELSE IF d.null THEN Absent(d.wire, slot)
            ELSE IF part.err # NoError THEN Fail(part.wire, slot, part.err)
            ELSE IF Exceeds(base, d.val) THEN Fail(part.wire, slot, ErrD7)
            ELSE Present(part.wire, Assign(v), v)
  BY <1>2 DEF BytesDelta
<1>9. /\ \A x, e : e \in BytesErrors => C(Fail(x, slot, e))
      /\ \A x : decl.optional => C(Absent(x, slot))
      /\ \A x : \A z \in Text : C(Present(x, Assign(z), z))
  BY <1>1, StringPieces
<1>10. \A x, t : /\ \A z : Show(Present(x, t, z)) = Promise!Value(z)
                 /\ Show(Absent(x, t)) = Promise!NoValue
                 /\ \A e : Show(Fail(x, t, e)) = Promise!Failure(e)
  BY Shown
<1>11. {EndOfStream, Overflow, ErrOverlong, ErrD7} \subseteq BytesErrors
  BY DEF BytesErrors, Errors
<1>12. /\ NoError # EndOfStream /\ NoError # Overflow
       /\ \A z : Promise!Value(z).err = NoError /\ Promise!Value(z).val = z
       /\ \A e : Promise!Failure(e).err = e
  BY DEF NoError, EndOfStream, Overflow, Promise!Value, Promise!Failure,
         Promise!Returned, Promise!NoError
<1>13. w.buf # <<>> /\ n \in Int64 /\ ~Exceeds(base, d.val) /\ part.val \in Text => v \in Text
  BY <1>2, <1>5, EditsAreText
<1>14. w.buf # <<>> /\ n \in Int64 =>
         Promise!Edited(base, d.val, part.val) =
           IF Exceeds(base, d.val) THEN Promise!Failure(ErrD7) ELSE Promise!Value(v)
  BY <1>2, <1>5, EditsAreEdited
<1>. HIDE DEF n, d, part, base, v, T, res, P, C, Show
<1>15. C(res) /\ Show(res) = P
  <2>1. CASE w.buf = <<>> \/ n \notin Int64
    BY <1>3, <1>4, <1>5, <1>8, <1>9, <1>10, <1>11, <1>12, <2>1
  <2>2. CASE w.buf # <<>> /\ n \in Int64 /\ decl.optional /\ n = 0
    BY <1>3, <1>4, <1>5, <1>8, <1>9, <1>10, <2>2
  <2>3. CASE w.buf # <<>> /\ n \in Int64 /\ ~(decl.optional /\ n = 0)
    <3>1. /\ d.err = NoError /\ ~d.null /\ d.val = Promise!Subtraction(n)
          /\ TextContract(part, FALSE) /\ T = Came(part)
          /\ P = IF T.err # NoError THEN T ELSE Promise!Edited(base, d.val, T.val)
          /\ res = IF part.err # NoError THEN Fail(part.wire, slot, part.err)
                   ELSE IF Exceeds(base, d.val) THEN Fail(part.wire, slot, ErrD7)
                   ELSE Present(part.wire, Assign(v), v)
      BY <1>3, <1>4, <1>5, <1>6, <1>7, <1>8, <2>3
    <3>2. CASE part.err # NoError
      <4>1. T = Promise!Failure(part.err) /\ part.err \in BytesErrors
        BY <1>11, <3>1, <3>2 DEF Came, TextContract
      <4>. QED
        BY <1>9, <1>10, <1>12, <3>1, <3>2, <4>1
    <3>3. CASE part.err = NoError
      <4>1. T = Promise!Value(part.val) /\ part.val \in Text
        BY <3>1, <3>3 DEF Came, TextContract
      <4>. QED
        BY <1>9, <1>10, <1>11, <1>12, <1>13, <1>14, <2>3, <3>1, <3>3, <4>1
    <3>. QED
      BY <3>2, <3>3
  <2>. QED
    BY <2>1, <2>2, <2>3
<1>. QED
  BY <1>15 DEF Right, res, P, C, Show

\* Every operator.
LEMMA EveryCallIsRight ==
  ASSUME StringAgree(decl, slot, log), NEW w, IsInput(w)
  PROVE  \E res : DecodeBytes(w, decl, slot) = Blank(res) /\ Right(w, res)
<1>. DEFINE x == AfterBit(w)
<1>1. /\ decl \in BytesFields(Types, Text) /\ slot \in TextSlots
      /\ decl.op \in Operators /\ decl.optional \in BOOLEAN
  BY DeclaredFacts DEF StringAgree
<1>2. /\ decl.op = "Constant" =>
           Promise!Promised(w) = IF ~decl.optional \/ PresenceBit(w)
                                 THEN Promise!Value(decl.initial) ELSE Promise!NoValue
      /\ decl.op = "Default" =>
           Promise!Promised(w) = IF PresenceBit(w)
                                 THEN Promise!Transmitted(w.buf, decl.optional)
                                 ELSE Promise!Start
      /\ decl.op = "None" =>
           Promise!Promised(w) = Promise!Transmitted(w.buf, decl.optional)
      /\ decl.op = "Increment" => Promise!Promised(w) = Promise!Failure(ErrUnsupported)
      /\ Promise!Start = IF decl.hasInitial THEN Promise!Value(decl.initial)
                         ELSE IF decl.optional THEN Promise!NoValue
                         ELSE Promise!Failure(IF decl.op = "Tail" THEN ErrD6 ELSE ErrD5)
  BY PromiseByOperator
<1>3. decl.op # "Delta" => Readable(w.buf, decl.optional) /\ x.buf = w.buf
  BY BitsAndBuffers DEF IsInput
<1>4. /\ decl.op \in {"Constant", "Default"} =>
           \A y : /\ StringContract(decl, slot, Present(y, slot, decl.initial))
                  /\ StringContract(decl, slot, Absent(y, slot))
      /\ \A y : /\ StringContract(decl, slot, Fail(y, slot, ErrD5))
                /\ StringContract(decl, slot, Fail(y, slot, ErrUnsupported))
  BY <1>1, StringPieces DEF BytesErrors, Errors
<1>5. /\ \A y, v : Outcome(Blank(Present(y, slot, v))) = Promise!Value(v)
      /\ \A y : Outcome(Blank(Absent(y, slot))) = Promise!NoValue
      /\ \A y, e : Outcome(Blank(Fail(y, slot, e))) = Promise!Failure(e)
  BY Shown
<1>. HIDE DEF x
<1>6. CASE decl.op = "None"
  <2>1. DecodeBytes(w, decl, slot) =
          Blank(DeliverRead(readBytesValue(w, decl.type, decl.optional), slot))
    BY <1>6 DEF DecodeBytes
  <2>2. Right(w, DeliverRead(readBytesValue(w, decl.type, decl.optional), slot))
    BY <1>2, <1>3, <1>6, ReadsAreRight
  <2>. QED
    BY <2>1, <2>2
<1>7. CASE decl.op = "Constant"
  <2>1. DecodeBytes(w, decl, slot) = Blank(BytesConstant(w, decl, slot))
    BY <1>7 DEF DecodeBytes
  <2>2. Right(w, BytesConstant(w, decl, slot))
    BY <1>1, <1>2, <1>4, <1>5, <1>7 DEF BytesConstant, Right
  <2>. QED
    BY <2>1, <2>2
<1>8. CASE decl.op = "Default"
  <2>1. DecodeBytes(w, decl, slot) = Blank(BytesDefault(w, decl, slot))
    BY <1>8 DEF DecodeBytes
  <2>2. CASE PresenceBit(w)
    <3>1. BytesDefault(w, decl, slot)
            = DeliverRead(readBytesValue(x, decl.type, decl.optional), slot)
      BY <2>2 DEF BytesDefault, x
    <3>2. Promise!Promised(w) = Promise!Transmitted(w.buf, decl.optional)
      BY <1>2, <1>8, <2>2
    <3>3. Right(w, DeliverRead(readBytesValue(x, decl.type, decl.optional), slot))
      BY <1>3, <1>8, <3>2, ReadsAreRight
    <3>. QED
      BY <2>1, <3>1, <3>3
  <2>3. CASE ~PresenceBit(w)
    <3>1. Right(w, BytesDefault(w, decl, slot))
      BY <1>2, <1>4, <1>5, <1>8, <2>3 DEF BytesDefault, Right
    <3>. QED
      BY <2>1, <3>1
  <2>. QED
    BY <2>2, <2>3
<1>9. CASE decl.op = "Copy"
  <2>1. DecodeBytes(w, decl, slot) = Blank(BytesCopy(w, decl, slot))
    BY <1>9 DEF DecodeBytes
  <2>. QED
    BY <1>9, <2>1, CopyIsRight
<1>10. CASE decl.op = "Delta"
  <2>1. DecodeBytes(w, decl, slot) = Blank(BytesDelta(w, decl, slot))
    BY <1>10 DEF DecodeBytes
  <2>. QED
    BY <1>10, <2>1, DeltaIsRight
<1>11. CASE decl.op = "Tail"
  <2>1. DecodeBytes(w, decl, slot) = Blank(BytesTail(w, decl, slot))
    BY <1>11 DEF DecodeBytes
  <2>. QED
    BY <1>11, <2>1, TailIsRight
<1>12. CASE decl.op = "Increment"
  <2>1. DecodeBytes(w, decl, slot) = Blank(Fail(w, slot, ErrUnsupported))
    BY <1>12 DEF DecodeBytes
  <2>2. Right(w, Fail(w, slot, ErrUnsupported))
    BY <1>2, <1>4, <1>5, <1>12 DEF Right
  <2>. QED
    BY <2>1, <2>2
<1>. QED
  BY <1>1, <1>6, <1>7, <1>8, <1>9, <1>10, <1>11, <1>12 DEF Operators

-----------------------------------------------------------------------------
(* The inductive invariant: the slot agrees with the history, and what the *)
(* elements refer to is there.                                             *)

\* The inputs of the promise are what a decode can meet.
LEMMA InputsAreInputs ==
  ASSUME NEW w \in Promise!Inputs(decl), decl.optional \in BOOLEAN
  PROVE  IsInput(w)
<1>1. IsWire(w) /\ w.buf \in Promise!Buffers(decl)
  BY DEF Promise!Inputs, IsWire
<1>2. \A a, b : /\ Head(<<a>>) = a /\ Tail(<<a>>) = <<>> /\ <<a>> # <<>>
                /\ Head(<<a, b>>) = a /\ Tail(<<a, b>>) = <<b>> /\ <<a, b>> # <<>>
  OBVIOUS
<1>3. CASE decl.op # "Delta"
  <2>1. w.buf # <<>> => \E s \in Promise!Strings(decl, decl.optional) : w.buf = <<s>>
    BY <1>1, <1>3 DEF Promise!Buffers
  <2>. QED
    BY <1>1, <1>2, <1>3, <2>1 DEF IsInput, Readable
<1>4. CASE decl.op = "Delta"
  <2>. DEFINE S == Promise!Strings(decl, FALSE)
  <2>1. \/ w.buf = <<>>
        \/ w.buf \in {<<n>> : n \in Subtractions}
        \/ w.buf \in Subtractions \X S
    BY <1>1, <1>4 DEF Promise!Buffers
  <2>. HIDE DEF S
  <2>2. w.buf # <<>> => Tail(w.buf) = <<>> \/ Head(Tail(w.buf)) \in S
    <3>1. CASE w.buf \in {<<n>> : n \in Subtractions}
      <4>1. PICK n \in Subtractions : w.buf = <<n>>
        BY <3>1
      <4>. QED
        BY <1>2, <4>1
    <3>2. CASE w.buf \in Subtractions \X S
      <4>1. PICK n \in Subtractions, s \in S : w.buf = <<n, s>>
        BY <3>2
      <4>2. Tail(w.buf) = <<s>>
        BY <1>2, <4>1
      <4>3. Head(<<s>>) = s
        BY <1>2
      <4>. QED
        BY <4>2, <4>3
    <3>. QED
      BY <2>1, <3>1, <3>2
  <2>. QED
    BY <1>1, <1>4, <2>2 DEF IsInput, Readable, S
<1>. QED
  BY <1>3, <1>4

\* The elements, with where their bytes lie.
Elements == [at : [array : Nat, len : Nat, own : Text], val : Text]

IInv ==
  /\ TypeOK
  /\ StringAgree(decl, slot, log)
  /\ elements \in Seq(Elements)

\* Storing a value keeps all arrays, and needs at most one more.
LEMMA StoringKeepsArrays ==
  ASSUME arrays \in Seq(Seq(Nat)), NEW val \in Text
  PROVE  Stored(val) \in Seq(Seq(Nat)) /\ Len(Stored(val)) >= Len(arrays)
<1>. DEFINE own == Len(arrays)
            mem == arrays[own]
            new == val \o DropFirst(mem, Len(val))
<1>1. own \in Nat
  OBVIOUS
<1>2. CASE own > 0 /\ Len(val) <= Len(arrays[own])
  <2>1. mem \in Seq(Nat)
    BY <1>1, <1>2
  <2>2. /\ Len(val) \in Nat /\ Len(mem) \in Nat
        /\ \A i \in 1 .. Len(mem) : mem[i] \in Nat
    BY <2>1, ElementOfSeq DEF Text
  <2>3. new \in Seq(Nat)
    <3>1. /\ Len(val) + 1 \in Int /\ Len(val) + 1 >= 1
          /\ \A i \in (Len(val) + 1) .. Len(mem) : mem[i] \in Nat
      BY <2>2
    <3>. HIDE DEF mem
    <3>2. SubSeq(mem, Len(val) + 1, Len(mem)) \in Seq(Nat)
      BY <2>2, <3>1, SubSeqProperties
    <3>. QED
      BY <3>2, ConcatProperties DEF DropFirst, Text
  <2>4. Stored(val) = [arrays EXCEPT ![own] = new]
    BY <1>2 DEF Stored
  <2>. HIDE DEF new
  <2>5. [arrays EXCEPT ![own] = new] \in Seq(Seq(Nat))
        /\ Len([arrays EXCEPT ![own] = new]) = Len(arrays)
    <3>1. own \in 1 .. Len(arrays)
      BY <1>1, <1>2
    <3>. HIDE DEF own
    <3>. QED
      BY <2>3, <3>1, ExceptSeq
  <2>. QED
    BY <1>1, <2>4, <2>5
<1>3. CASE ~(own > 0 /\ Len(val) <= Len(arrays[own]))
  <2>1. Stored(val) = Append(arrays, val)
    BY <1>3 DEF Stored
  <2>2. Append(arrays, val) \in Seq(Seq(Nat)) /\ Len(Append(arrays, val)) = Len(arrays) + 1
    BY DEF Text
  <2>. QED
    BY <1>1, <2>1, <2>2
<1>. QED
  BY <1>2, <1>3

\* The types of the outcomes.
OutcomeType == [present : BOOLEAN, val : Text, err : BytesErrors \cup {NoError}]

LEMMA OutcomeTypes ==
  /\ Promise!NoValue \in OutcomeType /\ Promise!NoValue.err = NoError
  /\ \A v \in Text : Promise!Value(v) \in OutcomeType
  /\ \A e \in BytesErrors \cup {NoError} : Promise!Failure(e) \in OutcomeType
BY DEF OutcomeType, Promise!NoValue, Promise!Value, Promise!Failure, Promise!Returned,
       Promise!NoError, NoError, Text

\* A decode.
LEMMA Call ==
  ASSUME IInv, NEW w \in Promise!Inputs(decl), Decode(w)
  PROVE  /\ outcome' = Promise!Promised(w) /\ outcome' \in OutcomeType
         /\ log' = Noted(log, outcome')
         /\ StringAgree(decl, slot', log')
         /\ outcome'.err # NoError => slot' = slot
         /\ arrays' \in Seq(Seq(Nat)) /\ Len(arrays') >= Len(arrays)
         /\ \/ elements' = elements
            \/ \E v \in Text :
                 elements' = Append(elements, [at |-> Taken(w, v), val |-> v])
<1>. DEFINE out == DecodeBytes(w, decl, slot)
<1>1. StringAgree(decl, slot, log) /\ arrays \in Seq(Seq(Nat)) /\ decl.optional \in BOOLEAN
  BY DeclaredFacts DEF IInv, TypeOK, StringAgree
<1>2. PICK res : out = Blank(res) /\ Right(w, res)
  BY <1>1, InputsAreInputs, EveryCallIsRight
<1>. DEFINE b == Blank(res)
<1>3. /\ slot' = b.slot
      /\ arrays' = IF b.slot.Val = slot.Val THEN arrays ELSE Stored(b.slot.Val)
      /\ elements' = IF b.present
                     THEN Append(elements, [at |-> Taken(w, b.val), val |-> b.val])
                     ELSE elements
      /\ outcome' = Outcome(b)
      /\ log' = IF b.err = NoError THEN Append(log, outcome') ELSE log
  BY <1>2 DEF Decode, Outcome
<1>4. StringContract(decl, slot, res) /\ Outcome(b) = Promise!Promised(w)
  BY <1>2 DEF Right
<1>5. /\ Outcome(b) = IF res.present THEN Promise!Value(res.val)
                      ELSE Promise!Failure(res.err)
      /\ Outcome(b).err = res.err
      /\ b = [wire |-> res.wire, slot |-> res.slot,
              val |-> IF res.present THEN res.val ELSE <<>>,
              present |-> res.present, err |-> res.err]
  BY <1>4, SeenOf
<1>6. StringAgree(decl, res.slot, Noted(log, Outcome(b)))
  BY <1>1, <1>4, StringAgreeAfterCall
<1>. HIDE DEF b, out
<1>7. b.slot = res.slot /\ b.present = res.present /\ b.err = res.err
      /\ (res.present => b.val = res.val)
  BY <1>5
<1>8. log' = Noted(log, outcome')
  BY <1>3, <1>5, <1>7 DEF Noted
<1>9. outcome' \in OutcomeType
  BY <1>3, <1>4, <1>5, OutcomeTypes DEF StringContract
<1>10. /\ res.err # NoError => res.slot = slot
       /\ res.slot.Val \in Text /\ (res.present => res.val \in Text)
  BY <1>4 DEF StringContract, TextSlots
<1>11. arrays' \in Seq(Seq(Nat)) /\ Len(arrays') >= Len(arrays)
  <2>1. Stored(res.slot.Val) \in Seq(Seq(Nat)) /\ Len(Stored(res.slot.Val)) >= Len(arrays)
    BY <1>1, <1>10, StoringKeepsArrays
  <2>2. Len(arrays) >= Len(arrays)
    BY <1>1
  <2>. QED
    BY <1>1, <1>3, <1>7, <2>1, <2>2
<1>12. CASE res.present
  <2>1. elements' = Append(elements, [at |-> Taken(w, res.val), val |-> res.val])
    BY <1>3, <1>7, <1>12
  <2>. QED
    BY <1>3, <1>4, <1>5, <1>6, <1>7, <1>8, <1>9, <1>10, <1>11, <1>12, <2>1
<1>13. CASE ~res.present
  BY <1>3, <1>4, <1>5, <1>6, <1>7, <1>8, <1>9, <1>10, <1>11, <1>13
<1>. QED
  BY <1>12, <1>13

\* What a decode puts in the message lies in an array of the slot, or is a copy.
LEMMA TakenFacts ==
  ASSUME arrays' \in Seq(Seq(Nat)), NEW w, NEW v \in Text
  PROVE  /\ [at |-> Taken(w, v), val |-> v] \in Elements
         /\ Taken(w, v).array \in 0 .. Len(arrays')
         /\ ~(decl.type = "bytes" /\ decl.op \in {"Copy", "Tail"}) =>
              Taken(w, v).array = 0 /\ Taken(w, v).own = v
<1>. DEFINE a == IF decl.type = "bytes" /\ IsSlotsOwn(w) THEN Len(arrays') ELSE 0
<1>1. Taken(w, v) = [array |-> a, len |-> Len(v), own |-> v]
  BY DEF Taken, Slice
<1>2. a \in 0 .. Len(arrays') /\ a \in Nat /\ Len(v) \in Nat
  BY DEF Text
<1>3. ~(decl.type = "bytes" /\ decl.op \in {"Copy", "Tail"}) => a = 0
  BY DEF IsSlotsOwn
<1>. HIDE DEF a
<1>. QED
  BY <1>1, <1>2, <1>3 DEF Elements

\* No element and no history.
Fresh ==
  /\ decl \in Declarations
  /\ slot = UndefinedBytes
  /\ arrays \in Seq(Seq(Nat))
  /\ elements = <<>>
  /\ input = Promise!NoInput
  /\ outcome = Promise!NoValue
  /\ log = <<>>

LEMMA FreshEstablishes == Fresh => IInv
<1>. SUFFICES ASSUME Fresh PROVE IInv
  OBVIOUS
<1>1. decl \in BytesFields(Types, Text)
  BY BytesAssumption DEF Fresh, Text
<1>2. StringAgree(decl, slot, log)
  BY <1>1, StringAgreeAtFirst DEF Fresh
<1>3. TypeOK
  BY OutcomeTypes DEF Fresh, TypeOK, UndefinedBytes, States, OutcomeType, Text
<1>4. elements \in Seq(Elements)
  BY DEF Fresh
<1>. QED
  BY <1>2, <1>3, <1>4 DEF IInv

LEMMA FreshAgain == Fresh' => IInv'
BY FreshEstablishes, PTL

\* It holds at first,
LEMMA InitEstablishes == Init => IInv
<1>1. Init => Fresh
  BY DEF Init, Fresh
<1>. QED
  BY <1>1, FreshEstablishes

\* and every step keeps it.
LEMMA NextPreserves == IInv /\ [Next]_vars => IInv'
<1>. SUFFICES ASSUME IInv, [Next]_vars PROVE IInv'
  OBVIOUS
<1>1. CASE Reset
  <2>1. Emptied \in Seq(Seq(Nat))
    <3>1. CASE arrays = <<>>
      BY <3>1 DEF Emptied
    <3>2. CASE arrays # <<>>
      <4>1. Len(arrays[Len(arrays)]) \in Nat
        <5>1. arrays[Len(arrays)] \in Seq(Nat)
          BY <3>2 DEF IInv, TypeOK
        <5>. QED
          BY <5>1
      <4>. DEFINE z == [i \in 1 .. Len(arrays[Len(arrays)]) |-> 0]
      <4>2. z \in Seq(Nat)
        BY <4>1, IsASeq
      <4>3. Emptied = <<z>>
        BY <3>2 DEF Emptied
      <4>. HIDE DEF z
      <4>. QED
        BY <4>2, <4>3
    <3>. QED
      BY <3>1, <3>2
  <2>2. Fresh'
    BY <1>1, <2>1 DEF Reset, Fresh, IInv, TypeOK
  <2>. QED
    BY <2>2, FreshAgain
<1>2. ASSUME NEW w \in Promise!Inputs(decl), Decode(w)
      PROVE  IInv'
  <2>1. /\ outcome' \in OutcomeType
        /\ StringAgree(decl, slot', log')
        /\ arrays' \in Seq(Seq(Nat)) /\ Len(arrays') >= Len(arrays)
        /\ \/ elements' = elements
           \/ \E v \in Text :
                elements' = Append(elements, [at |-> Taken(w, v), val |-> v])
    BY <1>2, Call
  <2>2. decl' = decl /\ decl \in Declarations /\ input' \in Promise!Inputs(decl')
    BY <1>2 DEF Decode, IInv, TypeOK
  <2>3. /\ elements \in Seq(Elements)
        /\ \A e \in 1 .. Len(elements) : elements[e].at.array \in 0 .. Len(arrays)
        /\ Len(arrays) \in Nat /\ Len(arrays') \in Nat
    BY <2>1 DEF IInv, TypeOK
  <2>4. \A e \in 1 .. Len(elements) : elements[e].at.array \in 0 .. Len(arrays')
    BY <2>1, <2>3
  <2>5. /\ elements' \in Seq(Elements)
        /\ \A e \in DOMAIN elements' : elements'[e].at.array \in 0 .. Len(arrays')
    <3>1. CASE elements' = elements
      BY <2>3, <2>4, <3>1
    <3>2. ASSUME NEW v \in Text,
                 elements' = Append(elements, [at |-> Taken(w, v), val |-> v])
          PROVE  /\ elements' \in Seq(Elements)
                 /\ \A e \in DOMAIN elements' : elements'[e].at.array \in 0 .. Len(arrays')
      <4>. DEFINE n == [at |-> Taken(w, v), val |-> v]
      <4>1. n \in Elements /\ n.at.array \in 0 .. Len(arrays')
        BY <2>1, TakenFacts
      <4>. HIDE DEF n
      <4>2. /\ Append(elements, n) \in Seq(Elements)
            /\ Len(Append(elements, n)) = Len(elements) + 1
            /\ \A e \in 1 .. Len(elements) : Append(elements, n)[e] = elements[e]
            /\ Append(elements, n)[Len(elements) + 1] = n
        BY <2>3, <4>1, AppendProperties
      <4>3. Len(elements) \in Nat
        BY <2>3
      <4>4. elements' = Append(elements, n)
        BY <3>2 DEF n
      <4>5. DOMAIN elements' = 1 .. (Len(elements) + 1)
        BY <4>2, <4>4
      <4>. QED
        BY <2>4, <4>1, <4>2, <4>3, <4>4, <4>5
    <3>. QED
      BY <2>1, <3>1, <3>2
  <2>6. StringAgree(decl', slot', log')
    BY <2>1, <2>2
  <2>7. slot'.State \in States /\ slot'.Val \in Seq(Nat)
        /\ (slot'.State = "Empty" => decl'.optional)
    BY <2>6 DEF StringAgree, TextSlots, EmptyTextIsLegal, Text
  <2>. QED
    BY <2>1, <2>2, <2>5, <2>6, <2>7 DEF IInv, TypeOK, OutcomeType, Text
<1>3. CASE UNCHANGED vars
  BY <1>3 DEF IInv, TypeOK, vars, Promise!Inputs, Promise!NoInput
<1>. QED
  BY <1>1, <1>2, <1>3 DEF Next

\* Hence it always holds.
LEMMA Invariance == Spec => []IInv
BY InitEstablishes, NextPreserves, PTL DEF Spec

-----------------------------------------------------------------------------
(* The theorems.                                                           *)

\* The types, as an invariant of the specification: a previous value is Empty
\* in optional fields only, and no element refers to an array that is not there.
THEOREM StringsTypeCorrect == Spec => []TypeOK
<1>1. IInv => TypeOK
  BY DEF IInv
<1>. QED
  BY <1>1, Invariance, PTL

\* A decode that fails leaves the previous value alone, whatever was already
\* taken off the wire when it did.
THEOREM FailuresKeepTheString == Spec => FailureKeepsSlot
<1>1. IInv /\ [Next]_vars => [outcome'.err # NoError => slot' = slot]_vars
  <2>. SUFFICES ASSUME IInv, Next, outcome'.err # NoError PROVE slot' = slot
    OBVIOUS
  <2>1. ~Reset
    BY OutcomeTypes DEF Reset
  <2>2. PICK w \in Promise!Inputs(decl) : Decode(w)
    BY <2>1 DEF Next
  <2>. QED
    BY <2>2, Call
<1>. QED
  BY <1>1, Invariance, PTL DEF Spec, FailureKeepsSlot

\* Slot and operators implement the promise, and with it the promise's reading
\* of how strings are encoded.
THEOREM StringsKeepPromise == Spec => PromiseKept
<1>1. Init => Promise!Init
  BY DEF Init, Promise!Init
<1>2. IInv /\ [Next]_vars => [Promise!Next]_(Promise!vars)
  <2>. SUFFICES ASSUME IInv, [Next]_vars PROVE [Promise!Next]_(Promise!vars)
    OBVIOUS
  <2>1. CASE Reset
    BY <2>1 DEF Reset, Promise!Next, Promise!Reset
  <2>2. ASSUME NEW w \in Promise!Inputs(decl), Decode(w)
        PROVE  Promise!Decode(w)
    <3>1. outcome' = Promise!Promised(w)
      BY <2>2, Call
    <3>2. log' = IF outcome'.err = Promise!NoError THEN Append(log, outcome') ELSE log
      BY <2>2, Call DEF Noted, Promise!NoError, NoError
    <3>. QED
      BY <2>2, <3>1, <3>2 DEF Decode, Promise!Decode
  <2>3. CASE UNCHANGED vars
    BY <2>3 DEF vars, Promise!vars
  <2>. QED
    BY <2>1, <2>2, <2>3 DEF Next, Promise!Next
<1>. QED
  BY <1>1, <1>2, Invariance, PTL DEF Spec, PromiseKept, Promise!Spec

\* Where no byte vector is copied, every element has bytes of its own.
CopiesOnly ==
  \A e \in DOMAIN elements : elements[e].at.array = 0 /\ elements[e].at.own = elements[e].val

NoCopiedVectors == \A f \in Declarations : f.type = "bytes" => f.op # "Copy"

LEMMA CopiesStayCopies ==
  NoCopiedVectors /\ IInv /\ CopiesOnly /\ [Next]_vars => CopiesOnly'
<1>. SUFFICES ASSUME NoCopiedVectors, IInv, CopiesOnly, [Next]_vars PROVE CopiesOnly'
  OBVIOUS
<1>1. CASE Reset
  <2>1. elements' = <<>>
    BY <1>1 DEF Reset
  <2>. QED
    BY <2>1 DEF CopiesOnly
<1>2. ASSUME NEW w \in Promise!Inputs(decl), Decode(w)
      PROVE  CopiesOnly'
  <2>1. /\ arrays' \in Seq(Seq(Nat))
        /\ \/ elements' = elements
           \/ \E v \in Text :
                elements' = Append(elements, [at |-> Taken(w, v), val |-> v])
    BY <1>2, Call
  <2>2. ~(decl.type = "bytes" /\ decl.op \in {"Copy", "Tail"})
    BY DeclaredFacts DEF NoCopiedVectors, IInv, TypeOK, StringAgree
  <2>3. elements \in Seq(Elements)
    BY DEF IInv
  <2>4. CASE elements' = elements
    BY <2>4 DEF CopiesOnly
  <2>5. ASSUME NEW v \in Text,
               elements' = Append(elements, [at |-> Taken(w, v), val |-> v])
        PROVE  CopiesOnly'
    <3>. DEFINE n == [at |-> Taken(w, v), val |-> v]
    <3>1. n \in Elements /\ n.at.array = 0 /\ n.at.own = n.val
      BY <2>1, <2>2, TakenFacts
    <3>. HIDE DEF n
    <3>2. /\ Len(Append(elements, n)) = Len(elements) + 1 /\ Len(elements) \in Nat
          /\ \A e \in 1 .. Len(elements) : Append(elements, n)[e] = elements[e]
          /\ Append(elements, n)[Len(elements) + 1] = n
          /\ Append(elements, n) \in Seq(Elements)
      BY <2>3, <3>1, AppendProperties
    <3>3. elements' = Append(elements, n)
      BY <2>5 DEF n
    <3>4. /\ DOMAIN elements' = 1 .. (Len(elements) + 1)
          /\ DOMAIN elements = 1 .. Len(elements)
      BY <2>3, <3>2, <3>3
    <3>. QED
      BY <3>1, <3>2, <3>3, <3>4 DEF CopiesOnly
  <2>. QED
    BY <2>1, <2>4, <2>5
<1>3. CASE UNCHANGED vars
  BY <1>3 DEF CopiesOnly, vars
<1>. QED
  BY <1>1, <1>2, <1>3 DEF Next

\* If no byte vector is declared with a copy, every element of a message still
\* says what it was decoded to, however many elements came after it.
THEOREM ElementsAreKept ==
  NoCopiedVectors => (Spec => []ElementsKeepTheirBytes)
<1>. SUFFICES ASSUME NoCopiedVectors PROVE Spec => []ElementsKeepTheirBytes
  OBVIOUS
<1>1. Init => CopiesOnly
  BY DEF Init, CopiesOnly
<1>2. IInv /\ CopiesOnly /\ [Next]_vars => CopiesOnly'
  BY CopiesStayCopies
<1>3. CopiesOnly => ElementsKeepTheirBytes
  BY DEF CopiesOnly, ElementsKeepTheirBytes, BytesAt
<1>. QED
  BY <1>1, <1>2, <1>3, Invariance, PTL DEF Spec
=============================================================================
