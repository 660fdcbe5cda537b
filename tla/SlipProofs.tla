------------------------------ MODULE SlipProofs ------------------------------
(***************************************************************************)
(* The reader of the serial line, for every buffer, all frames and any     *)
(* damage: it comes back into step, and it implements the line's promise.  *)
(***************************************************************************)
EXTENDS Slip, Lemmas

-----------------------------------------------------------------------------
(* What is left of a frame *)

\* The byte that stands for an ESC in what this writer writes.
Escape == IF writer = "gateway" THEN slipescesc ELSE "ESC_ESC"

Escapes == {"ESC_END", "ESC_ESC"}
Special == {"END", "ESC"}

Enc(f, e) == FlattenSeq([i \in DOMAIN f |-> Stuff(f[i], e)]) \o <<"END">>

\* On the line after the first k bytes of the frame, and after the ESC of the next.
Rest(f, k, e) == Enc(SubSeq(f, k + 1, Len(f)), e)
Half(f, k, e) == <<IF f[k + 1] = "END" THEN "ESC_END" ELSE e>> \o Rest(f, k + 1, e)

LEMMA EncodeIs == \A f : Encode(f) = Enc(f, Escape)
  BY DEF Encode, tty_output, MoteOutput, Enc, Escape

LEMMA StuffIs ==
  ASSUME NEW b \in Bytes, NEW e \in Escapes
  PROVE  /\ Stuff(b, e) \in Seq(Bytes)
         /\ b \notin Special => Stuff(b, e) = <<b>>
         /\ b \in Special => Stuff(b, e) = <<"ESC", IF b = "END" THEN "ESC_END" ELSE e>>
<1>1. b \notin Special => Stuff(b, e) = <<b>>
  BY DEF Stuff, Special
<1>2. b \in Special => Stuff(b, e) = <<"ESC", IF b = "END" THEN "ESC_END" ELSE e>>
  BY DEF Stuff, Special
<1>3. "ESC" \in Bytes /\ "ESC_END" \in Bytes /\ e \in Bytes
  BY DEF Bytes, Escapes
<1>4. Stuff(b, e) \in Seq(Bytes)
  <2> DEFINE c == IF b = "END" THEN "ESC_END" ELSE e
             esc == "ESC"
  <2>1. b \in Bytes /\ c \in Bytes /\ esc \in Bytes
    BY <1>3
  <2>2. b \in Special => Stuff(b, e) = <<esc, c>>
    BY <1>2
  <2> HIDE DEF c, esc
  <2>3. <<b>> \in Seq(Bytes) /\ <<esc, c>> \in Seq(Bytes)
    BY <2>1
  <2> QED BY <1>1, <2>2, <2>3
<1> QED BY <1>1, <1>2, <1>4

LEMMA EncIs ==
  ASSUME NEW f \in Seq(Bytes), NEW e \in Escapes
  PROVE  /\ Enc(f, e) \in Seq(Bytes) /\ Len(Enc(f, e)) >= 1
         /\ f = <<>> => Enc(f, e) = <<"END">>
         /\ f # <<>> => Enc(f, e) = Stuff(f[1], e) \o Enc(Tail(f), e)
<1> DEFINE s == [i \in DOMAIN f |-> Stuff(f[i], e)]
           last == <<"END">>
<1>1. /\ DOMAIN f = 1 .. Len(f) /\ Len(f) \in Nat /\ \A i \in 1 .. Len(f) : f[i] \in Bytes
  OBVIOUS
<1>7. last \in Seq(Bytes) /\ Len(last) = 1
  BY DEF Bytes
<1>2. \A i \in 1 .. Len(f) : Stuff(f[i], e) \in Seq(Bytes)
  BY <1>1, StuffIs
<1>3. s \in Seq(Seq(Bytes)) /\ Len(s) = Len(f) /\ \A i \in 1 .. Len(f) : s[i] = Stuff(f[i], e)
  BY <1>1, <1>2
<1>4. Enc(f, e) = FlattenSeq(s) \o last
  BY DEF Enc
<1> HIDE DEF s
<1> HIDE DEF last
<1>5. CASE f = <<>>
  <2>1. s = <<>>
    BY <1>3, <1>5, EmptySeq
  <2>2. FlattenSeq(s) = <<>>
    BY <2>1 DEF FlattenSeq
  <2>3. Enc(f, e) = last
    BY <1>1, <1>4, <2>2, ConcatEmptySeq
  <2>4. Enc(f, e) \in Seq(Bytes) /\ Len(Enc(f, e)) >= 1
    BY <1>7, <2>3
  <2>5. Enc(f, e) = <<"END">>
    BY <2>3 DEF last
  <2> QED BY <1>5, <2>4, <2>5
<1>6. CASE f # <<>>
  <2> DEFINE g == Tail(f)
             t == [i \in DOMAIN g |-> Stuff(g[i], e)]
  <2>1. /\ g \in Seq(Bytes) /\ Len(g) = Len(f) - 1 /\ \A i \in 1 .. Len(g) : g[i] = f[i + 1]
        /\ Len(f) # 0 /\ DOMAIN g = 1 .. Len(g)
    BY <1>1, <1>6, EmptySeq, HeadTailProperties
  <2>2. s # <<>>
    BY <1>3, <2>1, EmptySeq
  <2>3. /\ Tail(s) \in Seq(Seq(Bytes)) /\ Len(Tail(s)) = Len(f) - 1
        /\ \A i \in 1 .. Len(f) - 1 : Tail(s)[i] = s[i + 1]
    BY <1>3, <2>2, HeadTailProperties
  <2> HIDE DEF g
  <2>4. Tail(s) = t
    <3>1. \A i \in 1 .. Len(f) - 1 : Tail(s)[i] = Stuff(g[i], e)
      <4> SUFFICES ASSUME NEW i \in 1 .. Len(f) - 1 PROVE Tail(s)[i] = Stuff(g[i], e)
        OBVIOUS
      <4>1. i + 1 \in 1 .. Len(f)
        BY <1>1
      <4> QED BY <4>1, <1>3, <2>1, <2>3
    <3> DEFINE u == Tail(s)
               m == Len(f) - 1
    <3>2. u \in Seq(Seq(Bytes)) /\ Len(u) = m
      BY <2>3
    <3>3. DOMAIN g = 1 .. m /\ \A i \in 1 .. m : u[i] = Stuff(g[i], e)
      BY <2>1, <3>1
    <3> HIDE DEF u, m
    <3>4. u = [i \in 1 .. m |-> u[i]]
      BY <3>2
    <3>5. u = t
      BY <3>3, <3>4
    <3> QED BY <3>5 DEF u
  <2>5. FlattenSeq(s) \in Seq(Bytes) /\ FlattenSeq(s) = s[1] \o FlattenSeq(Tail(s))
    BY <1>3, <2>2, FlattenHead
  <2>6. FlattenSeq(t) \in Seq(Bytes)
    <3>1. CASE t = <<>>
      BY <3>1 DEF FlattenSeq
    <3>2. CASE t # <<>>
      BY <3>2, <2>3, <2>4, FlattenHead
    <3> QED BY <3>1, <3>2
  <2>7. Enc(g, e) = FlattenSeq(t) \o last
    BY DEF Enc, last
  <2> HIDE DEF t
  <2>8. s[1] \in Seq(Bytes) /\ s[1] = Stuff(f[1], e)
    BY <1>1, <1>2, <1>3, <2>1
  <2>9. (s[1] \o FlattenSeq(t)) \o last = s[1] \o (FlattenSeq(t) \o last)
    <3> DEFINE a == s[1]
               b == FlattenSeq(t)
               c == last
    <3>1. a \in Seq(Bytes) /\ b \in Seq(Bytes) /\ c \in Seq(Bytes)
      BY <1>7, <2>6, <2>8
    <3> HIDE DEF a, b, c
    <3>2. (a \o b) \o c = a \o (b \o c)
      BY <3>1
    <3> QED BY <3>2 DEF a, b, c
  <2>10. Enc(f, e) = Stuff(f[1], e) \o Enc(g, e)
    BY <1>4, <2>4, <2>5, <2>7, <2>8, <2>9
  <2>11. Enc(f, e) \in Seq(Bytes) /\ Len(Enc(f, e)) >= 1
    <3> DEFINE u == FlattenSeq(s)
    <3>1. u \in Seq(Bytes)
      BY <2>5
    <3> HIDE DEF u, last
    <3>2. Len(u) \in Nat
      BY <3>1
    <3>3. u \o last \in Seq(Bytes)
      BY <1>7, <3>1
    <3>4. Len(u \o last) = Len(u) + Len(last)
      <4>1. last \in Seq(Bytes)
        BY <1>7
      <4> QED BY <4>1, <3>1, ConcatProperties
    <3> QED BY <1>7, <1>4, <3>2, <3>3, <3>4 DEF u
  <2> QED BY <1>6, <2>10, <2>11 DEF g
<1> QED BY <1>5, <1>6

\* What is left, byte by byte.
LEMMA RestIs ==
  ASSUME NEW f \in Seq(Bytes), NEW e \in Escapes, NEW k \in 0 .. Len(f)
  PROVE  /\ Rest(f, k, e) \in Seq(Bytes) /\ Len(Rest(f, k, e)) >= 1
         /\ k = 0 => Rest(f, k, e) = Enc(f, e)
         /\ k = Len(f) => Rest(f, k, e) = <<"END">>
         /\ k < Len(f) => Rest(f, k, e) = Stuff(f[k + 1], e) \o Rest(f, k + 1, e)
<1> DEFINE g == SubSeq(f, k + 1, Len(f))
<1>1. Len(f) \in Nat /\ k \in Int /\ 0 <= k /\ k <= Len(f) /\ \A i \in k + 1 .. Len(f) : f[i] \in Bytes
  OBVIOUS
<1>2. g \in Seq(Bytes) /\ Len(g) = Len(f) - k
  BY <1>1, SubSeqProperties
<1>3. Rest(f, k, e) = Enc(g, e)
  BY DEF Rest
<1>4. k = 0 => g = f
  BY SubSeqFull
<1>5. k = Len(f) => g = <<>>
  BY <1>1, SubSeqEmpty
<1>6. k < Len(f) => g # <<>> /\ g[1] = f[k + 1] /\ Tail(g) = SubSeq(f, k + 1 + 1, Len(f))
  <2> SUFFICES ASSUME k < Len(f)
               PROVE  g # <<>> /\ g[1] = f[k + 1] /\ Tail(g) = SubSeq(f, k + 1 + 1, Len(f))
    OBVIOUS
  <2> DEFINE m == k + 1
  <2>1. m \in 1 .. Len(f) /\ Len(f) \in m .. Len(f)
    BY <1>1
  <2>2. g = SubSeq(f, m, Len(f))
    OBVIOUS
  <2> HIDE DEF m, g
  <2>3. Head(g) = f[m] /\ Tail(g) = SubSeq(f, m + 1, Len(f))
    BY <2>1, <2>2, HeadTailOfSubSeq
  <2>4. g # <<>>
    BY <1>1, <1>2, EmptySeq
  <2>5. Head(g) = g[1]
    BY <1>2, <2>4
  <2> QED BY <2>3, <2>4, <2>5 DEF m
<1>7. k < Len(f) => Rest(f, k + 1, e) = Enc(Tail(g), e)
  BY <1>6 DEF Rest
<1> HIDE DEF g
<1>8. Enc(g, e) \in Seq(Bytes) /\ Len(Enc(g, e)) >= 1
  BY <1>2, EncIs
<1>9. g = <<>> => Enc(g, e) = <<"END">>
  BY <1>2, EncIs
<1>10. g # <<>> => Enc(g, e) = Stuff(g[1], e) \o Enc(Tail(g), e)
  BY <1>2, EncIs
<1> QED BY <1>3, <1>4, <1>5, <1>6, <1>7, <1>8, <1>9, <1>10

\* The next byte, and the one after an ESC.
LEMMA NextByte ==
  ASSUME NEW f \in Seq(Bytes), NEW e \in Escapes, NEW k \in 0 .. Len(f), k < Len(f)
  PROVE  /\ Len(Rest(f, k, e)) > 1
         /\ f[k + 1] \notin Special => /\ Rest(f, k, e)[1] = f[k + 1]
                                       /\ Tail(Rest(f, k, e)) = Rest(f, k + 1, e)
         /\ f[k + 1] \in Special => /\ Rest(f, k, e)[1] = "ESC"
                                    /\ Tail(Rest(f, k, e)) = Half(f, k, e)
                                    /\ Half(f, k, e) \in Seq(Bytes) /\ Len(Half(f, k, e)) > 1
                                    /\ Half(f, k, e)[1] = IF f[k + 1] = "END" THEN "ESC_END" ELSE e
                                    /\ Tail(Half(f, k, e)) = Rest(f, k + 1, e)
<1> DEFINE r == Rest(f, k, e)
           t == Rest(f, k + 1, e)
           h == Half(f, k, e)
           b == f[k + 1]
           c == IF b = "END" THEN "ESC_END" ELSE e
           esc == "ESC"
<1>1. k + 1 \in 0 .. Len(f) /\ k + 1 \in 1 .. Len(f)
  OBVIOUS
<1>2. b \in Bytes
  BY <1>1
<1>3. esc \in Bytes /\ c \in Bytes
  BY DEF Bytes, Escapes
<1>4. t \in Seq(Bytes) /\ Len(t) >= 1 /\ Len(t) \in Nat
  <2> DEFINE m == k + 1
  <2>1. m \in 0 .. Len(f)
    BY <1>1
  <2> HIDE DEF m
  <2>2. Rest(f, m, e) \in Seq(Bytes) /\ Len(Rest(f, m, e)) >= 1
    BY <2>1, RestIs
  <2> QED BY <2>2 DEF m
<1>5. r = Stuff(b, e) \o t
  BY RestIs
<1>6. h = <<c>> \o t
  BY DEF Half
<1>7. b \notin Special => Stuff(b, e) = <<b>>
  BY <1>2, StuffIs
<1>8. b \in Special => Stuff(b, e) = <<esc, c>>
  BY <1>2, StuffIs
<1> HIDE DEF r, t, h, b, c, esc
<1>9. ASSUME b \notin Special PROVE Len(r) > 1 /\ r[1] = b /\ Tail(r) = t
  <2>1. r = <<b>> \o t
    BY <1>5, <1>7, <1>9
  <2> DEFINE u == <<b>> \o t
  <2>2. Len(u) = Len(t) + 1 /\ u[1] = b /\ Tail(u) = t
    BY <1>2, <1>4, ConsIs
  <2> HIDE DEF u
  <2>3. r = u
    BY <2>1 DEF u
  <2>4. Len(r) > 1 /\ r[1] = b /\ Tail(r) = t
    BY <1>4, <2>2, <2>3
  <2> QED BY <1>9, <2>4
<1>10. ASSUME b \in Special
       PROVE  /\ Len(r) > 1 /\ r[1] = esc /\ Tail(r) = h
              /\ h \in Seq(Bytes) /\ Len(h) > 1 /\ h[1] = c /\ Tail(h) = t
  <2> DEFINE u == <<esc>> \o h
  <2>1. h \in Seq(Bytes) /\ Len(h) = Len(t) + 1 /\ h[1] = c /\ Tail(h) = t
    <3> DEFINE g == <<c>> \o t
    <3>1. g \in Seq(Bytes) /\ Len(g) = Len(t) + 1 /\ g[1] = c /\ Tail(g) = t
      BY <1>3, <1>4, ConsIs
    <3> HIDE DEF g
    <3>2. h = g
      BY <1>6 DEF g
    <3> QED BY <3>1, <3>2
  <2>2. Len(u) = Len(h) + 1 /\ u[1] = esc /\ Tail(u) = h
    BY <1>3, <2>1, ConsIs
  <2>3. r = <<esc, c>> \o t
    BY <1>5, <1>8, <1>10
  <2>4. <<esc, c>> \o t = <<esc>> \o (<<c>> \o t)
    BY SMTT(40), <1>3, <1>4, ConsTwo
  <2>5. r = u
    BY <1>6, <2>3, <2>4
  <2> HIDE DEF u
  <2>6. Len(h) > 1 /\ Len(h) \in Nat
    BY <1>4, <2>1
  <2>7. Len(r) > 1 /\ r[1] = esc /\ Tail(r) = h
    BY <2>2, <2>5, <2>6
  <2> QED BY <1>10, <2>1, <2>6, <2>7
<1>11. Len(r) > 1 /\ (b \notin Special => r[1] = b /\ Tail(r) = t)
  BY <1>9, <1>10
<1>12. b \in Special => /\ r[1] = esc /\ Tail(r) = h
                        /\ h \in Seq(Bytes) /\ Len(h) > 1 /\ h[1] = c /\ Tail(h) = t
  BY <1>10
<1> QED BY <1>11, <1>12 DEF r, t, b, h, c, esc

\* What is left grows shorter.
LEMMA RestShorter ==
  ASSUME NEW f \in Seq(Bytes), NEW e \in Escapes, NEW k \in 0 .. Len(f)
  PROVE  /\ Len(Rest(f, k, e)) + k <= Len(Enc(f, e))
         /\ k < Len(f) /\ f[k + 1] \in Special => Len(Half(f, k, e)) < Len(Enc(f, e))
<1> DEFINE S == {n \in Nat : n <= Len(f) => Len(Rest(f, n, e)) + n <= Len(Enc(f, e))}
<1>0. Len(f) \in Nat
  OBVIOUS
<1>1. 0 \in S
  <2>1. Rest(f, 0, e) = Enc(f, e) /\ Enc(f, e) \in Seq(Bytes)
    <3> DEFINE z == 0
    <3>1. z \in 0 .. Len(f) /\ z = 0
      BY <1>0
    <3> HIDE DEF z
    <3>2. Rest(f, z, e) = Enc(f, e) /\ Rest(f, z, e) \in Seq(Bytes)
      BY <3>1, RestIs
    <3> QED BY <3>1, <3>2
  <2>2. Len(Rest(f, 0, e)) \in Nat
    BY <2>1
  <2> QED BY <2>1, <2>2
<1>2. ASSUME NEW n \in Nat PROVE n < Len(f) => Len(Rest(f, n, e)) >= Len(Rest(f, n + 1, e)) + 1
                          /\ (f[n + 1] \in Special => Len(Half(f, n, e)) = Len(Rest(f, n, e)) - 1)
                          /\ Len(Rest(f, n, e)) \in Nat /\ Len(Rest(f, n + 1, e)) \in Nat
  <2> SUFFICES ASSUME n < Len(f)
               PROVE  /\ Len(Rest(f, n, e)) >= Len(Rest(f, n + 1, e)) + 1
                      /\ f[n + 1] \in Special => Len(Half(f, n, e)) = Len(Rest(f, n, e)) - 1
                      /\ Len(Rest(f, n, e)) \in Nat /\ Len(Rest(f, n + 1, e)) \in Nat
    OBVIOUS
  <2> DEFINE r == Rest(f, n, e)
             t == Rest(f, n + 1, e)
             h == Half(f, n, e)
  <2>1. n \in 0 .. Len(f)
    BY <1>0
  <2>2. r \in Seq(Bytes)
    BY <2>1, RestIs
  <2>3. /\ Len(r) > 1
        /\ f[n + 1] \notin Special => Tail(r) = t
        /\ f[n + 1] \in Special =>
             /\ Tail(r) = h
             /\ h \in Seq(Bytes) /\ Len(h) > 1
             /\ Tail(h) = t
    <3> HIDE DEF r, t, h
    <3>1. /\ Len(Rest(f, n, e)) > 1
          /\ f[n + 1] \notin Special => Tail(Rest(f, n, e)) = Rest(f, n + 1, e)
      BY <2>1, NextByte
    <3>2. f[n + 1] \in Special => /\ Tail(Rest(f, n, e)) = Half(f, n, e)
                                  /\ Half(f, n, e) \in Seq(Bytes) /\ Len(Half(f, n, e)) > 1
                                  /\ Tail(Half(f, n, e)) = Rest(f, n + 1, e)
      BY <2>1, NextByte
    <3> QED BY <3>1, <3>2 DEF r, t, h
  <2> HIDE DEF r, t, h
  <2>4. r # <<>> /\ Tail(r) \in Seq(Bytes) /\ Len(Tail(r)) = Len(r) - 1 /\ Len(r) \in Nat
    BY <2>2, <2>3, EmptySeq, HeadTailProperties
  <2>5. f[n + 1] \in Special => Len(Tail(h)) = Len(h) - 1 /\ Len(h) \in Nat
    BY <2>3, EmptySeq, HeadTailProperties
  <2>6. Len(r) >= Len(t) + 1 /\ Len(t) \in Nat
    BY <2>3, <2>4, <2>5
  <2>7. f[n + 1] \in Special => Len(h) = Len(r) - 1
    BY <2>3, <2>4
  <2> QED BY <2>4, <2>6, <2>7 DEF r, t, h
<1>3. Len(Enc(f, e)) \in Nat
  BY EncIs
<1>4. ASSUME NEW n \in Nat, n \in S PROVE n + 1 \in S
  <2>1. CASE n + 1 <= Len(f)
    <3>1. n < Len(f) /\ n <= Len(f)
      BY <1>0, <2>1
    <3>2. Len(Rest(f, n, e)) + n <= Len(Enc(f, e))
      BY <1>4, <3>1
    <3>3. Len(Rest(f, n + 1, e)) + (n + 1) <= Len(Enc(f, e))
      BY <1>2, <1>3, <3>1, <3>2
    <3> QED BY <3>3
  <2>2. CASE ~(n + 1 <= Len(f))
    BY <2>2
  <2> QED BY <2>1, <2>2
<1> HIDE DEF S
<1>5. k \in Nat /\ k \in S /\ k <= Len(f)
  BY <1>0, <1>1, <1>4, SetInduction
<1>6. Len(Rest(f, k, e)) + k <= Len(Enc(f, e))
  BY <1>5 DEF S
<1>7. k < Len(f) /\ f[k + 1] \in Special => Len(Half(f, k, e)) < Len(Enc(f, e))
  BY <1>2, <1>3, <1>5, <1>6
<1> QED BY <1>6, <1>7

-----------------------------------------------------------------------------
(* The inductive invariant *)

\* No frame of a peer that writes with tty_output holds an ESC.
Clear == writer = "gateway" => \A f \in Sends[writer] : \A i \in DOMAIN f : f[i] # "ESC"

\* At the start of a frame: the last frames that may still suffer find the
\* reader in any state, then at worst in the rubbish, then with rubbish in the buffer.
Boundary ==
  /\ dirt = 2 => state \in {"OK", "RUBBISH"}
  /\ dirt <= 1 => state = "OK"
  /\ dirt = 0 => buffer_end = 0
  /\ dirt = 0 /\ ~asked /\ Clear => ~(buffer[0] = "bang" /\ buffer[1] = "S")

\* After k bytes of frame f, and after the ESC of the next one if half.
InStep(f, k, half) ==
  /\ dirt <= 2 => (state = "OK" => ~half) /\ (state = "ESC" => half)
  /\ dirt <= 1 => state # "RUBBISH"
  /\ dirt = 0 =>
       /\ IF state = "COMMENT" THEN k >= Size ELSE buffer_end = k
       /\ Clear => \A j \in 1 .. k : j <= Size => buffer[j - 1] = f[j]

Left(f, k, half) == IF half THEN Half(f, k, Escape) ELSE Rest(f, k, Escape)

\* Part of sound frame f is still to be read.
Reading(f, rest) ==
  \E k \in 0 .. Len(f), half \in BOOLEAN :
    /\ half => k < Len(f) /\ f[k + 1] \in Special
    /\ rest = Left(f, k, half)
    /\ IF k = 0 /\ ~half THEN Boundary ELSE InStep(f, k, half)

QueueInv ==
  \A i \in DOMAIN wire :
    /\ wire[i].rest # <<>>
    /\ wire[i].f \in Sends[writer]
    /\ i > 1 /\ wire[i].sound => wire[i].rest = Encode(wire[i].f)

CommentInv == state = "COMMENT" => buffer_end = 0

HeadInv ==
  IF wire = <<>> THEN Boundary
  ELSE wire[1].sound => Reading(wire[1].f, wire[1].rest)

SlipInv == SlipTypeOK /\ QueueInv /\ CommentInv /\ HeadInv

-----------------------------------------------------------------------------
(* Steps of the line *)

Item == [f : Sent, rest : Seq(Bytes), sound : BOOLEAN]

LEMMA TypeIs ==
  ASSUME SlipTypeOK
  PROVE  /\ buffer \in [0 .. Size - 1 -> Bytes] /\ buffer_end \in 0 .. Size
         /\ state \in {"OK", "ESC", "RUBBISH", "COMMENT"}
         /\ wire \in Seq(Item) /\ writer \in DOMAIN Sends
         /\ dirt \in 0 .. 3 /\ asked \in BOOLEAN
         /\ out \in [kind : {"none", "reply", "packet"}, frame : Seq(Bytes)]
         /\ written \in 0 .. MaxFrames /\ noise \in 0 .. MaxNoise
         /\ Size \in Nat /\ Size >= 2
  BY SlipAssumption DEF SlipTypeOK, Item, Promise!Reach

LEMMA EscapeIs == Escape \in Escapes
  BY DEF Escape, Escapes, slipescesc

LEMMA SendsAre ==
  ASSUME NEW w \in DOMAIN Sends, NEW f \in Sends[w]
  PROVE  f \in Sent /\ f \in Seq(Bytes)
  BY SlipAssumption DEF Sent

LEMMA SentAre == \A f \in Sent : f \in Seq(Bytes)
  BY SlipAssumption DEF Sent

\* What is written is a sequence of bytes that is not empty.
LEMMA EncodeType ==
  ASSUME NEW f \in Seq(Bytes)
  PROVE  /\ Encode(f) \in Seq(Bytes) /\ Encode(f) # <<>>
         /\ Encode(f) = Rest(f, 0, Escape) /\ Len(Encode(f)) >= 1
<1>1. Enc(f, Escape) \in Seq(Bytes) /\ Len(Enc(f, Escape)) >= 1
  BY EscapeIs, EncIs
<1>2. Encode(f) = Enc(f, Escape)
  BY EncodeIs
<1>3. Enc(f, Escape) # <<>>
  BY <1>1, EmptySeq
<1> DEFINE z == 0
<1>4. z \in 0 .. Len(f) /\ z = 0
  OBVIOUS
<1> HIDE DEF z
<1>5. Rest(f, z, Escape) = Enc(f, Escape)
  BY <1>4, EscapeIs, RestIs
<1> QED BY <1>1, <1>2, <1>3, <1>4, <1>5

\* The byte that is read.
LEMMA HeadIs ==
  ASSUME SlipTypeOK, QueueInv, wire # <<>>
  PROVE  /\ Len(wire) \in Nat /\ Len(wire) >= 1
         /\ Head(wire) = wire[1] /\ wire[1] \in Item /\ wire[1].f \in Sends[writer]
         /\ wire[1].f \in Seq(Bytes) /\ wire[1].sound \in BOOLEAN
         /\ wire[1].rest \in Seq(Bytes) /\ wire[1].rest # <<>>
         /\ Byte = wire[1].rest[1] /\ Byte \in Bytes
         /\ AtEnd <=> Len(wire[1].rest) = 1
<1>1. wire \in Seq(Item) /\ writer \in DOMAIN Sends
  BY TypeIs
<1>2. Len(wire) \in Nat /\ Len(wire) >= 1 /\ Head(wire) = wire[1] /\ wire[1] \in Item /\ 1 \in DOMAIN wire
  BY <1>1, EmptySeq
<1> DEFINE h == wire[1]
           r == wire[1].rest
<1>3. h \in Item /\ 1 \in DOMAIN wire
  BY <1>2
<1>4. r # <<>> /\ h.f \in Sends[writer]
  BY <1>3 DEF QueueInv
<1> HIDE DEF h
<1>5. h.f \in Seq(Bytes)
  BY <1>1, <1>4, SendsAre
<1>6. h.rest \in Seq(Bytes) /\ h.sound \in BOOLEAN
  BY <1>3 DEF Item
<1>7. r \in Seq(Bytes)
  BY <1>6 DEF h
<1>8. Byte = Head(r) /\ (AtEnd <=> Len(r) = 1)
  BY <1>2 DEF Byte, AtEnd
<1> HIDE DEF r
<1>9. Head(r) = r[1] /\ r[1] \in Bytes
  BY <1>4, <1>7, EmptySeq, HeadTailProperties
<1>10. wire[1].f \in Sends[writer] /\ wire[1].f \in Seq(Bytes) /\ wire[1].sound \in BOOLEAN
  BY <1>4, <1>5, <1>6 DEF h
<1>11. r = wire[1].rest
  BY DEF r
<1> QED BY <1>2, <1>4, <1>7, <1>8, <1>9, <1>10, <1>11

\* A byte is taken from the frame at the front of the line.
LEMMA TakeMid ==
  ASSUME SlipTypeOK, QueueInv, wire # <<>>, Take, ~AtEnd
  PROVE  /\ wire' \in Seq(Item) /\ Len(wire') = Len(wire) /\ wire' # <<>>
         /\ wire'[1].f = wire[1].f /\ wire'[1].sound = wire[1].sound
         /\ wire'[1].rest = Tail(wire[1].rest) /\ wire'[1].rest # <<>>
         /\ \A i \in 2 .. Len(wire) : wire'[i] = wire[i]
         /\ dirt' = dirt /\ asked' = (asked \/ ~wire[1].sound)
<1> DEFINE h == wire[1]
           t == Tail(wire[1].rest)
           g == [h EXCEPT !.rest = t]
           n == Len(wire)
<1>1. /\ n \in Nat /\ n >= 1 /\ Head(wire) = h /\ h \in Item
      /\ h.rest \in Seq(Bytes) /\ h.rest # <<>> /\ Len(h.rest) # 1
  BY HeadIs
<1>2. t \in Seq(Bytes) /\ Len(t) = Len(h.rest) - 1 /\ t # <<>>
  <2> DEFINE r == h.rest
  <2>1. r \in Seq(Bytes) /\ r # <<>> /\ Len(r) # 1
    BY <1>1
  <2> HIDE DEF r
  <2>2. Tail(r) \in Seq(Bytes) /\ Len(Tail(r)) = Len(r) - 1 /\ Len(r) \in Nat
    BY <2>1, EmptySeq, HeadTailProperties
  <2>3. Len(Tail(r)) # 0
    BY <2>1, <2>2
  <2>4. Tail(r) # <<>>
    BY <2>2, <2>3, EmptySeq
  <2> QED BY <2>2, <2>4 DEF r
<1>3. wire' = [wire EXCEPT ![1] = g]
  BY DEF Take
<1>4. wire \in Seq(Item) /\ wire \in [1 .. n -> Item]
  BY TypeIs
<1>5. dirt' = dirt /\ asked' = (asked \/ ~h.sound)
  BY <1>1 DEF Take
<1> HIDE DEF h, t
<1>6. g \in Item /\ g.f = h.f /\ g.sound = h.sound /\ g.rest = t
  BY <1>1, <1>2 DEF Item
<1> HIDE DEF g, n
<1>7. wire' \in [1 .. n -> Item] /\ wire'[1] = g /\ \A i \in 2 .. n : wire'[i] = wire[i]
  BY <1>1, <1>3, <1>4, <1>6
<1>8. wire' \in Seq(Item) /\ Len(wire') = n
  BY <1>1, <1>7
<1>9. wire' # <<>>
  BY <1>1, <1>8, EmptySeq
<1> QED BY <1>2, <1>5, <1>6, <1>7, <1>8, <1>9 DEF h, t, n

\* The last byte of that frame is taken.
LEMMA TakeEnd ==
  ASSUME SlipTypeOK, QueueInv, wire # <<>>, Take, AtEnd
  PROVE  /\ wire' = Tail(wire) /\ wire' \in Seq(Item) /\ Len(wire') = Len(wire) - 1
         /\ \A i \in 1 .. Len(wire) - 1 : wire'[i] = wire[i + 1]
         /\ dirt' = IF ~wire[1].sound THEN 3 ELSE IF dirt > 0 THEN dirt - 1 ELSE 0
         /\ asked' = (asked \/ ~wire[1].sound \/ dirt > 0 \/ Promise!Asks(wire[1].f))
<1>1. wire \in Seq(Item) /\ Head(wire) = wire[1]
  BY TypeIs, HeadIs
<1>2. wire' = Tail(wire)
  BY DEF Take
<1>3. /\ dirt' = IF ~wire[1].sound THEN 3 ELSE IF dirt > 0 THEN dirt - 1 ELSE 0
      /\ asked' = (asked \/ ~wire[1].sound \/ dirt > 0 \/ Promise!Asks(wire[1].f))
  BY <1>1 DEF Take, Promise!Reach
<1>4. /\ Tail(wire) \in Seq(Item) /\ Len(Tail(wire)) = Len(wire) - 1
      /\ \A i \in 1 .. Len(wire) - 1 : Tail(wire)[i] = wire[i + 1]
  BY <1>1, HeadTailProperties
<1> QED BY <1>2, <1>3, <1>4

\* The rest of the line is as it was.
LEMMA TakeQueue ==
  ASSUME SlipTypeOK, QueueInv, wire # <<>>, Take
  PROVE  QueueInv' /\ writer' = writer /\ Escape' = Escape /\ (Clear <=> Clear')
<1>1. writer' = writer
  BY DEF Take, linevars
<1>2. Escape' = Escape /\ (Clear <=> Clear')
  BY <1>1 DEF Escape, Clear
<1>3. wire \in Seq(Item) /\ Len(wire) \in Nat /\ Len(wire) >= 1
  BY TypeIs, HeadIs
<1>4. ASSUME NEW i \in DOMAIN wire'
      PROVE  /\ wire'[i].rest # <<>> /\ wire'[i].f \in Sends[writer]
             /\ i > 1 /\ wire'[i].sound => wire'[i].rest = Encode(wire'[i].f)
  <2>1. CASE AtEnd
    <3>1. /\ wire' \in Seq(Item) /\ Len(wire') = Len(wire) - 1
          /\ \A k \in 1 .. Len(wire) - 1 : wire'[k] = wire[k + 1]
      BY <2>1, TakeEnd
    <3>2. i \in 1 .. Len(wire) - 1 /\ i + 1 \in 1 .. Len(wire) /\ i + 1 > 1
      BY <1>3, <3>1
    <3>3. i + 1 \in DOMAIN wire /\ wire'[i] = wire[i + 1]
      BY <1>3, <3>1, <3>2
    <3> QED BY <3>2, <3>3 DEF QueueInv
  <2>2. CASE ~AtEnd
    <3>1. /\ wire' \in Seq(Item) /\ Len(wire') = Len(wire)
          /\ wire'[1].f = wire[1].f /\ wire'[1].rest # <<>>
          /\ \A k \in 2 .. Len(wire) : wire'[k] = wire[k]
      BY <2>2, TakeMid
    <3>2. i \in 1 .. Len(wire) /\ i \in DOMAIN wire
      BY <1>3, <3>1
    <3>3. CASE i = 1
      BY <3>1, <3>3, HeadIs
    <3>4. CASE i # 1
      <4>1. i \in 2 .. Len(wire) /\ wire'[i] = wire[i]
        BY <1>3, <3>1, <3>2, <3>4
      <4> QED BY <3>2, <4>1 DEF QueueInv
    <3> QED BY <3>3, <3>4
  <2> QED BY <2>1, <2>2
<1>5. QueueInv'
  BY <1>1, <1>4 DEF QueueInv, Encode
<1> QED BY <1>1, <1>2, <1>5

-----------------------------------------------------------------------------
(* What a byte does to the reader *)

\* What an END makes of the buffer.
Handled ==
  IF buffer[0] = "bang" /\ buffer[1] = "S" THEN Promise!Reply
  ELSE IF buffer[0] = "tick" /\ buffer_end > 0
  THEN Promise!Packet([i \in 1 .. buffer_end |-> buffer[i - 1]])
  ELSE Promise!None

LEMMA HandledType ==
  ASSUME SlipTypeOK
  PROVE  Handled \in [kind : {"none", "reply", "packet"}, frame : Seq(Bytes)]
<1>1. /\ buffer \in [0 .. Size - 1 -> Bytes] /\ buffer_end \in 0 .. Size /\ Size \in Nat
  BY TypeIs
<1> DEFINE q == [i \in 1 .. buffer_end |-> buffer[i - 1]]
<1>2. \A i \in 1 .. buffer_end : buffer[i - 1] \in Bytes
  BY <1>1
<1>3. q \in Seq(Bytes)
  BY <1>1, <1>2
<1>4. <<>> \in Seq(Bytes)
  OBVIOUS
<1>5. Handled \in {Promise!Reply, Promise!Packet(q), Promise!None}
  BY DEF Handled
<1> HIDE DEF q
<1>6. Promise!Packet(q) \in [kind : {"none", "reply", "packet"}, frame : Seq(Bytes)]
  BY <1>3 DEF Promise!Packet
<1>7. Promise!None \in [kind : {"none", "reply", "packet"}, frame : Seq(Bytes)]
  BY <1>4 DEF Promise!None
<1>8. Promise!Reply \in [kind : {"none", "reply", "packet"}, frame : Seq(Bytes)]
  BY <1>4 DEF Promise!Reply
<1> QED BY <1>5, <1>6, <1>7, <1>8

\* The END of a frame.
LEMMA EndIs ==
  ASSUME SlipTypeOK, QueueInv, CommentInv, Read, Byte = "END"
  PROVE  /\ buffer' = buffer /\ state' \in {"OK", "RUBBISH"}
         /\ buffer_end' \in {0, buffer_end}
         /\ state # "ESC" => state' = "OK"
         /\ state \in {"OK", "COMMENT"} => buffer_end' = 0
         /\ out' \in {out, Handled, Promise!None}
         /\ state = "OK" /\ ~Full => out' = Handled
         /\ state = "COMMENT" \/ Full => out' = Promise!None
<1>1. CASE ReadOk
  <2>1. /\ state = "OK" /\ ~Full /\ handle_input
    BY <1>1 DEF ReadOk
  <2>2. out' = Handled /\ buffer_end' = 0 /\ state' = "OK" /\ buffer' = buffer
    BY <2>1 DEF handle_input, Handled
  <2> QED BY <2>1, <2>2
<1>2. CASE ReadEsc
  <2>1. state = "ESC" /\ ~Full /\ Stay("RUBBISH") /\ out' = out
    BY <1>2 DEF ReadEsc
  <2>2. buffer_end' = buffer_end /\ state' = "RUBBISH" /\ buffer' = buffer
    BY <2>1 DEF Stay, End
  <2> QED BY <2>1, <2>2
<1>3. CASE ReadRubbish
  <2>1. state = "RUBBISH" /\ ~Full /\ Stay("OK") /\ out' = Promise!None
    BY <1>3 DEF ReadRubbish
  <2>2. buffer_end' = buffer_end /\ state' = "OK" /\ buffer' = buffer
    BY <2>1 DEF Stay, End
  <2> QED BY <2>1, <2>2
<1>4. CASE ReadComment
  <2>1. (Full \/ state = "COMMENT") /\ Stay("OK") /\ out' = Promise!None
    BY <1>4 DEF ReadComment
  <2>2. buffer_end' = End /\ state' = "OK" /\ buffer' = buffer
    BY <2>1 DEF Stay
  <2>3. End = 0
    BY <2>1 DEF End, CommentInv
  <2> QED BY <2>1, <2>2, <2>3
<1> QED BY <1>1, <1>2, <1>3, <1>4 DEF Read

\* What a byte other than an END, or the one after an ESC, puts in the buffer.
Kept == IF state = "OK" THEN Byte ELSE IF Byte = "ESC_END" THEN "END" ELSE "ESC"

\* Any other byte.
LEMMA ByteIs ==
  ASSUME SlipTypeOK, QueueInv, CommentInv, Read, Byte # "END"
  PROVE  /\ out' \in {out} /\ Take /\ wire # <<>>
         /\ Full \/ state = "COMMENT" =>
              state' = "COMMENT" /\ buffer_end' = 0 /\ buffer' = buffer
         /\ ~Full /\ state = "RUBBISH" =>
              state' = "RUBBISH" /\ buffer_end' = buffer_end /\ buffer' = buffer
         /\ ~Full /\ state = "OK" /\ Byte = "ESC" =>
              state' = "ESC" /\ buffer_end' = buffer_end /\ buffer' = buffer
         /\ ~Full /\ state = "ESC" /\ Byte \notin Escapes =>
              state' = "RUBBISH" /\ buffer_end' = buffer_end /\ buffer' = buffer
         /\ ~Full /\ ((state = "OK" /\ Byte # "ESC") \/ (state = "ESC" /\ Byte \in Escapes)) =>
              /\ state' = "OK" /\ buffer_end' = buffer_end + 1
              /\ buffer' = [buffer EXCEPT ![buffer_end] = Kept]
<1>1. CASE ReadOk
  <2>1. state = "OK" /\ ~Full /\ Take /\ wire # <<>>
    BY <1>1 DEF ReadOk
  <2>2. CASE Byte = "ESC"
    BY <1>1, <2>1, <2>2 DEF ReadOk, Stay, End
  <2>3. CASE Byte # "ESC"
    BY <1>1, <2>1, <2>3 DEF ReadOk, Keep, End, Kept
  <2> QED BY <2>2, <2>3
<1>2. CASE ReadEsc
  <2>1. state = "ESC" /\ ~Full /\ Take /\ wire # <<>>
    BY <1>2 DEF ReadEsc
  <2>2. CASE Byte \in Escapes
    BY <1>2, <2>1, <2>2 DEF ReadEsc, Keep, End, Kept, Escapes
  <2>3. CASE Byte \notin Escapes
    BY <1>2, <2>1, <2>3 DEF ReadEsc, Stay, End, Escapes
  <2> QED BY <2>2, <2>3
<1>3. CASE ReadRubbish
  <2>1. state = "RUBBISH" /\ ~Full /\ Take /\ wire # <<>>
    BY <1>3 DEF ReadRubbish
  <2> QED BY <1>3, <2>1 DEF ReadRubbish, Stay, End
<1>4. CASE ReadComment
  <2>1. (Full \/ state = "COMMENT") /\ Take /\ wire # <<>> /\ Stay("COMMENT") /\ out' = out
    BY <1>4 DEF ReadComment
  <2>2. End = 0
    BY <2>1 DEF End, CommentInv
  <2> QED BY <2>1, <2>2 DEF Stay
<1> QED BY <1>1, <1>2, <1>3, <1>4 DEF Read

\* Either leaves the reader well-typed, and a comment keeps nothing.
LEMMA ReadType ==
  ASSUME SlipTypeOK, QueueInv, CommentInv, Read
  PROVE  SlipTypeOK' /\ CommentInv'
<1>1. wire # <<>> /\ Take
  BY DEF Read, ReadOk, ReadEsc, ReadRubbish, ReadComment
<1>2. /\ buffer \in [0 .. Size - 1 -> Bytes] /\ buffer_end \in 0 .. Size
      /\ state \in {"OK", "ESC", "RUBBISH", "COMMENT"}
      /\ writer \in DOMAIN Sends /\ dirt \in 0 .. 3 /\ asked \in BOOLEAN
      /\ out \in [kind : {"none", "reply", "packet"}, frame : Seq(Bytes)]
      /\ written \in 0 .. MaxFrames /\ noise \in 0 .. MaxNoise
      /\ Size \in Nat /\ Size >= 2
  BY TypeIs
<1>3. wire' \in Seq(Item) /\ dirt' \in 0 .. 3 /\ asked' \in BOOLEAN
  <2>1. CASE AtEnd
    BY <1>1, <1>2, <2>1, TakeEnd, HeadIs DEF Promise!Asks, Promise!Request
  <2>2. CASE ~AtEnd
    BY <1>1, <1>2, <2>2, TakeMid, HeadIs
  <2> QED BY <2>1, <2>2
<1>4. writer' = writer /\ written' = written /\ noise' = noise
  BY <1>1 DEF Take, linevars
<1>5. /\ buffer' \in [0 .. Size - 1 -> Bytes] /\ buffer_end' \in 0 .. Size
      /\ state' \in {"OK", "ESC", "RUBBISH", "COMMENT"}
      /\ out' \in [kind : {"none", "reply", "packet"}, frame : Seq(Bytes)]
      /\ CommentInv'
  <2>1. CASE Byte = "END"
    <3>1. /\ buffer' = buffer /\ state' \in {"OK", "RUBBISH"}
          /\ buffer_end' \in {0, buffer_end} /\ out' \in {out, Handled, Promise!None}
      BY <2>1, EndIs
    <3>2. Promise!None \in [kind : {"none", "reply", "packet"}, frame : Seq(Bytes)]
      <4>1. <<>> \in Seq(Bytes)
        OBVIOUS
      <4> QED BY <4>1 DEF Promise!None
    <3>3. out' \in [kind : {"none", "reply", "packet"}, frame : Seq(Bytes)]
      BY <1>2, <3>1, <3>2, HandledType
    <3> QED BY <1>2, <3>1, <3>3 DEF CommentInv
  <2>2. CASE Byte # "END"
    <3>1. out' = out
      BY <2>2, ByteIs
    <3>2. CASE Full \/ state = "COMMENT"
      BY <1>2, <2>2, <3>1, <3>2, ByteIs DEF CommentInv
    <3>3. CASE ~Full /\ state # "COMMENT"
      <4>1. Kept \in Bytes
        BY <1>1, HeadIs DEF Kept, Bytes
      <4>2. buffer_end + 1 \in 0 .. Size /\ buffer_end \in 0 .. Size - 1
        BY <1>2, <3>3 DEF Full
      <4>3. [buffer EXCEPT ![buffer_end] = Kept] \in [0 .. Size - 1 -> Bytes]
        BY <1>2, <4>1, <4>2
      <4>4. \/ state' \in {"RUBBISH", "ESC"} /\ buffer_end' = buffer_end /\ buffer' = buffer
            \/ /\ state' = "OK" /\ buffer_end' = buffer_end + 1
               /\ buffer' = [buffer EXCEPT ![buffer_end] = Kept]
        <5>1. CASE state = "OK"
          BY <2>2, <3>3, <5>1, ByteIs
        <5>2. CASE state = "ESC"
          BY <2>2, <3>3, <5>2, ByteIs
        <5>3. CASE state = "RUBBISH"
          BY <2>2, <3>3, <5>3, ByteIs
        <5> QED BY <1>2, <3>3, <5>1, <5>2, <5>3
      <4> HIDE DEF Kept
      <4> QED BY <1>2, <3>1, <4>2, <4>3, <4>4 DEF CommentInv
    <3> QED BY <3>2, <3>3
  <2> QED BY <2>1, <2>2
<1>6. SlipTypeOK'
  BY <1>2, <1>3, <1>4, <1>5 DEF SlipTypeOK, Item, Promise!Reach
<1> QED BY <1>5, <1>6

-----------------------------------------------------------------------------
(* A sound frame *)

\* At the start of a frame the reader is in step with it.
LEMMA StartsInStep ==
  ASSUME SlipTypeOK, Boundary, NEW f
  PROVE  InStep(f, 0, FALSE)
  BY TypeIs DEF Boundary, InStep

\* A byte in the middle of a sound frame: reader and writer stay in step, from
\* k bytes read to m, and from the one half to the other.
LEMMA StaysInStep ==
  ASSUME SlipTypeOK, QueueInv, CommentInv, Read, Byte # "END",
         dirt' = dirt, Clear <=> Clear',
         NEW f \in Seq(Bytes), NEW k \in Nat, NEW half \in BOOLEAN, InStep(f, k, half),
         NEW m \in Nat, NEW other \in BOOLEAN,
         \/ ~half /\ Byte # "ESC" /\ m = k + 1 /\ ~other
         \/ ~half /\ Byte = "ESC" /\ m = k /\ other
         \/ half /\ Byte \in Escapes /\ m = k + 1 /\ ~other,
         Clear /\ m = k + 1 /\ state = (IF half THEN "ESC" ELSE "OK") => Kept = f[m]
  PROVE  InStep(f, m, other)'
<1>1. /\ buffer \in [0 .. Size - 1 -> Bytes] /\ buffer_end \in 0 .. Size
      /\ state \in {"OK", "ESC", "RUBBISH", "COMMENT"} /\ dirt \in 0 .. 3 /\ Size \in Nat
  BY TypeIs
<1>2. CASE dirt = 3
  BY <1>2 DEF InStep
<1>3. CASE dirt # 3 /\ (Full \/ state = "COMMENT")
  <2>1. state' = "COMMENT" /\ buffer' = buffer
    BY <1>3, ByteIs
  <2>2. dirt = 0 => k >= Size /\ m >= Size
    BY <1>1, <1>3 DEF InStep, Full
  <2>3. dirt = 0 /\ Clear' => \A j \in 1 .. m : j <= Size => buffer'[j - 1] = f[j]
    <3> SUFFICES ASSUME dirt = 0, Clear, NEW j \in 1 .. m, j <= Size
                 PROVE  buffer[j - 1] = f[j]
      BY <2>1
    <3>1. j \in 1 .. k
      BY <1>1, <2>2
    <3> QED BY <3>1 DEF InStep
  <2> QED BY <2>1, <2>2, <2>3 DEF InStep
<1>4. CASE dirt # 3 /\ ~Full /\ state = "RUBBISH"
  <2>1. state' = "RUBBISH"
    BY <1>4, ByteIs
  <2>2. dirt = 2
    BY <1>1, <1>4 DEF InStep
  <2> QED BY <2>1, <2>2 DEF InStep
<1>5. CASE dirt # 3 /\ ~Full /\ state \in {"OK", "ESC"}
  <2>1. state = "ESC" <=> half
    BY <1>1, <1>5 DEF InStep
  <2>2. CASE m = k
    <3>1. ~half /\ Byte = "ESC" /\ other /\ state = "OK"
      BY <1>5, <2>1, <2>2
    <3>2. state' = "ESC" /\ buffer_end' = buffer_end /\ buffer' = buffer
      BY <1>5, <3>1, ByteIs
    <3> QED BY <1>5, <2>2, <3>1, <3>2 DEF InStep
  <2>3. CASE m # k
    <3>1. m = k + 1 /\ ~other /\ ((state = "OK" /\ Byte # "ESC") \/ (state = "ESC" /\ Byte \in Escapes))
      BY <1>5, <2>1, <2>3
    <3>2. state' = "OK" /\ buffer_end' = buffer_end + 1 /\ buffer' = [buffer EXCEPT ![buffer_end] = Kept]
      BY <1>5, <3>1, ByteIs
    <3>3. dirt = 0 => buffer_end = k
      BY <1>5 DEF InStep
    <3>4. dirt = 0 /\ Clear' => \A j \in 1 .. m : j <= Size => buffer'[j - 1] = f[j]
      <4> SUFFICES ASSUME dirt = 0, Clear, NEW j \in 1 .. m, j <= Size
                   PROVE  buffer'[j - 1] = f[j]
        OBVIOUS
      <4>1. Kept = f[m]
        <5>1. state = IF half THEN "ESC" ELSE "OK"
          BY <1>5, <2>1
        <5> QED BY <3>1, <5>1
      <4>2. j - 1 \in 0 .. Size - 1 /\ buffer_end = k
        BY <1>1, <3>3
      <4> HIDE DEF Kept
      <4>3. CASE j = m
        BY <1>1, <3>1, <3>2, <4>1, <4>2, <4>3
      <4>4. CASE j # m
        <5>1. j \in 1 .. k /\ j - 1 # buffer_end
          BY <3>1, <4>2, <4>4
        <5>2. buffer'[j - 1] = buffer[j - 1]
          BY <1>1, <3>2, <4>2, <5>1
        <5> QED BY <5>1, <5>2 DEF InStep
      <4> QED BY <4>3, <4>4
    <3> QED BY <3>1, <3>2, <3>3, <3>4 DEF InStep
  <2> QED BY <2>2, <2>3
<1> QED BY <1>1, <1>2, <1>3, <1>4, <1>5

\* Where the reader is in a sound frame, and what the next byte is.
LEMMA WhereIs ==
  ASSUME SlipTypeOK, QueueInv, HeadInv, wire # <<>>, wire[1].sound,
         NEW f \in Seq(Bytes), f = wire[1].f
  PROVE  \E k \in 0 .. Len(f), half \in BOOLEAN :
           /\ InStep(f, k, half) /\ (k = 0 /\ ~half => Boundary)
           /\ \/ AtEnd /\ Byte = "END" /\ k = Len(f) /\ ~half
              \/ /\ ~AtEnd /\ k < Len(f) /\ ~half /\ f[k + 1] \notin Special
                 /\ Byte = f[k + 1] /\ Tail(wire[1].rest) = Rest(f, k + 1, Escape)
              \/ /\ ~AtEnd /\ k < Len(f) /\ ~half /\ f[k + 1] \in Special
                 /\ Byte = "ESC" /\ Tail(wire[1].rest) = Half(f, k, Escape)
              \/ /\ ~AtEnd /\ k < Len(f) /\ half /\ f[k + 1] \in Special
                 /\ Byte = IF f[k + 1] = "END" THEN "ESC_END" ELSE Escape
                 /\ Tail(wire[1].rest) = Rest(f, k + 1, Escape)
<1> DEFINE r == wire[1].rest
<1>1. Byte = r[1] /\ (AtEnd <=> Len(r) = 1)
  BY HeadIs
<1>9. Len(r) # 1 => ~AtEnd
  BY <1>1
<1>10. Len(r) > 1 => Len(r) # 1
  <2> DEFINE n == Len(r)
  <2>1. n \in Nat
    BY HeadIs
  <2> HIDE DEF n
  <2>2. n > 1 => n # 1
    BY <2>1
  <2> QED BY <2>2 DEF n
<1>2. Reading(f, r)
  BY DEF HeadInv
<1> HIDE DEF r
<1>3. PICK k \in 0 .. Len(f), half \in BOOLEAN :
        /\ half => k < Len(f) /\ f[k + 1] \in Special
        /\ r = Left(f, k, half)
        /\ IF k = 0 /\ ~half THEN Boundary ELSE InStep(f, k, half)
  BY <1>2 DEF Reading
<1>4. InStep(f, k, half) /\ (k = 0 /\ ~half => Boundary)
  <2>1. CASE k = 0 /\ ~half
    BY <1>3, <2>1, StartsInStep
  <2> QED BY <1>3, <2>1
<1> DEFINE e == Escape
           End1 == AtEnd /\ Byte = "END" /\ k = Len(f) /\ ~half
           Plain1 == /\ ~AtEnd /\ k < Len(f) /\ ~half /\ f[k + 1] \notin Special
                     /\ Byte = f[k + 1] /\ Tail(r) = Rest(f, k + 1, e)
           First1 == /\ ~AtEnd /\ k < Len(f) /\ ~half /\ f[k + 1] \in Special
                     /\ Byte = "ESC" /\ Tail(r) = Half(f, k, e)
           Second1 == /\ ~AtEnd /\ k < Len(f) /\ half /\ f[k + 1] \in Special
                      /\ Byte = IF f[k + 1] = "END" THEN "ESC_END" ELSE e
                      /\ Tail(r) = Rest(f, k + 1, e)
<1>5. e \in Escapes
  BY EscapeIs
<1>6. r = IF half THEN Half(f, k, e) ELSE Rest(f, k, e)
  BY <1>3 DEF Left
<1> HIDE DEF e
<1>7. CASE k = Len(f)
  <2>1. ~half
    BY <1>3, <1>7
  <2>2. r = <<"END">>
    BY <1>5, <1>6, <1>7, <2>1, RestIs
  <2>3. r[1] = "END" /\ Len(r) = 1
    BY <2>2
  <2>4. End1
    BY <1>1, <1>7, <2>1, <2>3
  <2> QED BY <1>4, <2>4 DEF e, r
<1>8. CASE k # Len(f)
  <2>1. k < Len(f)
    BY <1>8
  <2>2. CASE ~half /\ f[k + 1] \notin Special
    <3>1. Len(r) > 1 /\ r[1] = f[k + 1] /\ Tail(r) = Rest(f, k + 1, e)
      BY <1>5, <1>6, <2>1, <2>2, NextByte
    <3>2. ~AtEnd
      <4>1. Len(r) # 1
        BY <3>1, <1>10
      <4> QED BY <1>9, <4>1
    <3>3. Plain1
      BY <1>1, <2>1, <2>2, <3>1, <3>2, Zenon
    <3> QED BY <1>4, <3>3 DEF e, r
  <2>3. CASE ~half /\ f[k + 1] \in Special
    <3>1. Len(r) > 1 /\ r[1] = "ESC" /\ Tail(r) = Half(f, k, e)
      BY <1>5, <1>6, <2>1, <2>3, NextByte
    <3>2. First1
      BY <1>1, <2>1, <2>3, <3>1
    <3> QED BY <1>4, <3>2 DEF e, r
  <2>4. CASE half
    <3>1. f[k + 1] \in Special
      BY <1>3, <2>4
    <3>2. /\ Len(r) > 1 /\ r[1] = IF f[k + 1] = "END" THEN "ESC_END" ELSE e
          /\ Tail(r) = Rest(f, k + 1, e)
      BY <1>5, <1>6, <2>1, <2>4, <3>1, NextByte
    <3>3. ~AtEnd
      <4>1. Len(r) # 1
        BY <3>2, <1>10
      <4> QED BY <1>9, <4>1
    <3>4. Second1
      BY <1>1, <2>1, <2>4, <3>1, <3>2, <3>3, Zenon
    <3> QED BY <1>4, <3>4 DEF e, r
  <2> QED BY <2>2, <2>3, <2>4
<1> QED BY <1>7, <1>8

\* In the middle of a sound frame the invariant of the frame at the front is kept.
LEMMA MidHead ==
  ASSUME SlipInv, Read, wire[1].sound, ~AtEnd
  PROVE  HeadInv' /\ Byte # "END"
<1> USE DEF SlipInv
<1>1. wire # <<>> /\ Take
  BY DEF Read, ReadOk, ReadEsc, ReadRubbish, ReadComment
<1>2. PICK f \in Seq(Bytes) : f = wire[1].f
  BY <1>1, HeadIs
<1>3. f \in Sends[writer] /\ writer \in DOMAIN Sends
  BY <1>1, <1>2, HeadIs, TypeIs
<1>4. /\ wire'[1].f = f /\ wire'[1].sound /\ wire' # <<>> /\ dirt' = dirt
      /\ wire'[1].rest = Tail(wire[1].rest)
  BY <1>1, <1>2, TakeMid
<1>5. Escape' = Escape /\ (Clear <=> Clear')
  BY <1>1, TakeQueue
<1>6. Escape \in Escapes /\ "END" \notin Escapes /\ "ESC" # "END"
  BY EscapeIs DEF Escapes
<1>7. PICK k \in 0 .. Len(f), half \in BOOLEAN :
        /\ InStep(f, k, half)
        /\ \/ AtEnd /\ Byte = "END" /\ k = Len(f) /\ ~half
           \/ /\ ~AtEnd /\ k < Len(f) /\ ~half /\ f[k + 1] \notin Special
              /\ Byte = f[k + 1] /\ Tail(wire[1].rest) = Rest(f, k + 1, Escape)
           \/ /\ ~AtEnd /\ k < Len(f) /\ ~half /\ f[k + 1] \in Special
              /\ Byte = "ESC" /\ Tail(wire[1].rest) = Half(f, k, Escape)
           \/ /\ ~AtEnd /\ k < Len(f) /\ half /\ f[k + 1] \in Special
              /\ Byte = IF f[k + 1] = "END" THEN "ESC_END" ELSE Escape
              /\ Tail(wire[1].rest) = Rest(f, k + 1, Escape)
  BY <1>1, <1>2, WhereIs
<1> DEFINE m1 == k + 1
<1>8. k \in Nat /\ m1 \in Nat /\ (k < Len(f) => m1 \in 0 .. Len(f) /\ m1 # 0)
  OBVIOUS
\* The new place of the reader.
<1>9. \E m \in 0 .. Len(f), other \in BOOLEAN :
        /\ Byte # "END"
        /\ other => m < Len(f) /\ f[m + 1] \in Special
        /\ Tail(wire[1].rest) = Left(f, m, other)
        /\ ~(m = 0 /\ ~other)
        /\ \/ ~half /\ Byte # "ESC" /\ m = k + 1 /\ ~other
           \/ ~half /\ Byte = "ESC" /\ m = k /\ other
           \/ half /\ Byte \in Escapes /\ m = k + 1 /\ ~other
        /\ Clear /\ m = k + 1 /\ state = (IF half THEN "ESC" ELSE "OK") => Kept = f[m]
  <2>1. CASE ~half /\ f[m1] \notin Special
    <3>1. Byte = f[m1] /\ Byte # "END" /\ Byte # "ESC"
      BY <1>7, <2>1 DEF Special
    <3>2. Tail(wire[1].rest) = Left(f, m1, FALSE) /\ k < Len(f)
      BY <1>7, <2>1, <3>1 DEF Left
    <3>3. state = (IF half THEN "ESC" ELSE "OK") => Kept = f[m1]
      BY <2>1, <3>1 DEF Kept
    <3> HIDE DEF m1
    <3>4. \/ ~half /\ Byte # "ESC" /\ m1 = k + 1 /\ ~FALSE
          \/ ~half /\ Byte = "ESC" /\ m1 = k /\ FALSE
          \/ half /\ Byte \in Escapes /\ m1 = k + 1 /\ ~FALSE
      BY <2>1, <3>1 DEF m1
    <3> QED BY <1>8, <3>1, <3>2, <3>3, <3>4
  <2>2. CASE ~half /\ f[m1] \in Special
    <3>1. Byte = "ESC" /\ Tail(wire[1].rest) = Half(f, k, Escape) /\ k < Len(f)
      BY <1>7, <2>2 DEF Special
    <3>2. Tail(wire[1].rest) = Left(f, k, TRUE)
      BY <3>1 DEF Left
    <3>3. k # k + 1
      BY <1>8
    <3> QED BY <1>6, <2>2, <3>1, <3>2, <3>3
  <2>3. CASE half
    <3>1. /\ Byte = IF f[m1] = "END" THEN "ESC_END" ELSE Escape
          /\ f[m1] \in Special /\ Tail(wire[1].rest) = Rest(f, m1, Escape) /\ k < Len(f)
      BY <1>7, <2>3
    <3>2. Tail(wire[1].rest) = Left(f, m1, FALSE)
      BY <3>1 DEF Left
    <3>3. Byte \in Escapes /\ Byte # "END"
      BY <1>6, <3>1 DEF Escapes
    <3>4. Clear /\ state = "ESC" => Kept = f[m1]
      <4> SUFFICES ASSUME Clear, state = "ESC" PROVE Kept = f[m1]
        OBVIOUS
      <4>1. CASE f[m1] = "END"
        BY <3>1, <4>1 DEF Kept
      <4>2. CASE f[m1] # "END"
        <5>1. f[m1] = "ESC" /\ m1 \in DOMAIN f
          BY <1>8, <3>1, <4>2 DEF Special
        <5>2. writer # "gateway"
          BY <1>3, <5>1 DEF Clear
        <5>3. Byte = "ESC_ESC"
          BY <3>1, <4>2, <5>2 DEF Escape
        <5> QED BY <5>1, <5>3 DEF Kept
      <4> QED BY <4>1, <4>2
    <3>5. m1 \in 0 .. Len(f) /\ m1 # 0
      BY <1>8, <3>1
    <3>6. m1 = k + 1
      OBVIOUS
    <3> HIDE DEF m1
    <3> QED BY <2>3, <3>2, <3>3, <3>4, <3>5, <3>6
  <2> QED BY <2>1, <2>2, <2>3
<1>10. PICK m \in 0 .. Len(f), other \in BOOLEAN :
        /\ Byte # "END"
        /\ other => m < Len(f) /\ f[m + 1] \in Special
        /\ Tail(wire[1].rest) = Left(f, m, other)
        /\ ~(m = 0 /\ ~other)
        /\ \/ ~half /\ Byte # "ESC" /\ m = k + 1 /\ ~other
           \/ ~half /\ Byte = "ESC" /\ m = k /\ other
           \/ half /\ Byte \in Escapes /\ m = k + 1 /\ ~other
        /\ Clear /\ m = k + 1 /\ state = (IF half THEN "ESC" ELSE "OK") => Kept = f[m]
  BY <1>9
<1>11. m \in Nat
  OBVIOUS
<1>12. InStep(f, m, other)'
  BY <1>4, <1>5, <1>7, <1>8, <1>10, <1>11, StaysInStep
<1>13. wire'[1].rest = Left(f, m, other)'
  BY <1>4, <1>5, <1>10 DEF Left
<1>14. Reading(wire[1].f, wire[1].rest)'
  BY <1>4, <1>10, <1>12, <1>13 DEF Reading
<1> QED BY <1>4, <1>10, <1>14 DEF HeadInv

\* At the END of a sound frame the reader has all of it.
LEMMA EndsInStep ==
  ASSUME SlipInv, wire # <<>>, wire[1].sound, AtEnd, NEW f \in Seq(Bytes), f = wire[1].f
  PROVE  /\ InStep(f, Len(f), FALSE) /\ (Len(f) = 0 => Boundary)
         /\ Byte = "END"
<1> PICK k \in 0 .. Len(f), half \in BOOLEAN :
      /\ InStep(f, k, half) /\ (k = 0 /\ ~half => Boundary)
      /\ AtEnd /\ Byte = "END" /\ k = Len(f) /\ ~half
  BY WhereIs DEF SlipInv
<1> QED OBVIOUS

\* At the END of a sound frame the reader is where the next one finds it.
LEMMA EndHead ==
  ASSUME SlipInv, Read, wire[1].sound, AtEnd
  PROVE  Boundary' /\ Byte = "END"
<1> USE DEF SlipInv
<1>1. wire # <<>> /\ Take
  BY DEF Read, ReadOk, ReadEsc, ReadRubbish, ReadComment
<1>2. PICK f \in Seq(Bytes) : f = wire[1].f
  BY <1>1, HeadIs
<1>3. Clear <=> Clear'
  BY <1>1, TakeQueue
<1>4. /\ InStep(f, Len(f), FALSE) /\ (Len(f) = 0 => Boundary)
      /\ Byte = "END"
  BY <1>1, <1>2, EndsInStep
<1>5. /\ dirt' = IF dirt > 0 THEN dirt - 1 ELSE 0
      /\ asked' = (asked \/ dirt > 0 \/ Promise!Asks(f))
  BY <1>1, <1>2, TakeEnd
<1>6. /\ buffer' = buffer /\ state' \in {"OK", "RUBBISH"}
      /\ state # "ESC" => state' = "OK"
      /\ state \in {"OK", "COMMENT"} => buffer_end' = 0
  BY <1>4, EndIs
<1>7. dirt \in 0 .. 3 /\ state \in {"OK", "ESC", "RUBBISH", "COMMENT"} /\ Size \in Nat /\ Size >= 2
  BY TypeIs
<1>8. (dirt <= 2 => state # "ESC") /\ (dirt <= 1 => state # "RUBBISH")
  BY <1>4 DEF InStep
<1>9. dirt' = 0 /\ ~asked' /\ Clear' => ~(buffer'[0] = "bang" /\ buffer'[1] = "S")
  <2> SUFFICES ASSUME dirt' = 0, ~asked', Clear PROVE ~(buffer[0] = "bang" /\ buffer[1] = "S")
    BY <1>3, <1>6
  <2>1. dirt = 0 /\ ~asked /\ ~Promise!Asks(f)
    <3>1. dirt = 0 \/ dirt > 0
      BY <1>7
    <3>2. ~asked /\ ~(dirt > 0) /\ ~Promise!Asks(f)
      BY <1>5, Zenon
    <3> QED BY <3>1, <3>2
  <2>2. CASE Len(f) = 0
    BY <1>4, <2>1, <2>2 DEF Boundary
  <2>3. CASE Len(f) # 0
    <3>1. \A j \in 1 .. Len(f) : j <= Size => buffer[j - 1] = f[j]
      BY <1>4, <2>1 DEF InStep
    <3>2. 1 \in 1 .. Len(f) /\ 1 - 1 = 0 /\ Len(f) \in Nat
      BY <2>3
    <3>3. buffer[0] = f[1]
      BY <1>7, <3>1, <3>2
    <3>4. CASE Len(f) = 1
      <4>1. f[1] = "bang" => f = <<"bang">>
        BY <3>4
      <4> QED BY <2>1, <3>3, <4>1 DEF Promise!Asks
    <3>5. CASE Len(f) # 1
      <4> DEFINE n == Len(f)
      <4>0. n \in Nat /\ n # 0 /\ n # 1
        BY <2>3, <3>2, <3>5
      <4> HIDE DEF n
      <4>3. 2 \in 1 .. n /\ n >= 2
        BY <4>0
      <4>1. 2 \in 1 .. Len(f) /\ Len(f) >= 2 /\ 2 - 1 = 1
        BY <4>3 DEF n
      <4>2. buffer[1] = f[2]
        BY <1>7, <3>1, <4>1
      <4> QED BY <2>1, <3>3, <4>1, <4>2 DEF Promise!Asks, Promise!Request
    <3> QED BY <3>4, <3>5
  <2> QED BY <2>2, <2>3
<1>10. /\ dirt' = 2 => state' \in {"OK", "RUBBISH"}
       /\ dirt' <= 1 => state' = "OK"
       /\ dirt' = 0 => buffer_end' = 0
  BY <1>5, <1>6, <1>7, <1>8
<1> QED BY <1>4, <1>9, <1>10 DEF Boundary

\* The frame that comes to the front is not begun.
LEMMA NextHead ==
  ASSUME SlipTypeOK, QueueInv, wire # <<>>, Take, AtEnd, Boundary'
  PROVE  HeadInv'
<1>1. /\ wire' \in Seq(Item) /\ Len(wire') = Len(wire) - 1
      /\ \A i \in 1 .. Len(wire) - 1 : wire'[i] = wire[i + 1]
  BY TakeEnd
<1>2. wire \in Seq(Item) /\ Len(wire) \in Nat
  BY TypeIs
<1>3. Escape' = Escape
  BY TakeQueue
<1>4. CASE wire' = <<>>
  BY <1>4 DEF HeadInv
<1>5. CASE wire' # <<>>
  <2>1. Len(wire') # 0
    BY <1>1, <1>5, EmptySeq
  <2>2. 1 \in 1 .. Len(wire) - 1 /\ 2 \in 1 .. Len(wire) /\ 1 + 1 = 2
    BY <1>1, <1>2, <2>1
  <2>3. wire'[1] = wire[2] /\ wire[2] \in Item /\ 2 \in DOMAIN wire /\ 2 > 1
    BY <1>1, <1>2, <2>2
  <2>4. wire[2].sound => wire[2].rest = Encode(wire[2].f)
    BY <2>3 DEF QueueInv
  <2>5. PICK f : f = wire[2].f
    OBVIOUS
  <2>6. f \in Seq(Bytes)
    BY <2>3, <2>5, SentAre DEF Item
  <2>7. Encode(f) = Rest(f, 0, Escape)
    BY <2>6, EncodeType
  <2>8. wire[2].sound => wire'[1].rest = Left(f, 0, FALSE)'
    BY <1>3, <2>3, <2>4, <2>5, <2>7 DEF Left
  <2>9. 0 \in 0 .. Len(f) /\ FALSE \in BOOLEAN
    BY <2>6
  <2>10. wire[2].sound => Reading(wire[1].f, wire[1].rest)'
    BY <2>3, <2>5, <2>8, <2>9 DEF Reading
  <2> QED BY <1>5, <2>3, <2>10 DEF HeadInv
<1> QED BY <1>4, <1>5

-----------------------------------------------------------------------------
(* The steps keep the invariant *)

LEMMA ReadSafe ==
  ASSUME SlipInv, Read
  PROVE  SlipInv'
<1>1. SlipTypeOK /\ QueueInv /\ CommentInv /\ HeadInv
  BY DEF SlipInv
<1>2. wire # <<>> /\ Take
  BY DEF Read, ReadOk, ReadEsc, ReadRubbish, ReadComment
<1>3. SlipTypeOK' /\ CommentInv' /\ QueueInv'
  BY <1>1, <1>2, ReadType, TakeQueue
<1>4. wire[1].sound \in BOOLEAN
  BY <1>1, <1>2, HeadIs
<1>5. HeadInv'
  <2>1. CASE AtEnd
    <3>1. Boundary'
      <4>1. CASE wire[1].sound = TRUE
        BY <2>1, <4>1, EndHead
      <4>2. CASE wire[1].sound = FALSE
        <5>1. dirt' = 3
          BY <1>1, <1>2, <2>1, <4>2, TakeEnd
        <5> QED BY <5>1 DEF Boundary
      <4> QED BY <1>4, <4>1, <4>2
    <3> QED BY <1>1, <1>2, <2>1, <3>1, NextHead
  <2>2. CASE ~AtEnd
    <3>1. CASE wire[1].sound = TRUE
      BY <2>2, <3>1, MidHead
    <3>2. CASE wire[1].sound = FALSE
      <4>1. wire'[1].sound = FALSE /\ wire' # <<>>
        BY <1>1, <1>2, <2>2, <3>2, TakeMid
      <4> QED BY <4>1 DEF HeadInv
    <3> QED BY <1>4, <3>1, <3>2
  <2> QED BY <2>1, <2>2
<1> QED BY <1>3, <1>5 DEF SlipInv

\* A frame that is written goes to the end of the line.
LEMMA WriteIs ==
  ASSUME SlipTypeOK, Write
  PROVE  \E f \in Sends[writer] :
           /\ f \in Sent /\ f \in Seq(Bytes)
           /\ wire' \in Seq(Item) /\ Len(wire') = Len(wire) + 1 /\ Len(wire) \in Nat
           /\ \A i \in 1 .. Len(wire) : wire'[i] = wire[i]
           /\ wire'[Len(wire) + 1] = [f |-> f, rest |-> Encode(f), sound |-> TRUE]
<1>1. PICK f \in Sends[writer] : wire' = Append(wire, [f |-> f, rest |-> Encode(f), sound |-> TRUE])
  BY DEF Write
<1>2. wire \in Seq(Item) /\ Len(wire) \in Nat /\ writer \in DOMAIN Sends
  BY TypeIs
<1>3. f \in Sent /\ f \in Seq(Bytes)
  BY <1>2, SendsAre
<1> DEFINE g == [f |-> f, rest |-> Encode(f), sound |-> TRUE]
<1>4. g \in Item
  BY <1>3, EncodeType DEF Item
<1> HIDE DEF g
<1>5. /\ Append(wire, g) \in Seq(Item) /\ Len(Append(wire, g)) = Len(wire) + 1
      /\ \A i \in 1 .. Len(wire) : Append(wire, g)[i] = wire[i]
      /\ Append(wire, g)[Len(wire) + 1] = g
  BY <1>2, <1>4, AppendProperties
<1>6. wire' = Append(wire, g)
  BY <1>1 DEF g
<1> QED BY <1>2, <1>3, <1>5, <1>6 DEF g

LEMMA WriteSafe ==
  ASSUME SlipInv, Write
  PROVE  SlipInv'
<1>1. SlipTypeOK /\ QueueInv /\ CommentInv /\ HeadInv
  BY DEF SlipInv
<1>2. PICK f \in Sends[writer] :
        /\ f \in Sent /\ f \in Seq(Bytes)
        /\ wire' \in Seq(Item) /\ Len(wire') = Len(wire) + 1 /\ Len(wire) \in Nat
        /\ \A i \in 1 .. Len(wire) : wire'[i] = wire[i]
        /\ wire'[Len(wire) + 1] = [f |-> f, rest |-> Encode(f), sound |-> TRUE]
  BY <1>1, WriteIs
<1>3. /\ written < MaxFrames /\ written' = written + 1
      /\ UNCHANGED <<buffer, buffer_end, state, out, writer, noise, dirt, asked>>
  BY DEF Write
<1> DEFINE n == Len(wire)
           g == [f |-> f, rest |-> Encode(f), sound |-> TRUE]
<1>4. wire \in Seq(Item) /\ n \in Nat
  BY <1>1, TypeIs
<1>5. Encode(f) # <<>> /\ Encode(f) = Rest(f, 0, Escape)
  BY <1>2, EncodeType
<1>6. Escape' = Escape /\ (Boundary => Boundary')
  BY <1>3 DEF Escape, Boundary, Clear
<1>7. g.f = f /\ g.rest = Encode(f) /\ g.sound = TRUE
  OBVIOUS
<1>8. wire'[n + 1] = g
  BY <1>2
<1> HIDE DEF g
<1>9. SlipTypeOK'
  <2>1. written' \in 0 .. MaxFrames
    BY <1>1, <1>3, SlipAssumption, TypeIs DEF SlipTypeOK
  <2> QED BY <1>1, <1>2, <1>3, <2>1 DEF SlipTypeOK, Item
<1>10. QueueInv'
  <2>1. ASSUME NEW i \in DOMAIN wire'
        PROVE  /\ wire'[i].rest # <<>> /\ wire'[i].f \in Sends[writer]
               /\ i > 1 /\ wire'[i].sound => wire'[i].rest = Encode(wire'[i].f)
    <3>1. i \in 1 .. n + 1
      BY <1>2
    <3>2. CASE i = n + 1
      BY <1>5, <1>7, <1>8, <3>2
    <3>3. CASE i # n + 1
      <4>1. i \in 1 .. n /\ i \in DOMAIN wire
        BY <1>4, <3>1, <3>3
      <4> QED BY <1>1, <1>2, <4>1 DEF QueueInv
    <3> QED BY <3>2, <3>3
  <2> QED BY <1>3, <2>1 DEF QueueInv, Encode
<1>11. CommentInv'
  BY <1>1, <1>3 DEF CommentInv
<1>12. HeadInv'
  <2>1. wire' # <<>>
    <3>1. Len(wire') # 0
      BY <1>2
    <3> QED BY <1>2, <3>1, EmptySeq
  <2>2. CASE wire = <<>>
    <3>1. n = 0 /\ Boundary
      BY <1>1, <2>2 DEF HeadInv
    <3>2. wire'[1].f = f /\ wire'[1].rest = Rest(f, 0, Escape)
      BY <1>5, <1>7, <1>8, <3>1
    <3>3. wire'[1].rest = Left(f, 0, FALSE)'
      BY <1>6, <3>2 DEF Left
    <3>4. 0 \in 0 .. Len(f) /\ FALSE \in BOOLEAN
      BY <1>2
    <3>5. Reading(wire[1].f, wire[1].rest)'
      BY <1>6, <3>1, <3>2, <3>3, <3>4 DEF Reading
    <3> QED BY <2>1, <3>5 DEF HeadInv
  <2>3. CASE wire # <<>>
    <3>1. n # 0
      BY <1>4, <2>3, EmptySeq
    <3>2. wire'[1] = wire[1]
      BY <1>2, <1>4, <3>1
    <3>3. wire[1].sound => Reading(wire[1].f, wire[1].rest)
      BY <1>1, <2>3 DEF HeadInv
    <3>4. Reading(wire[1].f, wire[1].rest) => Reading(wire[1].f, wire[1].rest)'
      BY <1>3, <1>6, <3>2 DEF Reading, Left, InStep, Boundary, Clear
    <3> QED BY <2>1, <3>2, <3>3, <3>4 DEF HeadInv
  <2> QED BY <2>2, <2>3
<1> QED BY <1>9, <1>10, <1>11, <1>12 DEF SlipInv

\* A frame with a byte changed or lost is not empty, and not sound.
LEMMA NoiseIs ==
  ASSUME SlipTypeOK, QueueInv, Noise
  PROVE  \E i \in DOMAIN wire, r \in Seq(Bytes) :
           /\ r # <<>>
           /\ wire' \in Seq(Item) /\ Len(wire') = Len(wire)
           /\ \A k \in DOMAIN wire : k # i => wire'[k] = wire[k]
           /\ wire'[i].f = wire[i].f /\ wire'[i].rest = r /\ wire'[i].sound = FALSE
<1>1. PICK i \in DOMAIN wire :
        LET r == wire[i].rest
        IN \E j \in DOMAIN r :
             \/ \E b \in Bytes \ {r[j]} : Hit(i, [r EXCEPT ![j] = b])
             \/ Len(r) > 1 /\ Hit(i, RemoveAt(r, j))
  BY DEF Noise
<1> DEFINE s == wire[i].rest
           n == Len(wire)
           h == wire[i]
<1>2. wire \in Seq(Item) /\ n \in Nat /\ i \in 1 .. n /\ h \in Item /\ wire \in [1 .. n -> Item]
  BY TypeIs
<1>3. s \in Seq(Bytes) /\ s # <<>>
  BY <1>2 DEF Item, QueueInv
<1>4. \E r \in Seq(Bytes) : r # <<>> /\ Hit(i, r)
  <2>1. PICK j \in DOMAIN s :
          \/ \E b \in Bytes \ {s[j]} : Hit(i, [s EXCEPT ![j] = b])
          \/ Len(s) > 1 /\ Hit(i, RemoveAt(s, j))
    BY <1>1
  <2> HIDE DEF s
  <2>2. Len(s) \in Nat /\ j \in 1 .. Len(s) /\ Len(s) # 0
    BY <1>3, EmptySeq
  <2>3. CASE \E b \in Bytes \ {s[j]} : Hit(i, [s EXCEPT ![j] = b])
    <3>1. PICK b \in Bytes : Hit(i, [s EXCEPT ![j] = b])
      BY <2>3
    <3> DEFINE t == [s EXCEPT ![j] = b]
    <3>2. t \in Seq(Bytes) /\ Len(t) = Len(s)
      BY <1>3, <2>2, ExceptSeq
    <3> HIDE DEF t
    <3>3. t # <<>>
      BY <2>2, <3>2, EmptySeq
    <3> QED BY <3>1, <3>2, <3>3 DEF t
  <2>4. CASE Len(s) > 1 /\ Hit(i, RemoveAt(s, j))
    <3> DEFINE t == RemoveAt(s, j)
    <3>1. t \in Seq(Bytes) /\ Len(t) = Len(s) - 1
      BY <1>3, <2>2, RemovedIs
    <3> HIDE DEF t
    <3>2. Len(t) # 0
      BY <2>2, <2>4, <3>1
    <3>3. t # <<>>
      BY <3>1, <3>2, EmptySeq
    <3> QED BY <2>4, <3>1, <3>3 DEF t
  <2> QED BY <2>1, <2>3, <2>4
<1>5. PICK r \in Seq(Bytes) : r # <<>> /\ Hit(i, r)
  BY <1>4
<1> DEFINE g == [h EXCEPT !.rest = r, !.sound = FALSE]
<1>6. wire' = [wire EXCEPT ![i] = g]
  BY <1>2, <1>5 DEF Hit
<1> HIDE DEF h
<1>7. g \in Item /\ g.f = h.f /\ g.rest = r /\ g.sound = FALSE
  BY <1>2 DEF Item
<1> HIDE DEF g, n
<1>8. wire' \in [1 .. n -> Item] /\ wire'[i] = g /\ \A k \in 1 .. n : k # i => wire'[k] = wire[k]
  BY <1>2, <1>6, <1>7
<1>9. wire' \in Seq(Item) /\ Len(wire') = n
  BY <1>2, <1>8
<1>10. DOMAIN wire = 1 .. n
  BY <1>2
<1> QED BY <1>2, <1>5, <1>7, <1>8, <1>9, <1>10 DEF h, n

LEMMA NoiseSafe ==
  ASSUME SlipInv, Noise
  PROVE  SlipInv'
<1>1. SlipTypeOK /\ QueueInv /\ CommentInv /\ HeadInv
  BY DEF SlipInv
<1>2. PICK i \in DOMAIN wire, r \in Seq(Bytes) :
        /\ r # <<>>
        /\ wire' \in Seq(Item) /\ Len(wire') = Len(wire)
        /\ \A k \in DOMAIN wire : k # i => wire'[k] = wire[k]
        /\ wire'[i].f = wire[i].f /\ wire'[i].rest = r /\ wire'[i].sound = FALSE
  BY <1>1, NoiseIs
<1>3. /\ noise < MaxNoise /\ noise' = noise + 1
      /\ UNCHANGED <<buffer, buffer_end, state, out, writer, written, dirt, asked>>
  BY DEF Noise
<1>4. wire \in Seq(Item) /\ DOMAIN wire = 1 .. Len(wire) /\ DOMAIN wire' = DOMAIN wire /\ Len(wire) \in Nat
  BY <1>1, <1>2, TypeIs
<1>5. Escape' = Escape
  BY <1>3 DEF Escape
<1>6. SlipTypeOK'
  <2>1. noise' \in 0 .. MaxNoise
    BY <1>1, <1>3, SlipAssumption, TypeIs DEF SlipTypeOK
  <2> QED BY <1>1, <1>2, <1>3, <2>1 DEF SlipTypeOK, Item
<1>7. QueueInv'
  <2>1. ASSUME NEW k \in DOMAIN wire'
        PROVE  /\ wire'[k].rest # <<>> /\ wire'[k].f \in Sends[writer]
               /\ k > 1 /\ wire'[k].sound => wire'[k].rest = Encode(wire'[k].f)
    BY <1>1, <1>2, <1>4, <2>1 DEF QueueInv
  <2> QED BY <1>3, <2>1 DEF QueueInv, Encode
<1>8. CommentInv'
  BY <1>1, <1>3 DEF CommentInv
<1>9. HeadInv'
  <2>1. wire # <<>> /\ wire' # <<>> /\ 1 \in DOMAIN wire
    <3>1. Len(wire) # 0
      BY <1>4
    <3> QED BY <1>2, <1>4, <3>1, EmptySeq
  <2>2. CASE i = 1
    BY <1>2, <2>1, <2>2 DEF HeadInv
  <2>3. CASE i # 1
    <3>1. wire'[1] = wire[1]
      BY <1>2, <2>1, <2>3
    <3>2. wire[1].sound => Reading(wire[1].f, wire[1].rest)
      BY <1>1, <2>1 DEF HeadInv
    <3>3. Reading(wire[1].f, wire[1].rest) => Reading(wire[1].f, wire[1].rest)'
      BY <1>3, <1>5, <3>1 DEF Reading, Left, InStep, Boundary, Clear
    <3> QED BY <2>1, <3>1, <3>2, <3>3 DEF HeadInv
  <2> QED BY <2>2, <2>3
<1> QED BY <1>6, <1>7, <1>8, <1>9 DEF SlipInv

LEMMA NoneType == Promise!None \in [kind : {"none", "reply", "packet"}, frame : Seq(Bytes)]
<1>1. <<>> \in Seq(Bytes)
  OBVIOUS
<1> QED BY <1>1 DEF Promise!None

\* The line may be opened in the middle of a frame.
LEMMA OpensIs ==
  ASSUME Init, wire # <<>>
  PROVE  \E f \in Sends[writer], r \in Seq(Bytes) :
           /\ f \in Sent /\ r # <<>>
           /\ wire = <<[f |-> f, rest |-> r, sound |-> FALSE]>>
<1>0. PICK f \in Sends[writer] : \E n \in 2 .. Len(Encode(f)) :
        wire = <<[f |-> f, rest |-> SubSeq(Encode(f), n, Len(Encode(f))), sound |-> FALSE]>>
  BY DEF Init
<1>1. PICK n \in 2 .. Len(Encode(f)) :
        wire = <<[f |-> f, rest |-> SubSeq(Encode(f), n, Len(Encode(f))), sound |-> FALSE]>>
  BY <1>0
<1>2. f \in Sent /\ f \in Seq(Bytes)
  BY SendsAre DEF Init
<1> DEFINE e == Encode(f)
           r == SubSeq(e, n, Len(e))
<1>3. e \in Seq(Bytes)
  BY <1>2, EncodeType
<1> HIDE DEF e
<1>4. Len(e) \in Nat /\ n \in Int /\ n <= Len(e) /\ 2 <= n /\ \A i \in n .. Len(e) : e[i] \in Bytes
  BY <1>3 DEF e
<1>5. r \in Seq(Bytes) /\ Len(r) = Len(e) - n + 1
  BY <1>4, SubSeqProperties
<1> HIDE DEF r
<1>6. Len(r) # 0
  BY <1>4, <1>5
<1>7. r # <<>>
  BY <1>5, <1>6, EmptySeq
<1>8. wire = <<[f |-> f, rest |-> r, sound |-> FALSE]>>
  BY <1>1 DEF r, e
<1> QED BY <1>2, <1>5, <1>7, <1>8

LEMMA InitSafe ==
  ASSUME Init
  PROVE  SlipInv
<1>1. /\ buffer = [i \in 0 .. Size - 1 |-> "nul"] /\ buffer_end = 0 /\ state = "OK"
      /\ out = Promise!None /\ writer \in DOMAIN Sends /\ written = 0 /\ noise = 0
      /\ dirt = 0 /\ asked = FALSE
  BY DEF Init
<1>2. Size \in Nat /\ Size >= 2 /\ MaxFrames \in Nat /\ MaxNoise \in Nat
  BY SlipAssumption
<1>3. buffer \in [0 .. Size - 1 -> Bytes] /\ buffer[0] = "nul"
  BY <1>1, <1>2 DEF Bytes
<1>4. Boundary
  BY <1>1, <1>3 DEF Boundary
<1>5. wire \in Seq(Item) /\ QueueInv /\ HeadInv
  <2>1. CASE wire = <<>>
    BY <1>4, <2>1 DEF QueueInv, HeadInv
  <2>2. CASE wire # <<>>
    <3>1. PICK f \in Sends[writer], r \in Seq(Bytes) :
            f \in Sent /\ r # <<>> /\ wire = <<[f |-> f, rest |-> r, sound |-> FALSE]>>
      BY <2>2, OpensIs
    <3> DEFINE g == [f |-> f, rest |-> r, sound |-> FALSE]
    <3>2. g \in Item /\ g.f = f /\ g.rest = r /\ g.sound = FALSE
      BY <3>1 DEF Item
    <3> HIDE DEF g
    <3>3. wire = <<g>>
      BY <3>1 DEF g
    <3>4. wire \in Seq(Item) /\ DOMAIN wire = {1} /\ wire[1] = g
      BY <3>2, <3>3
    <3>5. QueueInv
      BY <3>1, <3>2, <3>4 DEF QueueInv
    <3>6. HeadInv
      BY <2>2, <3>2, <3>4 DEF HeadInv
    <3> QED BY <3>4, <3>5, <3>6
  <2> QED BY <2>1, <2>2
<1>6. SlipTypeOK
  <2>1. written \in 0 .. MaxFrames /\ noise \in 0 .. MaxNoise /\ buffer_end \in 0 .. Size
    BY <1>1, <1>2
  <2>2. out \in [kind : {"none", "reply", "packet"}, frame : Seq(Bytes)]
    BY <1>1, NoneType
  <2>3. state \in {"OK", "ESC", "RUBBISH", "COMMENT"} /\ dirt \in 0 .. 3 /\ asked \in BOOLEAN
    <3>1. dirt \in 0 .. 3
      BY <1>1
    <3>2. state \in {"OK", "ESC", "RUBBISH", "COMMENT"}
      BY <1>1
    <3>3. asked \in BOOLEAN
      BY <1>1
    <3> QED BY <3>1, <3>2, <3>3
  <2>4. writer \in DOMAIN Sends /\ wire \in Seq([f : Sent, rest : Seq(Bytes), sound : BOOLEAN])
    BY <1>1, <1>5 DEF Item
  <2> QED BY <1>3, <2>1, <2>2, <2>3, <2>4 DEF SlipTypeOK, Promise!Reach
<1>7. CommentInv
  BY <1>1 DEF CommentInv
<1> QED BY <1>5, <1>6, <1>7 DEF SlipInv

LEMMA StutterSafe ==
  ASSUME SlipInv, UNCHANGED vars
  PROVE  SlipInv'
<1>1. /\ buffer' = buffer /\ buffer_end' = buffer_end /\ state' = state /\ out' = out
      /\ wire' = wire /\ writer' = writer /\ written' = written /\ noise' = noise
      /\ dirt' = dirt /\ asked' = asked
  BY DEF vars, linevars
<1>2. SlipTypeOK' /\ QueueInv' /\ CommentInv'
  BY <1>1 DEF SlipInv, SlipTypeOK, QueueInv, CommentInv, Encode, Promise!Reach
<1>3. HeadInv'
  BY <1>1 DEF SlipInv, HeadInv, Reading, Left, InStep, Boundary, Clear, Escape
<1> QED BY <1>2, <1>3 DEF SlipInv

THEOREM SlipSafe == Spec => []SlipInv
<1>1. Init => SlipInv
  BY InitSafe
<1>2. SlipInv /\ [Next]_vars => SlipInv'
  <2> SUFFICES ASSUME SlipInv, [Next]_vars PROVE SlipInv'
    OBVIOUS
  <2>1. CASE Write
    BY <2>1, WriteSafe
  <2>2. CASE Noise
    BY <2>2, NoiseSafe
  <2>3. CASE Read
    BY <2>3, ReadSafe
  <2>4. CASE UNCHANGED vars
    BY <2>4, StutterSafe
  <2> QED BY <2>1, <2>2, <2>3, <2>4 DEF Next
<1> QED BY <1>1, <1>2, PTL DEF Spec

\* The reader of tty_readable_cb never writes outside its buffer, whatever comes.
THEOREM SlipTypeCorrect == Spec => []SlipTypeOK
<1>1. SlipInv => SlipTypeOK
  BY DEF SlipInv
<1> QED BY <1>1, SlipSafe, PTL

\* Three frames after the last damaged one, tty_readable_cb is in step again:
\* a sound frame that is not begun finds it at a frame's start, the buffer empty.
THEOREM Resynchronises == Spec => []Resynchronised
<1>1. SlipInv => Resynchronised
  <2> SUFFICES ASSUME SlipInv, dirt = 0,
                      wire = <<>> \/ (Head(wire).sound /\ Head(wire).rest = Encode(Head(wire).f))
               PROVE  state = "OK" /\ buffer_end = 0
    BY DEF Resynchronised
  <2>1. SlipTypeOK /\ QueueInv /\ HeadInv
    BY DEF SlipInv
  <2>2. Boundary
    <3>1. CASE wire = <<>>
      BY <2>1, <3>1 DEF HeadInv
    <3>2. CASE wire # <<>>
      <4>1. wire[1].sound /\ wire[1].rest = Encode(wire[1].f) /\ wire[1].f \in Seq(Bytes)
        BY <2>1, <3>2, HeadIs
      <4>2. PICK f \in Seq(Bytes) : f = wire[1].f
        BY <4>1
      <4>3. Reading(f, Encode(f))
        BY <2>1, <3>2, <4>1, <4>2 DEF HeadInv
      <4>4. PICK k \in 0 .. Len(f), half \in BOOLEAN :
              /\ half => k < Len(f) /\ f[k + 1] \in Special
              /\ Encode(f) = Left(f, k, half)
              /\ IF k = 0 /\ ~half THEN Boundary ELSE InStep(f, k, half)
        BY <4>3 DEF Reading
      <4> DEFINE e == Escape
      <4>5. e \in Escapes /\ Encode(f) = Enc(f, e)
        BY EscapeIs, EncodeIs
      <4>6. Enc(f, e) = IF half THEN Half(f, k, e) ELSE Rest(f, k, e)
        BY <4>4, <4>5 DEF Left
      <4> HIDE DEF e
      <4>7. /\ Len(Rest(f, k, e)) + k <= Len(Enc(f, e)) /\ Len(Enc(f, e)) \in Nat
            /\ k < Len(f) /\ f[k + 1] \in Special => Len(Half(f, k, e)) < Len(Enc(f, e))
        BY <4>5, RestShorter, EncIs
      <4>8. ~half
        <5> SUFFICES ASSUME half PROVE FALSE
          OBVIOUS
        <5>1. Enc(f, e) = Half(f, k, e) /\ Len(Half(f, k, e)) < Len(Enc(f, e))
          BY <4>4, <4>6, <4>7
        <5> QED BY <4>7, <5>1
      <4>9. k = 0
        <5>1. Rest(f, k, e) = Enc(f, e)
          BY <4>6, <4>8
        <5> QED BY <4>7, <5>1
      <4> QED BY <4>4, <4>8, <4>9
    <3> QED BY <3>1, <3>2
  <2> QED BY <2>2 DEF Boundary
<1> QED BY <1>1, SlipSafe, PTL

-----------------------------------------------------------------------------
(* The reader keeps the promise of the line *)

Seen(g) == [f |-> g.f, sound |-> g.sound]
Queue   == [i \in DOMAIN wire |-> Seen(wire[i])]
Frame   == [f : Sent, sound : BOOLEAN]

LEMMA SeenType ==
  ASSUME NEW g \in Item
  PROVE  Seen(g) \in Frame /\ Seen(g).f = g.f /\ Seen(g).sound = g.sound
  BY DEF Seen, Item, Frame

LEMMA QueueIs ==
  ASSUME wire \in Seq(Item)
  PROVE  /\ Queue \in Seq(Frame) /\ Len(Queue) = Len(wire)
         /\ \A i \in 1 .. Len(wire) : Queue[i] = Seen(wire[i])
         /\ DOMAIN Queue = DOMAIN wire
<1>1. Len(wire) \in Nat /\ DOMAIN wire = 1 .. Len(wire) /\ \A i \in 1 .. Len(wire) : wire[i] \in Item
  OBVIOUS
<1>2. \A i \in 1 .. Len(wire) : Seen(wire[i]) \in Frame
  BY <1>1, SeenType
<1>3. Queue = [i \in 1 .. Len(wire) |-> Seen(wire[i])]
  BY <1>1 DEF Queue
<1> QED BY <1>1, <1>2, <1>3

LEMMA QueueNext ==
  ASSUME wire' \in Seq(Item)
  PROVE  /\ Queue' \in Seq(Frame) /\ Len(Queue') = Len(wire')
         /\ \A i \in 1 .. Len(wire') : Queue'[i] = Seen(wire'[i])
<1>1. /\ Len(wire') \in Nat /\ DOMAIN (wire') = 1 .. Len(wire')
      /\ \A i \in 1 .. Len(wire') : wire'[i] \in Item
  OBVIOUS
<1>2. \A i \in 1 .. Len(wire') : Seen(wire'[i]) \in Frame
  BY <1>1, SeenType
<1>3. Queue' = [i \in 1 .. Len(wire') |-> Seen(wire'[i])]
  BY <1>1 DEF Queue
<1> QED BY <1>1, <1>2, <1>3

LEMMA SendsOnLine ==
  ASSUME SlipInv, Write
  PROVE  \E f \in Sent : Queue' = Append(Queue, [f |-> f, sound |-> TRUE])
<1>1. PICK f \in Sends[writer] :
        /\ f \in Sent
        /\ wire' \in Seq(Item) /\ Len(wire') = Len(wire) + 1 /\ Len(wire) \in Nat
        /\ \A i \in 1 .. Len(wire) : wire'[i] = wire[i]
        /\ wire'[Len(wire) + 1] = [f |-> f, rest |-> Encode(f), sound |-> TRUE]
  BY WriteIs DEF SlipInv
<1> DEFINE n == Len(wire)
           g == [f |-> f, sound |-> TRUE]
           a == Append(Queue, g)
           b == Queue'
<1>2. n \in Nat /\ wire \in Seq(Item)
  BY TypeIs DEF SlipInv
<1>3. g \in Frame
  BY <1>1 DEF Frame
<1>4. Queue \in Seq(Frame) /\ Len(Queue) = n /\ \A i \in 1 .. n : Queue[i] = Seen(wire[i])
  BY <1>2, QueueIs
<1>5. b \in Seq(Frame) /\ Len(b) = n + 1 /\ \A i \in 1 .. n + 1 : b[i] = Seen(wire'[i])
  BY <1>1, QueueNext
<1>6. Seen(wire'[n + 1]) = g
  BY <1>1 DEF Seen
<1> HIDE DEF g
<1>7. a \in Seq(Frame) /\ Len(a) = n + 1 /\ a[n + 1] = g /\ \A i \in 1 .. n : a[i] = Queue[i]
  BY <1>3, <1>4, AppendProperties
<1>8. ASSUME NEW i \in 1 .. n + 1 PROVE a[i] = b[i]
  <2>1. CASE i = n + 1
    BY <1>5, <1>6, <1>7, <2>1
  <2>2. CASE i # n + 1
    <3>1. i \in 1 .. n
      BY <1>2, <2>2
    <3>2. wire'[i] = wire[i]
      BY <1>1, <3>1
    <3> QED BY <1>4, <1>5, <1>7, <3>1, <3>2
  <2> QED BY <2>1, <2>2
<1> HIDE DEF a, b
<1>9. a = b
  BY <1>5, <1>7, <1>8, SeqEqual
<1> QED BY <1>1, <1>9 DEF a, b, g

LEMMA DamagesOnLine ==
  ASSUME SlipInv, Noise
  PROVE  \E i \in DOMAIN Queue : Queue' = [Queue EXCEPT ![i].sound = FALSE]
<1>1. SlipTypeOK /\ QueueInv /\ wire \in Seq(Item)
  BY TypeIs DEF SlipInv
<1>2. PICK i \in DOMAIN wire, r \in Seq(Bytes) :
        /\ wire' \in Seq(Item) /\ Len(wire') = Len(wire)
        /\ \A k \in DOMAIN wire : k # i => wire'[k] = wire[k]
        /\ wire'[i].f = wire[i].f /\ wire'[i].sound = FALSE
  BY <1>1, NoiseIs
<1> DEFINE n == Len(wire)
           q == Queue
           b == Queue'
           h == [q[i] EXCEPT !.sound = FALSE]
           a == [q EXCEPT ![i] = h]
<1>3. n \in Nat /\ DOMAIN wire = 1 .. n /\ i \in 1 .. n
  BY <1>1, <1>2
<1>4. q \in Seq(Frame) /\ Len(q) = n /\ DOMAIN q = 1 .. n /\ \A k \in 1 .. n : q[k] = Seen(wire[k])
  BY <1>1, <1>3, QueueIs
<1>5. b \in Seq(Frame) /\ Len(b) = n /\ \A k \in 1 .. n : b[k] = Seen(wire'[k])
  BY <1>2, QueueNext
<1>6. [q EXCEPT ![i].sound = FALSE] = a
  OBVIOUS
<1>7. b[i] = [f |-> wire[i].f, sound |-> FALSE]
  BY <1>2, <1>3, <1>5 DEF Seen
<1>8. q[i] = [f |-> wire[i].f, sound |-> wire[i].sound] /\ q[i] \in Frame
  BY <1>3, <1>4 DEF Seen
<1> HIDE DEF b, q
<1>9. h = [f |-> wire[i].f, sound |-> FALSE] /\ h \in Frame
  <2> DEFINE x == q[i]
             u == wire[i].f
             v == wire[i].sound
  <2>1. x = [f |-> u, sound |-> v] /\ x \in Frame
    BY <1>8
  <2> HIDE DEF x, u, v
  <2>2. u \in Sent
    BY <2>1 DEF Frame
  <2>3. [x EXCEPT !.sound = FALSE] = [f |-> u, sound |-> FALSE]
    <3> DEFINE y == [x EXCEPT !.sound = FALSE]
    <3>1. x.f = u
      BY <2>1
    <3>2. y \in Frame /\ y.f = x.f /\ y.sound = FALSE
      BY <2>1 DEF Frame
    <3> HIDE DEF y
    <3>3. y = [f |-> y.f, sound |-> y.sound]
      BY <3>2 DEF Frame
    <3> QED BY <3>1, <3>2, <3>3 DEF y
  <2>4. [f |-> u, sound |-> FALSE] \in Frame
    BY <2>2 DEF Frame
  <2> QED BY <2>3, <2>4 DEF x, u, v
<1> HIDE DEF h
<1>10. a \in Seq(Frame) /\ Len(a) = n /\ \A k \in 1 .. n : a[k] = IF k = i THEN h ELSE q[k]
  BY <1>3, <1>4, <1>9, ExceptSeq
<1> HIDE DEF a
<1>11. ASSUME NEW k \in 1 .. n PROVE a[k] = b[k]
  <2>1. CASE k = i
    BY <1>7, <1>9, <1>10, <2>1
  <2>2. CASE k # i
    <3>1. wire'[k] = wire[k]
      BY <1>2, <1>3, <2>2
    <3> QED BY <1>4, <1>5, <1>10, <2>2, <3>1
  <2> QED BY <2>1, <2>2
<1>12. a = b
  BY <1>5, <1>10, <1>11, SeqEqual
<1>13. i \in DOMAIN q
  BY <1>3, <1>4
<1> QED BY <1>6, <1>12, <1>13 DEF b, q

LEMMA TakesOnLine ==
  ASSUME SlipInv, Read
  PROVE  /\ Queue # <<>> /\ Head(Queue).f = wire[1].f /\ Head(Queue).sound = wire[1].sound
         /\ Queue' = IF AtEnd THEN Tail(Queue) ELSE Queue
<1>1. SlipTypeOK /\ QueueInv /\ wire \in Seq(Item) /\ wire # <<>> /\ Take
  BY TypeIs DEF SlipInv, Read, ReadOk, ReadEsc, ReadRubbish, ReadComment
<1> DEFINE n == Len(wire)
           q == Queue
           b == Queue'
<1>2. n \in Nat /\ n >= 1 /\ wire[1] \in Item
  BY <1>1, HeadIs
<1>3. q \in Seq(Frame) /\ Len(q) = n /\ \A k \in 1 .. n : q[k] = Seen(wire[k])
  BY <1>1, QueueIs
<1>4. q # <<>> /\ Head(q) = Seen(wire[1])
  <2> HIDE DEF q
  <2>1. q # <<>>
    BY <1>2, <1>3, EmptySeq
  <2> QED BY <1>2, <1>3, <2>1
<1>5. Head(q).f = wire[1].f /\ Head(q).sound = wire[1].sound
  BY <1>2, <1>4, SeenType
<1>6. CASE AtEnd
  <2>1. wire' \in Seq(Item) /\ Len(wire') = n - 1 /\ \A k \in 1 .. n - 1 : wire'[k] = wire[k + 1]
    BY <1>1, <1>6, TakeEnd
  <2>2. b \in Seq(Frame) /\ Len(b) = n - 1 /\ \A k \in 1 .. n - 1 : b[k] = Seen(wire'[k])
    BY <2>1, QueueNext
  <2> DEFINE a == Tail(q)
  <2> HIDE DEF q, b
  <2>3. a \in Seq(Frame) /\ Len(a) = n - 1 /\ \A k \in 1 .. n - 1 : a[k] = q[k + 1]
    BY <1>3, <1>4, HeadTailProperties
  <2> HIDE DEF a
  <2>4. ASSUME NEW k \in 1 .. n - 1 PROVE a[k] = b[k]
    <3>1. k + 1 \in 1 .. n
      BY <1>2
    <3> QED BY <1>3, <2>1, <2>2, <2>3, <3>1
  <2>5. a = b
    BY <2>2, <2>3, <2>4, SeqEqual
  <2> QED BY <1>4, <1>5, <1>6, <2>5 DEF q, a, b
<1>7. CASE ~AtEnd
  <2>1. /\ wire' \in Seq(Item) /\ Len(wire') = n
        /\ wire'[1].f = wire[1].f /\ wire'[1].sound = wire[1].sound
        /\ \A k \in 2 .. n : wire'[k] = wire[k]
    BY <1>1, <1>7, TakeMid
  <2>2. b \in Seq(Frame) /\ Len(b) = n /\ \A k \in 1 .. n : b[k] = Seen(wire'[k])
    BY <2>1, QueueNext
  <2>3. Seen(wire'[1]) = Seen(wire[1])
    BY <2>1 DEF Seen
  <2> HIDE DEF q, b
  <2>4. ASSUME NEW k \in 1 .. n PROVE q[k] = b[k]
    <3>1. CASE k = 1
      BY <1>3, <2>2, <2>3, <3>1
    <3>2. CASE k # 1
      <4>1. k \in 2 .. n
        BY <1>2, <3>2
      <4> QED BY <1>3, <2>1, <2>2, <4>1
    <3> QED BY <3>1, <3>2
  <2>5. q = b
    BY <1>3, <2>2, <2>4, SeqEqual
  <2> QED BY <1>4, <1>5, <1>7, <2>5 DEF q, b
<1> QED BY <1>6, <1>7

\* The END of a sound frame that nothing before it disturbs gives what it should.
LEMMA OutIs ==
  ASSUME SlipInv, Read, Clear, AtEnd, wire[1].sound, dirt = 0,
         NEW f \in Seq(Bytes), f = wire[1].f
  PROVE  out' \in Promise!Outcome(f)
<1>1. SlipTypeOK /\ QueueInv /\ CommentInv /\ wire # <<>>
  BY DEF SlipInv, Read, ReadOk, ReadEsc, ReadRubbish, ReadComment
<1>2. InStep(f, Len(f), FALSE) /\ (Len(f) = 0 => Boundary) /\ Byte = "END"
  BY <1>1, EndsInStep
<1>3. /\ state = "OK" /\ ~Full => out' = Handled
      /\ state = "COMMENT" \/ Full => out' = Promise!None
  BY <1>1, <1>2, EndIs
<1>4. state \in {"OK", "COMMENT"} /\ Size \in Nat /\ Size >= 2 /\ asked \in BOOLEAN /\ Len(f) \in Nat
  BY <1>1, <1>2, TypeIs DEF InStep
<1>5. /\ state = "COMMENT" => Len(f) >= Size
      /\ state = "OK" => buffer_end = Len(f)
      /\ \A j \in 1 .. Len(f) : j <= Size => buffer[j - 1] = f[j]
  BY <1>2, <1>4 DEF InStep
<1>6. CASE Len(f) >= Size
  <2>1. state = "COMMENT" \/ Full
    BY <1>4, <1>5, <1>6 DEF Full
  <2> QED BY <1>3, <1>6, <2>1 DEF Promise!Outcome
<1>7. CASE ~(Len(f) >= Size)
  <2>1. state = "OK" /\ ~Full /\ buffer_end = Len(f)
    BY <1>4, <1>5, <1>7 DEF Full
  <2>2. out' = Handled
    BY <1>3, <2>1
  <2>3. CASE f = <<>>
    <3>1. Len(f) = 0 /\ Boundary
      BY <1>2, <2>3
    <3>2. ~asked => ~(buffer[0] = "bang" /\ buffer[1] = "S")
      BY <3>1 DEF Boundary
    <3>3. ~(buffer_end > 0)
      BY <2>1, <3>1
    <3>4. Promise!Outcome(f) = IF asked THEN {Promise!None, Promise!Reply} ELSE {Promise!None}
      BY <1>7, <2>3 DEF Promise!Outcome
    <3>5. Handled = IF buffer[0] = "bang" /\ buffer[1] = "S" THEN Promise!Reply ELSE Promise!None
      BY <3>3 DEF Handled
    <3> QED BY <1>4, <2>2, <3>2, <3>4, <3>5
  <2>4. CASE f # <<>>
    <3>1. Len(f) # 0 /\ 1 \in 1 .. Len(f) /\ 1 <= Size /\ 1 - 1 = 0
      BY <1>4, <2>4, EmptySeq
    <3>2. buffer[0] = f[1] /\ buffer_end > 0
      BY <1>4, <1>5, <2>1, <3>1
    <3>3. Len(f) >= 2 => buffer[1] = f[2]
      <4> SUFFICES ASSUME Len(f) >= 2 PROVE buffer[1] = f[2]
        OBVIOUS
      <4>1. 2 \in 1 .. Len(f) /\ 2 <= Size /\ 2 - 1 = 1
        BY <1>4
      <4> QED BY <1>5, <4>1
    <3>4. Promise!Outcome(f) = IF f[1] = "tick" THEN {Promise!Packet(f)}
                               ELSE IF f = <<"bang">> THEN {Promise!None, Promise!Reply}
                               ELSE IF Promise!Request(f) THEN {Promise!Reply} ELSE {Promise!None}
      BY <1>7, <2>4 DEF Promise!Outcome
    <3>5. CASE f[1] = "tick"
      <4> DEFINE q == [i \in 1 .. buffer_end |-> buffer[i - 1]]
      <4>1. Handled = Promise!Packet(q)
        BY <3>2, <3>5 DEF Handled
      <4>2. \A i \in 1 .. Len(f) : i <= Size
        BY <1>4, <1>7
      <4>3. \A i \in 1 .. Len(f) : buffer[i - 1] = f[i]
        BY <1>5, <4>2
      <4>4. q = [i \in 1 .. Len(f) |-> f[i]]
        BY <2>1, <4>3
      <4>5. q = f
        <5>1. f = [i \in 1 .. Len(f) |-> f[i]]
          OBVIOUS
        <5> QED BY <4>4, <5>1
      <4> HIDE DEF q
      <4> QED BY <2>2, <3>4, <3>5, <4>1, <4>5
    <3>6. CASE f[1] # "tick" /\ f = <<"bang">>
      <4>1. Handled \in {Promise!None, Promise!Reply}
        BY <3>2, <3>6 DEF Handled
      <4> QED BY <2>2, <3>4, <3>6, <4>1
    <3>7. CASE f[1] # "tick" /\ f # <<"bang">>
      <4>1. f[1] = "bang" => Len(f) >= 2
        <5>1. f[1] = "bang" /\ Len(f) = 1 => f = <<"bang">>
          OBVIOUS
        <5> DEFINE n == Len(f)
        <5>2. n \in Nat /\ n # 0
          BY <1>4, <3>1
        <5>3. f[1] = "bang" => n # 1
          BY <3>7, <5>1
        <5> HIDE DEF n
        <5>4. n # 1 => n >= 2
          BY <5>2
        <5> QED BY <5>3, <5>4 DEF n
      <4>2. Promise!Request(f) <=> buffer[0] = "bang" /\ buffer[1] = "S"
        BY <3>2, <3>3, <4>1 DEF Promise!Request
      <4>3. Handled = IF Promise!Request(f) THEN Promise!Reply ELSE Promise!None
        BY <3>2, <3>7, <4>2 DEF Handled
      <4> QED BY <2>2, <3>4, <3>7, <4>3
    <3> QED BY <3>5, <3>6, <3>7
  <2> QED BY <2>3, <2>4
<1> QED BY <1>6, <1>7

\* Every byte that is read is a step of the line, or none.
LEMMA ReadOnLine ==
  ASSUME SlipInv, SlipInv', Read, Clear
  PROVE  \/ Promise!LDeliver \/ Promise!LSuffer \/ Promise!LJunk
         \/ Queue' = Queue /\ dirt' = dirt /\ asked' = asked /\ out' = out
<1>1. SlipTypeOK /\ QueueInv /\ CommentInv /\ wire # <<>> /\ Take
  BY DEF SlipInv, Read, ReadOk, ReadEsc, ReadRubbish, ReadComment
<1>2. /\ Queue # <<>> /\ Head(Queue).f = wire[1].f /\ Head(Queue).sound = wire[1].sound
      /\ Queue' = IF AtEnd THEN Tail(Queue) ELSE Queue
  BY TakesOnLine
<1>3. Queue = [i \in DOMAIN wire |-> [f |-> wire[i].f, sound |-> wire[i].sound]]
  BY DEF Queue, Seen
<1>4. Queue' = [i \in DOMAIN wire' |-> [f |-> wire'[i].f, sound |-> wire'[i].sound]]
  BY DEF Queue, Seen
<1>5. PICK f \in Seq(Bytes) : f = wire[1].f
  BY <1>1, HeadIs
<1>6. wire[1].sound \in BOOLEAN /\ asked \in BOOLEAN /\ asked' \in BOOLEAN /\ dirt \in 0 .. 3
  BY <1>1, HeadIs, TypeIs DEF SlipInv, SlipTypeOK
<1>7. Promise!Anything(out')
  <2>1. out' \in [kind : {"none", "reply", "packet"}, frame : Seq(Bytes)]
    BY DEF SlipInv, SlipTypeOK
  <2> QED BY <2>1 DEF Promise!Anything
<1>8. AtEnd => /\ dirt' = IF ~wire[1].sound THEN 3 ELSE IF dirt > 0 THEN dirt - 1 ELSE 0
               /\ asked' = (asked \/ ~wire[1].sound \/ dirt > 0 \/ Promise!Asks(f))
  BY <1>1, <1>5, TakeEnd
<1>9. ~AtEnd => dirt' = dirt /\ asked' = (asked \/ ~wire[1].sound)
  BY <1>1, TakeMid
<1>10. CASE ~wire[1].sound
  <2>1. asked' = TRUE
    BY <1>8, <1>9, <1>10
  <2>2. Promise!LJunk
    <3>1. CASE AtEnd
      <4>1. dirt' = 3 /\ Queue' = Tail(Queue)
        BY <1>2, <1>8, <1>10, <3>1
      <4> HIDE DEF Queue
      <4> QED BY <1>2, <1>3, <1>4, <1>7, <1>10, <2>1, <4>1 DEF Promise!LJunk, Promise!Reach
    <3>2. CASE ~AtEnd
      <4>1. dirt' = dirt /\ Queue' = Queue
        BY <1>2, <1>9, <3>2
      <4> QED BY <1>2, <1>3, <1>4, <1>7, <1>10, <2>1, <4>1 DEF Promise!LJunk
    <3> QED BY <3>1, <3>2
  <2> QED BY <2>2
<1>11. CASE wire[1].sound /\ ~AtEnd
  <2>1. Byte # "END"
    BY <1>11, MidHead
  <2>2. out' = out
    BY <1>1, <2>1, ByteIs
  <2>3. asked' = asked
    BY <1>6, <1>9, <1>11
  <2> QED BY <1>2, <1>9, <1>11, <2>2, <2>3
<1>12. CASE wire[1].sound /\ AtEnd /\ dirt > 0
  <2>1. asked' = TRUE /\ dirt' = dirt - 1 /\ Queue' = Tail(Queue)
    BY <1>2, <1>8, <1>12
  <2>2. Promise!LSuffer
    BY <1>2, <1>3, <1>4, <1>7, <1>12, <2>1 DEF Promise!LSuffer
  <2> QED BY <2>2
<1>13. CASE wire[1].sound /\ AtEnd /\ ~(dirt > 0)
  <2>1. dirt = 0
    BY <1>6, <1>13
  <2>2. out' \in Promise!Outcome(f)
    BY <1>5, <1>13, <2>1, OutIs
  <2>3. dirt' = dirt /\ Queue' = Tail(Queue)
    BY <1>2, <1>8, <1>13, <2>1
  <2>4. asked' = (asked \/ Promise!Asks(f))
    BY <1>8, <1>13
  <2>5. Promise!LDeliver
    BY <1>2, <1>3, <1>4, <1>5, <1>13, <2>1, <2>2, <2>3, <2>4 DEF Promise!LDeliver
  <2> QED BY <2>5
<1> QED BY <1>6, <1>10, <1>11, <1>12, <1>13

\* Peers of this code write an ESC so that it is not read back, the finding of
\* RoundTrip: the promise is about frames of theirs without one.
NoEscSent == "gateway" \in DOMAIN Sends =>
               \A f \in Sends["gateway"] : \A i \in DOMAIN f : f[i] # "ESC"

\* Sound frames come out of tty_readable_cb whole, once and in order, whatever
\* the line does to others: the reader implements the line.
THEOREM KeepsThePromise ==
  ASSUME NoEscSent
  PROVE  Spec => LineSpec
<1>1. Init => Promise!LInit
  <2> SUFFICES ASSUME Init PROVE Promise!LInit
    OBVIOUS
  <2>1. Queue = [i \in DOMAIN wire |-> [f |-> wire[i].f, sound |-> wire[i].sound]]
    BY DEF Queue, Seen
  <2>2. Queue = <<>> \/ \E f \in Sent : Queue = <<[f |-> f, sound |-> FALSE]>>
    <3>1. CASE wire = <<>>
      BY <2>1, <3>1
    <3>2. CASE wire # <<>>
      <4>1. PICK f \in Sends[writer], r \in Seq(Bytes) :
              f \in Sent /\ r # <<>> /\ wire = <<[f |-> f, rest |-> r, sound |-> FALSE]>>
        BY <3>2, OpensIs
      <4> DEFINE g == [f |-> f, rest |-> r, sound |-> FALSE]
                 h == [f |-> f, sound |-> FALSE]
      <4>2. Seen(g) = h
        BY DEF Seen
      <4>3. wire = <<g>>
        BY <4>1
      <4> HIDE DEF g
      <4>4. DOMAIN wire = {1} /\ wire[1] = g
        BY <4>3
      <4>5. Queue = [i \in {1} |-> h]
        BY <4>2, <4>4 DEF Queue
      <4> HIDE DEF h
      <4>6. Queue = <<h>>
        BY <4>5
      <4> QED BY <4>1, <4>6 DEF h
    <3> QED BY <3>1, <3>2
  <2>3. dirt = 0 /\ asked = FALSE /\ out = Promise!None
    BY DEF Init
  <2> QED BY <2>1, <2>2, <2>3 DEF Promise!LInit
<1>2. SlipInv /\ SlipInv' /\ [Next]_vars => [Promise!LNext]_(Promise!lvars)
  <2> SUFFICES ASSUME SlipInv, SlipInv', [Next]_vars PROVE [Promise!LNext]_(Promise!lvars)
    OBVIOUS
  <2>1. Queue = [i \in DOMAIN wire |-> [f |-> wire[i].f, sound |-> wire[i].sound]]
    BY DEF Queue, Seen
  <2>2. Queue' = [i \in DOMAIN wire' |-> [f |-> wire'[i].f, sound |-> wire'[i].sound]]
    BY DEF Queue, Seen
  <2>3. Clear
    BY SlipAssumption DEF Clear, NoEscSent, SlipInv, SlipTypeOK
  <2>4. CASE Write
    <3>1. PICK f \in Sent : Queue' = Append(Queue, [f |-> f, sound |-> TRUE])
      BY <2>4, SendsOnLine
    <3>2. dirt' = dirt /\ asked' = asked /\ out' = out
      BY <2>4 DEF Write
    <3>3. Promise!LSend
      BY <2>1, <2>2, <3>1, <3>2 DEF Promise!LSend
    <3> QED BY <3>3 DEF Promise!LNext
  <2>5. CASE Noise
    <3>1. PICK i \in DOMAIN Queue : Queue' = [Queue EXCEPT ![i].sound = FALSE]
      BY <2>5, DamagesOnLine
    <3>2. dirt' = dirt /\ asked' = asked /\ out' = out
      BY <2>5 DEF Noise
    <3>3. Promise!LDamage
      BY <2>1, <2>2, <3>1, <3>2 DEF Promise!LDamage
    <3> QED BY <3>3 DEF Promise!LNext
  <2>6. CASE Read
    <3>1. \/ Promise!LDeliver \/ Promise!LSuffer \/ Promise!LJunk
          \/ Queue' = Queue /\ dirt' = dirt /\ asked' = asked /\ out' = out
      BY <2>3, <2>6, ReadOnLine
    <3> QED BY <2>1, <2>2, <3>1 DEF Promise!LNext, Promise!lvars
  <2>7. CASE UNCHANGED vars
    BY <2>7 DEF vars, Promise!lvars
  <2> QED BY <2>4, <2>5, <2>6, <2>7 DEF Next
<1> QED BY <1>1, <1>2, SlipSafe, PTL DEF Spec, LineSpec, Promise!LSpec

=============================================================================
