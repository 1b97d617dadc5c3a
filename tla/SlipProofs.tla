------------------------------ MODULE SlipProofs ------------------------------
(***************************************************************************)
(* Proofs about the frame codec of Slip, for frames of any length.         *)
(*                                                                         *)
(* A decoder Runs from one state to another over a buffer when it is fed   *)
(* the bytes one by one.  Runs compose, so the run over a slipped frame is *)
(* put together from that over the END in front, one for each stuffed      *)
(* byte, which leaves just that byte in out, and the END behind.           *)
(***************************************************************************)
EXTENDS Slip, SequenceTheorems, WellFoundedInduction, TLAPS

(* A set of numbers has a least one: what induction is replaced by here,   *)
(* the least number for which something fails.                             *)
LEMMA LeastFailure ==
  ASSUME NEW T, T \subseteq Nat, T # {}
  PROVE  \E x \in T : \A y \in T : x <= y
<1>1. PICK x \in T : \A y \in T : ~(<<y, x>> \in OpToRel(<, Nat))
  BY NatLessThanWellFounded, WFMin
<1>2. ASSUME NEW y \in T PROVE x <= y
  <2>1. x \in Nat /\ y \in Nat
    OBVIOUS
  <2>2. ~(y < x)
    BY <1>1, <2>1 DEF OpToRel
  <2>. QED
    BY <2>1, <2>2
<1>. QED
  BY <1>2

-----------------------------------------------------------------------------
(* Runs of the decoder.                                                    *)

IsRun(g, d, b) == /\ g[0] = d
                  /\ \A k \in 1 .. Len(b) : g[k] = Feed(g[k - 1], b[k])

Runs(d, b, e) == \E g : IsRun(g, d, b) /\ g[Len(b)] = e

Begin(dec) == [decoding |-> dec.decoding, escape |-> dec.escape,
               out |-> <<>>, frames |-> <<>>]

(* The function that unslip defines, for the first n bytes.                *)
IsFed(g, d, b, n) ==
  g = [k \in 0 .. n |-> IF k = 0 THEN d ELSE Feed(g[k - 1], b[k])]

LEMMA FedExists ==
  ASSUME NEW d, NEW b, NEW n \in Nat
  PROVE  \E g : IsFed(g, d, b, n)
<1>. DEFINE T == {m \in Nat : ~ \E g : IsFed(g, d, b, m)}
<1>. SUFFICES ASSUME T # {} PROVE FALSE
  OBVIOUS
<1>1. PICK m \in T : \A y \in T : m <= y
  BY LeastFailure
<1>2. IsFed([k \in 0 .. 0 |-> d], d, b, 0)
  BY DEF IsFed
<1>3. m # 0
  BY <1>2
<1>4. m - 1 \in Nat /\ m - 1 \notin T
  BY <1>1, <1>3
<1>5. PICK f : IsFed(f, d, b, m - 1)
  BY <1>4
<1>. DEFINE g == [k \in 0 .. m |-> IF k = m THEN Feed(f[m - 1], b[m]) ELSE f[k]]
<1>6. ASSUME NEW k \in 0 .. m
      PROVE  g[k] = IF k = 0 THEN d ELSE Feed(g[k - 1], b[k])
  <2>1. k # 0 => k - 1 \in 0 .. m /\ g[k - 1] = f[k - 1]
    BY <1>3
  <2>2. CASE k = m
    BY <1>3, <2>1, <2>2
  <2>3. CASE k # m
    <3>1. k \in 0 .. m - 1
      BY <2>3
    <3>2. f[k] = IF k = 0 THEN d ELSE Feed(f[k - 1], b[k])
      BY <1>5, <3>1 DEF IsFed
    <3>. QED
      BY <2>1, <2>3, <3>2
  <2>. QED
    BY <2>2, <2>3
<1>7. g = [k \in 0 .. m |-> IF k = 0 THEN d ELSE Feed(g[k - 1], b[k])]
  BY <1>6
<1>8. IsFed(g, d, b, m)
  BY <1>7 DEF IsFed
<1>. QED
  BY <1>8

(* unslip is a run of the decoder over the buffer.                         *)
LEMMA UnslipRuns ==
  ASSUME NEW S, NEW buf \in Seq(S), NEW dec
  PROVE  Runs(Begin(dec), buf, unslip(dec, buf))
<1>1. PICK n \in Nat : n = Len(buf)
  BY LenProperties
<1>2. PICK d : d = Begin(dec)
  OBVIOUS
<1>3. PICK g : g = CHOOSE h : IsFed(h, d, buf, n)
  OBVIOUS
<1>4. IsFed(g, d, buf, n)
  BY <1>3, FedExists
<1>5. unslip(dec, buf) = g[n]
  BY <1>1, <1>2, <1>3 DEF unslip, Begin, IsFed
<1>6. IsRun(g, d, buf)
  <2>1. 0 \in 0 .. n /\ \A k \in 1 .. n : k \in 0 .. n /\ k # 0
    OBVIOUS
  <2>. QED
    BY <1>1, <1>4, <2>1 DEF IsFed, IsRun
<1>. QED
  BY <1>1, <1>2, <1>5, <1>6 DEF Runs

(* What a run comes to depends on where it begins only.                    *)
LEMMA RunsOneWay ==
  ASSUME NEW S, NEW b \in Seq(S), NEW d, NEW e1, NEW e2,
         Runs(d, b, e1), Runs(d, b, e2)
  PROVE  e1 = e2
<1>1. PICK g1 : IsRun(g1, d, b) /\ g1[Len(b)] = e1
  BY DEF Runs
<1>2. PICK g2 : IsRun(g2, d, b) /\ g2[Len(b)] = e2
  BY DEF Runs
<1>3. Len(b) \in Nat
  BY LenProperties
<1>. DEFINE T == {k \in 0 .. Len(b) : g1[k] # g2[k]}
<1>4. T = {}
  <2>. SUFFICES ASSUME T # {} PROVE FALSE
    OBVIOUS
  <2>1. T \subseteq Nat
    BY <1>3
  <2>2. PICK k \in T : \A y \in T : k <= y
    BY <2>1, LeastFailure
  <2>3. k # 0
    BY <1>1, <1>2 DEF IsRun
  <2>4. k - 1 \in 0 .. Len(b) /\ k \in 1 .. Len(b) /\ ~(k <= k - 1)
    BY <1>3, <2>3
  <2>5. g1[k - 1] = g2[k - 1]
    BY <2>2, <2>4
  <2>6. g1[k] = Feed(g1[k - 1], b[k]) /\ g2[k] = Feed(g2[k - 1], b[k])
    BY <1>1, <1>2, <2>4 DEF IsRun
  <2>. QED
    BY <2>5, <2>6
<1>5. Len(b) \in 0 .. Len(b)
  BY <1>3
<1>. QED
  BY <1>1, <1>2, <1>4, <1>5

LEMMA RunOfOne ==
  ASSUME NEW d, NEW c
  PROVE  Runs(d, <<c>>, Feed(d, c))
<1>. DEFINE g == [k \in 0 .. 1 |-> IF k = 0 THEN d ELSE Feed(d, c)]
<1>1. Len(<<c>>) = 1 /\ <<c>>[1] = c /\ 1 .. 1 = {1}
  OBVIOUS
<1>2. g[0] = d /\ g[1] = Feed(d, c) /\ 1 - 1 = 0
  OBVIOUS
<1>. HIDE DEF g
<1>3. IsRun(g, d, <<c>>)
  BY <1>1, <1>2 DEF IsRun
<1>. QED
  BY <1>1, <1>2, <1>3 DEF Runs

(* Runs compose.                                                           *)
LEMMA RunsConcat ==
  ASSUME NEW S, NEW b1 \in Seq(S), NEW b2 \in Seq(S),
         NEW d, NEW e, NEW f, Runs(d, b1, e), Runs(e, b2, f)
  PROVE  Runs(d, b1 \o b2, f)
<1>1. PICK g1 : IsRun(g1, d, b1) /\ g1[Len(b1)] = e
  BY DEF Runs
<1>2. PICK g2 : IsRun(g2, e, b2) /\ g2[Len(b2)] = f
  BY DEF Runs
<1>3. PICK n \in Nat : n = Len(b1)
  BY LenProperties
<1>4. PICK m \in Nat : m = Len(b2)
  BY LenProperties
<1>5. PICK b : b = b1 \o b2
  OBVIOUS
<1>6. Len(b) = n + m /\ \A i \in 1 .. n + m : b[i] = IF i <= n THEN b1[i] ELSE b2[i - n]
  BY <1>3, <1>4, <1>5, ConcatProperties
<1>. DEFINE g == [k \in 0 .. n + m |-> IF k <= n THEN g1[k] ELSE g2[k - n]]
<1>7. g[0] = d
  BY <1>1 DEF IsRun
<1>8. ASSUME NEW k \in 1 .. n + m
      PROVE  g[k] = Feed(g[k - 1], b[k])
  <2>1. CASE k <= n
    <3>1. k \in 1 .. n /\ k - 1 \in 0 .. n + m /\ k - 1 <= n /\ k \in 0 .. n + m
      BY <2>1
    <3>2. g1[k] = Feed(g1[k - 1], b1[k])
      BY <1>1, <1>3, <3>1 DEF IsRun
    <3>. QED
      BY <1>6, <2>1, <3>1, <3>2
  <2>2. CASE k = n + 1
    <3>1. 1 \in 1 .. m /\ k \in 0 .. n + m /\ k - 1 = n /\ n \in 0 .. n + m /\ k - n = 1 /\ ~(k <= n)
      BY <2>2
    <3>2. g2[1] = Feed(g2[0], b2[1]) /\ g2[0] = e
      BY <1>2, <1>4, <3>1 DEF IsRun
    <3>3. g[k] = g2[1] /\ g[k - 1] = g1[n] /\ b[k] = b2[1]
      BY <1>6, <3>1
    <3>. QED
      BY <1>1, <1>3, <3>2, <3>3
  <2>3. CASE k > n + 1
    <3>1. /\ k - n \in 1 .. m /\ k \in 0 .. n + m /\ k - 1 \in 0 .. n + m
          /\ ~(k <= n) /\ ~(k - 1 <= n) /\ k - 1 - n = k - n - 1
      BY <2>3
    <3>2. g2[k - n] = Feed(g2[k - n - 1], b2[k - n])
      BY <1>2, <1>4, <3>1 DEF IsRun
    <3>. QED
      BY <1>6, <3>1, <3>2
  <2>. QED
    BY <2>1, <2>2, <2>3
<1>9. g[n + m] = f
  <2>1. CASE m = 0
    BY <1>1, <1>2, <1>3, <1>4, <2>1 DEF IsRun
  <2>2. CASE m # 0
    <3>1. n + m \in 0 .. n + m /\ ~(n + m <= n) /\ n + m - n = m
      BY <2>2
    <3>. QED
      BY <1>2, <1>4, <3>1
  <2>. QED
    BY <2>1, <2>2
<1>. HIDE DEF g
<1>10. IsRun(g, d, b)
  BY <1>6, <1>7, <1>8 DEF IsRun
<1>. QED
  BY <1>5, <1>6, <1>9, <1>10 DEF Runs

-----------------------------------------------------------------------------
(* The frame in its wrapping.                                              *)

(* The decoder's record, and how Feed changes it.                          *)
Rec(a, e, o, f) == [decoding |-> a, escape |-> e, out |-> o, frames |-> f]

Fields == {"decoding", "escape", "out", "frames"}

LEMMA SameRecord ==
  ASSUME NEW u, NEW v,
         u = [x \in DOMAIN u |-> u[x]], v = [x \in DOMAIN v |-> v[x]],
         DOMAIN u = Fields, DOMAIN v = Fields,
         u.decoding = v.decoding, u.escape = v.escape, u.out = v.out, u.frames = v.frames
  PROVE  u = v
<1>1. \A x \in Fields : u[x] = v[x]
  BY DEF Fields
<1>. QED
  BY <1>1

LEMMA RecIsRecord ==
  ASSUME NEW a, NEW e, NEW o, NEW f, NEW w, w = Rec(a, e, o, f)
  PROVE  /\ DOMAIN w = Fields /\ w = [x \in DOMAIN w |-> w[x]]
         /\ w.decoding = a /\ w.escape = e /\ w.out = o /\ w.frames = f
BY DEF Rec, Fields

LEMMA IsRec ==
  ASSUME NEW u, DOMAIN u = Fields, u = [x \in DOMAIN u |-> u[x]],
         NEW a, NEW e, NEW o, NEW f,
         u.decoding = a, u.escape = e, u.out = o, u.frames = f
  PROVE  u = Rec(a, e, o, f)
<1>1. PICK v : v = Rec(a, e, o, f)
  OBVIOUS
<1>2. /\ DOMAIN v = Fields /\ v = [x \in DOMAIN v |-> v[x]]
      /\ v.decoding = a /\ v.escape = e /\ v.out = o /\ v.frames = f
  BY <1>1, RecIsRecord
<1>3. u.decoding = v.decoding /\ u.escape = v.escape /\ u.out = v.out /\ u.frames = v.frames
  BY <1>2
<1>4. u = v
  BY <1>2, <1>3, SameRecord
<1>. QED
  BY <1>1, <1>4

LEMMA OneByOne ==
  ASSUME NEW S, NEW x \in S, NEW y \in S
  PROVE  /\ <<x>> \in Seq(S) /\ <<y>> \in Seq(S)
         /\ <<x>> \o <<y>> = <<x, y>> /\ Append(<<>>, x) = <<x>>
<1>1. <<x>> \in Seq(S) /\ <<y>> \in Seq(S) /\ Append(<<>>, x) = <<x>>
  OBVIOUS
<1>2. PICK t : t = <<x>> \o <<y>>
  OBVIOUS
<1>3. Len(<<x>>) = 1 /\ Len(<<y>>) = 1 /\ <<x>>[1] = x /\ <<y>>[1] = y
  OBVIOUS
<1>4. t \in Seq(S) /\ Len(t) = 2 /\ t[1] = x /\ t[2] = y
  BY <1>1, <1>2, <1>3, ConcatProperties
<1>5. t = <<x, y>>
  BY <1>4
<1>. QED
  BY <1>1, <1>2, <1>5

(* In the middle of a frame, with o of it and no escape begun.             *)
Within(o) == Rec(TRUE, FALSE, o, <<>>)

(* A byte that is no END and no ESC is added to the frame, with an escape  *)
(* or without, if there is room for it.                                    *)
LEMMA FeedByte ==
  ASSUME NEW o, NEW c, c \notin {END, ESC}, NEW x \in BOOLEAN, NEW p, Len(o) < BufSize,
         p = Append(o, IF x THEN Unstuff(c) ELSE c)
  PROVE  Feed(Rec(TRUE, x, o, <<>>), c) = Within(p)
<1>1. PICK yes : yes = TRUE
  OBVIOUS
<1>2. PICK no : no = FALSE
  OBVIOUS
<1>3. PICK w : w = Rec(yes, x, o, <<>>)
  OBVIOUS
<1>4. /\ w.decoding = yes /\ w.escape = x /\ w.out = o /\ w.frames = <<>>
      /\ DOMAIN w = Fields
  BY <1>3, RecIsRecord
<1>5. PICK u : u = [w EXCEPT !.escape = no, !.out = p]
  OBVIOUS
<1>6. Feed(w, c) = u
  <2>1. /\ w.decoding /\ Len(w.out) < BufSize
        /\ p = Append(w.out, IF w.escape THEN Unstuff(c) ELSE c)
    BY <1>1, <1>4
  <2>2. Feed(w, c) = [w EXCEPT !.escape = FALSE, !.out = p]
    BY <2>1 DEF Feed
  <2>. QED
    BY <1>2, <1>5, <2>2
<1>7. DOMAIN u = Fields /\ u = [y \in DOMAIN u |-> u[y]]
  BY <1>4, <1>5
<1>8. u.decoding = yes /\ u.escape = no /\ u.out = p /\ u.frames = <<>>
  BY <1>4, <1>5 DEF Fields
<1>9. u = Rec(yes, no, p, <<>>)
  BY ONLY <1>7, <1>8, IsRec
<1>. QED
  BY <1>1, <1>2, <1>3, <1>6, <1>9 DEF Within

LEMMA FeedEscape ==
  ASSUME NEW o
  PROVE  Feed(Within(o), ESC) = Rec(TRUE, TRUE, o, <<>>)
<1>1. PICK yes : yes = TRUE
  OBVIOUS
<1>2. PICK no : no = FALSE
  OBVIOUS
<1>3. PICK w : w = Rec(yes, no, o, <<>>)
  OBVIOUS
<1>4. /\ w.decoding = yes /\ w.escape = no /\ w.out = o /\ w.frames = <<>>
      /\ DOMAIN w = Fields
  BY <1>3, RecIsRecord
<1>5. PICK u : u = [w EXCEPT !.escape = yes]
  OBVIOUS
<1>6. Feed(w, ESC) = u
  <2>1. w.decoding /\ ESC # END
    BY <1>1, <1>4 DEF ESC, END
  <2>2. Feed(w, ESC) = [w EXCEPT !.escape = TRUE]
    BY <2>1 DEF Feed
  <2>. QED
    BY <1>1, <1>5, <2>2
<1>7. DOMAIN u = Fields /\ u = [y \in DOMAIN u |-> u[y]]
  BY <1>4, <1>5
<1>8. u.decoding = yes /\ u.escape = yes /\ u.out = o /\ u.frames = <<>>
  BY <1>4, <1>5 DEF Fields
<1>9. u = Rec(yes, yes, o, <<>>)
  BY <1>7, <1>8, IsRec
<1>. QED
  BY <1>1, <1>2, <1>3, <1>6, <1>9 DEF Within

(* Wherever the decoder was left, an END in front has it begin a frame.    *)
LEMMA FeedStart ==
  ASSUME NEW dec \in Decoder
  PROVE  Feed(Begin(dec), END) = Rec(TRUE, dec.escape, <<>>, <<>>)
<1>1. PICK yes : yes = TRUE
  OBVIOUS
<1>2. PICK x, e : x = dec.decoding /\ e = dec.escape
  OBVIOUS
<1>3. x \in BOOLEAN
  BY <1>2 DEF Decoder
<1>4. PICK w : w = Rec(x, e, <<>>, <<>>)
  OBVIOUS
<1>5. /\ w.decoding = x /\ w.escape = e /\ w.out = <<>> /\ w.frames = <<>>
      /\ DOMAIN w = Fields /\ w = [y \in DOMAIN w |-> w[y]]
  BY <1>4, RecIsRecord
<1>6. Begin(dec) = w
  BY <1>2, <1>4 DEF Begin, Rec
<1>7. CASE x
  <2>1. Feed(w, END) = w
    BY <1>5, <1>7 DEF Feed, END, ESC
  <2>2. x = yes
    BY <1>1, <1>3, <1>7
  <2>. QED
    BY <1>1, <1>2, <1>4, <1>6, <2>1, <2>2
<1>8. CASE ~x
  <2>1. PICK u : u = [w EXCEPT !.decoding = yes]
    OBVIOUS
  <2>2. Feed(w, END) = [w EXCEPT !.decoding = TRUE]
    BY <1>5, <1>8 DEF Feed
  <2>3. DOMAIN u = Fields /\ u = [y \in DOMAIN u |-> u[y]]
    BY <1>5, <2>1
  <2>4. u.decoding = yes /\ u.escape = e /\ u.out = <<>> /\ u.frames = <<>>
    BY <1>5, <2>1 DEF Fields
  <2>5. u = Rec(yes, e, <<>>, <<>>)
    BY ONLY <2>3, <2>4, IsRec
  <2>. QED
    BY <1>1, <1>2, <1>6, <2>1, <2>2, <2>5
<1>. QED
  BY <1>7, <1>8

LEMMA FeedFinish ==
  ASSUME NEW o, o # <<>>
  PROVE  Feed(Within(o), END) =
           [decoding |-> FALSE, escape |-> FALSE, out |-> <<>>, frames |-> <<o>>]
<1>1. PICK yes : yes = TRUE
  OBVIOUS
<1>2. PICK no : no = FALSE
  OBVIOUS
<1>3. PICK w : w = Rec(yes, no, o, <<>>)
  OBVIOUS
<1>4. /\ w.decoding = yes /\ w.escape = no /\ w.out = o /\ w.frames = <<>>
      /\ DOMAIN w = Fields
  BY <1>3, RecIsRecord
<1>5. PICK q : q = Append(<<>>, o)
  OBVIOUS
<1>6. PICK u : u = [w EXCEPT !.decoding = no, !.out = <<>>, !.frames = q]
  OBVIOUS
<1>7. Feed(w, END) = u
  <2>1. w.decoding /\ Append(w.frames, w.out) = q /\ w.out # <<>> /\ ESC # END
    BY <1>1, <1>4, <1>5 DEF ESC, END
  <2>2. Feed(w, END) = [w EXCEPT !.decoding = FALSE, !.out = <<>>, !.frames = q]
    BY <2>1 DEF Feed
  <2>. QED
    BY <1>2, <1>6, <2>2
<1>8. DOMAIN u = Fields /\ u = [x \in DOMAIN u |-> u[x]]
  BY <1>4, <1>6
<1>9. u.decoding = no /\ u.escape = no /\ u.out = <<>> /\ u.frames = q
  BY <1>4, <1>6 DEF Fields
<1>10. u = Rec(no, no, <<>>, q)
  BY <1>8, <1>9, IsRec
<1>11. q = <<o>>
  BY <1>5
<1>. QED
  BY <1>1, <1>2, <1>3, <1>7, <1>10, <1>11 DEF Within, Rec

LEMMA RunOverStuffed ==
  ASSUME NEW S, 0 .. 255 \subseteq S, NEW o \in Seq(S), NEW c \in S, Len(o) < BufSize
  PROVE  Stuff(c) \in Seq(S) /\ Runs(Within(o), Stuff(c), Within(Append(o, c)))
<1>1. /\ END \in S /\ ESC \in S /\ ESC_END \in S /\ ESC_ESC \in S
      /\ ESC # END /\ ESC_ESC # ESC_END
      /\ ESC_END \notin {END, ESC} /\ ESC_ESC \notin {END, ESC}
  BY DEF END, ESC, ESC_END, ESC_ESC
<1>2. ASSUME NEW x \in S, x \notin {END, ESC}, Unstuff(x) = c
      PROVE  <<ESC, x>> \in Seq(S) /\ Runs(Within(o), <<ESC, x>>, Within(Append(o, c)))
  <2>1. PICK z : z = Rec(TRUE, TRUE, o, <<>>)
    OBVIOUS
  <2>2. Runs(Within(o), <<ESC>>, z)
    BY <2>1, FeedEscape, RunOfOne
  <2>3. Feed(z, x) = Within(Append(o, c))
    BY <1>2, <2>1, FeedByte
  <2>4. Runs(z, <<x>>, Within(Append(o, c)))
    BY <2>3, RunOfOne
  <2>5. <<ESC>> \in Seq(S) /\ <<x>> \in Seq(S) /\ <<ESC>> \o <<x>> = <<ESC, x>>
    BY <1>1, OneByOne
  <2>6. Runs(Within(o), <<ESC>> \o <<x>>, Within(Append(o, c)))
    BY <2>2, <2>4, <2>5, RunsConcat
  <2>7. <<ESC>> \o <<x>> \in Seq(S)
    BY <2>5, ConcatProperties
  <2>. QED
    BY <2>5, <2>6, <2>7
<1>3. CASE c = END
  <2>1. Unstuff(ESC_END) = c
    BY <1>1, <1>3 DEF Unstuff
  <2>2. Stuff(c) = <<ESC, ESC_END>>
    BY <1>1, <1>3 DEF Stuff
  <2>. QED
    BY <1>1, <1>2, <2>1, <2>2
<1>4. CASE c = ESC
  <2>1. Unstuff(ESC_ESC) = c
    BY <1>1, <1>4 DEF Unstuff
  <2>2. Stuff(c) = <<ESC, ESC_ESC>>
    BY <1>1, <1>4 DEF Stuff
  <2>. QED
    BY <1>1, <1>2, <2>1, <2>2
<1>5. CASE c \notin {END, ESC}
  <2>1. Within(o) = Rec(TRUE, FALSE, o, <<>>)
    BY DEF Within
  <2>2. Feed(Within(o), c) = Within(Append(o, c))
    BY <1>5, <2>1, FeedByte
  <2>3. Stuff(c) = <<c>>
    BY <1>5 DEF Stuff
  <2>. QED
    BY <2>2, <2>3, RunOfOne, OneByOne
<1>. QED
  BY <1>3, <1>4, <1>5

(* The first n of the sequences, one after the other.                      *)
IsJoin(f, s, n) == f = [i \in 1 .. n |-> IF i = 1 THEN s[i] ELSE f[i - 1] \o s[i]]

LEMMA JoinExists ==
  ASSUME NEW s, NEW n \in Nat
  PROVE  \E f : IsJoin(f, s, n)
<1>. DEFINE T == {m \in Nat : ~ \E f : IsJoin(f, s, m)}
<1>. SUFFICES ASSUME T # {} PROVE FALSE
  OBVIOUS
<1>1. PICK m \in T : \A y \in T : m <= y
  BY LeastFailure
<1>2. IsJoin([i \in 1 .. 0 |-> s[i]], s, 0)
  BY DEF IsJoin
<1>3. m # 0
  BY <1>2
<1>4. m - 1 \in Nat /\ m - 1 \notin T
  BY <1>1, <1>3
<1>5. PICK f : IsJoin(f, s, m - 1)
  BY <1>4
<1>. DEFINE g == [i \in 1 .. m |-> IF i = m THEN IF i = 1 THEN s[i] ELSE f[i - 1] \o s[i]
                                   ELSE f[i]]
<1>6. ASSUME NEW i \in 1 .. m
      PROVE  g[i] = IF i = 1 THEN s[i] ELSE g[i - 1] \o s[i]
  <2>1. i # 1 => i - 1 \in 1 .. m /\ g[i - 1] = f[i - 1]
    OBVIOUS
  <2>2. CASE i = m
    BY <2>1, <2>2
  <2>3. CASE i # m
    <3>1. i \in 1 .. m - 1
      BY <2>3
    <3>2. f[i] = IF i = 1 THEN s[i] ELSE f[i - 1] \o s[i]
      BY <1>5, <3>1 DEF IsJoin
    <3>. QED
      BY <2>1, <2>3, <3>2
  <2>. QED
    BY <2>2, <2>3
<1>7. g = [i \in 1 .. m |-> IF i = 1 THEN s[i] ELSE g[i - 1] \o s[i]]
  BY <1>6
<1>8. IsJoin(g, s, m)
  BY <1>7 DEF IsJoin
<1>. QED
  BY <1>8

LEMMA Lengths ==
  ASSUME NEW i \in Nat, NEW j \in Nat, NEW k \in Nat
  PROVE  /\ i >= k - 1 /\ j >= 1 => i + j >= k
         /\ i >= k /\ 1 + i + 1 <= j => k <= j
         /\ 1 + i + 1 # 0
OBVIOUS

LEMMA StuffLonger ==
  ASSUME NEW S, 0 .. 255 \subseteq S, NEW c \in S
  PROVE  Stuff(c) \in Seq(S) /\ Len(Stuff(c)) >= 1
<1>1. END \in S /\ ESC \in S /\ ESC_END \in S /\ ESC_ESC \in S /\ ESC # END
  BY DEF END, ESC, ESC_END, ESC_ESC
<1>2. CASE c = END
  <2>1. Stuff(c) = <<ESC, ESC_END>>
    BY <1>1, <1>2 DEF Stuff
  <2>. QED
    BY <1>1, <2>1
<1>3. CASE c = ESC
  <2>1. Stuff(c) = <<ESC, ESC_ESC>>
    BY <1>1, <1>3 DEF Stuff
  <2>. QED
    BY <1>1, <2>1
<1>4. CASE c \notin {END, ESC}
  <2>1. Stuff(c) = <<c>>
    BY <1>4 DEF Stuff
  <2>. QED
    BY <2>1
<1>. QED
  BY <1>2, <1>3, <1>4

(* At the beginning of a frame, with or without an escape left from before.*)
Begun(e) == Rec(TRUE, e, <<>>, <<>>)

(* A byte that means the same with an escape before it.                    *)
Plain(c) == c \notin {END, ESC, ESC_END, ESC_ESC}

LEMMA RunOverFirst ==
  ASSUME NEW S, 0 .. 255 \subseteq S, NEW c \in S, NEW e \in BOOLEAN, e => Plain(c),
         0 < BufSize
  PROVE  Runs(Begun(e), Stuff(c), Within(Append(<<>>, c)))
<1>1. <<>> \in Seq(S) /\ Len(<<>>) = 0
  OBVIOUS
<1>2. CASE e
  <2>1. c \notin {END, ESC} /\ Unstuff(c) = c /\ Stuff(c) = <<c>>
    BY <1>2 DEF Plain, Unstuff, Stuff
  <2>2. Append(<<>>, c) = Append(<<>>, IF e THEN Unstuff(c) ELSE c)
    BY <2>1
  <2>3. Feed(Begun(e), c) = Within(Append(<<>>, c))
    BY <1>1, <2>1, <2>2, FeedByte DEF Begun
  <2>. QED
    BY <2>1, <2>3, RunOfOne
<1>3. CASE ~e
  <2>1. PICK no : no = FALSE
    OBVIOUS
  <2>2. e = no
    BY <1>3, <2>1
  <2>3. Begun(no) = Within(<<>>)
    BY <2>1 DEF Begun, Within
  <2>. QED
    BY <1>1, <2>2, <2>3, RunOverStuffed
<1>. QED
  BY <1>2, <1>3

(* What f[i], the first i bytes of the frame stuffed, does to the decoder. *)
Decodes(f, i, frame, S, e) ==
  /\ f[i] \in Seq(S) /\ Len(f[i]) >= i
  /\ i <= BufSize => Runs(Begun(e), f[i], Within(SubSeq(frame, 1, i)))

(* The decoder's run over the stuffed bytes of a frame, which are no fewer *)
(* than the frame's.                                                       *)
LEMMA RunOverFrame ==
  ASSUME NEW S, 0 .. 255 \subseteq S, NEW frame \in Seq(S), frame # <<>>, NEW s,
         s = [i \in DOMAIN frame |-> Stuff(frame[i])], BufSize \in Nat,
         NEW e \in BOOLEAN, e => Plain(frame[1])
  PROVE  /\ FlattenSeq(s) \in Seq(S) /\ Len(FlattenSeq(s)) >= Len(frame)
         /\ Len(frame) <= BufSize => Runs(Begun(e), FlattenSeq(s), Within(frame))
<1>1. PICK n \in Nat : n = Len(frame) /\ DOMAIN frame = 1 .. n /\ n # 0
  BY LenProperties, EmptySeq
<1>2. Len(s) = n /\ \A i \in 1 .. n : s[i] = Stuff(frame[i])
  BY <1>1
<1>3. PICK f : f = CHOOSE h : IsJoin(h, s, n)
  OBVIOUS
<1>4. IsJoin(f, s, n)
  BY <1>3, JoinExists
<1>5. FlattenSeq(s) = f[n]
  BY <1>1, <1>2, <1>3 DEF FlattenSeq, IsJoin
<1>. DEFINE T == {i \in 1 .. n : ~Decodes(f, i, frame, S, e)}
<1>6. T = {}
  <2>. SUFFICES ASSUME T # {} PROVE FALSE
    OBVIOUS
  <2>1. T \subseteq Nat
    <3>1. T \subseteq 1 .. n
      OBVIOUS
    <3>2. 1 .. n \subseteq Nat
      OBVIOUS
    <3>. QED
      BY ONLY <3>1, <3>2
  <2>2. PICK k \in T : \A y \in T : k <= y
    BY <2>1, LeastFailure
  <2>3. k \in 1 .. n /\ frame[k] \in S
    BY <1>1, ElementOfSeq
  <2>4. CASE k = 1
    <3>1. f[k] = Stuff(frame[k])
      BY <1>2, <1>4, <2>3, <2>4 DEF IsJoin
    <3>2. SubSeq(frame, 1, k) = Append(<<>>, frame[k])
      <4>1. PICK o : o = SubSeq(frame, 1, k)
        OBVIOUS
      <4>2. o \in Seq(S) /\ Len(o) = 1 /\ o[1] = frame[k]
        BY <1>1, <2>3, <2>4, <4>1, SubSeqProperties
      <4>3. o = <<frame[k]>>
        BY <4>2
      <4>. QED
        BY <2>3, <4>1, <4>3, OneByOne
    <3>3. k <= BufSize => Runs(Begun(e), Stuff(frame[k]), Within(SubSeq(frame, 1, k)))
      <4>1. k <= BufSize => 0 < BufSize
        BY <2>4
      <4>. QED
        BY <2>3, <2>4, <3>2, <4>1, RunOverFirst
    <3>4. Stuff(frame[k]) \in Seq(S) /\ Len(Stuff(frame[k])) >= k
      BY <2>3, <2>4, StuffLonger
    <3>5. Decodes(f, k, frame, S, e)
      BY <3>1, <3>3, <3>4 DEF Decodes
    <3>. QED
      BY <3>5
  <2>5. CASE k # 1
    <3>1. k - 1 \in 1 .. n /\ ~(k <= k - 1)
      BY <2>3, <2>5
    <3>2. Decodes(f, k - 1, frame, S, e)
      BY <2>2, <3>1
    <3>3. f[k] = f[k - 1] \o Stuff(frame[k])
      BY <1>2, <1>4, <2>3, <2>5 DEF IsJoin
    <3>4. PICK o : o = SubSeq(frame, 1, k - 1)
      OBVIOUS
    <3>5. o \in Seq(S) /\ SubSeq(frame, 1, k) = Append(o, frame[k]) /\ Len(o) = k - 1
      <4>1. k - 1 \in Int /\ 1 \in Int /\ \A i \in 1 .. k - 1 : frame[i] \in S
        <5>1. k - 1 \in Int /\ 1 \in Int
          BY <2>3
        <5>2. ASSUME NEW i \in 1 .. k - 1 PROVE frame[i] \in S
          <6>1. i \in 1 .. Len(frame)
            BY <1>1, <2>3
          <6>. QED
            BY <6>1, ElementOfSeq
        <5>. QED
          BY <5>1, <5>2
      <4>2. o \in Seq(S) /\ Len(o) = k - 1
        <5>1. k - 1 \in Int /\ 1 \in Int /\ 1 <= k - 1 /\ k - 1 - 1 + 1 = k - 1
          BY <2>3, <3>1
        <5>2. o \in Seq(S) /\ Len(o) = k - 1 - 1 + 1
          BY ONLY <3>4, <4>1, <5>1, SubSeqProperties
        <5>. QED
          BY ONLY <5>1, <5>2
      <4>3. 1 \in 1 .. Len(frame) /\ k \in 1 .. Len(frame)
        BY <1>1, <2>3
      <4>4. SubSeq(frame, 1, k) = o \o <<frame[k]>>
        BY <3>4, <4>3, SubSeqRecursiveSecond
      <4>. QED
        BY <2>3, <4>2, <4>4, AppendIsConcat
    <3>6. Stuff(frame[k]) \in Seq(S) /\ Len(Stuff(frame[k])) >= 1
      BY <2>3, StuffLonger
    <3>7. f[k] \in Seq(S) /\ Len(f[k]) >= k
      <4>1. f[k - 1] \in Seq(S) /\ Len(f[k - 1]) \in Nat /\ Len(f[k - 1]) >= k - 1
        BY <3>2, LenProperties DEF Decodes
      <4>2. f[k] \in Seq(S) /\ Len(f[k]) = Len(f[k - 1]) + Len(Stuff(frame[k]))
        BY <3>3, <3>6, <4>1, ConcatProperties
      <4>3. PICK i \in Nat : i = Len(f[k - 1])
        BY <4>1
      <4>4. PICK j \in Nat : j = Len(Stuff(frame[k]))
        BY <3>6, LenProperties
      <4>5. i >= k - 1 /\ j >= 1 /\ k \in Nat
        BY <2>3, <3>6, <4>1, <4>3, <4>4
      <4>6. i + j >= k
        BY <4>5, Lengths
      <4>. QED
        BY <4>2, <4>3, <4>4, <4>6
    <3>8. ASSUME k <= BufSize
          PROVE  Runs(Begun(e), f[k], Within(SubSeq(frame, 1, k)))
      <4>1. k - 1 <= BufSize /\ Len(o) < BufSize
        BY <2>3, <3>5, <3>8
      <4>2. f[k - 1] \in Seq(S) /\ Runs(Begun(e), f[k - 1], Within(o))
        BY <3>2, <3>4, <4>1 DEF Decodes
      <4>3. Runs(Within(o), Stuff(frame[k]), Within(SubSeq(frame, 1, k)))
        BY <2>3, <3>5, <4>1, RunOverStuffed
      <4>. QED
        BY <3>3, <3>6, <4>2, <4>3, RunsConcat
    <3>9. Decodes(f, k, frame, S, e)
      BY <3>7, <3>8 DEF Decodes
    <3>. QED
      BY <3>9
  <2>. QED
    BY <2>4, <2>5
<1>7. Decodes(f, n, frame, S, e) /\ SubSeq(frame, 1, n) = frame
  <2>1. n \in 1 .. n
    BY <1>1
  <2>. QED
    BY <1>1, <1>6, <2>1, SubSeqFull
<1>. QED
  BY <1>1, <1>5, <1>7 DEF Decodes

LEMMA SlipLonger ==
  ASSUME NEW S, 0 .. 255 \subseteq S, NEW frame \in Seq(S), frame # <<>>, BufSize \in Nat
  PROVE  /\ slip(frame) \in Seq(S) /\ slip(frame) # <<>>
         /\ Len(slip(frame)) <= BufSize => Len(frame) <= BufSize
<1>1. PICK s : s = [i \in DOMAIN frame |-> Stuff(frame[i])]
  OBVIOUS
<1>2. PICK b : b = FlattenSeq(s)
  OBVIOUS
<1>3. PICK no \in BOOLEAN : no = FALSE
  OBVIOUS
<1>4. b \in Seq(S) /\ Len(b) >= Len(frame)
  BY <1>1, <1>2, <1>3, RunOverFrame
<1>5. slip(frame) = (<<END>> \o b) \o <<END>> /\ <<END>> \in Seq(S)
  <2>1. END \in S
    BY DEF END
  <2>. QED
    BY <1>1, <1>2, <2>1, OneByOne DEF slip
<1>6. <<END>> \o b \in Seq(S) /\ (<<END>> \o b) \o <<END>> \in Seq(S)
  BY <1>4, <1>5, ConcatProperties
<1>7. Len(<<END>>) = 1
  OBVIOUS
<1>8. PICK n \in Nat : n = Len(b)
  BY <1>4, LenProperties
<1>9. PICK m \in Nat : m = Len(frame)
  BY LenProperties
<1>10. PICK t : t = <<END>> \o b
  OBVIOUS
<1>11. t \in Seq(S) /\ Len(t) = 1 + n
  BY <1>4, <1>5, <1>6, <1>7, <1>8, <1>10, ConcatProperties
<1>12. Len(t \o <<END>>) = 1 + n + 1
  <2>1. PICK u \in Seq(S) : u = <<END>> /\ Len(u) = 1
    BY <1>5, <1>7
  <2>2. Len(t \o u) = Len(t) + Len(u)
    BY <1>11, <2>1, ConcatProperties
  <2>. QED
    BY <1>11, <2>1, <2>2
<1>13. Len(slip(frame)) = 1 + n + 1
  BY <1>5, <1>10, <1>12
<1>14. n >= m
  BY <1>4, <1>8, <1>9
<1>15. Len(slip(frame)) # 0
  BY <1>13, Lengths
<1>16. Len(slip(frame)) <= BufSize => m <= BufSize
  <2>1. Len(slip(frame)) <= BufSize => 1 + n + 1 <= BufSize
    BY <1>13
  <2>. QED
    BY <1>14, <2>1, Lengths
<1>. QED
  BY <1>5, <1>6, <1>9, <1>15, <1>16, EmptySeq

(* A command without data becomes a frame of three bytes.                  *)
LEMMA SlipOne ==
  ASSUME NEW c \in Nat, Plain(c)
  PROVE  slip(<<c>>) \in Seq(Nat) /\ Len(slip(<<c>>)) = 3
<1>1. PICK frame : frame = <<c>>
  OBVIOUS
<1>2. Len(frame) = 1 /\ DOMAIN frame = 1 .. 1 /\ frame[1] = c
  BY <1>1
<1>3. PICK s : s = [i \in DOMAIN frame |-> Stuff(frame[i])]
  OBVIOUS
<1>4. Len(s) = 1 /\ s[1] = <<c>>
  BY <1>2, <1>3 DEF Plain, Stuff
<1>5. PICK f : f = CHOOSE h : IsJoin(h, s, 1)
  OBVIOUS
<1>6. IsJoin(f, s, 1)
  BY <1>5, JoinExists
<1>7. f[1] = s[1]
  BY <1>6 DEF IsJoin
<1>8. FlattenSeq(s) = <<c>>
  BY <1>4, <1>5, <1>7 DEF FlattenSeq, IsJoin
<1>9. slip(frame) = <<END>> \o <<c>> \o <<END>>
  BY <1>3, <1>8 DEF slip
<1>10. PICK t : t = <<END>> \o <<c>> \o <<END>>
  OBVIOUS
<1>11. END \in Nat
  BY DEF END
<1>12. <<END>> \o <<c>> = <<END, c>> /\ <<END, c>> \in Seq(Nat) /\ Len(<<END, c>>) = 2
  <2>1. PICK x \in Nat : x = END
    BY <1>11
  <2>2. <<x>> \o <<c>> = <<x, c>>
    BY OneByOne
  <2>3. <<x, c>> \in Seq(Nat) /\ Len(<<x, c>>) = 2
    OBVIOUS
  <2>. QED
    BY <2>1, <2>2, <2>3
<1>13. t \in Seq(Nat) /\ Len(t) = 3
  BY <1>10, <1>11, <1>12, ConcatProperties
<1>. QED
  BY <1>1, <1>9, <1>10, <1>13

(* A decoder makes of a slipped frame just that frame, and is between      *)
(* frames again: slip and unslip of slip.c, for any frame that its buffers *)
(* hold, whatever its bytes look like, and wherever the decoder was left   *)
(* by what came before; but an escape that was left is taken for one that  *)
(* is in the frame, if its first byte can be escaped.                      *)
THEOREM SlipUndone ==
  ASSUME NEW S, 0 .. 255 \subseteq S, NEW frame \in Seq(S), frame # <<>>, BufSize \in Nat,
         Len(slip(frame)) <= BufSize,
         NEW dec \in Decoder, dec.escape => Plain(frame[1])
  PROVE  /\ slip(frame) \in Seq(S) /\ slip(frame) # <<>>
         /\ unslip(dec, slip(frame)) =
              [decoding |-> FALSE, escape |-> FALSE, out |-> <<>>, frames |-> <<frame>>]
<1>1. PICK s : s = [i \in DOMAIN frame |-> Stuff(frame[i])]
  OBVIOUS
<1>2. PICK b : b = FlattenSeq(s)
  OBVIOUS
<1>. DEFINE e == dec.escape
<1>3. e \in BOOLEAN
  BY DEF Decoder
<1>4. /\ b \in Seq(S) /\ Len(b) >= Len(frame)
      /\ Len(frame) <= BufSize => Runs(Begun(e), b, Within(frame))
  BY <1>1, <1>2, <1>3, RunOverFrame
<1>5. slip(frame) = (<<END>> \o b) \o <<END>> /\ <<END>> \in Seq(S)
  <2>1. END \in S
    BY DEF END
  <2>. QED
    BY <1>1, <1>2, <2>1, OneByOne DEF slip
<1>6. <<END>> \o b \in Seq(S) /\ (<<END>> \o b) \o <<END>> \in Seq(S)
  BY <1>4, <1>5, ConcatProperties
<1>7. /\ slip(frame) \in Seq(S) /\ slip(frame) # <<>>
      /\ Len(frame) <= BufSize
  BY SlipLonger
<1>8. Runs(Begun(e), b, Within(frame))
  BY <1>4, <1>7
<1>9. PICK z : z = [decoding |-> FALSE, escape |-> FALSE, out |-> <<>>, frames |-> <<frame>>]
  OBVIOUS
<1>10. Feed(Begin(dec), END) = Begun(e)
  BY FeedStart DEF Begun
<1>11. Feed(Within(frame), END) = z
  BY <1>9, FeedFinish
<1>12. Runs(Begin(dec), <<END>>, Begun(e)) /\ Runs(Within(frame), <<END>>, z)
  BY <1>10, <1>11, RunOfOne
<1>13. Runs(Begin(dec), <<END>> \o b, Within(frame))
  BY <1>4, <1>5, <1>8, <1>12, RunsConcat
<1>14. Runs(Begin(dec), slip(frame), z)
  BY <1>5, <1>6, <1>12, <1>13, RunsConcat
<1>15. PICK y : y = unslip(dec, slip(frame))
  OBVIOUS
<1>16. Runs(Begin(dec), slip(frame), y)
  BY <1>7, <1>15, UnslipRuns
<1>17. y = z
  BY <1>7, <1>14, <1>16, RunsOneWay
<1>. QED
  BY <1>7, <1>9, <1>15, <1>17

-----------------------------------------------------------------------------
(* Whatever the bytes, the decoder keeps to its types.                     *)
State == [decoding : BOOLEAN, escape : BOOLEAN, out : Seq(Nat), frames : Seq(Seq(Nat))]

LEMMA FeedTyped ==
  ASSUME NEW d \in State, NEW c \in Nat
  PROVE  Feed(d, c) \in State
<1>1. d.out \in Seq(Nat) /\ d.frames \in Seq(Seq(Nat))
  BY DEF State
<1>2. PICK o \in Seq(Nat) : o = IF Len(d.out) < BufSize
                              THEN Append(d.out, IF d.escape THEN Unstuff(c) ELSE c)
                              ELSE d.out
  <2>1. END \in Nat /\ ESC \in Nat
    BY DEF END, ESC
  <2>2. Unstuff(c) \in Nat
    BY <2>1 DEF Unstuff
  <2>3. PICK x \in Nat : x = IF d.escape THEN Unstuff(c) ELSE c
    BY <2>2
  <2>4. Append(d.out, x) \in Seq(Nat)
    BY <1>1, AppendProperties
  <2>. QED
    BY <1>1, <2>3, <2>4
<1>3. PICK q \in Seq(Seq(Nat)) : q = Append(d.frames, d.out)
  BY <1>1, AppendProperties
<1>4. <<>> \in Seq(Nat)
  OBVIOUS
<1>5. PICK yes \in BOOLEAN, no \in BOOLEAN : yes = TRUE /\ no = FALSE
  OBVIOUS
<1>6. /\ [d EXCEPT !.decoding = yes] \in State
      /\ [d EXCEPT !.decoding = no, !.out = <<>>, !.frames = q] \in State
      /\ [d EXCEPT !.escape = yes] \in State
      /\ [d EXCEPT !.escape = no, !.out = o] \in State
  BY <1>4 DEF State
<1>7. Feed(d, c) \in {[d EXCEPT !.decoding = yes],
                      [d EXCEPT !.decoding = no, !.out = <<>>, !.frames = q],
                      [d EXCEPT !.escape = yes], [d EXCEPT !.escape = no, !.out = o], d}
  BY <1>2, <1>3, <1>5 DEF Feed
<1>. QED
  BY <1>6, <1>7

LEMMA UnslipTyped ==
  ASSUME NEW dec \in Decoder, NEW buf \in Seq(Nat)
  PROVE  unslip(dec, buf) \in State
<1>1. PICK u : u = unslip(dec, buf)
  OBVIOUS
<1>2. PICK g : IsRun(g, Begin(dec), buf) /\ g[Len(buf)] = u
  BY <1>1, UnslipRuns DEF Runs
<1>3. PICK n \in Nat : n = Len(buf) /\ \A k \in 1 .. n : buf[k] \in Nat
  BY LenProperties, ElementOfSeq
<1>. DEFINE T == {k \in 0 .. n : g[k] \notin State}
<1>4. T = {}
  <2>. SUFFICES ASSUME T # {} PROVE FALSE
    OBVIOUS
  <2>1. T \subseteq Nat
    OBVIOUS
  <2>2. PICK k \in T : \A y \in T : k <= y
    BY <2>1, LeastFailure
  <2>3. g[0] \in State
    <3>1. PICK x \in BOOLEAN, y \in BOOLEAN : x = dec.decoding /\ y = dec.escape
      BY DEF Decoder
    <3>2. <<>> \in Seq(Nat) /\ <<>> \in Seq(Seq(Nat))
      OBVIOUS
    <3>3. g[0] = [decoding |-> x, escape |-> y, out |-> <<>>, frames |-> <<>>]
      BY <1>2, <3>1 DEF IsRun, Begin
    <3>. QED
      BY <3>2, <3>3 DEF State
  <2>4. k # 0 /\ k \in 0 .. n
    BY <2>3
  <2>5. k - 1 \in 0 .. n /\ k \in 1 .. n /\ ~(k <= k - 1)
    BY <2>4
  <2>6. g[k - 1] \in State
    BY <2>2, <2>5
  <2>7. g[k] = Feed(g[k - 1], buf[k]) /\ buf[k] \in Nat
    BY <1>2, <1>3, <2>5 DEF IsRun
  <2>. QED
    BY <2>6, <2>7, FeedTyped
<1>5. n \in 0 .. n
  OBVIOUS
<1>. QED
  BY <1>1, <1>2, <1>3, <1>4, <1>5

=============================================================================
