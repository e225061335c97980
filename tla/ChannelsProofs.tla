--------------------------- MODULE ChannelsProofs ---------------------------
(***************************************************************************)
(* What the six properties of ChannelTexts say, for texts of every length  *)
(* over any alphabet of two or more characters: parsing, offsets, printing,*)
(* matching, the clients' tests and grants.                                *)
(***************************************************************************)
EXTENDS ChannelTexts, SequenceTheorems, WellFoundedInduction, TLAPS

(* What starts t.* and stops at its end or before a dot, without holding a *)
(* star itself, stops inside t, before a dot.                              *)
LEMMA StopsBeforeDot ==
  ASSUME NEW s \in Name, NEW t \in Name, NEW w, s # <<>>,
         w = t \o <<Dot, Star>>,
         StartsWith(w, s), Len(w) = Len(s) \/ w[Len(s) + 1] = Dot
  PROVE  /\ Len(s) <= Len(t)
         /\ \A i \in 1..Len(s) : t[i] = s[i]
         /\ Len(s) < Len(t) => t[Len(s) + 1] = Dot
<1>1. Len(s) \in Nat /\ Len(t) \in Nat /\ Len(s) > 0
  BY DEF Name
<1>2. /\ Len(w) = Len(t) + 2
      /\ \A i \in 1..Len(t) : w[i] = t[i]
      /\ w[Len(t) + 1] = Dot
      /\ w[Len(t) + 2] = Star
  BY DEF Name
<1>3. Len(s) <= Len(w) /\ \A i \in 1..Len(s) : w[i] = s[i]
  BY DEF StartsWith
<1>4. \A i \in 1..Len(s) : s[i] # Star
  BY SymbolsAssumption DEF Name
<1>5. Len(s) # Len(t) + 2
  <2>1. SUFFICES ASSUME Len(s) = Len(t) + 2 PROVE FALSE
    OBVIOUS
  <2>2. Len(s) \in 1..Len(s)
    BY <1>1
  <2>3. w[Len(s)] = Star
    BY <1>2, <2>1
  <2> QED BY <1>3, <1>4, <2>2, <2>3
<1>6. Len(s) # Len(t) + 1
  <2>1. SUFFICES ASSUME Len(s) = Len(t) + 1 PROVE FALSE
    OBVIOUS
  <2>2. w[Len(s) + 1] = Star /\ Len(w) # Len(s)
    <3>1. Len(s) + 1 = Len(t) + 2
      BY <1>1, <2>1
    <3> QED BY <1>1, <1>2, <2>1, <3>1
  <2> QED BY <2>2, SymbolsAssumption
<1>7. Len(s) <= Len(t)
  BY <1>1, <1>2, <1>3, <1>5, <1>6
<1> QED BY <1>1, <1>2, <1>3, <1>7

(* A wildcard grant that admits a wildcard subscription is no narrower.    *)
LEMMA CoversWildcard ==
  ASSUME NEW g \in Pattern, NEW p \in Pattern, NEW ch \in Name,
         g.wildcard, p.wildcard, Covers(g, p), Matches(p, ch)
  PROVE  Matches(g, ch)
<1>1. CASE g.prefix = <<>>
  BY <1>1 DEF Matches
<1>2. CASE g.prefix # <<>>
  <2>1. g.prefix \in Name /\ p.prefix \in Name /\ Len(g.prefix) > 0
    BY <1>2 DEF Pattern, Name
  <2>2. /\ StartsWith(Display(p), g.prefix)
        /\ \/ Len(Display(p)) = Len(g.prefix)
           \/ Display(p)[Len(g.prefix) + 1] = Dot
    BY <1>2 DEF Covers
  <2>3. CASE p.prefix = <<>>
    <3>1. Display(p) = <<Star>>
      BY <2>3 DEF Display
    <3>2. g.prefix[1] = Star
      BY <2>1, <2>2, <3>1 DEF StartsWith
    <3> QED BY <2>1, <3>2, SymbolsAssumption DEF Name
  <2>4. CASE p.prefix # <<>>
    <3>1. Display(p) = p.prefix \o <<Dot, Star>>
      BY <2>4 DEF Display
    <3>2. /\ Len(g.prefix) <= Len(p.prefix)
          /\ \A i \in 1..Len(g.prefix) : p.prefix[i] = g.prefix[i]
          /\ Len(g.prefix) < Len(p.prefix) => p.prefix[Len(g.prefix) + 1] = Dot
      BY <1>2, <2>1, <2>2, <3>1, StopsBeforeDot
    <3>3. /\ Len(ch) > Len(p.prefix)
          /\ \A i \in 1..Len(p.prefix) : ch[i] = p.prefix[i]
          /\ ch[Len(p.prefix) + 1] = Dot
      BY <2>4 DEF Matches, StartsWith
    <3>4. Len(g.prefix) \in Nat /\ Len(p.prefix) \in Nat /\ Len(ch) \in Nat
      BY <2>1 DEF Name
    <3>5. \A i \in 1..Len(g.prefix) : ch[i] = g.prefix[i]
      BY <3>2, <3>3, <3>4
    <3>6. ch[Len(g.prefix) + 1] = Dot
      <4>1. CASE Len(g.prefix) = Len(p.prefix)
        BY <3>3, <4>1
      <4>2. CASE Len(g.prefix) < Len(p.prefix)
        BY <3>2, <3>3, <3>4, <4>2
      <4> QED BY <3>2, <3>4, <4>1, <4>2
    <3> QED BY <3>2, <3>3, <3>4, <3>5, <3>6 DEF Matches, StartsWith
  <2> QED BY <2>3, <2>4
<1> QED BY <1>1, <1>2

(* A wildcard grant that admits a single channel as a subscription matches *)
(* that channel, unless it is the name in front of the grant's own ".*".   *)
LEMMA CoversExact ==
  ASSUME NEW g \in Pattern, NEW p \in Pattern, NEW ch \in Name,
         g.wildcard, ~p.wildcard, Covers(g, p), Matches(p, ch)
  PROVE  Matches(g, ch) \/ g.prefix = ch
<1>1. p.prefix = ch /\ Display(p) = ch
  BY DEF Matches, Display
<1>2. CASE g.prefix = <<>>
  BY <1>2 DEF Matches
<1>3. CASE g.prefix # <<>>
  <2>1. g.prefix \in Name
    BY DEF Pattern
  <2>2. /\ StartsWith(ch, g.prefix)
        /\ \/ Len(ch) = Len(g.prefix)
           \/ Len(ch) > Len(g.prefix) /\ ch[Len(g.prefix) + 1] = Dot
    BY <1>1, <1>3 DEF Covers
  <2>3. CASE Len(ch) = Len(g.prefix)
    BY <2>1, <2>2, <2>3 DEF StartsWith, Name
  <2>4. CASE Len(ch) > Len(g.prefix) /\ ch[Len(g.prefix) + 1] = Dot
    BY <2>2, <2>4 DEF Matches
  <2> QED BY <2>2, <2>3, <2>4
<1> QED BY <1>2, <1>3

(* Two exact patterns that print alike are equal; an exact grant never     *)
(* prints like a wildcard subscription, because no prefix holds a star.    *)
LEMMA DisplayExact ==
  ASSUME NEW g \in Pattern, NEW p \in Pattern,
         ~g.wildcard, Display(g) = Display(p)
  PROVE  ~p.wildcard /\ p.prefix = g.prefix
<1>1. g.prefix \in Name /\ p.prefix \in Name /\ Display(g) = g.prefix
  BY DEF Pattern, Display
<1>2. CASE p.wildcard
  <2>1. CASE p.prefix = <<>>
    <3>1. g.prefix = <<Star>>
      BY <1>1, <1>2, <2>1 DEF Display
    <3>2. g.prefix[1] = Star /\ 1 \in 1..Len(g.prefix)
      BY <3>1
    <3> QED BY <1>1, <3>2, SymbolsAssumption DEF Name
  <2>2. CASE p.prefix # <<>>
    <3>1. g.prefix = p.prefix \o <<Dot, Star>>
      BY <1>1, <1>2, <2>2 DEF Display
    <3>2. /\ g.prefix[Len(p.prefix) + 2] = Star
          /\ Len(p.prefix) + 2 \in 1..Len(g.prefix)
      BY <1>1, <3>1 DEF Name
    <3> QED BY <1>1, <3>2, SymbolsAssumption DEF Name
  <2> QED BY <2>1, <2>2
<1>3. CASE ~p.wildcard
  BY <1>1, <1>3 DEF Display
<1> QED BY <1>2, <1>3

(* The whole of it: whatever an admitted subscription matches, its grant   *)
(* matches, but for the bare name of a wildcard grant's namespace.         *)
THEOREM CoversSound ==
  ASSUME NEW g \in Pattern, NEW p \in Pattern, NEW ch \in Name,
         Covers(g, p), Matches(p, ch)
  PROVE  Matches(g, ch) \/ (g.wildcard /\ g.prefix = ch)
<1>1. g.wildcard \in BOOLEAN /\ p.wildcard \in BOOLEAN
  BY DEF Pattern
<1>2. CASE g.wildcard /\ p.wildcard
  BY <1>2, CoversWildcard
<1>3. CASE g.wildcard /\ ~p.wildcard
  BY <1>3, CoversExact
<1>4. CASE ~g.wildcard
  <2>1. Display(g) = Display(p)
    BY <1>4 DEF Covers
  <2>2. ~p.wildcard /\ p.prefix = g.prefix
    BY <1>4, <2>1, DisplayExact
  <2> QED BY <1>4, <2>2 DEF Matches
<1> QED BY <1>1, <1>2, <1>3, <1>4

-----------------------------------------------------------------------------
(* Induction, on sets of natural numbers.                                  *)

LEMMA Least ==
  ASSUME NEW T \in SUBSET Nat, T # {}
  PROVE  \E m \in T : \A k \in T : m <= k
<1> DEFINE R == {ss \in Nat \X Nat : ss[1] < ss[2]}
<1>1. OpToRel(<, Nat) = R
  BY Zenon DEF OpToRel
<1>2. IsWellFoundedOn(R, Nat)
  BY <1>1, NatLessThanWellFounded
<1>3. \E m \in T : \A k \in T : ~ (<<k, m>> \in R)
  <2> HIDE DEF R
  <2> QED BY <1>2, WFMin, Zenon
<1>4. PICK m \in T : \A k \in T : ~ (<<k, m>> \in R)
  BY <1>3
<1>5. ASSUME NEW k \in T PROVE m <= k
  <2>1. <<k, m>> \notin R
    BY <1>4
  <2>2. <<k, m>> \in Nat \X Nat /\ <<k, m>>[1] = k /\ <<k, m>>[2] = m
    OBVIOUS
  <2>3. ~(k < m)
    BY <2>1, <2>2
  <2> QED BY <2>3
<1> QED BY <1>5

LEMMA Induction ==
  ASSUME NEW T \in SUBSET Nat, 0 \in T, \A n \in T : n + 1 \in T
  PROVE  T = Nat
<1> SUFFICES ASSUME Nat \ T # {} PROVE FALSE
  OBVIOUS
<1>1. PICK m \in Nat \ T : \A k \in Nat \ T : m <= k
  BY Least
<1>2. m - 1 \in Nat /\ m - 1 \in T
  BY <1>1
<1> QED BY <1>1, <1>2

-----------------------------------------------------------------------------
(* Splitting.  f[n] is what the first n symbols of t split into.           *)

SplitUpTo(t, f, n) == f = [i \in 0..n |-> IF i = 0 THEN << <<>> >> ELSE Split(f[i - 1], t[i])]

Progress(t, f) == SplitUpTo(t, f, Len(t)) /\ Parts(t) = f[Len(t)]

LEMMA SplitExists ==
  ASSUME NEW t \in Text, NEW n \in Nat
  PROVE  \E f : SplitUpTo(t, f, n)
<1> DEFINE T == {k \in Nat : \E f : SplitUpTo(t, f, k)}
<1>1. 0 \in T
  <2> DEFINE f == [i \in 0..0 |-> << <<>> >>]
  <2>1. SplitUpTo(t, f, 0)
    BY DEF SplitUpTo
  <2> QED BY <2>1
<1>2. ASSUME NEW k \in T PROVE k + 1 \in T
  <2>1. PICK f : SplitUpTo(t, f, k)
    OBVIOUS
  <2> DEFINE g == [i \in 0..(k + 1) |-> IF i = k + 1 THEN Split(f[i - 1], t[i]) ELSE f[i]]
             onward(h) == [i \in 0..(k + 1) |->
                             IF i = 0 THEN << <<>> >> ELSE Split(h[i - 1], t[i])]
  <2>2. ASSUME NEW i \in 0..(k + 1) PROVE g[i] = onward(g)[i]
    <3>1. \A j \in 0..k : g[j] = f[j]
      OBVIOUS
    <3>2. \A j \in 0..k : f[j] = IF j = 0 THEN << <<>> >> ELSE Split(f[j - 1], t[j])
      BY <2>1 DEF SplitUpTo
    <3>3. CASE i = k + 1
      BY <3>1, <3>3
    <3>4. CASE i # k + 1
      BY <3>1, <3>2, <3>4
    <3> QED BY <3>3, <3>4
  <2>3. g = onward(g)
    BY <2>2
  <2>4. SplitUpTo(t, g, k + 1)
    BY <2>3 DEF SplitUpTo
  <2> QED BY <2>4
<1>3. T = Nat
  <2> HIDE DEF T
  <2>1. T \in SUBSET Nat
    BY DEF T
  <2> QED BY <1>1, <1>2, <2>1, Induction
<1> QED BY <1>3

LEMMA PartsAre ==
  ASSUME NEW t \in Text
  PROVE  \E f : Progress(t, f)
<1>1. Len(t) \in Nat
  BY DEF Text
<1>2. \E f : SplitUpTo(t, f, Len(t))
  BY <1>1, SplitExists
<1> QED BY <1>2 DEF Parts, SplitUpTo, Progress

(* A dot begins an empty part; every other symbol lengthens the last part. *)
LEMMA SplitDot ==
  ASSUME NEW parts \in Seq(Text), Len(parts) > 0
  PROVE  /\ Split(parts, Dot) \in Seq(Text)
         /\ Len(Split(parts, Dot)) = Len(parts) + 1
         /\ \A i \in 1..Len(parts) : Split(parts, Dot)[i] = parts[i]
         /\ Split(parts, Dot)[Len(parts) + 1] = <<>>
<1>1. <<>> \in Text
  BY DEF Text
<1>2. Split(parts, Dot) = Append(parts, <<>>)
  BY DEF Split
<1> QED BY <1>1, <1>2

LEMMA SplitSymbol ==
  ASSUME NEW parts \in Seq(Text), Len(parts) > 0, NEW ch \in Symbol, ch # Dot,
         NEW last \in Text, last = parts[Len(parts)]
  PROVE  /\ Split(parts, ch) \in Seq(Text)
         /\ Len(Split(parts, ch)) = Len(parts)
         /\ \A i \in 1..(Len(parts) - 1) : Split(parts, ch)[i] = parts[i]
         /\ Split(parts, ch)[Len(parts)] = Append(last, ch)
<1>1. Append(last, ch) \in Text
  BY DEF Text
<1>2. Split(parts, ch) = [parts EXCEPT ![Len(parts)] = Append(last, ch)]
  BY DEF Split
<1>3. Len(parts) \in 1..Len(parts)
  OBVIOUS
<1> QED BY <1>1, <1>2, <1>3

LEMMA SplitType ==
  ASSUME NEW t \in Text, NEW f, Progress(t, f)
  PROVE  /\ f[0] = << <<>> >>
         /\ \A k \in 0..Len(t) : f[k] \in Seq(Text) /\ Len(f[k]) > 0
         /\ \A k \in 0..(Len(t) - 1) : f[k + 1] = Split(f[k], t[k + 1])
<1>1. Len(t) \in Nat /\ \A i \in 1..Len(t) : t[i] \in Symbol
  BY DEF Text
<1>2. \A i \in 0..Len(t) : f[i] = IF i = 0 THEN << <<>> >> ELSE Split(f[i - 1], t[i])
  BY DEF Progress, SplitUpTo
<1>3. f[0] = << <<>> >>
  BY <1>1, <1>2
<1>4. \A k \in 0..(Len(t) - 1) : f[k + 1] = Split(f[k], t[k + 1])
  <2> TAKE k \in 0..(Len(t) - 1)
  <2>1. k + 1 \in 0..Len(t) /\ k + 1 # 0 /\ (k + 1) - 1 = k
    BY <1>1
  <2> QED BY <1>2, <2>1
<1> DEFINE T == {k \in Nat : k <= Len(t) => f[k] \in Seq(Text) /\ Len(f[k]) > 0}
<1>5. 0 \in T
  <2>1. <<>> \in Text
    BY DEF Text
  <2>2. << <<>> >> \in Seq(Text) /\ Len(<< <<>> >>) = 1
    BY <2>1
  <2>3. f[0] \in Seq(Text) /\ Len(f[0]) > 0
    BY <1>3, <2>2
  <2> QED BY <2>3
<1>6. ASSUME NEW k \in T PROVE k + 1 \in T
  <2> SUFFICES ASSUME k + 1 <= Len(t) PROVE f[k + 1] \in Seq(Text) /\ Len(f[k + 1]) > 0
    OBVIOUS
  <2>1. k \in 0..(Len(t) - 1) /\ k + 1 \in 1..Len(t)
    BY <1>1
  <2>2. PICK parts \in Seq(Text) : parts = f[k] /\ Len(parts) > 0
    BY <1>1
  <2>3. f[k + 1] = Split(parts, t[k + 1])
    BY <1>4, <2>1, <2>2
  <2>4. CASE t[k + 1] = Dot
    BY <2>2, <2>3, <2>4, SplitDot
  <2>5. CASE t[k + 1] # Dot
    <3>1. parts[Len(parts)] \in Text
      BY <2>2
    <3> QED BY <1>1, <2>1, <2>2, <2>3, <2>5, <3>1, SplitSymbol
  <2> QED BY <2>4, <2>5
<1>7. T = Nat
  <2> HIDE DEF T
  <2>1. T \in SUBSET Nat
    BY DEF T
  <2> QED BY <1>5, <1>6, <2>1, Induction
<1>8. \A k \in 0..Len(t) : f[k] \in Seq(Text) /\ Len(f[k]) > 0
  <2> TAKE k \in 0..Len(t)
  <2>1. k \in Nat /\ k <= Len(t)
    BY <1>1
  <2> QED BY <1>7, <2>1
<1> QED BY <1>3, <1>4, <1>8

(* More symbols change no part but the last, and that one at its end.      *)
GrowsInto(old, new) ==
  /\ Len(old) <= Len(new)
  /\ \A i \in 1..(Len(old) - 1) : new[i] = old[i]
  /\ StartsWith(new[Len(old)], old[Len(old)])

LEMMA GrowsOn ==
  ASSUME NEW p \in Seq(Text), NEW q \in Seq(Text), NEW r \in Seq(Text), Len(p) > 0,
         GrowsInto(p, q), GrowsInto(q, r)
  PROVE  GrowsInto(p, r)
<1>1. /\ Len(p) \in Nat /\ Len(q) \in Nat /\ Len(r) \in Nat /\ Len(p) <= Len(q) /\ Len(q) <= Len(r)
      /\ \A i \in 1..(Len(p) - 1) : q[i] = p[i]
      /\ \A i \in 1..(Len(q) - 1) : r[i] = q[i]
  BY DEF GrowsInto
<1>2. PICK m \in 1..Len(p) : m = Len(p)
  BY <1>1
<1>3. p[m] \in Text /\ q[m] \in Text /\ r[m] \in Text
  BY <1>1, <1>2
<1>4. StartsWith(q[m], p[m])
  BY <1>2 DEF GrowsInto
<1>5. r[m] = q[m] \/ StartsWith(r[m], q[m])
  BY <1>1, <1>2 DEF GrowsInto
<1>6. StartsWith(r[m], p[m])
  <2>1. Len(p[m]) \in Nat /\ Len(q[m]) \in Nat /\ Len(r[m]) \in Nat
    BY <1>3 DEF Text
  <2> QED BY <1>4, <1>5, <2>1 DEF StartsWith
<1> QED BY <1>1, <1>2, <1>6 DEF GrowsInto

LEMMA SplitGrows ==
  ASSUME NEW parts \in Seq(Text), Len(parts) > 0, NEW ch \in Symbol
  PROVE  GrowsInto(parts, Split(parts, ch))
<1>1. PICK m \in 1..Len(parts) : m = Len(parts)
  OBVIOUS
<1>2. PICK last \in Text : last = parts[m]
  BY <1>1
<1>3. Len(last) \in Nat /\ StartsWith(last, last)
  BY <1>2 DEF Text, StartsWith
<1>4. CASE ch = Dot
  <2>1. PICK new : new = Split(parts, ch)
    OBVIOUS
  <2>2. Len(new) = Len(parts) + 1 /\ \A i \in 1..Len(parts) : new[i] = parts[i]
    BY <1>4, <2>1, SplitDot
  <2> QED BY <1>1, <1>2, <1>3, <2>1, <2>2 DEF GrowsInto
<1>5. CASE ch # Dot
  <2>1. PICK new : new = Split(parts, ch)
    OBVIOUS
  <2>2. /\ Len(new) = Len(parts) /\ \A i \in 1..(Len(parts) - 1) : new[i] = parts[i]
        /\ new[m] = Append(last, ch)
    BY <1>1, <1>2, <1>5, <2>1, SplitSymbol
  <2>3. StartsWith(Append(last, ch), last)
    BY <1>2, <1>3 DEF StartsWith, Text
  <2> QED BY <1>1, <1>2, <2>1, <2>2, <2>3 DEF GrowsInto
<1> QED BY <1>4, <1>5

LEMMA Stable ==
  ASSUME NEW t \in Text, NEW f, Progress(t, f), NEW k \in 0..Len(t)
  PROVE  GrowsInto(f[k], Parts(t))
<1>1. Len(t) \in Nat /\ \A i \in 1..Len(t) : t[i] \in Symbol
  BY DEF Text
<1>2. /\ \A i \in 0..Len(t) : f[i] \in Seq(Text) /\ Len(f[i]) > 0
      /\ \A i \in 0..(Len(t) - 1) : f[i + 1] = Split(f[i], t[i + 1])
  BY SplitType
<1> DEFINE T == {n \in Nat : k + n <= Len(t) => GrowsInto(f[k], f[k + n])}
<1>3. 0 \in T
  <2>1. f[k] \in Seq(Text) /\ Len(f[k]) > 0
    BY <1>2
  <2>2. f[k][Len(f[k])] \in Text
    BY <2>1
  <2>3. StartsWith(f[k][Len(f[k])], f[k][Len(f[k])])
    BY <2>2 DEF StartsWith, Text
  <2>4. k + 0 = k
    BY <1>1
  <2> QED BY <2>1, <2>3, <2>4 DEF GrowsInto
<1>4. ASSUME NEW n \in T PROVE n + 1 \in T
  <2> SUFFICES ASSUME k + (n + 1) <= Len(t) PROVE GrowsInto(f[k], f[k + (n + 1)])
    OBVIOUS
  <2>1. PICK i \in 0..(Len(t) - 1) : i = k + n
    BY <1>1
  <2>2. i + 1 = k + (n + 1) /\ i + 1 \in 1..Len(t) /\ i \in 0..Len(t) /\ i + 1 \in 0..Len(t)
    BY <1>1, <2>1
  <2>3. GrowsInto(f[k], f[i])
    BY <1>1, <2>1
  <2>4. GrowsInto(f[i], f[i + 1])
    BY <1>1, <1>2, <2>2, SplitGrows
  <2> QED BY <1>2, <2>2, <2>3, <2>4, GrowsOn
<1>5. T = Nat
  <2> HIDE DEF T
  <2>1. T \in SUBSET Nat
    BY DEF T
  <2> QED BY <1>3, <1>4, <2>1, Induction
<1>6. Len(t) - k \in T /\ k + (Len(t) - k) = Len(t)
  <2>1. Len(t) - k \in Nat /\ k + (Len(t) - k) = Len(t)
    BY <1>1
  <2> HIDE DEF T
  <2> QED BY <1>5, <2>1
<1>7. GrowsInto(f[k], f[Len(t)])
  BY <1>1, <1>6
<1> QED BY <1>7 DEF Progress

LEMMA PartsType ==
  ASSUME NEW t \in Text
  PROVE  Parts(t) \in Seq(Text) /\ Len(Parts(t)) > 0
<1>1. PICK f : Progress(t, f)
  BY PartsAre
<1>2. Len(t) \in 0..Len(t)
  BY DEF Text
<1> QED BY <1>1, <1>2, SplitType DEF Progress

(* What the next symbol is can be seen from the parts of the whole.        *)
LEMMA NextDot ==
  ASSUME NEW t \in Text, NEW f, Progress(t, f), NEW k \in 0..(Len(t) - 1), t[k + 1] = Dot
  PROVE  Len(Parts(t)) > Len(f[k]) /\ Parts(t)[Len(f[k])] = f[k][Len(f[k])]
<1>1. k \in 0..Len(t) /\ k + 1 \in 0..Len(t)
  BY DEF Text
<1>2. PICK parts \in Seq(Text) : parts = f[k] /\ Len(parts) > 0
  BY <1>1, SplitType
<1>3. PICK new : new = f[k + 1]
  OBVIOUS
<1>4. /\ Len(new) = Len(parts) + 1
      /\ \A i \in 1..Len(parts) : new[i] = parts[i]
  <2>1. new = Split(parts, Dot)
    BY <1>2, <1>3, SplitType
  <2> QED BY <1>2, <2>1, SplitDot
<1>5. GrowsInto(new, Parts(t))
  BY <1>1, <1>3, Stable
<1>6. Len(parts) \in 1..Len(parts) /\ Len(parts) \in 1..(Len(new) - 1) /\ Len(Parts(t)) \in Nat
  BY <1>2, <1>4, PartsType
<1> QED BY <1>2, <1>4, <1>5, <1>6 DEF GrowsInto

LEMMA NextSymbol ==
  ASSUME NEW t \in Text, NEW f, Progress(t, f), NEW k \in 0..(Len(t) - 1), t[k + 1] # Dot
  PROVE  /\ Len(f[k]) \in 1..Len(Parts(t))
         /\ Len(f[k][Len(f[k])]) + 1 \in 1..Len(Parts(t)[Len(f[k])])
         /\ Parts(t)[Len(f[k])][Len(f[k][Len(f[k])]) + 1] = t[k + 1]
<1>1. k \in 0..Len(t) /\ k + 1 \in 0..Len(t) /\ k + 1 \in 1..Len(t) /\ t[k + 1] \in Symbol
  BY DEF Text
<1>2. PICK parts \in Seq(Text) : parts = f[k] /\ Len(parts) > 0
  BY <1>1, SplitType
<1>3. PICK last \in Text : last = parts[Len(parts)]
  BY <1>2
<1>4. PICK new : new = f[k + 1]
  OBVIOUS
<1>5. Len(new) = Len(parts) /\ new[Len(parts)] = Append(last, t[k + 1])
  <2>1. new = Split(parts, t[k + 1])
    BY <1>2, <1>4, SplitType
  <2> QED BY <1>1, <1>2, <1>3, <2>1, SplitSymbol
<1>6. GrowsInto(new, Parts(t))
  BY <1>1, <1>4, Stable
<1>7. Parts(t) \in Seq(Text)
  BY PartsType
<1>8. Len(parts) \in 1..Len(Parts(t))
  BY <1>2, <1>5, <1>6, <1>7 DEF GrowsInto
<1>9. PICK part \in Text : part = Parts(t)[Len(parts)]
  BY <1>7, <1>8
<1>10. StartsWith(part, Append(last, t[k + 1]))
  BY <1>5, <1>6, <1>9 DEF GrowsInto
<1>11. /\ Len(last) \in Nat /\ Len(part) \in Nat
       /\ Len(Append(last, t[k + 1])) = Len(last) + 1
       /\ Append(last, t[k + 1])[Len(last) + 1] = t[k + 1]
  BY <1>1, <1>3, <1>9 DEF Text
<1>12. Len(last) + 1 \in 1..Len(part) /\ part[Len(last) + 1] = t[k + 1]
  BY <1>10, <1>11 DEF StartsWith
<1> QED BY <1>2, <1>3, <1>8, <1>9, <1>12

-----------------------------------------------------------------------------
(* The verdicts of the parsers, in terms of the parts.                     *)

LEMMA RangeIs ==
  ASSUME NEW t \in Text, NEW S
  PROVE  Range(t) \subseteq S <=> \A x \in 1..Len(t) : t[x] \in S
<1>1. DOMAIN t = 1..Len(t)
  BY DEF Text
<1> QED BY <1>1 DEF Range

LEMMA ValidIs ==
  ASSUME NEW part \in Text
  PROVE  /\ ValidSegment(part) <=> Len(part) > 0 /\ \A x \in 1..Len(part) : part[x] \in Char
         /\ PartError(part) = "none" <=> ValidSegment(part)
<1>1. ValidSegment(part) <=> Len(part) > 0 /\ \A x \in 1..Len(part) : part[x] \in Char
  <2>1. part # <<>> <=> Len(part) > 0
    BY DEF Text
  <2> QED BY <2>1, RangeIs DEF ValidSegment
<1>2. ValidSegment(part) => part # <<>> /\ part # <<Star>>
  <2>1. SUFFICES ASSUME ValidSegment(part), part = <<Star>> PROVE FALSE
    BY DEF ValidSegment
  <2>2. 1 \in 1..Len(part) /\ part[1] = Star
    BY <2>1
  <2> QED BY <1>1, <2>1, <2>2, SymbolsAssumption
<1>3. PartError(part) = "none" <=> ValidSegment(part)
  <2>1. CASE part = <<>>
    BY <1>2, <2>1 DEF PartError
  <2>2. CASE part = <<Star>>
    BY <1>2, <2>2 DEF PartError
  <2>3. CASE part # <<>> /\ part # <<Star>>
    BY <2>3 DEF PartError
  <2> QED BY <2>1, <2>2, <2>3
<1> QED BY <1>1, <1>3

LEMMA NoError ==
  ASSUME NEW n \in Nat, NEW errors, DOMAIN errors = 1..n
  PROVE  FirstError(errors) = "none" <=> \A i \in 1..n : errors[i] = "none"
<1> DEFINE bad == {i \in 1..n : errors[i] # "none"}
<1>1. CASE bad = {}
  BY <1>1 DEF FirstError
<1>2. CASE bad # {}
  <2>1. PICK m \in bad : \A i \in bad : m <= i
    <3>1. bad \in SUBSET Nat
      OBVIOUS
    <3> HIDE DEF bad
    <3> QED BY <1>2, <3>1, Least
  <2>2. Min(bad) \in bad
    BY <2>1 DEF Min
  <2> QED BY <1>2, <2>2 DEF FirstError
<1> QED BY <1>1, <1>2

LEMMA ChannelParts ==
  ASSUME NEW t \in Text
  PROVE  IsChannel(t) <=> t # <<>> /\ \A i \in 1..Len(Parts(t)) : ValidSegment(Parts(t)[i])
<1>1. PICK parts \in Seq(Text) : parts = Parts(t)
  BY PartsType
<1>2. Len(parts) \in Nat /\ DOMAIN parts = 1..Len(parts) /\ \A i \in 1..Len(parts) : parts[i] \in Text
  BY <1>1
<1>3. PICK errors : errors = [i \in 1..Len(parts) |-> PartError(parts[i])]
  OBVIOUS
<1>4. FirstError(errors) = "none" <=> \A i \in 1..Len(parts) : errors[i] = "none"
  BY <1>2, <1>3, NoError
<1>5. FirstError(errors) = "none" <=> \A i \in 1..Len(parts) : ValidSegment(parts[i])
  BY <1>2, <1>3, <1>4, ValidIs
<1>6. CASE t = <<>>
  BY <1>6 DEF IsChannel, ChannelError
<1>7. CASE t # <<>>
  <2>1. ChannelError(t) = FirstError(errors)
    BY <1>1, <1>2, <1>3, <1>7 DEF ChannelError
  <2> QED BY <1>1, <1>5, <1>7, <2>1 DEF IsChannel
<1> QED BY <1>6, <1>7

(* A text is a name if its parts hold nothing but characters.              *)
LEMMA PartsOfName ==
  ASSUME NEW t \in Text,
         \A i \in 1..Len(Parts(t)) : \A x \in 1..Len(Parts(t)[i]) : Parts(t)[i][x] \in Char
  PROVE  t \in Name
<1>1. PICK f : Progress(t, f)
  BY PartsAre
<1>2. ASSUME NEW i \in 1..Len(t) PROVE t[i] \in Char \cup {Dot}
  <2>1. PICK k \in 0..(Len(t) - 1) : k + 1 = i
    <3>1. i - 1 \in 0..(Len(t) - 1) /\ (i - 1) + 1 = i
      BY DEF Text
    <3> QED BY <3>1
  <2>2. CASE t[i] # Dot
    BY <1>1, <2>1, <2>2, NextSymbol
  <2> QED BY <2>2
<1> QED BY <1>2 DEF Text, Name

-----------------------------------------------------------------------------
(* Parsing a channel.                                                      *)

LEMMA ChannelsAreWellFormed ==
  ASSUME NEW t \in Text, IsChannel(t)
  PROVE  WellFormed(t) /\ t \in Name
<1>1. PICK f : Progress(t, f)
  BY PartsAre
<1>2. /\ t # <<>> /\ Len(t) \in Nat /\ Len(t) > 0
      /\ \A i \in 1..Len(Parts(t)) : Parts(t)[i] \in Text /\ Len(Parts(t)[i]) > 0
      /\ \A i \in 1..Len(Parts(t)) : \A x \in 1..Len(Parts(t)[i]) : Parts(t)[i][x] \in Char
  <2>1. Len(t) \in Nat /\ (t # <<>> <=> Len(t) > 0)
    BY DEF Text
  <2> QED BY <2>1, ChannelParts, PartsType, ValidIs
<1>3. t \in Name
  BY <1>2, PartsOfName
<1>4. Range(t) \subseteq Char \cup {Dot}
  <2>1. \A x \in 1..Len(t) : t[x] \in Char \cup {Dot}
    BY <1>3 DEF Name
  <2> QED BY <2>1, RangeIs
<1>5. ASSUME NEW k \in 0..(Len(t) - 1), t[k + 1] = Dot PROVE Len(f[k][Len(f[k])]) > 0
  <2>1. Len(f[k]) \in Nat /\ Len(f[k]) > 0
    <3>1. k \in 0..Len(t)
      BY <1>2
    <3> QED BY <1>1, <3>1, SplitType
  <2>2. Len(Parts(t)) > Len(f[k]) /\ Parts(t)[Len(f[k])] = f[k][Len(f[k])]
    BY <1>1, <1>5, NextDot
  <2>3. Len(f[k]) \in 1..Len(Parts(t))
    BY <2>1, <2>2, PartsType
  <2> QED BY <1>2, <2>2, <2>3
<1>6. t[1] # Dot
  <2>1. SUFFICES ASSUME t[0 + 1] = Dot PROVE FALSE
    OBVIOUS
  <2>2. f[0] = << <<>> >>
    BY <1>1, SplitType
  <2>3. Len(f[0][Len(f[0])]) = 0
    BY <2>2
  <2> QED BY <1>2, <1>5, <2>1, <2>3
<1>7. ASSUME NEW k \in 0..(Len(t) - 1), t[k + 1] = Dot PROVE f[k + 1][Len(f[k + 1])] = <<>>
  <2>1. PICK parts \in Seq(Text) : parts = f[k] /\ Len(parts) > 0
    <3>1. k \in 0..Len(t)
      BY <1>2
    <3> QED BY <1>1, <3>1, SplitType
  <2>2. f[k + 1] = Split(parts, Dot)
    BY <1>1, <1>7, <2>1, SplitType
  <2> QED BY <2>1, <2>2, SplitDot
<1>8. ASSUME NEW i \in 1..(Len(t) - 1), t[i] = Dot, t[i + 1] = Dot PROVE FALSE
  <2>1. PICK k \in 0..(Len(t) - 1) : k + 1 = i
    <3>1. i - 1 \in 0..(Len(t) - 1) /\ (i - 1) + 1 = i
      BY <1>2
    <3> QED BY <3>1
  <2>2. f[i][Len(f[i])] = <<>>
    BY <1>7, <1>8, <2>1
  <2>3. i \in 0..(Len(t) - 1)
    BY <1>2
  <2>4. Len(f[i][Len(f[i])]) > 0
    BY <1>5, <1>8, <2>3
  <2> QED BY <2>2, <2>4
<1>9. t[Len(t)] # Dot
  <2>1. SUFFICES ASSUME t[Len(t)] = Dot PROVE FALSE
    OBVIOUS
  <2>2. PICK k \in 0..(Len(t) - 1) : k + 1 = Len(t)
    <3>1. Len(t) - 1 \in 0..(Len(t) - 1) /\ (Len(t) - 1) + 1 = Len(t)
      BY <1>2
    <3> QED BY <3>1
  <2>3. Parts(t)[Len(Parts(t))] = <<>>
    BY <1>1, <1>7, <2>1, <2>2 DEF Progress
  <2>4. Len(Parts(t)) \in 1..Len(Parts(t))
    BY PartsType
  <2> QED BY <1>2, <2>3, <2>4
<1> QED BY <1>2, <1>3, <1>4, <1>6, <1>8, <1>9 DEF WellFormed

(* While a well-formed name is split, only the last part can be empty, and *)
(* only behind a dot.                                                      *)
LEMMA WellFormedAreChannels ==
  ASSUME NEW t \in Text, WellFormed(t)
  PROVE  IsChannel(t)
<1>1. PICK f : Progress(t, f)
  BY PartsAre
<1>2. /\ Len(t) \in Nat /\ Len(t) > 0 /\ t[1] # Dot /\ t[Len(t)] # Dot
      /\ \A i \in 1..Len(t) : t[i] \in Char \cup {Dot} /\ t[i] \in Symbol
      /\ \A i \in 1..(Len(t) - 1) : ~(t[i] = Dot /\ t[i + 1] = Dot)
  <2>1. Len(t) \in Nat /\ (t # <<>> <=> Len(t) > 0) /\ \A i \in 1..Len(t) : t[i] \in Symbol
    BY DEF Text
  <2> QED BY <2>1, RangeIs DEF WellFormed
<1>3. /\ f[0] = << <<>> >>
      /\ \A k \in 0..Len(t) : f[k] \in Seq(Text) /\ Len(f[k]) > 0
      /\ \A k \in 0..(Len(t) - 1) : f[k + 1] = Split(f[k], t[k + 1])
  BY <1>1, SplitType
<1> DEFINE Fine(k) == /\ \A i \in 1..Len(f[k]) : \A x \in 1..Len(f[k][i]) : f[k][i][x] \in Char
                      /\ \A i \in 1..(Len(f[k]) - 1) : Len(f[k][i]) > 0
                      /\ Len(f[k][Len(f[k])]) = 0 => k = 0 \/ t[k] = Dot
           T == {k \in Nat : k <= Len(t) => Fine(k)}
<1>4. 0 \in T
  <2>1. Len(f[0]) = 1 /\ f[0][1] = <<>> /\ Len(f[0][1]) = 0
    BY <1>3
  <2>2. \A x : x \notin 1..0
    OBVIOUS
  <2>3. \A i \in 1..Len(f[0]) : i = 1
    BY <2>1
  <2> QED BY <2>1, <2>2, <2>3
<1>5. ASSUME NEW k \in T PROVE k + 1 \in T
  <2> SUFFICES ASSUME k + 1 <= Len(t) PROVE Fine(k + 1)
    OBVIOUS
  <2>1. /\ Fine(k) /\ k \in 0..Len(t) /\ k \in 0..(Len(t) - 1) /\ k + 1 \in 1..Len(t)
        /\ t[k + 1] \in Char \cup {Dot} /\ t[k + 1] \in Symbol
    BY <1>2
  <2>2. PICK parts \in Seq(Text) : parts = f[k] /\ Len(parts) > 0
    BY <1>3, <2>1
  <2>3. PICK last \in Text : last = parts[Len(parts)]
    BY <2>2
  <2>4. PICK new : new = f[k + 1] /\ new = Split(parts, t[k + 1])
    BY <1>3, <2>1, <2>2
  <2>5. /\ Len(parts) \in Nat /\ Len(last) \in Nat
        /\ \A i \in 1..Len(parts) : \A x \in 1..Len(parts[i]) : parts[i][x] \in Char
        /\ \A i \in 1..(Len(parts) - 1) : Len(parts[i]) > 0
        /\ Len(last) = 0 => k = 0 \/ t[k] = Dot
    BY <2>1, <2>2, <2>3 DEF Text
  <2>6. CASE t[k + 1] = Dot
    <3>1. /\ Len(new) = Len(parts) + 1
          /\ \A i \in 1..Len(parts) : new[i] = parts[i]
          /\ new[Len(parts) + 1] = <<>>
      BY <2>2, <2>4, <2>6, SplitDot
    <3>2. Len(last) > 0
      <4>1. k # 0 => k \in 1..(Len(t) - 1)
        BY <1>2, <2>1
      <4> QED BY <1>2, <2>5, <2>6, <4>1
    <3>3. \A i \in 1..(Len(new) - 1) : Len(new[i]) > 0
      <4> TAKE i \in 1..(Len(new) - 1)
      <4>1. i \in 1..Len(parts) /\ (i = Len(parts) \/ i \in 1..(Len(parts) - 1))
        BY <2>5, <3>1
      <4> QED BY <2>3, <2>5, <3>1, <3>2, <4>1
    <3>4. \A i \in 1..Len(new) : \A x \in 1..Len(new[i]) : new[i][x] \in Char
      <4> TAKE i \in 1..Len(new)
      <4>1. CASE i = Len(parts) + 1
        <5>1. new[i] = <<>> /\ Len(new[i]) = 0 /\ \A x : x \notin 1..0
          BY <3>1, <4>1
        <5> QED BY <5>1
      <4>2. CASE i # Len(parts) + 1
        <5>1. i \in 1..Len(parts)
          BY <2>5, <3>1, <4>2
        <5> QED BY <2>5, <3>1, <5>1
      <4> QED BY <4>1, <4>2
    <3> QED BY <2>4, <2>6, <3>3, <3>4
  <2>7. CASE t[k + 1] # Dot
    <3>1. PICK longer : longer = Append(last, t[k + 1])
      OBVIOUS
    <3>2. /\ Len(longer) = Len(last) + 1
          /\ \A x \in 1..Len(last) : longer[x] = last[x]
          /\ longer[Len(last) + 1] = t[k + 1]
      BY <2>1, <2>3, <3>1 DEF Text
    <3>3. /\ Len(new) = Len(parts)
          /\ \A i \in 1..(Len(parts) - 1) : new[i] = parts[i]
          /\ new[Len(parts)] = longer
      BY <2>1, <2>2, <2>3, <2>4, <2>7, <3>1, SplitSymbol
    <3>4. t[k + 1] \in Char
      BY <2>1, <2>7
    <3>5. \A x \in 1..Len(longer) : longer[x] \in Char
      <4> TAKE x \in 1..Len(longer)
      <4>1. CASE x = Len(last) + 1
        BY <3>2, <3>4, <4>1
      <4>2. CASE x # Len(last) + 1
        <5>1. x \in 1..Len(last) /\ Len(parts) \in 1..Len(parts)
          BY <2>2, <2>5, <3>2, <4>2
        <5> QED BY <2>3, <2>5, <3>2, <5>1
      <4> QED BY <4>1, <4>2
    <3>6. \A i \in 1..Len(new) : \A x \in 1..Len(new[i]) : new[i][x] \in Char
      <4> TAKE i \in 1..Len(new)
      <4>1. CASE i = Len(parts)
        BY <3>3, <3>5, <4>1
      <4>2. CASE i # Len(parts)
        <5>1. i \in 1..(Len(parts) - 1) /\ i \in 1..Len(parts)
          BY <2>5, <3>3, <4>2
        <5> QED BY <2>5, <3>3, <5>1
      <4> QED BY <4>1, <4>2
    <3>7. Len(new[Len(new)]) > 0
      BY <2>5, <3>2, <3>3
    <3>8. \A i \in 1..(Len(new) - 1) : Len(new[i]) > 0
      BY <2>5, <3>3
    <3>9. ~(Len(new[Len(new)]) = 0)
      BY <3>7
    <3> HIDE DEF T
    <3> QED BY <2>4, <3>6, <3>8, <3>9
  <2> QED BY <2>6, <2>7
<1>6. T = Nat
  <2> HIDE DEF T
  <2>1. T \in SUBSET Nat
    BY DEF T
  <2> QED BY <1>4, <1>5, <2>1, Induction
<1>7. Fine(Len(t))
  <2>1. Len(t) \in T
    <3> HIDE DEF T
    <3> QED BY <1>2, <1>6
  <2> QED BY <1>2, <2>1
<1>8. PICK parts \in Seq(Text) : parts = Parts(t) /\ parts = f[Len(t)] /\ Len(parts) > 0
  BY <1>1, PartsType DEF Progress
<1>9. ASSUME NEW i \in 1..Len(parts) PROVE ValidSegment(parts[i])
  <2>1. i = Len(parts) \/ i \in 1..(Len(parts) - 1)
    BY <1>8
  <2>2. parts[i] \in Text /\ Len(parts[i]) \in Nat
    BY <1>8 DEF Text
  <2>3. Len(parts[i]) > 0
    BY <1>2, <1>7, <1>8, <2>1, <2>2
  <2> QED BY <1>7, <1>8, <2>2, <2>3, ValidIs
<1> QED BY <1>8, <1>9, ChannelParts DEF WellFormed

-----------------------------------------------------------------------------
(* The offsets of the parts.                                               *)

StartsUpTo(parts, s, n) ==
  s = [i \in 1..n |-> IF i = 1 THEN 0 ELSE s[i - 1] + 1 + Len(parts[i - 1])]

LEMMA StartsExist ==
  ASSUME NEW parts, NEW n \in Nat
  PROVE  \E s : StartsUpTo(parts, s, n)
<1> DEFINE T == {k \in Nat : \E s : StartsUpTo(parts, s, k)}
<1>1. 0 \in T
  <2> DEFINE s == [i \in 1..0 |-> 0]
  <2>1. StartsUpTo(parts, s, 0)
    BY DEF StartsUpTo
  <2> QED BY <2>1
<1>2. ASSUME NEW k \in T PROVE k + 1 \in T
  <2>1. PICK s : StartsUpTo(parts, s, k)
    OBVIOUS
  <2> DEFINE next(h, i) == IF i = 1 THEN 0 ELSE h[i - 1] + 1 + Len(parts[i - 1])
             g == [i \in 1..(k + 1) |-> IF i = k + 1 THEN next(s, i) ELSE s[i]]
  <2>2. ASSUME NEW i \in 1..(k + 1) PROVE g[i] = next(g, i)
    <3>1. \A j \in 1..k : g[j] = s[j]
      OBVIOUS
    <3>2. \A j \in 1..k : s[j] = next(s, j)
      BY <2>1 DEF StartsUpTo
    <3>3. CASE i = k + 1
      BY <3>1, <3>3
    <3>4. CASE i # k + 1
      BY <3>1, <3>2, <3>4
    <3> QED BY <3>3, <3>4
  <2>3. g = [i \in 1..(k + 1) |-> next(g, i)]
    BY <2>2
  <2>4. StartsUpTo(parts, g, k + 1)
    BY <2>3 DEF StartsUpTo
  <2> QED BY <2>4
<1>3. T = Nat
  <2> HIDE DEF T
  <2>1. T \in SUBSET Nat
    BY DEF T
  <2> QED BY <1>1, <1>2, <2>1, Induction
<1> QED BY <1>3

LEMMA StartsAre ==
  ASSUME NEW t \in Text, NEW parts \in Seq(Text), parts = Parts(t)
  PROVE  /\ SegmentStarts(t) \in Seq(Nat) /\ Len(SegmentStarts(t)) = Len(parts)
         /\ SegmentStarts(t)[1] = 0
         /\ \A i \in 1..(Len(parts) - 1) :
              SegmentStarts(t)[i + 1] = SegmentStarts(t)[i] + 1 + Len(parts[i])
<1>1. /\ Len(parts) \in Nat /\ Len(parts) > 0 /\ DOMAIN parts = 1..Len(parts)
      /\ \A i \in 1..Len(parts) : Len(parts[i]) \in Nat
  <2>1. \A i \in 1..Len(parts) : parts[i] \in Text
    OBVIOUS
  <2> QED BY <2>1, PartsType DEF Text
<1>2. \E s : StartsUpTo(parts, s, Len(parts))
  BY <1>1, StartsExist
<1>3. PICK s : StartsUpTo(parts, s, Len(parts)) /\ SegmentStarts(t) = s
  <2>1. SegmentStarts(t) = CHOOSE s : s = [i \in DOMAIN parts |->
                             IF i = 1 THEN 0 ELSE s[i - 1] + 1 + Len(parts[i - 1])]
    BY DEF SegmentStarts
  <2>2. SegmentStarts(t) = CHOOSE s : s = [i \in 1..Len(parts) |->
                             IF i = 1 THEN 0 ELSE s[i - 1] + 1 + Len(parts[i - 1])]
    BY <1>1, <2>1, Zenon
  <2> QED BY <1>2, <2>2 DEF StartsUpTo
<1>4. \A i \in 1..Len(parts) : s[i] = IF i = 1 THEN 0 ELSE s[i - 1] + 1 + Len(parts[i - 1])
  BY <1>3 DEF StartsUpTo
<1>5. s[1] = 0
  BY <1>1, <1>4
<1>6. \A i \in 1..(Len(parts) - 1) : s[i + 1] = s[i] + 1 + Len(parts[i])
  <2> TAKE i \in 1..(Len(parts) - 1)
  <2>1. i + 1 \in 1..Len(parts) /\ i + 1 # 1 /\ (i + 1) - 1 = i
    BY <1>1
  <2> QED BY <1>4, <2>1
<1> DEFINE T == {k \in Nat : k + 1 <= Len(parts) => s[k + 1] \in Nat}
<1>7. T = Nat
  <2>1. 0 \in T
    BY <1>5
  <2>2. ASSUME NEW k \in T PROVE k + 1 \in T
    <3> SUFFICES ASSUME (k + 1) + 1 <= Len(parts) PROVE s[(k + 1) + 1] \in Nat
      OBVIOUS
    <3>1. k + 1 \in 1..(Len(parts) - 1) /\ k + 1 \in 1..Len(parts) /\ s[k + 1] \in Nat
      BY <1>1
    <3> QED BY <1>1, <1>6, <3>1
  <2> HIDE DEF T
  <2>3. T \in SUBSET Nat
    BY DEF T
  <2> QED BY <2>1, <2>2, <2>3, Induction
<1>8. \A i \in 1..Len(parts) : s[i] \in Nat
  <2> TAKE i \in 1..Len(parts)
  <2>1. i - 1 \in Nat /\ (i - 1) + 1 = i /\ i <= Len(parts)
    BY <1>1
  <2>2. i - 1 \in T
    <3> HIDE DEF T
    <3> QED BY <1>7, <2>1
  <2> QED BY <2>1, <2>2
<1>9. s \in [1..Len(parts) -> Nat]
  <2>1. s = [i \in 1..Len(parts) |-> IF i = 1 THEN 0 ELSE s[i - 1] + 1 + Len(parts[i - 1])]
    BY <1>3 DEF StartsUpTo
  <2> QED BY <1>8, <2>1
<1>10. s \in Seq(Nat) /\ Len(s) = Len(parts)
  BY <1>1, <1>9
<1> QED BY <1>3, <1>5, <1>6, <1>10

(* Each part stands in the text from its offset on, and the last part ends *)
(* where the text does.                                                    *)
CutAt(t, s, parts, k) ==
  /\ k = s[Len(parts)] + Len(parts[Len(parts)])
  /\ \A i \in 1..Len(parts) : \A x \in 1..Len(parts[i]) : t[s[i] + x] = parts[i][x]

LEMMA Cuts ==
  ASSUME NEW t \in Text, NEW parts \in Seq(Text), parts = Parts(t),
         NEW s \in Seq(Nat), s = SegmentStarts(t)
  PROVE  CutAt(t, s, parts, Len(t))
<1>1. PICK f : Progress(t, f)
  BY PartsAre
<1>2. /\ Len(t) \in Nat /\ Len(parts) \in Nat /\ Len(parts) > 0
      /\ \A i \in 1..Len(t) : t[i] \in Symbol
  BY PartsType DEF Text
<1>3. /\ f[0] = << <<>> >>
      /\ \A k \in 0..Len(t) : f[k] \in Seq(Text) /\ Len(f[k]) > 0
      /\ \A k \in 0..(Len(t) - 1) : f[k + 1] = Split(f[k], t[k + 1])
  BY <1>1, SplitType
<1>4. /\ Len(s) = Len(parts) /\ s[1] = 0 /\ \A i \in 1..Len(parts) : s[i] \in Nat
      /\ \A i \in 1..(Len(parts) - 1) : s[i + 1] = s[i] + 1 + Len(parts[i])
  <2>1. /\ Len(s) = Len(parts) /\ s[1] = 0
        /\ \A i \in 1..(Len(parts) - 1) : s[i + 1] = s[i] + 1 + Len(parts[i])
    BY StartsAre
  <2> QED BY <2>1
<1> DEFINE T == {k \in Nat : k <= Len(t) => CutAt(t, s, f[k], k)}
<1>5. 0 \in T
  <2>1. Len(f[0]) = 1 /\ f[0][1] = <<>> /\ Len(f[0][1]) = 0
    BY <1>3
  <2>2. \A x : x \notin 1..0
    OBVIOUS
  <2>3. \A i \in 1..Len(f[0]) : i = 1
    BY <2>1
  <2>4. CutAt(t, s, f[0], 0)
    BY <1>4, <2>1, <2>2, <2>3 DEF CutAt
  <2> QED BY <2>4
<1>6. ASSUME NEW k \in T PROVE k + 1 \in T
  <2> SUFFICES ASSUME k + 1 <= Len(t) PROVE CutAt(t, s, f[k + 1], k + 1)
    OBVIOUS
  <2>0. CutAt(t, s, f[k], k)
    BY <1>2
  <2>1. /\ k \in 0..Len(t) /\ k \in 0..(Len(t) - 1) /\ k + 1 \in 1..Len(t)
        /\ t[k + 1] \in Symbol
    BY <1>2
  <2>2. PICK old \in Seq(Text) : old = f[k] /\ Len(old) > 0
    BY <1>3, <2>1
  <2>3. PICK last \in Text : last = old[Len(old)]
    BY <2>2
  <2>4. PICK new : new = f[k + 1] /\ new = Split(old, t[k + 1])
    BY <1>3, <2>1, <2>2
  <2>5. Len(old) \in Nat /\ Len(old) \in 1..Len(old) /\ Len(last) \in Nat
    BY <2>2, <2>3 DEF Text
  <2>8. k = s[Len(old)] + Len(last)
    BY <2>0, <2>2, <2>3 DEF CutAt
  <2>9. \A i \in 1..Len(old) : \A x \in 1..Len(old[i]) : t[s[i] + x] = old[i][x]
    BY <2>0, <2>2 DEF CutAt
  <2>6. CASE t[k + 1] = Dot
    <3>1. /\ Len(new) = Len(old) + 1
          /\ \A i \in 1..Len(old) : new[i] = old[i]
          /\ new[Len(old) + 1] = <<>>
      BY <2>2, <2>4, <2>6, SplitDot
    <3>2. Len(parts) > Len(old) /\ parts[Len(old)] = last
      BY <1>1, <2>1, <2>2, <2>3, <2>6, NextDot
    <3>3. s[Len(old) + 1] = s[Len(old)] + 1 + Len(last)
      <4>1. Len(old) \in 1..(Len(parts) - 1)
        BY <1>2, <2>5, <3>2
      <4> QED BY <1>4, <3>2, <4>1
    <3>4. k + 1 = s[Len(new)] + Len(new[Len(new)])
      <4>1. s[Len(old)] \in Nat
        <5>1. Len(old) \in 1..Len(parts)
          BY <1>2, <2>5, <3>2
        <5> QED BY <1>4, <5>1
      <4>2. new[Len(new)] = <<>> /\ Len(new[Len(new)]) = 0
        BY <3>1
      <4> QED BY <2>5, <2>8, <3>1, <3>3, <4>1, <4>2
    <3>5. \A i \in 1..Len(new) : \A x \in 1..Len(new[i]) : t[s[i] + x] = new[i][x]
      <4> TAKE i \in 1..Len(new)
      <4>1. CASE i = Len(old) + 1
        <5>1. new[i] = <<>> /\ Len(new[i]) = 0 /\ \A x : x \notin 1..0
          BY <3>1, <4>1
        <5> QED BY <5>1
      <4>2. CASE i # Len(old) + 1
        <5>1. i \in 1..Len(old)
          BY <2>5, <3>1, <4>2
        <5> QED BY <2>9, <3>1, <5>1
      <4> QED BY <4>1, <4>2
    <3>6. CutAt(t, s, new, k + 1)
      BY <3>4, <3>5 DEF CutAt
    <3> QED BY <2>4, <3>6
  <2>7. CASE t[k + 1] # Dot
    <3>1. PICK longer : longer = Append(last, t[k + 1])
      OBVIOUS
    <3>2. /\ Len(longer) = Len(last) + 1
          /\ \A x \in 1..Len(last) : longer[x] = last[x]
          /\ longer[Len(last) + 1] = t[k + 1]
      BY <2>1, <2>3, <3>1 DEF Text
    <3>3. /\ Len(new) = Len(old)
          /\ \A i \in 1..(Len(old) - 1) : new[i] = old[i]
          /\ new[Len(old)] = longer
      <4>1. PICK ch \in Symbol : ch = t[k + 1]
        BY <2>1
      <4>2. /\ Len(Split(old, ch)) = Len(old)
            /\ \A i \in 1..(Len(old) - 1) : Split(old, ch)[i] = old[i]
            /\ Split(old, ch)[Len(old)] = Append(last, ch)
        BY <2>2, <2>3, <2>7, <4>1, SplitSymbol
      <4>3. new = Split(old, ch) /\ longer = Append(last, ch)
        BY <2>4, <3>1, <4>1
      <4> QED BY <4>2, <4>3
    <3>4. s[Len(old)] \in Nat
      <4>1. Len(old) \in 1..Len(parts)
        BY <1>1, <2>1, <2>2, <2>7, NextSymbol
      <4> QED BY <1>4, <4>1
    <3>5. k + 1 = s[Len(old)] + (Len(last) + 1)
      BY <2>5, <2>8, <3>4
    <3>6. \A x \in 1..Len(longer) : t[s[Len(old)] + x] = longer[x]
      <4> TAKE x \in 1..Len(longer)
      <4>1. CASE x = Len(last) + 1
        BY <3>2, <3>5, <4>1
      <4>2. CASE x # Len(last) + 1
        <5>1. x \in 1..Len(last)
          BY <2>5, <3>2, <4>2
        <5>2. t[s[Len(old)] + x] = last[x]
          BY <2>3, <2>5, <2>9, <5>1
        <5> QED BY <3>2, <5>1, <5>2
      <4> QED BY <4>1, <4>2
    <3>7. \A i \in 1..Len(new) : \A x \in 1..Len(new[i]) : t[s[i] + x] = new[i][x]
      <4> TAKE i \in 1..Len(new)
      <4>1. CASE i = Len(old)
        BY <3>3, <3>6, <4>1
      <4>2. CASE i # Len(old)
        <5>1. i \in 1..(Len(old) - 1) /\ i \in 1..Len(old)
          BY <2>5, <3>3, <4>2
        <5> QED BY <2>9, <3>3, <5>1
      <4> QED BY <4>1, <4>2
    <3>8. k + 1 = s[Len(new)] + Len(new[Len(new)])
      BY <3>2, <3>3, <3>5
    <3>9. CutAt(t, s, new, k + 1)
      BY <3>7, <3>8 DEF CutAt
    <3> QED BY <2>4, <3>9
  <2> QED BY <2>6, <2>7
<1>7. T = Nat
  <2> HIDE DEF T
  <2>1. T \in SUBSET Nat
    BY DEF T
  <2> QED BY <1>5, <1>6, <2>1, Induction
<1>8. CutAt(t, s, f[Len(t)], Len(t))
  <2>1. Len(t) \in T
    <3> HIDE DEF T
    <3> QED BY <1>2, <1>7
  <2> QED BY <1>2, <2>1
<1> QED BY <1>1, <1>8 DEF Progress

LEMMA SameText ==
  ASSUME NEW t \in Text, NEW u \in Text, Len(t) = Len(u),
         \A x \in 1..Len(u) : t[x] = u[x]
  PROVE  t = u
BY DEF Text

LEMMA SegmentIs ==
  ASSUME NEW t \in Text, NEW i \in 1..Len(Parts(t))
  PROVE  Segment(t, i) = Parts(t)[i]
<1>1. PICK parts \in Seq(Text) : parts = Parts(t)
  BY PartsType
<1>2. PICK s \in Seq(Nat) : s = SegmentStarts(t)
  BY <1>1, StartsAre
<1>3. PICK part \in Text : part = parts[i]
  BY <1>1
<1>4. /\ Len(parts) \in Nat /\ Len(t) \in Nat /\ Len(part) \in Nat /\ s[i] \in Nat
      /\ Len(s) = Len(parts) /\ i \in 1..Len(parts)
      /\ \A j \in 1..(Len(parts) - 1) : s[j + 1] = s[j] + 1 + Len(parts[j])
  <2>1. Len(s) = Len(parts) /\ \A j \in 1..(Len(parts) - 1) : s[j + 1] = s[j] + 1 + Len(parts[j])
    BY <1>1, <1>2, StartsAre
  <2> QED BY <1>1, <1>2, <1>3, <2>1 DEF Text
<1>5. /\ \A x \in 1..Len(part) : t[s[i] + x] = part[x]
      /\ Len(t) = s[Len(parts)] + Len(parts[Len(parts)])
  BY <1>1, <1>2, <1>3, <1>4, Cuts DEF CutAt
<1>6. PICK start \in Nat : start = s[i]
  BY <1>4
<1>7. PICK len \in Nat : len = Len(part)
  BY <1>4
<1>8. Segment(t, i) = SubSeq(t, start + 1, start + len)
  <2>1. CASE i < Len(s)
    <3>1. i \in 1..(Len(parts) - 1)
      BY <1>4, <2>1
    <3>2. s[i + 1] = start + 1 + len
      BY <1>3, <1>4, <1>6, <1>7, <3>1
    <3>3. s[i + 1] - 1 = start + len
      BY <3>2
    <3> QED BY <1>2, <1>6, <2>1, <3>3 DEF Segment
  <2>2. CASE ~(i < Len(s))
    <3>1. i = Len(parts)
      BY <1>4, <2>2
    <3>2. Len(t) = start + len
      BY <1>3, <1>5, <1>6, <1>7, <3>1
    <3> QED BY <1>2, <1>6, <2>2, <3>2 DEF Segment
  <2> QED BY <2>1, <2>2
<1>9. PICK lo \in Int : lo = start + 1
  OBVIOUS
<1>10. PICK hi \in Int : hi = start + len
  OBVIOUS
<1>11. \A x \in 1..len : t[start + x] = part[x] /\ part[x] \in Symbol
  BY <1>3, <1>5, <1>6, <1>7 DEF Text
<1>12. \A j \in lo..hi : t[j] \in Symbol
  <2> TAKE j \in lo..hi
  <2>1. j - start \in 1..len /\ start + (j - start) = j
    BY <1>9, <1>10
  <2> QED BY <1>11, <2>1
<1>13. PICK cut : cut = SubSeq(t, lo, hi)
  OBVIOUS
<1>14. /\ cut \in Seq(Symbol) /\ Len(cut) = IF lo <= hi THEN hi - lo + 1 ELSE 0
       /\ \A x \in 1..(hi - lo + 1) : cut[x] = t[lo + x - 1]
  BY <1>12, <1>13, SubSeqProperties
<1>15. Len(cut) = len /\ \A x \in 1..len : cut[x] = part[x]
  <2>1. hi - lo + 1 = len /\ \A x \in 1..len : lo + x - 1 = start + x
    BY <1>9, <1>10
  <2>2. Len(cut) = len
    BY <1>9, <1>10, <1>14, <2>1
  <2>3. \A x \in 1..len : cut[x] = t[start + x]
    BY <1>14, <2>1
  <2> QED BY <1>11, <2>2, <2>3
<1>16. cut = part
  <2>1. cut \in Text
    BY <1>14 DEF Text
  <2>2. \A x \in 1..Len(part) : cut[x] = part[x]
    BY <1>7, <1>15
  <2> QED BY <1>3, <1>7, <1>15, <2>1, <2>2, SameText
<1> QED BY <1>1, <1>3, <1>8, <1>9, <1>10, <1>13, <1>16

-----------------------------------------------------------------------------
(* Every text typed is a text.                                             *)
Typed == text \in Text

LEMMA TextType == TextSpec => []Typed
<1>1. TextInit => Typed
  BY DEF TextInit, Text, Typed
<1>2. Typed /\ [TextNext]_text => Typed'
  <2>1. Typed /\ TextNext => Typed'
    BY DEF TextNext, TypeSymbol, Text, Typed
  <2>2. Typed /\ UNCHANGED text => Typed'
    BY DEF Typed
  <2> QED BY <2>1, <2>2
<1> QED BY <1>1, <1>2, PTL DEF TextSpec

(* Channel::parse and Channel::segment, for names of any length: what is   *)
(* accepted is what is well-formed, and every slice is the part it should  *)
(* be.                                                                     *)
THEOREM ParseExact == TextSpec => []ParseAcceptsWellFormed
<1>1. Typed => ParseAcceptsWellFormed
  <2> SUFFICES ASSUME text \in Text PROVE ParseAcceptsWellFormed
    BY DEF Typed
  <2>1. PICK parts \in Seq(Text) : parts = Parts(text)
    BY PartsType
  <2>2. IsChannel(text) <=> WellFormed(text)
    BY ChannelsAreWellFormed, WellFormedAreChannels
  <2>3. Len(SegmentStarts(text)) = Len(parts)
    BY <2>1, StartsAre
  <2>4. \A i \in DOMAIN Parts(text) : Segment(text, i) = Parts(text)[i]
    BY <2>1, SegmentIs
  <2> QED BY <2>1, <2>2, <2>3, <2>4 DEF ParseAcceptsWellFormed
<1> QED BY <1>1, TextType, PTL

-----------------------------------------------------------------------------
(* What the pattern parser accepts.                                        *)

LEMMA PatternPrefix ==
  ASSUME NEW t \in Text, IsPattern(t), t # <<Star>>
  PROVE  PatternOf(t).prefix \in Name /\ t # <<>> /\ (EndsWithDotStar(t) \/ Last(t) # Star)
<1>1. Len(t) \in Nat /\ t # <<>> /\ (EndsWithDotStar(t) \/ Last(t) # Star)
  BY DEF Text, IsPattern, PatternError
<1>2. PICK pre : pre = PatternOf(t).prefix
  OBVIOUS
<1>3. pre \in Text
  <2>1. CASE EndsWithDotStar(t)
    <3>1. pre = SubSeq(t, 1, Len(t) - 2)
      BY <1>2, <2>1 DEF PatternOf
    <3>2. \A i \in 1..(Len(t) - 2) : t[i] \in Symbol
      BY <1>1 DEF Text
    <3>3. 1 \in Int /\ Len(t) - 2 \in Int
      BY <1>1
    <3> QED BY <3>1, <3>2, <3>3, SubSeqProperties DEF Text
  <2>2. CASE ~EndsWithDotStar(t)
    BY <1>2, <2>2 DEF PatternOf
  <2> QED BY <2>1, <2>2
<1>4. PICK parts \in Seq(Text) : parts = Parts(pre)
  BY <1>3, PartsType
<1>5. Len(parts) \in Nat /\ DOMAIN parts = 1..Len(parts) /\ \A i \in 1..Len(parts) : parts[i] \in Text
  BY <1>4
<1>6. PICK errors : errors = [i \in 1..Len(parts) |->
                               IF i = 1 /\ parts[i] = <<>> THEN "none" ELSE PartError(parts[i])]
  OBVIOUS
<1>7. PatternError(t) = FirstError(errors)
  BY <1>1, <1>2, <1>4, <1>5, <1>6 DEF PatternError
<1>8. \A i \in 1..Len(parts) : errors[i] = "none"
  BY <1>5, <1>6, <1>7, NoError DEF IsPattern
<1>9. ASSUME NEW i \in 1..Len(parts) PROVE \A x \in 1..Len(parts[i]) : parts[i][x] \in Char
  <2>1. CASE parts[i] = <<>>
    <3>1. Len(parts[i]) = 0 /\ \A x : x \notin 1..0
      BY <2>1
    <3> QED BY <3>1
  <2>2. CASE parts[i] # <<>>
    <3>1. PartError(parts[i]) = "none"
      BY <1>6, <1>8, <1>9, <2>2
    <3> QED BY <1>5, <1>9, <3>1, ValidIs
  <2> QED BY <2>1, <2>2
<1>10. pre \in Name
  BY <1>3, <1>4, <1>9, PartsOfName
<1> QED BY <1>1, <1>2, <1>10

LEMMA LoneStar ==
  /\ IsPattern(<<Star>>)
  /\ PatternOf(<<Star>>) = [prefix |-> <<>>, wildcard |-> TRUE]
<1>1. <<Star>> # <<>> /\ ~EndsWithDotStar(<<Star>>)
  BY DEF EndsWithDotStar
<1>2. PatternOf(<<Star>>) = [prefix |-> <<>>, wildcard |-> TRUE]
  BY <1>1 DEF PatternOf
<1>3. IsPattern(<<Star>>)
  BY <1>1 DEF IsPattern, PatternError
<1> QED BY <1>2, <1>3

(* An accepted text is a lone star, a name with ".*" behind it, or a name. *)
LEMMA PatternIs ==
  ASSUME NEW t \in Text, IsPattern(t)
  PROVE  /\ PatternOf(t) \in Pattern
         /\ \/ t = <<Star>> /\ PatternOf(t) = [prefix |-> <<>>, wildcard |-> TRUE]
            \/ /\ t # <<Star>> /\ EndsWithDotStar(t) /\ PatternOf(t).wildcard
               /\ t = PatternOf(t).prefix \o <<Dot, Star>>
            \/ /\ t # <<>> /\ t \in Name
               /\ PatternOf(t) = [prefix |-> t, wildcard |-> FALSE]
<1>1. CASE t = <<Star>>
  <2>1. PatternOf(t) = [prefix |-> <<>>, wildcard |-> TRUE]
    BY <1>1, LoneStar
  <2>2. <<>> \in Name
    BY DEF Name
  <2>3. PatternOf(t) \in Pattern
    BY <2>1, <2>2 DEF Pattern
  <2> QED BY <1>1, <2>1, <2>3
<1>2. CASE t # <<Star>> /\ EndsWithDotStar(t)
  <2>1. PICK pre : pre = SubSeq(t, 1, Len(t) - 2)
    OBVIOUS
  <2>2. PatternOf(t) = [prefix |-> pre, wildcard |-> TRUE]
    BY <1>2, <2>1 DEF PatternOf
  <2>3. pre \in Name
    BY <1>2, <2>2, PatternPrefix
  <2>4. /\ Len(t) \in Nat /\ Len(t) >= 2 /\ t[Len(t) - 1] = Dot /\ t[Len(t)] = Star
        /\ \A i \in 1..(Len(t) - 2) : t[i] \in Symbol
    BY <1>2 DEF EndsWithDotStar, Text
  <2>5. /\ pre \in Seq(Symbol) /\ Len(pre) = Len(t) - 2
        /\ \A i \in 1..(Len(t) - 2) : pre[i] = t[i]
    <3>0. Len(t) - 2 \in Nat
      <4>1. \A n \in Nat : n >= 2 => n - 2 \in Nat
        OBVIOUS
      <4> QED BY <2>4, <4>1
    <3>1. PICK hi \in Nat : hi = Len(t) - 2
      BY <3>0
    <3>2. /\ pre \in Seq(Symbol) /\ Len(pre) = IF 1 <= hi THEN hi - 1 + 1 ELSE 0
          /\ \A i \in 1..(hi - 1 + 1) : pre[i] = t[1 + i - 1]
      BY <2>1, <2>4, <3>1, SubSeqProperties
    <3> QED BY <3>1, <3>2
  <2>6. PICK whole : whole = pre \o <<Dot, Star>>
    OBVIOUS
  <2>7. /\ whole \in Text /\ Len(whole) = Len(pre) + 2
        /\ \A i \in 1..Len(pre) : whole[i] = pre[i]
        /\ whole[Len(pre) + 1] = Dot /\ whole[Len(pre) + 2] = Star
    BY <2>5, <2>6 DEF Text, Symbol
  <2>8. \A i \in 1..Len(t) : whole[i] = t[i]
    <3> TAKE i \in 1..Len(t)
    <3>1. i \in 1..(Len(t) - 2) \/ i = Len(t) - 1 \/ i = Len(t)
      BY <2>4
    <3> QED BY <2>4, <2>5, <2>7, <3>1
  <2>9. whole = t
    BY <2>4, <2>5, <2>7, <2>8, SameText
  <2> QED BY <1>2, <2>2, <2>3, <2>6, <2>9 DEF Pattern
<1>3. CASE t # <<Star>> /\ ~EndsWithDotStar(t)
  <2>1. PatternOf(t) = [prefix |-> t, wildcard |-> FALSE]
    BY <1>3 DEF PatternOf
  <2>2. t \in Name /\ t # <<>>
    BY <1>3, <2>1, PatternPrefix
  <2> QED BY <2>1, <2>2 DEF Pattern
<1> QED BY <1>1, <1>2, <1>3

(* Storing a grant and loading it again: an accepted pattern, printed and  *)
(* parsed, is the same pattern, whatever its length.                       *)
THEOREM DisplayReparsed == TextSpec => []DisplayRoundTrip
<1>1. Typed => DisplayRoundTrip
  <2> SUFFICES ASSUME text \in Text, IsPattern(text)
               PROVE  /\ PatternOf(text) \in Pattern
                      /\ IsPattern(Display(PatternOf(text)))
                      /\ PatternOf(Display(PatternOf(text))) = PatternOf(text)
    BY DEF Typed, DisplayRoundTrip
  <2>1. PatternOf(text) \in Pattern
    BY PatternIs
  <2>2. CASE Display(PatternOf(text)) = text
    BY <2>1, <2>2
  <2>3. CASE PatternOf(text) = [prefix |-> <<>>, wildcard |-> TRUE]
    <3>1. Display(PatternOf(text)) = <<Star>>
      BY <2>3 DEF Display
    <3> QED BY <2>1, <2>3, <3>1, LoneStar
  <2>4. CASE /\ PatternOf(text).wildcard
             /\ text = PatternOf(text).prefix \o <<Dot, Star>>
    <3>1. CASE PatternOf(text).prefix = <<>>
      <4>1. PatternOf(text) = [prefix |-> <<>>, wildcard |-> TRUE]
        BY <2>1, <2>4, <3>1 DEF Pattern
      <4> QED BY <2>3, <4>1
    <3>2. CASE PatternOf(text).prefix # <<>>
      <4>1. Display(PatternOf(text)) = text
        BY <2>4, <3>2 DEF Display
      <4> QED BY <2>2, <4>1
    <3> QED BY <3>1, <3>2
  <2>5. CASE PatternOf(text) = [prefix |-> text, wildcard |-> FALSE]
    <3>1. Display(PatternOf(text)) = text
      BY <2>5 DEF Display
    <3> QED BY <2>2, <3>1
  <2> QED BY <2>3, <2>4, <2>5, PatternIs
<1> QED BY <1>1, TextType, PTL

-----------------------------------------------------------------------------
(* Matching.                                                               *)

LEMMA NamesAre ==
  ASSUME NEW ch \in ChannelNames
  PROVE  ch \in Text /\ ch \in Name /\ IsChannel(ch) /\ Len(ch) <= ChannelLen
<1>1. PICK n \in 0..ChannelLen : ch \in [1..n -> Char \cup {Dot}]
  BY DEF ChannelNames, BoundedSeq, SeqOf
<1>2. n \in Nat /\ n <= ChannelLen
  BY LengthAssumption
<1>3. ch \in Seq(Char \cup {Dot}) /\ Len(ch) = n
  BY <1>1, <1>2
<1>4. ch \in Text
  BY <1>3 DEF Text, Symbol
<1> QED BY <1>2, <1>3, <1>4 DEF ChannelNames, Name

(* Texts that begin alike split alike.                                     *)
LEMMA SplitAgrees ==
  ASSUME NEW t \in Text, NEW u \in Text, NEW f, NEW g, Progress(t, f), Progress(u, g),
         StartsWith(u, t)
  PROVE  g[Len(t)] = Parts(t)
<1>1. Len(t) \in Nat /\ Len(u) \in Nat /\ Len(t) <= Len(u) /\ \A i \in 1..Len(t) : u[i] = t[i]
  BY DEF Text, StartsWith
<1>2. /\ f[0] = << <<>> >> /\ g[0] = << <<>> >>
      /\ \A k \in 0..(Len(t) - 1) : f[k + 1] = Split(f[k], t[k + 1])
      /\ \A k \in 0..(Len(u) - 1) : g[k + 1] = Split(g[k], u[k + 1])
  BY SplitType
<1> DEFINE T == {k \in Nat : k <= Len(t) => g[k] = f[k]}
<1>3. 0 \in T
  BY <1>2
<1>4. ASSUME NEW k \in T PROVE k + 1 \in T
  <2> SUFFICES ASSUME k + 1 <= Len(t) PROVE g[k + 1] = f[k + 1]
    OBVIOUS
  <2>1. k \in 0..(Len(t) - 1) /\ k \in 0..(Len(u) - 1) /\ k + 1 \in 1..Len(t) /\ g[k] = f[k]
    BY <1>1
  <2> QED BY <1>1, <1>2, <2>1
<1>5. T = Nat
  <2> HIDE DEF T
  <2>1. T \in SUBSET Nat
    BY DEF T
  <2> QED BY <1>3, <1>4, <2>1, Induction
<1>6. g[Len(t)] = f[Len(t)]
  <2>1. Len(t) \in T
    <3> HIDE DEF T
    <3> QED BY <1>1, <1>5
  <2> QED BY <1>1, <2>1
<1> QED BY <1>6 DEF Progress

(* A name with a dot behind it is a whole number of segments.              *)
LEMMA PrefixParts ==
  ASSUME NEW t \in Text, NEW u \in Text, StartsWith(u, t), Len(u) > Len(t), u[Len(t) + 1] = Dot
  PROVE  /\ Len(Parts(u)) > Len(Parts(t))
         /\ \A i \in 1..Len(Parts(t)) : Parts(u)[i] = Parts(t)[i]
<1>1. PICK f, g : Progress(t, f) /\ Progress(u, g)
  <2>1. PICK f : Progress(t, f)
    BY PartsAre
  <2>2. PICK g : Progress(u, g)
    BY PartsAre
  <2> QED BY <2>1, <2>2
<1>2. Len(t) \in 0..Len(u) /\ Len(t) \in 0..(Len(u) - 1)
  BY DEF Text
<1>3. PICK parts \in Seq(Text) : parts = Parts(t) /\ Len(parts) > 0
  BY PartsType
<1>4. g[Len(t)] = parts
  BY <1>1, <1>3, SplitAgrees
<1>5. Len(Parts(u)) > Len(parts) /\ Parts(u)[Len(parts)] = parts[Len(parts)]
  BY <1>1, <1>2, <1>4, NextDot
<1>6. \A i \in 1..(Len(parts) - 1) : Parts(u)[i] = parts[i]
  BY <1>1, <1>2, <1>4, Stable DEF GrowsInto
<1>7. \A i \in 1..Len(parts) : Parts(u)[i] = parts[i]
  <2> TAKE i \in 1..Len(parts)
  <2>1. i = Len(parts) \/ i \in 1..(Len(parts) - 1)
    OBVIOUS
  <2> QED BY <1>5, <1>6, <2>1
<1> QED BY <1>3, <1>5, <1>7

(* Conversely, a text whose first parts are those of t begins with t, and  *)
(* goes on, if it does, with a dot: up to each position the two split      *)
(* alike, and what comes next is part of what they have in common.         *)
LEMMA PartsDetermine ==
  ASSUME NEW t \in Text, NEW u \in Text, Len(Parts(t)) <= Len(Parts(u)),
         \A i \in 1..Len(Parts(t)) : Parts(u)[i] = Parts(t)[i]
  PROVE  /\ StartsWith(u, t)
         /\ \/ u = t
            \/ /\ Len(u) > Len(t) /\ u[Len(t) + 1] = Dot
               /\ Len(Parts(u)) > Len(Parts(t))
<1>1. PICK f : Progress(t, f)
  BY PartsAre
<1>2. PICK g : Progress(u, g)
  BY PartsAre
<1>3. PICK p \in Seq(Text) : p = Parts(t)
  BY PartsType
<1>4. PICK q \in Seq(Text) : q = Parts(u)
  BY PartsType
<1>5. Len(t) \in Nat /\ Len(u) \in Nat /\ Len(p) \in Nat /\ Len(q) \in Nat /\ Len(p) > 0
  <2>1. Len(p) > 0
    BY <1>3, PartsType
  <2> QED BY <1>3, <1>4, <2>1 DEF Text
<1>6. Len(p) <= Len(q) /\ \A i \in 1..Len(p) : q[i] = p[i]
  BY <1>3, <1>4
<1>7. /\ f[0] = << <<>> >> /\ g[0] = << <<>> >>
      /\ \A k \in 0..Len(t) : f[k] \in Seq(Text) /\ Len(f[k]) > 0
      /\ \A k \in 0..(Len(t) - 1) : f[k + 1] = Split(f[k], t[k + 1])
      /\ \A k \in 0..(Len(u) - 1) : g[k + 1] = Split(g[k], u[k + 1])
  BY <1>1, <1>2, SplitType
<1>8. ASSUME NEW k \in 0..Len(t), k < Len(u), g[k] = f[k]
      PROVE  /\ k < Len(t) => t[k + 1] = u[k + 1]
             /\ k = Len(t) => u[k + 1] = Dot /\ Len(q) > Len(p)
  <2>1. PICK parts \in Seq(Text) : parts = f[k] /\ Len(parts) > 0
    BY <1>7
  <2>2. PICK m \in Nat : m = Len(parts)
    BY <2>1
  <2>3. PICK l \in Nat : l = Len(parts[m])
    <3>1. parts[m] \in Text
      BY <2>1, <2>2
    <3> QED BY <3>1 DEF Text
  <2>4. k \in 0..(Len(u) - 1) /\ (k < Len(t) => k \in 0..(Len(t) - 1))
    BY <1>5, <1>8
  <2>5. CASE k < Len(t)
    <3>1. CASE t[k + 1] # Dot /\ u[k + 1] # Dot
      <4>1. m \in 1..Len(p) /\ p[m][l + 1] = t[k + 1]
        BY <1>1, <1>3, <2>1, <2>2, <2>3, <2>4, <2>5, <3>1, NextSymbol
      <4>2. q[m][l + 1] = u[k + 1]
        <5>1. u[k + 1] # Dot /\ g[k] = parts /\ k \in 0..(Len(u) - 1)
          BY <1>8, <2>1, <2>4, <3>1
        <5> QED BY <1>2, <1>4, <2>2, <2>3, <5>1, NextSymbol
      <4> QED BY <1>6, <2>5, <4>1, <4>2
    <3>2. CASE t[k + 1] = Dot /\ u[k + 1] # Dot
      <4>1. Len(p) > m /\ p[m] = parts[m]
        BY <1>1, <1>3, <2>1, <2>2, <2>4, <2>5, <3>2, NextDot
      <4>2. l + 1 \in 1..Len(q[m]) /\ m \in 1..Len(q)
        BY <1>2, <1>4, <1>8, <2>1, <2>2, <2>3, <2>4, <3>2, NextSymbol
      <4>3. q[m] = parts[m]
        BY <1>5, <1>6, <4>1, <4>2
      <4> QED BY <2>3, <4>2, <4>3
    <3>3. CASE t[k + 1] # Dot /\ u[k + 1] = Dot
      <4>1. q[m] = parts[m]
        BY <1>2, <1>4, <1>8, <2>1, <2>2, <2>4, <3>3, NextDot
      <4>2. l + 1 \in 1..Len(p[m]) /\ m \in 1..Len(p)
        BY <1>1, <1>3, <2>1, <2>2, <2>3, <2>4, <2>5, <3>3, NextSymbol
      <4>3. p[m] = parts[m]
        BY <1>6, <4>1, <4>2
      <4> QED BY <2>3, <4>2, <4>3
    <3>4. CASE t[k + 1] = Dot /\ u[k + 1] = Dot
      BY <2>5, <3>4
    <3> QED BY <3>1, <3>2, <3>3, <3>4
  <2>6. CASE k = Len(t)
    <3>1. p = parts
      BY <1>1, <1>3, <2>1, <2>6 DEF Progress
    <3>2. CASE u[k + 1] = Dot
      <4>1. Len(q) > m
        BY <1>2, <1>4, <1>8, <2>1, <2>2, <2>4, <3>2, NextDot
      <4> QED BY <1>5, <2>2, <2>6, <3>1, <3>2, <4>1
    <3>3. CASE u[k + 1] # Dot
      <4>1. l + 1 \in 1..Len(q[m])
        BY <1>2, <1>4, <1>8, <2>1, <2>2, <2>3, <2>4, <3>3, NextSymbol
      <4>2. q[m] = parts[m]
        BY <1>5, <1>6, <2>2, <3>1
      <4> QED BY <2>3, <4>1, <4>2
    <3> QED BY <3>2, <3>3
  <2> QED BY <1>5, <1>8, <2>5, <2>6
<1> DEFINE T == {k \in Nat : k <= Len(t) =>
                   k <= Len(u) /\ g[k] = f[k] /\ \A i \in 1..k : u[i] = t[i]}
<1>9. 0 \in T
  <2>1. 0 <= Len(u) /\ g[0] = f[0] /\ \A i \in 1..0 : u[i] = t[i]
    BY <1>5, <1>7
  <2> QED BY <2>1
<1>10. ASSUME NEW k \in T PROVE k + 1 \in T
  <2> SUFFICES ASSUME k + 1 <= Len(t)
               PROVE  k + 1 <= Len(u) /\ g[k + 1] = f[k + 1] /\ \A i \in 1..(k + 1) : u[i] = t[i]
    OBVIOUS
  <2>1. /\ k \in 0..Len(t) /\ k \in 0..(Len(t) - 1) /\ k < Len(t)
        /\ k <= Len(u) /\ g[k] = f[k] /\ \A i \in 1..k : u[i] = t[i]
    BY <1>5
  <2>2. PICK parts \in Seq(Text) : parts = f[k] /\ Len(parts) > 0
    BY <1>7, <2>1
  <2>3. k < Len(u)
    <3>1. SUFFICES ASSUME k = Len(u) PROVE FALSE
      BY <1>5, <2>1
    <3>2. q = parts
      BY <1>2, <1>4, <2>1, <2>2, <3>1 DEF Progress
    <3>3. CASE t[k + 1] = Dot
      <4>1. Len(p) > Len(parts)
        BY <1>1, <1>3, <2>1, <2>2, <3>3, NextDot
      <4> QED BY <1>5, <1>6, <3>2, <4>1
    <3>4. CASE t[k + 1] # Dot
      <4>1. /\ Len(parts) \in 1..Len(p)
            /\ Len(parts[Len(parts)]) + 1 \in 1..Len(p[Len(parts)])
        BY <1>1, <1>3, <2>1, <2>2, <3>4, NextSymbol
      <4>2. p[Len(parts)] = parts[Len(parts)]
        BY <1>6, <3>2, <4>1
      <4>3. parts[Len(parts)] \in Text
        BY <2>2
      <4>4. Len(parts[Len(parts)]) \in Nat
        BY <4>3 DEF Text
      <4> QED BY <4>1, <4>2, <4>4
    <3> QED BY <3>3, <3>4
  <2>4. t[k + 1] = u[k + 1]
    BY <1>8, <2>1, <2>3
  <2>5. k \in 0..(Len(u) - 1) /\ k + 1 <= Len(u)
    BY <1>5, <2>1, <2>3
  <2>6. g[k + 1] = f[k + 1]
    BY <1>7, <2>1, <2>4, <2>5
  <2>7. \A i \in 1..(k + 1) : u[i] = t[i]
    <3> TAKE i \in 1..(k + 1)
    <3>1. i = k + 1 \/ i \in 1..k
      BY <2>1
    <3> QED BY <2>1, <2>4, <3>1
  <2> QED BY <2>5, <2>6, <2>7
<1>11. T = Nat
  <2> HIDE DEF T
  <2>1. T \in SUBSET Nat
    BY DEF T
  <2> QED BY <1>9, <1>10, <2>1, Induction
<1>12. Len(t) <= Len(u) /\ g[Len(t)] = f[Len(t)] /\ \A i \in 1..Len(t) : u[i] = t[i]
  <2>1. Len(t) \in T
    <3> HIDE DEF T
    <3> QED BY <1>5, <1>11
  <2> QED BY <1>5, <2>1
<1>13. StartsWith(u, t)
  BY <1>12 DEF StartsWith
<1>14. CASE Len(u) = Len(t)
  <2>1. u = t
    BY <1>12, <1>14, SameText
  <2> QED BY <1>13, <2>1
<1>15. CASE Len(u) # Len(t)
  <2>1. Len(u) > Len(t) /\ Len(t) \in 0..Len(t)
    BY <1>5, <1>12, <1>15
  <2>2. u[Len(t) + 1] = Dot /\ Len(q) > Len(p)
    BY <1>8, <1>12, <2>1
  <2> QED BY <1>3, <1>4, <1>13, <2>1, <2>2
<1> QED BY <1>14, <1>15

LEMMA StrictPrefixIs ==
  ASSUME NEW p \in Seq(Text), NEW q \in Seq(Text)
  PROVE  IsStrictPrefix(p, q) <=> Len(p) < Len(q) /\ \A i \in 1..Len(p) : q[i] = p[i]
<1>1. Len(p) \in Nat /\ Len(q) \in Nat
  OBVIOUS
<1>2. CASE Len(p) <= Len(q)
  <2>1. PICK n \in Nat : n = Len(p)
    BY <1>1
  <2>2. PICK r : r = SubSeq(q, 1, n)
    OBVIOUS
  <2>3. r \in Seq(Text) /\ Len(r) = n /\ \A i \in 1..n : r[i] = q[i]
    <3>1. \A i \in 1..n : q[i] \in Text
      BY <1>1, <1>2, <2>1
    <3>2. /\ r \in Seq(Text) /\ Len(r) = IF 1 <= n THEN n - 1 + 1 ELSE 0
          /\ \A i \in 1..(n - 1 + 1) : r[i] = q[1 + i - 1]
      BY <2>2, <3>1, SubSeqProperties
    <3> QED BY <3>2
  <2>4. SubSeq(p, 1, n) = p
    BY <2>1
  <2>5. r = p <=> \A i \in 1..n : q[i] = p[i]
    BY <2>1, <2>3
  <2>6. IsStrictPrefix(p, q) <=> r = p /\ p # q
    BY <1>2, <2>1, <2>2, <2>4 DEF IsStrictPrefix, IsPrefix
  <2>7. CASE r = p
    <3>1. Len(p) = Len(q) => p = q
      BY <2>1, <2>5, <2>7
    <3>2. p # q <=> Len(p) < Len(q)
      BY <1>1, <1>2, <3>1
    <3> QED BY <2>1, <2>5, <2>6, <2>7, <3>2
  <2>8. CASE r # p
    BY <2>1, <2>5, <2>6, <2>8
  <2> QED BY <2>7, <2>8
<1>3. CASE ~(Len(p) <= Len(q))
  BY <1>1, <1>3 DEF IsStrictPrefix, IsPrefix
<1> QED BY <1>2, <1>3

LEMMA MatchesIs ==
  ASSUME NEW p \in Pattern, NEW ch \in Text
  PROVE  Matches(p, ch) <=> MatchesBySegments(p, ch)
<1>1. PICK pre \in Text : pre = p.prefix
  BY DEF Pattern, Name, Text, Symbol
<1>2. PICK s \in Seq(Text) : s = Parts(pre)
  BY PartsType
<1>3. PICK r \in Seq(Text) : r = Parts(ch)
  BY PartsType
<1>4. p.wildcard \in BOOLEAN /\ Len(s) \in Nat /\ Len(r) \in Nat
  BY DEF Pattern
<1>5. CASE p.wildcard /\ pre = <<>>
  <2>1. p = [prefix |-> <<>>, wildcard |-> TRUE]
    BY <1>1, <1>5 DEF Pattern
  <2>2. Matches(p, ch)
    BY <1>1, <1>5 DEF Matches
  <2> QED BY <2>1, <2>2 DEF MatchesBySegments
<1>6. CASE p.wildcard /\ pre # <<>>
  <2>1. p # [prefix |-> <<>>, wildcard |-> TRUE]
    BY <1>1, <1>6
  <2>2. MatchesBySegments(p, ch) <=> Len(s) < Len(r) /\ \A i \in 1..Len(s) : r[i] = s[i]
    BY <1>1, <1>2, <1>3, <1>6, <2>1, StrictPrefixIs DEF MatchesBySegments
  <2>3. Matches(p, ch) <=> /\ StartsWith(ch, pre) /\ Len(ch) > Len(pre)
                           /\ ch[Len(pre) + 1] = Dot
    BY <1>1, <1>6 DEF Matches
  <2>4. ASSUME StartsWith(ch, pre), Len(ch) > Len(pre), ch[Len(pre) + 1] = Dot
        PROVE  Len(s) < Len(r) /\ \A i \in 1..Len(s) : r[i] = s[i]
    BY <1>2, <1>3, <1>4, <2>4, PrefixParts
  <2>5. ASSUME Len(s) < Len(r), \A i \in 1..Len(s) : r[i] = s[i]
        PROVE  StartsWith(ch, pre) /\ Len(ch) > Len(pre) /\ ch[Len(pre) + 1] = Dot
    <3>1. Len(s) <= Len(r) /\ pre # ch
      BY <1>2, <1>3, <1>4, <2>5
    <3> QED BY <1>2, <1>3, <2>5, <3>1, PartsDetermine
  <2> QED BY <2>2, <2>3, <2>4, <2>5
<1>7. CASE ~p.wildcard
  <2>1. p # [prefix |-> <<>>, wildcard |-> TRUE]
    BY <1>7
  <2>2. MatchesBySegments(p, ch) <=> r = s
    BY <1>1, <1>2, <1>3, <1>7, <2>1 DEF MatchesBySegments
  <2>3. Matches(p, ch) <=> ch = pre
    BY <1>1, <1>7 DEF Matches
  <2>4. r = s => ch = pre
    <3> SUFFICES ASSUME r = s PROVE ch = pre
      OBVIOUS
    <3>1. Len(s) <= Len(r) /\ ~(Len(r) > Len(s)) /\ \A i \in 1..Len(s) : r[i] = s[i]
      BY <1>4
    <3> QED BY <1>2, <1>3, <3>1, PartsDetermine
  <2> QED BY <1>2, <1>3, <2>2, <2>3, <2>4
<1> QED BY <1>4, <1>5, <1>6, <1>7

(* ChannelPattern::matches compares bytes and decides by whole segments,   *)
(* for patterns and names of any length: no partial segment is taken for a *)
(* match, and none is missed.                                              *)
THEOREM MatchesWhole == TextSpec => []MatchesIsSegmentwise
<1>1. Typed => MatchesIsSegmentwise
  BY PatternIs, NamesAre, MatchesIs DEF Typed, MatchesIsSegmentwise
<1> QED BY <1>1, TextType, PTL

(* A text without its last symbol. *)
LEMMA FrontIs ==
  ASSUME NEW t \in Text, NEW m \in Nat, Len(t) = m + 1
  PROVE  Len(Front(t)) = m /\ \A i \in 1..m : Front(t)[i] = t[i]
<1>1. Front(t) = SubSeq(t, 1, m)
  <2>1. Len(t) - 1 = m
    OBVIOUS
  <2> QED BY <2>1 DEF Front
<1>2. PICK r : r = SubSeq(t, 1, m)
  OBVIOUS
<1>3. \A i \in 1..m : t[i] \in Symbol
  BY DEF Text
<1>4. /\ r \in Seq(Symbol) /\ Len(r) = IF 1 <= m THEN m - 1 + 1 ELSE 0
      /\ \A i \in 1..(m - 1 + 1) : r[i] = t[1 + i - 1]
  BY <1>2, <1>3, SubSeqProperties
<1> QED BY <1>1, <1>2, <1>4

(* What the clients compare is what the server compares: the text up to    *)
(* its star is the prefix and the dot behind it.                           *)
LEMMA PrefixMatchesIs ==
  ASSUME NEW pre \in Name, NEW t \in Text, t = pre \o <<Dot, Star>>, NEW ch \in Name
  PROVE  /\ t # ch /\ t # <<Star>>
         /\ PrefixMatches(t, ch) <=> /\ StartsWith(ch, pre) /\ Len(ch) > Len(pre)
                                     /\ ch[Len(pre) + 1] = Dot
<1>1. PICK n \in Nat : n = Len(pre)
  BY DEF Name
<1>2. /\ Len(t) = n + 2 /\ t[n + 1] = Dot /\ t[n + 2] = Star
      /\ \A i \in 1..n : t[i] = pre[i]
  BY <1>1 DEF Name
<1>3. Len(ch) \in Nat /\ \A i \in 1..Len(ch) : ch[i] # Star
  BY SymbolsAssumption DEF Name
<1>4. t # ch
  <2>1. SUFFICES ASSUME t = ch PROVE FALSE
    OBVIOUS
  <2>2. n + 2 \in 1..Len(ch)
    BY <1>2, <2>1
  <2> QED BY <1>2, <1>3, <2>1, <2>2
<1>5. t # <<Star>> /\ EndsWithDotStar(t)
  <2>1. Len(t) - 1 = n + 1 /\ Len(t) >= 2
    BY <1>2
  <2>2. Len(<<Star>>) = 1
    OBVIOUS
  <2> QED BY <1>2, <2>1, <2>2 DEF EndsWithDotStar
<1>6. PICK front : front = Front(t)
  OBVIOUS
<1>7. Len(front) = n + 1 /\ front[n + 1] = Dot /\ \A i \in 1..n : front[i] = pre[i]
  <2>1. PICK m \in Nat : m = n + 1
    OBVIOUS
  <2>2. Len(t) = m + 1
    BY <1>2, <2>1
  <2>3. Len(front) = m /\ \A i \in 1..m : front[i] = t[i]
    BY <1>6, <2>2, FrontIs
  <2> QED BY <1>2, <2>1, <2>3
<1>8. PrefixMatches(t, ch) <=> StartsWith(ch, front)
  BY <1>5, <1>6 DEF PrefixMatches
<1>9. StartsWith(ch, front) <=> /\ n + 1 <= Len(ch) /\ ch[n + 1] = Dot
                                /\ \A i \in 1..n : ch[i] = pre[i]
  <2>1. 1..(n + 1) = 1..n \cup {n + 1}
    OBVIOUS
  <2> QED BY <1>7, <2>1 DEF StartsWith
<1> QED BY <1>1, <1>3, <1>4, <1>5, <1>8, <1>9 DEF StartsWith

(* A client's own test of a message agrees with the routing of the server  *)
(* that sent it, for patterns and names of any length.                     *)
THEOREM ClientsRouteAlike == TextSpec => []ClientsAgree
<1>1. Typed => ClientsAgree
  <2> SUFFICES ASSUME text \in Text, IsPattern(text), text # <<Dot, Star>>, NEW ch \in ChannelNames
               PROVE  /\ RustMatches(text, ch) <=> Matches(PatternOf(text), ch)
                      /\ text # <<Star>> => (JsMatches(text, ch) <=> Matches(PatternOf(text), ch))
    BY DEF Typed, ClientsAgree
  <2>1. ch \in Name
    BY NamesAre
  <2>2. PICK p \in Pattern : p = PatternOf(text)
    BY PatternIs
  <2>3. CASE text = <<Star>> /\ p = [prefix |-> <<>>, wildcard |-> TRUE]
    <3>1. Matches(p, ch)
      BY <2>3 DEF Matches
    <3> QED BY <2>2, <2>3, <3>1 DEF RustMatches
  <2>4. CASE p.wildcard /\ text = p.prefix \o <<Dot, Star>>
    <3>1. p.prefix \in Name
      BY DEF Pattern
    <3>2. p.prefix # <<>>
      <4>1. SUFFICES ASSUME p.prefix = <<>> PROVE FALSE
        OBVIOUS
      <4>2. text = <<>> \o <<Dot, Star>>
        BY <2>4, <4>1
      <4>3. <<Dot, Star>> \in Text
        BY DEF Text, Symbol
      <4>4. <<>> \o <<Dot, Star>> = <<Dot, Star>>
        BY <4>3 DEF Text
      <4> QED BY <4>2, <4>4
    <3>3. /\ text # ch /\ text # <<Star>>
          /\ PrefixMatches(text, ch) <=> Matches(p, ch)
      BY <2>1, <2>4, <3>1, <3>2, PrefixMatchesIs DEF Matches
    <3>4. JsMatches(text, ch) <=> Matches(p, ch)
      BY <3>3 DEF JsMatches
    <3> QED BY <2>2, <3>3, <3>4 DEF RustMatches
  <2>5. CASE text # <<>> /\ text \in Name /\ p = [prefix |-> text, wildcard |-> FALSE]
    <3>1. ~EndsWithDotStar(text)
      <4>1. SUFFICES ASSUME Len(text) >= 2, text[Len(text)] = Star PROVE FALSE
        BY DEF EndsWithDotStar
      <4>2. Len(text) \in 1..Len(text)
        BY <4>1 DEF Text
      <4>3. text[Len(text)] \in Char \cup {Dot}
        BY <2>5, <4>2 DEF Name
      <4> QED BY <4>1, <4>3, SymbolsAssumption
    <3>2. text # <<Star>>
      <4>1. SUFFICES ASSUME text = <<Star>> PROVE FALSE
        OBVIOUS
      <4>2. text[1] = Star /\ 1 \in 1..Len(text)
        BY <4>1
      <4>3. text[1] \in Char \cup {Dot}
        BY <2>5, <4>2 DEF Name
      <4> QED BY <4>2, <4>3, SymbolsAssumption
    <3>3. Matches(p, ch) <=> ch = text
      BY <2>5 DEF Matches
    <3>4. JsMatches(text, ch) <=> text = ch
      BY <3>1 DEF JsMatches, PrefixMatches
    <3> QED BY <2>2, <3>2, <3>3, <3>4 DEF RustMatches
  <2> QED BY <2>2, <2>3, <2>4, <2>5, PatternIs
<1> QED BY <1>1, TextType, PTL

-----------------------------------------------------------------------------
(* Grants.                                                                 *)

LEMMA GrantsArePatterns == GrantPatterns \subseteq Pattern
<1>1. SUFFICES ASSUME NEW u \in BoundedSeq(Symbol, GrantLen), IsPattern(u)
               PROVE  PatternOf(u) \in Pattern
  BY DEF GrantPatterns
<1>2. PICK n \in 0..GrantLen : u \in [1..n -> Symbol]
  BY DEF BoundedSeq, SeqOf
<1>3. n \in Nat
  BY LengthAssumption
<1>4. u \in Text
  BY <1>2, <1>3 DEF Text
<1> QED BY <1>1, <1>4, PatternIs

(* The grant test of ClientConnection::subscribe lets nothing through that *)
(* the grant does not match, but for the bare name before a grant's ".*".  *)
THEOREM CoversNoMore == TextSpec => []CoversUpToNamespace
<1>1. Typed => CoversUpToNamespace
  <2> SUFFICES ASSUME text \in Text, IsPattern(text), NEW g \in GrantPatterns,
                      Covers(g, PatternOf(text)), ~BareNamespace(g, PatternOf(text)),
                      NEW ch \in ChannelNames, Matches(PatternOf(text), ch)
               PROVE  Matches(g, ch)
    BY DEF Typed, CoversUpToNamespace, Broader
  <2>1. PICK p \in Pattern : p = PatternOf(text)
    BY PatternIs
  <2>2. g \in Pattern /\ ch \in Name
    BY GrantsArePatterns, NamesAre
  <2>3. g.wildcard \in BOOLEAN /\ p.wildcard \in BOOLEAN
    BY <2>2 DEF Pattern
  <2>4. CASE g.wildcard /\ p.wildcard
    BY <2>1, <2>2, <2>4, CoversWildcard
  <2>5. CASE g.wildcard /\ ~p.wildcard
    <3>1. Matches(g, ch) \/ g.prefix = ch
      BY <2>1, <2>2, <2>5, CoversExact
    <3>2. p.prefix = ch
      BY <2>1, <2>5 DEF Matches
    <3> QED BY <2>1, <2>5, <3>1, <3>2 DEF BareNamespace
  <2>6. CASE ~g.wildcard
    BY <2>1, <2>2, <2>6, CoversSound
  <2> QED BY <2>3, <2>4, <2>5, <2>6
<1> QED BY <1>1, TextType, PTL

(* Below a wildcard that matches anything there is a name for every        *)
(* character.                                                              *)
LEMMA NamesBelow ==
  ASSUME NEW pre \in Name, pre # <<>>, NEW ch \in ChannelNames, NEW c \in Char,
         StartsWith(ch, pre), Len(ch) > Len(pre), ch[Len(pre) + 1] = Dot
  PROVE  pre \o <<Dot, c>> \in ChannelNames
<1>1. PICK n \in Nat : n = Len(pre) /\ n > 0
  BY DEF Name
<1>2. PICK w : w = pre \o <<Dot, c>>
  OBVIOUS
<1>3. /\ w \in Seq(Char \cup {Dot}) /\ Len(w) = n + 2
      /\ \A i \in 1..n : w[i] = pre[i]
      /\ w[n + 1] = Dot /\ w[n + 2] = c
  BY <1>1, <1>2 DEF Name
<1>4. /\ Len(ch) \in Nat /\ Len(ch) <= ChannelLen /\ ch[1] # Dot /\ ch[Len(ch)] # Dot
      /\ \A i \in 1..(Len(ch) - 1) : ~(ch[i] = Dot /\ ch[i + 1] = Dot)
  BY NamesAre, ChannelsAreWellFormed DEF WellFormed, Text
<1>5. Len(ch) > n /\ ch[n + 1] = Dot /\ \A i \in 1..n : ch[i] = w[i]
  BY <1>1, <1>3 DEF StartsWith
<1>6. n + 2 <= Len(ch)
  <2>1. Len(ch) # n + 1
    BY <1>4, <1>5
  <2> QED BY <1>4, <1>5, <2>1
<1>7. c # Dot
  BY SymbolsAssumption
<1>8. w \in Text
  BY <1>3 DEF Text, Symbol
<1>9. WellFormed(w)
  <2>1. w # <<>> /\ w[1] # Dot /\ w[Len(w)] # Dot
    <3>1. 1 \in 1..n /\ w # <<>>
      BY <1>1, <1>3
    <3> QED BY <1>3, <1>4, <1>5, <1>7, <3>1
  <2>2. Range(w) \subseteq Char \cup {Dot}
    <3>1. \A x \in 1..Len(w) : w[x] \in Char \cup {Dot}
      BY <1>3
    <3> QED BY <1>8, <3>1, RangeIs
  <2>3. ASSUME NEW i \in 1..(Len(w) - 1), w[i] = Dot, w[i + 1] = Dot PROVE FALSE
    <3>1. i \in 1..(n + 1)
      BY <1>3
    <3>2. CASE i = n + 1
      <4>1. i + 1 = n + 2
        BY <3>2
      <4> QED BY <1>3, <1>7, <2>3, <4>1
    <3>3. CASE i # n + 1
      <4>1. i \in 1..n /\ i \in 1..(Len(ch) - 1)
        BY <1>4, <1>6, <3>1, <3>3
      <4>2. ch[i] = Dot
        BY <1>5, <2>3, <4>1
      <4>3. i + 1 = n + 1 \/ i + 1 \in 1..n
        BY <4>1
      <4>4. ch[i + 1] = Dot
        BY <1>5, <2>3, <4>3
      <4> QED BY <1>4, <4>1, <4>2, <4>4
    <3> QED BY <3>2, <3>3
  <2> QED BY <2>1, <2>2, <2>3 DEF WellFormed
<1>10. IsChannel(w)
  BY <1>8, <1>9, WellFormedAreChannels
<1>11. n + 2 \in 0..ChannelLen
  BY <1>4, <1>6, LengthAssumption
<1>12. w \in [1..(n + 2) -> Char \cup {Dot}]
  BY <1>3
<1>13. w \in BoundedSeq(Char \cup {Dot}, ChannelLen)
  BY <1>11, <1>12 DEF BoundedSeq, SeqOf
<1> QED BY <1>2, <1>10, <1>13 DEF ChannelNames

LEMMA ShortNames ==
  ASSUME NEW ch \in ChannelNames, NEW c \in Char
  PROVE  <<c>> \in ChannelNames
<1>1. Len(ch) \in Nat /\ Len(ch) > 0 /\ Len(ch) <= ChannelLen
  BY NamesAre, ChannelsAreWellFormed DEF WellFormed, Text
<1>2. PICK w : w = <<c>>
  OBVIOUS
<1>3. w \in [1..1 -> Char \cup {Dot}] /\ w \in Text /\ Len(w) = 1 /\ w[1] = c /\ w # <<>>
  BY <1>2 DEF Text, Symbol
<1>4. c # Dot
  BY SymbolsAssumption
<1>5. WellFormed(w)
  <2>1. \A x \in 1..Len(w) : w[x] \in Char \cup {Dot}
    BY <1>3
  <2>2. Range(w) \subseteq Char \cup {Dot}
    BY <1>3, <2>1, RangeIs
  <2>3. 1..(Len(w) - 1) = {}
    BY <1>3
  <2> QED BY <1>3, <1>4, <2>2, <2>3 DEF WellFormed
<1>6. IsChannel(w)
  BY <1>3, <1>5, WellFormedAreChannels
<1>7. 1 \in 0..ChannelLen
  BY <1>1, LengthAssumption
<1>8. w \in BoundedSeq(Char \cup {Dot}, ChannelLen)
  BY <1>3, <1>7 DEF BoundedSeq, SeqOf
<1> QED BY <1>2, <1>6, <1>8 DEF ChannelNames

(* A grant that matches everything below a prefix, if there is anything    *)
(* below it, is a wildcard on that prefix or on segments it begins with.   *)
LEMMA BroaderIs ==
  ASSUME NEW g \in Pattern, NEW pre \in Name, pre # <<>>, NEW ch \in ChannelNames,
         StartsWith(ch, pre), Len(ch) > Len(pre), ch[Len(pre) + 1] = Dot,
         \A c \in Char : Matches(g, pre \o <<Dot, c>>)
  PROVE  /\ g.wildcard
         /\ g.prefix # <<>> =>
              /\ Len(g.prefix) <= Len(pre) /\ \A i \in 1..Len(g.prefix) : pre[i] = g.prefix[i]
              /\ Len(g.prefix) < Len(pre) => pre[Len(g.prefix) + 1] = Dot
<1>1. PICK n \in Nat : n = Len(pre) /\ n > 0
  BY DEF Name
<1>2. PICK c, d \in Char : c # d
  BY CharAssumption
<1>3. PICK w : w = pre \o <<Dot, c>>
  OBVIOUS
<1>4. PICK v : v = pre \o <<Dot, d>>
  OBVIOUS
<1>5. /\ Len(w) = n + 2 /\ \A i \in 1..n : w[i] = pre[i]
      /\ w[n + 1] = Dot /\ w[n + 2] = c
  BY <1>1, <1>3 DEF Name
<1>6. w # v
  <2>1. v[n + 2] = d
    BY <1>1, <1>4 DEF Name
  <2> QED BY <1>2, <1>5, <2>1
<1>7. Matches(g, w) /\ Matches(g, v)
  BY <1>3, <1>4
<1>8. g.wildcard
  BY <1>6, <1>7 DEF Matches
<1>9. CASE g.prefix # <<>>
  <2>1. PICK m \in Nat : m = Len(g.prefix)
    BY DEF Pattern, Name
  <2>2. m < n + 2 /\ w[m + 1] = Dot /\ \A i \in 1..m : w[i] = g.prefix[i]
    BY <1>5, <1>7, <1>8, <1>9, <2>1 DEF Matches, StartsWith
  <2>3. m # n + 1
    <3>1. SUFFICES ASSUME m = n + 1 PROVE FALSE
      OBVIOUS
    <3>2. m + 1 = n + 2
      BY <3>1
    <3> QED BY <1>5, <2>2, <3>2, SymbolsAssumption
  <2>4. m <= n
    BY <2>2, <2>3
  <2>5. \A i \in 1..m : pre[i] = g.prefix[i]
    BY <1>5, <2>2, <2>4
  <2>6. m < n => pre[m + 1] = Dot
    BY <1>5, <2>2
  <2> QED BY <1>1, <1>8, <2>1, <2>4, <2>5, <2>6
<1> QED BY <1>8, <1>9

(* No subscription within a grant is refused: what a grant's names are a   *)
(* part of, the comparison of the printed forms lets through.              *)
THEOREM CoversNoLess == TextSpec => []CoversComplete
<1>1. Typed => CoversComplete
  <2> SUFFICES ASSUME text \in Text, IsPattern(text), NEW g \in GrantPatterns,
                      NEW ch \in ChannelNames, Matches(PatternOf(text), ch),
                      Broader(g, PatternOf(text))
               PROVE  Covers(g, PatternOf(text))
    BY DEF Typed, CoversComplete
  <2>1. PICK p \in Pattern : p = PatternOf(text)
    BY PatternIs
  <2>2. g \in Pattern /\ p.prefix \in Name /\ g.prefix \in Name
        /\ g.wildcard \in BOOLEAN /\ p.wildcard \in BOOLEAN
    BY GrantsArePatterns DEF Pattern
  <2>3. Matches(p, ch) /\ Matches(g, ch)
        /\ \A w \in ChannelNames : Matches(p, w) => Matches(g, w)
    BY <2>1 DEF Broader
  <2>4. CASE g.wildcard /\ g.prefix = <<>>
    <3>1. StartsWith(Display(p), g.prefix)
      <4>1. Len(Display(p)) \in Nat
        BY <2>2 DEF Display, Name
      <4>2. Len(g.prefix) = 0 /\ 1..0 = {}
        BY <2>4
      <4> QED BY <4>1, <4>2 DEF StartsWith
    <3> QED BY <2>1, <2>4, <3>1 DEF Covers
  <2>5. CASE ~p.wildcard
    <3>1. p.prefix = ch /\ Display(p) = ch
      BY <2>3, <2>5 DEF Matches, Display
    <3>2. CASE g.wildcard /\ g.prefix # <<>>
      BY <2>1, <2>3, <3>1, <3>2 DEF Matches, Covers
    <3>3. CASE ~g.wildcard
      <4>1. Display(g) = ch
        BY <2>3, <3>3 DEF Matches, Display
      <4> QED BY <2>1, <3>1, <3>3, <4>1 DEF Covers
    <3> QED BY <2>2, <2>4, <3>2, <3>3
  <2>6. CASE p.wildcard /\ p.prefix = <<>>
    <3>1. PICK c, d \in Char : c # d
      BY CharAssumption
    <3>2. <<c>> \in ChannelNames /\ <<d>> \in ChannelNames
      BY ShortNames
    <3>3. Matches(g, <<c>>) /\ Matches(g, <<d>>)
      BY <2>3, <2>6, <3>2 DEF Matches
    <3>4. <<c>> # <<d>>
      BY <3>1
    <3>5. g.wildcard
      BY <3>3, <3>4 DEF Matches
    <3>6. g.prefix = <<>>
      <4>1. SUFFICES ASSUME g.prefix # <<>> PROVE FALSE
        OBVIOUS
      <4>2. Len(<<c>>) > Len(g.prefix) /\ Len(<<c>>) = 1
        BY <3>3, <3>5, <4>1 DEF Matches
      <4>3. Len(g.prefix) \in Nat /\ Len(g.prefix) > 0
        BY <2>2, <4>1 DEF Name
      <4> QED BY <4>2, <4>3
    <3> QED BY <2>4, <3>5, <3>6
  <2>7. CASE p.wildcard /\ p.prefix # <<>>
    <3>1. PICK pre \in Name : pre = p.prefix
      BY <2>2
    <3>2. StartsWith(ch, pre) /\ Len(ch) > Len(pre) /\ ch[Len(pre) + 1] = Dot
      BY <2>3, <2>7, <3>1 DEF Matches
    <3>3. ASSUME NEW c \in Char PROVE Matches(g, pre \o <<Dot, c>>)
      <4>1. PICK w : w = pre \o <<Dot, c>>
        OBVIOUS
      <4>2. w \in ChannelNames
        BY <2>7, <3>1, <3>2, <4>1, NamesBelow
      <4>3. /\ Len(pre) \in Nat /\ Len(w) = Len(pre) + 2 /\ w[Len(pre) + 1] = Dot
            /\ \A i \in 1..Len(pre) : w[i] = pre[i]
        BY <4>1 DEF Name
      <4>4. Matches(p, w)
        BY <2>7, <3>1, <4>3 DEF Matches, StartsWith
      <4> QED BY <2>3, <4>1, <4>2, <4>4
    <3>4. /\ g.wildcard
          /\ g.prefix # <<>> =>
               /\ Len(g.prefix) <= Len(pre) /\ \A i \in 1..Len(g.prefix) : pre[i] = g.prefix[i]
               /\ Len(g.prefix) < Len(pre) => pre[Len(g.prefix) + 1] = Dot
      BY <2>2, <2>7, <3>1, <3>2, <3>3, BroaderIs
    <3>5. CASE g.prefix # <<>>
      <4>1. PICK shown : shown = Display(p)
        OBVIOUS
      <4>2. /\ Len(pre) \in Nat /\ Len(g.prefix) \in Nat
            /\ Len(shown) = Len(pre) + 2 /\ shown[Len(pre) + 1] = Dot
            /\ \A i \in 1..Len(pre) : shown[i] = pre[i]
        <5>1. shown = pre \o <<Dot, Star>>
          BY <2>7, <3>1, <4>1 DEF Display
        <5> QED BY <2>2, <5>1 DEF Name
      <4>3. StartsWith(shown, g.prefix)
        BY <3>4, <3>5, <4>2 DEF StartsWith
      <4>4. Len(shown) > Len(g.prefix) /\ shown[Len(g.prefix) + 1] = Dot
        <5>1. Len(g.prefix) = Len(pre) \/ Len(g.prefix) + 1 \in 1..Len(pre)
          BY <3>4, <3>5, <4>2
        <5> QED BY <3>4, <3>5, <4>2, <5>1
      <4> QED BY <2>1, <3>4, <4>1, <4>3, <4>4 DEF Covers
    <3> QED BY <2>4, <3>4, <3>5
  <2> QED BY <2>2, <2>5, <2>6, <2>7
<1> QED BY <1>1, TextType, PTL
=============================================================================
