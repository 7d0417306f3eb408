--------------------------- MODULE DisplayProofs ---------------------------
(***************************************************************************)
(* Display for every limit of a label, every list of buttons and every     *)
(* list of Jellyfin's.  The buttons are kept because cleaning leaves labels *)
(* in a form (Clean) that cleaning again changes at their end only, even   *)
(* after the bytes of a cut character were written as characters of their  *)
(* own.  No induction is needed: a cut is the longest prefix that fits,    *)
(* and longest and first elements exist by NatMin.                         *)
(***************************************************************************)
EXTENDS Display, FiniteSetTheorems, WellFoundedInduction, SequenceTheorems, TLAPS

-----------------------------------------------------------------------------
(* First and last elements.                                                *)

LEMMA NatMin ==
  ASSUME NEW T, T \subseteq Nat, T # {}
  PROVE  \E x \in T : \A y \in T : x <= y
<1> DEFINE U == {0 .. n : n \in T}
<1>1. IsWellFoundedOn(StrictSubsetOrdering(Nat), FiniteSubsetsOf(Nat))
  BY FS_StrictSubsetOrderingWellFounded
<1>2. U \subseteq FiniteSubsetsOf(Nat) /\ U # {}
  <2>1. \A n \in T : IsFiniteSet(0 .. n) /\ 0 .. n \in SUBSET Nat
    BY FS_Interval
  <2> QED
    BY <2>1 DEF FiniteSubsetsOf
<1>3. PICK u \in U : \A v \in U : ~(<<v, u>> \in StrictSubsetOrdering(Nat))
  BY <1>1, <1>2, WFMin
<1>4. PICK x \in T : u = 0 .. x
  OBVIOUS
<1>5. ASSUME NEW y \in T, y < x PROVE FALSE
  <2>1. 0 .. y \in U /\ (0 .. y) \subseteq (0 .. x) /\ 0 .. y # 0 .. x
    BY <1>4, <1>5
  <2> QED
    BY <1>2, <1>3, <1>4, <2>1 DEF StrictSubsetOrdering, FiniteSubsetsOf
<1> QED
  BY <1>5

LEMMA MinIs ==
  ASSUME NEW T, T \subseteq Nat, T # {}
  PROVE  Min(T) \in T /\ \A y \in T : Min(T) <= y
BY NatMin DEF Min

LEMMA MaxIs ==
  ASSUME NEW n \in Nat, NEW T, T \subseteq 0 .. n, T # {}
  PROVE  Max(T) \in T /\ \A y \in T : y <= Max(T)
<1> DEFINE U == {n - x : x \in T}
<1>1. U \subseteq Nat /\ U # {}
  <2>1. \A x \in T : n - x \in Nat
    OBVIOUS
  <2> QED
    BY <2>1
<1>2. PICK u \in U : \A v \in U : u <= v
  BY <1>1, NatMin
<1>3. PICK x \in T : u = n - x
  OBVIOUS
<1>4. \A y \in T : x >= y
  <2> SUFFICES ASSUME NEW y \in T PROVE x >= y
    OBVIOUS
  <2>1. u <= n - y
    BY <1>2
  <2> QED
    BY <1>3, <2>1
<1> QED
  BY <1>4 DEF Max

-----------------------------------------------------------------------------
(* Widths.                                                                 *)

LEMMA RunesAre == Runes = {"blank", "one", "two", "bad", "four"}
BY DEF Runes, RuneBytes

LEMMA ByteSetFinite ==
  ASSUME NEW t \in Seq(Runes)
  PROVE  IsFiniteSet(ByteSet(t)) /\ Width(t) \in Nat
<1>1. IsFiniteSet((1 .. Len(t)) \X (1 .. 4))
  <2>1. 1 \in Int /\ 4 \in Int /\ Len(t) \in Int
    OBVIOUS
  <2>2. IsFiniteSet(1 .. Len(t)) /\ IsFiniteSet(1 .. 4)
    BY <2>1, FS_Interval, Zenon
  <2> QED
    BY <2>2, FS_Product
<1>2. ByteSet(t) \in SUBSET ((1 .. Len(t)) \X (1 .. 4))
  BY DEF ByteSet
<1>3. IsFiniteSet(ByteSet(t))
  BY <1>1, <1>2, FS_Subset
<1> QED
  BY <1>3, FS_CardinalityType DEF Width

\* A prefix is a text, and no wider.
LEMMA PrefixOf ==
  ASSUME NEW t \in Seq(Runes), NEW k \in 0 .. Len(t)
  PROVE  /\ SubSeq(t, 1, k) \in Seq(Runes) /\ Len(SubSeq(t, 1, k)) = k
         /\ \A i \in 1 .. k : SubSeq(t, 1, k)[i] = t[i]
BY SubSeqProperties, ElementOfSeq

\* Any part of a text is a text.
LEMMA PartOf ==
  ASSUME NEW t \in Seq(Runes), NEW a \in 1 .. Len(t), NEW b \in a .. Len(t)
  PROVE  SubSeq(t, a, b) \in Seq(Runes) /\ SubSeq(t, a, b)[1] = t[a]
<1>1. \A i \in a .. b : t[i] \in Runes
  BY ElementOfSeq
<1>2. /\ SubSeq(t, a, b) \in Seq(Runes)
      /\ \A i \in 1 .. b - a + 1 : SubSeq(t, a, b)[i] = t[a + i - 1]
  BY <1>1, SubSeqProperties
<1> QED
  BY <1>2

LEMMA WidthGrows ==
  ASSUME NEW t \in Seq(Runes), NEW s \in Seq(Runes), Len(s) <= Len(t),
         \A i \in 1 .. Len(s) : s[i] = t[i]
  PROVE  Width(s) <= Width(t)
<1>1. ByteSet(s) \subseteq ByteSet(t)
  BY DEF ByteSet
<1> QED
  BY <1>1, ByteSetFinite, FS_Subset DEF Width

LEMMA WidthEmpty == Width(<<>>) = 0
<1>1. ByteSet(<<>>) = {}
  BY DEF ByteSet
<1> QED
  BY <1>1, FS_EmptySet DEF Width

\* A text that is not empty has a byte.
LEMMA WidthSome ==
  ASSUME NEW t \in Seq(Runes), t # <<>>
  PROVE  Width(t) >= 1
<1>1. t[1] \in Runes /\ 1 \in DOMAIN t
  BY EmptySeq
<1>2. <<1, 1>> \in ByteSet(t)
  BY <1>1, RunesAre DEF ByteSet, RuneBytes
<1>3. Width(t) # 0
  BY <1>2, ByteSetFinite, FS_EmptySet DEF Width
<1> QED
  BY <1>3, ByteSetFinite

\* The longest prefix that fits.
LEMMA FittingIs ==
  ASSUME NEW t \in Seq(Runes)
  PROVE  /\ Fitting(t) \in 0 .. Len(t)
         /\ Width(SubSeq(t, 1, Fitting(t))) <= LabelMax
         /\ \A k \in 0 .. Len(t) :
              Width(SubSeq(t, 1, k)) <= LabelMax => k <= Fitting(t)
<1> DEFINE fits == {k \in 0 .. Len(t) : Width(SubSeq(t, 1, k)) <= LabelMax}
<1>1. SubSeq(t, 1, 0) = <<>>
  BY SubSeqEmpty
<1>2. 0 \in fits
  <2>1. Width(SubSeq(t, 1, 0)) = 0
    BY <1>1, WidthEmpty, Zenon
  <2>2. 0 <= LabelMax /\ 0 \in 0 .. Len(t)
    BY SchemaAssumption
  <2> QED
    BY <2>1, <2>2
<1>3. fits \subseteq 0 .. Len(t) /\ Len(t) \in Nat
  OBVIOUS
<1>4. Max(fits) \in fits /\ \A k \in fits : k <= Max(fits)
  BY <1>2, <1>3, MaxIs
<1> QED
  BY <1>4 DEF Fitting

-----------------------------------------------------------------------------
(* Trimming and cutting.                                                   *)

\* What cleanButtons leaves of a label.
CleanLabel(l) ==
  /\ l \in Labels /\ Bytes(l) \in 1 .. LabelMax
  /\ l.text # <<>> => l.text[1] # "blank"

Clean(bs) ==
  /\ bs \in Seq(Buttons) /\ Len(bs) <= 2
  /\ \A i \in DOMAIN bs : CleanLabel(bs[i].label) /\ bs[i].url

LEMMA BytesNat == ASSUME NEW l \in Labels PROVE Bytes(l) \in Nat
BY ByteSetFinite DEF Bytes, Labels

LEMMA TrimmedIs ==
  ASSUME NEW l \in Labels
  PROVE  /\ Trimmed(l) \in Labels
         /\ Trimmed(l).text # <<>> => Trimmed(l).text[1] # "blank"
<1> DEFINE t     == l.text
           marks == {i \in DOMAIN t : t[i] # "blank"}
           last  == IF l.torn > 0 THEN Len(t) ELSE Max(marks)
<1>1. t \in Seq(Runes) /\ l.torn \in Nat /\ Len(t) \in Nat
  BY DEF Labels
<1>2. CASE marks = {}
  <2>1. Trimmed(l) = [l EXCEPT !.text = <<>>]
    BY <1>2 DEF Trimmed
  <2>2. Trimmed(l) = [text |-> <<>>, torn |-> l.torn] /\ <<>> \in Seq(Runes)
    BY <2>1, EmptySeq DEF Labels
  <2> QED
    BY <1>1, <2>2 DEF Labels
<1>3. CASE marks # {}
  <2>1. marks \subseteq Nat /\ marks \subseteq 0 .. Len(t)
    BY <1>1
  <2>2. /\ Min(marks) \in marks /\ Max(marks) \in marks
        /\ Min(marks) <= Max(marks)
    BY <1>1, <1>3, <2>1, MinIs, MaxIs
  <2>3. /\ Min(marks) \in 1 .. last /\ last \in 1 .. Len(t)
        /\ t[Min(marks)] # "blank"
    BY <1>1, <2>2
  <2>4. Trimmed(l) = [l EXCEPT !.text = SubSeq(t, Min(marks), last)]
    BY <1>3 DEF Trimmed
  <2> HIDE DEF last
  <2>5. /\ SubSeq(t, Min(marks), last) \in Seq(Runes)
        /\ SubSeq(t, Min(marks), last)[1] = t[Min(marks)]
    <3>1. Min(marks) \in 1 .. Len(t) /\ last \in Min(marks) .. Len(t)
      BY <1>1, <2>3
    <3> HIDE DEF marks
    <3> QED
      BY <1>1, <3>1, PartOf
  <2> QED
    BY <2>3, <2>4, <2>5 DEF Labels
<1> QED
  BY <1>2, <1>3

\* A label that does not begin with a blank loses blanks at its end only.
LEMMA TrimmedEnd ==
  ASSUME NEW l \in Labels, l.text # <<>> => l.text[1] # "blank"
  PROVE  /\ Trimmed(l).torn = l.torn
         /\ \E k \in 0 .. Len(l.text) :
              /\ Trimmed(l).text = SubSeq(l.text, 1, k)
              /\ \A i \in k + 1 .. Len(l.text) : l.text[i] = "blank"
              /\ l.text # <<>> => k >= 1
<1> DEFINE t     == l.text
           marks == {i \in DOMAIN t : t[i] # "blank"}
           last  == IF l.torn > 0 THEN Len(t) ELSE Max(marks)
<1>1. t \in Seq(Runes) /\ l.torn \in Nat /\ Len(t) \in Nat
  BY DEF Labels
<1>2. CASE t = <<>>
  <2>1. Trimmed(l) = [l EXCEPT !.text = <<>>]
    BY <1>2 DEF Trimmed
  <2>2. SubSeq(t, 1, 0) = <<>>
    BY SubSeqEmpty
  <2> QED
    BY <1>2, <2>1, <2>2 DEF Labels
<1>3. CASE t # <<>>
  <2>1. 1 \in marks /\ marks \subseteq Nat /\ marks \subseteq 0 .. Len(t)
    BY <1>1, <1>3
  <2>2. Min(marks) = 1
    <3>1. Min(marks) \in marks /\ Min(marks) <= 1
      BY <2>1, MinIs
    <3> QED
      BY <1>1, <3>1
  <2>3. Max(marks) \in marks /\ \A i \in marks : i <= Max(marks)
    BY <1>1, <2>1, MaxIs
  <2>4. /\ last \in 1 .. Len(t)
        /\ \A i \in last + 1 .. Len(t) : t[i] = "blank"
    <3>1. CASE l.torn > 0
      BY <1>1, <1>3, <3>1
    <3>2. CASE ~(l.torn > 0)
      <4>1. last = Max(marks) /\ last \in 1 .. Len(t)
        BY <1>1, <2>3, <3>2
      <4>2. ASSUME NEW i \in last + 1 .. Len(t), t[i] # "blank" PROVE FALSE
        <5>1. i \in marks /\ i \in Int /\ last + 1 <= i
          BY <1>1, <4>1, <4>2
        <5>2. i <= last
          BY <2>3, <4>1, <5>1
        <5> QED
          BY <4>1, <5>1, <5>2
      <4> QED
        BY <4>1, <4>2
    <3> QED
      BY <3>1, <3>2
  <2>5. Trimmed(l) = [l EXCEPT !.text = SubSeq(t, 1, last)]
    BY <2>1, <2>2 DEF Trimmed
  <2> HIDE DEF last, marks
  <2>6. Trimmed(l) = [text |-> SubSeq(t, 1, last), torn |-> l.torn]
    BY <2>5 DEF Labels
  <2>7. last \in 0 .. Len(t) /\ last >= 1
    BY <1>1, <2>4
  <2> QED
    BY <2>4, <2>6, <2>7
<1> QED
  BY <1>2, <1>3

LEMMA CutIs ==
  ASSUME NEW l \in Labels
  PROVE  /\ Cut(l) \in Labels /\ Bytes(Cut(l)) <= LabelMax
         /\ Bytes(l) > 0 => Bytes(Cut(l)) > 0
         /\ Bytes(l) <= LabelMax => Cut(l) = l
         /\ \E k \in 0 .. Len(l.text) :
              /\ Cut(l).text = SubSeq(l.text, 1, k)
              /\ \A j \in 0 .. Len(l.text) :
                   Width(SubSeq(l.text, 1, j)) <= LabelMax => j <= k
<1> DEFINE t     == l.text
           whole == SubSeq(t, 1, Fitting(t))
<1>1. t \in Seq(Runes) /\ l.torn \in Nat /\ Bytes(l) \in Nat /\ LabelMax \in Nat \ {0}
  BY BytesNat, SchemaAssumption DEF Labels
<1>2. CASE Bytes(l) <= LabelMax
  <2>1. Cut(l) = l
    BY <1>2 DEF Cut
  <2>2. t = SubSeq(t, 1, Len(t)) /\ Len(t) \in 0 .. Len(t)
    BY <1>1, SubSeqFull
  <2> QED
    BY <1>2, <2>1, <2>2
<1>3. CASE ~(Bytes(l) <= LabelMax)
  <2>1. Cut(l) = [text |-> whole, torn |-> LabelMax - Width(whole)]
    BY <1>3 DEF Cut
  <2>2. /\ Fitting(t) \in 0 .. Len(t) /\ Width(whole) <= LabelMax
        /\ \A j \in 0 .. Len(t) :
             Width(SubSeq(t, 1, j)) <= LabelMax => j <= Fitting(t)
    BY <1>1, FittingIs
  <2>3. whole \in Seq(Runes) /\ Width(whole) \in Nat
    BY <1>1, <2>2, PrefixOf, ByteSetFinite
  <2> HIDE DEF whole
  <2>4. Cut(l) \in Labels
    BY <1>1, <2>1, <2>2, <2>3 DEF Labels
  <2>5. Bytes(Cut(l)) = LabelMax
    BY <1>1, <2>1, <2>3 DEF Bytes
  <2> QED
    BY <1>1, <1>3, <2>1, <2>2, <2>4, <2>5 DEF whole
<1> QED
  BY <1>2, <1>3

LEMMA CleanedClean ==
  ASSUME NEW b \in Buttons, Complete(b)
  PROVE  Cleaned(b) \in Buttons /\ CleanLabel(Cleaned(b).label) /\ Cleaned(b).url
<1> DEFINE m == Trimmed(b.label)
<1>1. m \in Labels /\ (m.text # <<>> => m.text[1] # "blank") /\ Bytes(m) > 0 /\ b.url
  BY TrimmedIs DEF Complete, Buttons
<1> HIDE DEF m
<1>2. PICK k \in 0 .. Len(m.text) : Cut(m).text = SubSeq(m.text, 1, k)
  BY <1>1, CutIs
<1>3. Cut(m) \in Labels /\ Bytes(Cut(m)) <= LabelMax /\ Bytes(Cut(m)) > 0
  BY <1>1, CutIs
<1>4. Cut(m).text # <<>> => Cut(m).text[1] # "blank"
  <2>1. m.text \in Seq(Runes)
    BY <1>1 DEF Labels
  <2>2. Len(Cut(m).text) = k /\ \A i \in 1 .. k : Cut(m).text[i] = m.text[i]
    BY <1>2, <2>1, PrefixOf
  <2> QED
    BY <1>1, <1>2, <2>1, <2>2
<1>5. Cleaned(b) = [label |-> Cut(m), url |-> b.url]
  BY DEF Cleaned, m
<1>6. Bytes(Cut(m)) \in 1 .. LabelMax
  BY <1>3, BytesNat, SchemaAssumption
<1> QED
  BY <1>1, <1>3, <1>4, <1>5, <1>6 DEF Buttons, CleanLabel

LEMMA CleanComplete ==
  ASSUME NEW b \in Buttons, b.url, CleanLabel(b.label)
  PROVE  Complete(b)
<1> DEFINE l == b.label
<1>1. l \in Labels /\ l.text \in Seq(Runes) /\ l.torn \in Nat
  BY DEF CleanLabel, Labels
<1>2. PICK k \in 0 .. Len(l.text) :
        Trimmed(l).text = SubSeq(l.text, 1, k) /\ (l.text # <<>> => k >= 1)
  BY TrimmedEnd DEF CleanLabel
<1>3. Trimmed(l).torn = l.torn /\ Trimmed(l).text \in Seq(Runes)
  BY TrimmedEnd, TrimmedIs DEF CleanLabel, Labels
<1>4. CASE l.text = <<>>
  <2>1. l.torn > 0
    BY <1>1, <1>4, WidthEmpty DEF CleanLabel, Bytes
  <2> QED
    BY <1>1, <1>3, <2>1, ByteSetFinite DEF Complete, Bytes
<1>5. CASE l.text # <<>>
  <2>1. Trimmed(l).text # <<>>
    BY <1>1, <1>2, <1>5, PrefixOf
  <2>2. Width(Trimmed(l).text) >= 1 /\ Width(Trimmed(l).text) \in Nat
    BY <1>3, <2>1, WidthSome, ByteSetFinite
  <2> QED
    BY <1>1, <1>3, <2>2 DEF Complete, Bytes
<1> QED
  BY <1>4, <1>5

-----------------------------------------------------------------------------
(* What cleaning again keeps.                                              *)

\* Blanks and replaced bytes at the end make no difference to what is legible.
LEMMA LegibleSame ==
  ASSUME NEW s \in Seq(Runes), NEW t \in Seq(Runes), Len(s) <= Len(t),
         \A i \in 1 .. Len(s) : s[i] = t[i],
         \A i \in Len(s) + 1 .. Len(t) : t[i] \in {"blank", "bad"}
  PROVE  Legible(s) = Legible(t)
<1> DEFINE marks(u) == {i \in DOMAIN u : u[i] \notin {"blank", "bad"}}
<1>1. marks(s) = marks(t)
  OBVIOUS
<1>2. CASE marks(s) = {}
  BY <1>1, <1>2 DEF Legible
<1>3. CASE marks(s) # {}
  <2>1. marks(s) \subseteq 0 .. Len(s) /\ Len(s) \in Nat
    OBVIOUS
  <2>2. Max(marks(s)) \in marks(s)
    BY <1>3, <2>1, MaxIs
  <2>3. Max(marks(s)) \in 1 .. Len(s)
    BY <2>2
  <2>4. Legible(s) = SubSeq(s, 1, Max(marks(s))) /\ Legible(t) = SubSeq(t, 1, Max(marks(s)))
    BY <1>1, <1>3 DEF Legible
  <2> HIDE DEF marks
  <2>5. SubSeq(s, 1, Max(marks(s))) = SubSeq(t, 1, Max(marks(s)))
    BY <2>3
  <2> QED
    BY <2>4, <2>5
<1> QED
  BY <1>2, <1>3

\* A clean label that is cleaned again.
LEMMA CleanAgain ==
  ASSUME NEW l, CleanLabel(l)
  PROVE  Legible(Cut(Trimmed(l)).text) = Legible(l.text)
<1> DEFINE m == Trimmed(l)
<1>1. /\ l \in Labels /\ l.text \in Seq(Runes) /\ l.torn \in Nat
      /\ m \in Labels /\ m.text \in Seq(Runes) /\ m.torn = l.torn
  BY TrimmedIs, TrimmedEnd DEF CleanLabel, Labels
<1>2. PICK k \in 0 .. Len(l.text) :
        /\ m.text = SubSeq(l.text, 1, k)
        /\ \A i \in k + 1 .. Len(l.text) : l.text[i] = "blank"
  BY <1>1, TrimmedEnd DEF CleanLabel
<1> HIDE DEF m
<1>3. Len(m.text) = k /\ \A i \in 1 .. k : m.text[i] = l.text[i]
  BY <1>1, <1>2, PrefixOf
<1>4. /\ Len(m.text) <= Len(l.text)
      /\ \A i \in 1 .. Len(m.text) : m.text[i] = l.text[i]
      /\ \A i \in Len(m.text) + 1 .. Len(l.text) : l.text[i] \in {"blank", "bad"}
  BY <1>1, <1>2, <1>3
<1>5. Bytes(m) <= LabelMax
  <2>1. Width(m.text) <= Width(l.text)
    BY <1>1, <1>4, WidthGrows
  <2> QED
    BY <1>1, <2>1, ByteSetFinite, SchemaAssumption DEF Bytes, CleanLabel
<1>6. Cut(m) = m
  BY <1>1, <1>5, CutIs
<1>7. Legible(m.text) = Legible(l.text)
  BY <1>1, <1>4, LegibleSame
<1> QED
  BY <1>6, <1>7 DEF m

\* A label on the disk: the text and then nothing but replaced bytes.
LEMMA ShownIs ==
  ASSUME NEW l \in Labels
  PROVE  /\ Shown(l) \in Seq(Runes) /\ Len(Shown(l)) = Len(l.text) + l.torn
         /\ \A i \in 1 .. Len(l.text) : Shown(l)[i] = l.text[i]
         /\ \A i \in Len(l.text) + 1 .. Len(Shown(l)) : Shown(l)[i] = "bad"
<1> DEFINE bads == [i \in 1 .. l.torn |-> "bad"]
<1>1. l.text \in Seq(Runes) /\ l.torn \in Nat
  BY DEF Labels
<1>2. bads \in Seq(Runes) /\ Len(bads) = l.torn
  BY <1>1, RunesAre
<1>3. \A i \in 1 .. l.torn : bads[i] = "bad"
  OBVIOUS
<1> HIDE DEF bads
<1>4. Shown(l) = l.text \o bads
  BY DEF Shown, bads
<1>5. /\ Shown(l) \in Seq(Runes) /\ Len(Shown(l)) = Len(l.text) + Len(bads)
      /\ \A i \in 1 .. Len(l.text) + Len(bads) : Shown(l)[i] =
           IF i <= Len(l.text) THEN l.text[i] ELSE bads[i - Len(l.text)]
  <2>1. l.text \in Seq(Runes) /\ bads \in Seq(Runes)
    BY <1>1, <1>2
  <2>2. /\ l.text \o bads \in Seq(Runes)
        /\ Len(l.text \o bads) = Len(l.text) + Len(bads)
        /\ \A i \in 1 .. Len(l.text) + Len(bads) : (l.text \o bads)[i] =
             IF i <= Len(l.text) THEN l.text[i] ELSE bads[i - Len(l.text)]
    BY <2>1, ConcatProperties, Zenon
  <2> QED
    BY <1>4, <2>2, Zenon
<1>6. Len(l.text) \in Nat /\ Len(Shown(l)) = Len(l.text) + l.torn
  BY <1>1, <1>2, <1>5
<1>7. \A i \in 1 .. Len(l.text) : Shown(l)[i] = l.text[i]
  BY <1>1, <1>2, <1>5, <1>6
<1>8. ASSUME NEW i \in Len(l.text) + 1 .. Len(Shown(l)) PROVE Shown(l)[i] = "bad"
  <2>1. /\ i \in 1 .. Len(l.text) + Len(bads) /\ ~(i <= Len(l.text))
        /\ i - Len(l.text) \in 1 .. l.torn
    BY <1>1, <1>2, <1>6
  <2> QED
    BY <1>3, <1>5, <2>1
<1> QED
  BY <1>5, <1>6, <1>7, <1>8

\* A clean label that was saved, decoded and is cleaned again.
LEMMA RereadKept ==
  ASSUME NEW l, CleanLabel(l)
  PROVE  /\ Reread(l) \in Labels /\ Bytes(Trimmed(Reread(l))) > 0
         /\ Legible(Cut(Trimmed(Reread(l))).text) = Legible(l.text)
<1> DEFINE s == Shown(l)
           m == Trimmed(Reread(l))
<1>1. /\ l \in Labels /\ l.text \in Seq(Runes) /\ l.torn \in Nat
      /\ Bytes(l) \in 1 .. LabelMax /\ Width(l.text) \in Nat
  BY ByteSetFinite DEF CleanLabel, Labels
<1>2. /\ s \in Seq(Runes) /\ Len(s) = Len(l.text) + l.torn
      /\ \A i \in 1 .. Len(l.text) : s[i] = l.text[i]
      /\ \A i \in Len(l.text) + 1 .. Len(s) : s[i] = "bad"
  BY <1>1, ShownIs
<1> HIDE DEF s
<1>3. Reread(l) = [text |-> s, torn |-> 0] /\ Reread(l) \in Labels
  BY <1>2 DEF Reread, Label, Labels, s
<1>4. s # <<>> /\ s[1] # "blank"
  <2>1. l.text = <<>> => l.torn > 0
    BY <1>1, WidthEmpty DEF Bytes
  <2>2. Len(s) >= 1
    BY <1>1, <1>2, <2>1
  <2>3. CASE l.text = <<>>
    BY <1>1, <1>2, <2>2, <2>3
  <2>4. CASE l.text # <<>>
    BY <1>1, <1>2, <2>4 DEF CleanLabel
  <2> QED
    BY <2>2, <2>3, <2>4
<1>5. PICK k \in 0 .. Len(s) :
        /\ m.text = SubSeq(s, 1, k) /\ k >= 1
        /\ \A i \in k + 1 .. Len(s) : s[i] = "blank"
  BY <1>3, <1>4, TrimmedEnd
<1>6. m \in Labels /\ m.text \in Seq(Runes) /\ m.torn = 0
  BY <1>3, <1>4, TrimmedIs, TrimmedEnd DEF Labels
<1> HIDE DEF m
<1>7. Len(m.text) = k /\ \A i \in 1 .. k : m.text[i] = s[i]
  BY <1>2, <1>5, PrefixOf
<1>8. Bytes(m) > 0
  <2>1. m.text # <<>>
    BY <1>5, <1>7
  <2> QED
    BY <1>6, <2>1, WidthSome, ByteSetFinite DEF Bytes
<1>9. PICK j \in 0 .. k :
        /\ Cut(m).text = SubSeq(m.text, 1, j)
        /\ \A n \in 0 .. k : Width(SubSeq(m.text, 1, n)) <= LabelMax => n <= j
  BY <1>6, <1>7, CutIs
<1>10. Cut(m).text \in Seq(Runes) /\ Len(Cut(m).text) = j
       /\ \A i \in 1 .. j : Cut(m).text[i] = s[i]
  <2>1. j \in 0 .. Len(m.text)
    BY <1>7, <1>9
  <2> QED
    BY <1>5, <1>6, <1>7, <1>9, <2>1, PrefixOf
\* What is left out of the text are blanks at its end.
<1>11. \A i \in j + 1 .. Len(l.text) : l.text[i] = "blank"
  <2> SUFFICES ASSUME NEW i \in j + 1 .. Len(l.text), l.text[i] # "blank"
               PROVE  FALSE
    OBVIOUS
  <2>1. i <= k
    BY <1>1, <1>2, <1>5
  <2>2. i \in 0 .. Len(m.text) /\ i \in 0 .. k /\ i \in 1 .. Len(l.text) /\ i > j
    BY <1>5, <1>7, <1>9, <2>1
  <2>3. /\ SubSeq(m.text, 1, i) \in Seq(Runes) /\ Len(SubSeq(m.text, 1, i)) = i
        /\ \A n \in 1 .. i : SubSeq(m.text, 1, i)[n] = m.text[n]
    BY <1>6, <2>2, PrefixOf
  <2>4. ASSUME NEW n \in 1 .. i PROVE SubSeq(m.text, 1, i)[n] = l.text[n]
    <3>1. n \in 1 .. k /\ n \in 1 .. Len(l.text)
      BY <1>1, <1>5, <2>2
    <3>2. m.text[n] = s[n]
      BY <1>7, <3>1
    <3>3. s[n] = l.text[n]
      BY <1>2, <3>1
    <3> QED
      BY <2>3, <3>2, <3>3
  <2>5. Width(SubSeq(m.text, 1, i)) <= Width(l.text)
    <3>1. /\ Len(SubSeq(m.text, 1, i)) <= Len(l.text)
          /\ \A n \in 1 .. Len(SubSeq(m.text, 1, i)) :
               SubSeq(m.text, 1, i)[n] = l.text[n]
      BY <1>1, <2>2, <2>3, <2>4
    <3> QED
      BY <1>1, <2>3, <3>1, WidthGrows
  <2>6. Width(SubSeq(m.text, 1, i)) \in Nat
    BY <2>3, ByteSetFinite
  <2>7. Width(l.text) <= LabelMax
    BY <1>1, SchemaAssumption DEF Bytes
  <2> QED
    BY <1>1, <1>9, <2>2, <2>5, <2>6, <2>7, SchemaAssumption
<1> DEFINE c == Cut(m).text
<1>12. c \in Seq(Runes) /\ Len(c) = j /\ j \in Nat /\ j <= Len(s) /\ Len(l.text) \in Nat
  BY <1>1, <1>5, <1>9, <1>10
<1>13. Legible(c) = Legible(l.text)
  <2>1. \A i \in 1 .. Len(c) : c[i] = s[i]
    BY <1>10
  <2> HIDE DEF c
  <2>2. CASE j <= Len(l.text)
    <3>1. /\ \A i \in 1 .. Len(c) : c[i] = l.text[i]
          /\ \A i \in Len(c) + 1 .. Len(l.text) : l.text[i] \in {"blank", "bad"}
      BY <1>2, <1>11, <1>12, <2>1, <2>2
    <3> QED
      BY <1>1, <1>12, <2>2, <3>1, LegibleSame
  <2>3. CASE j > Len(l.text)
    <3>1. /\ \A i \in 1 .. Len(l.text) : l.text[i] = c[i]
          /\ \A i \in Len(l.text) + 1 .. Len(c) : c[i] \in {"blank", "bad"}
      BY <1>2, <1>12, <2>1, <2>3
    <3>2. Legible(l.text) = Legible(c)
      BY <1>1, <1>12, <2>3, <3>1, LegibleSame
    <3> QED
      BY <3>2
  <2> QED
    BY <1>12, <2>2, <2>3
<1> QED
  BY <1>3, <1>8, <1>13 DEF m

-----------------------------------------------------------------------------
(* Lists of buttons.                                                       *)

LEMMA CleanButtonsClean ==
  ASSUME NEW bs \in Seq(Buttons)
  PROVE  Clean(CleanButtons(bs))
<1> DEFINE all  == {i \in DOMAIN bs : Complete(bs[i])}
           rest == all \ {Min(all)}
           out  == CleanButtons(bs)
<1>1. /\ all \subseteq Nat /\ rest \subseteq Nat /\ rest \subseteq all
      /\ \A i \in all : bs[i] \in Buttons /\ Complete(bs[i])
  OBVIOUS
<1>2. all # {} => Min(all) \in all
  BY <1>1, MinIs
<1>3. rest # {} => Min(rest) \in all
  BY <1>1, MinIs
<1>4. out = IF all = {} THEN <<>>
            ELSE IF rest = {} THEN <<Cleaned(bs[Min(all)])>>
            ELSE <<Cleaned(bs[Min(all)]), Cleaned(bs[Min(rest)])>>
  BY DEF CleanButtons
<1>5. \A i \in all : /\ Cleaned(bs[i]) \in Buttons /\ Cleaned(bs[i]).url
                     /\ CleanLabel(Cleaned(bs[i]).label)
  BY <1>1, CleanedClean
<1>6. rest # {} => all # {}
  OBVIOUS
<1> HIDE DEF all, rest, out
<1>7. CASE all = {}
  BY <1>4, <1>7, EmptySeq DEF Clean, out
<1>8. CASE all # {} /\ rest = {}
  BY <1>2, <1>4, <1>5, <1>8 DEF Clean, out
<1>9. CASE rest # {}
  BY <1>2, <1>3, <1>4, <1>5, <1>6, <1>9 DEF Clean, out
<1> QED
  BY <1>7, <1>8, <1>9

\* Of at most two complete buttons, all are left.
LEMMA CleanButtonsAll ==
  ASSUME NEW bs \in Seq(Buttons), Len(bs) <= 2,
         \A i \in DOMAIN bs : Complete(bs[i])
  PROVE  /\ Len(CleanButtons(bs)) = Len(bs)
         /\ \A i \in DOMAIN bs : CleanButtons(bs)[i] = Cleaned(bs[i])
<1> DEFINE all  == {i \in DOMAIN bs : Complete(bs[i])}
           rest == all \ {Min(all)}
           out  == CleanButtons(bs)
<1>1. all = 1 .. Len(bs) /\ Len(bs) \in Nat
  OBVIOUS
<1>2. out = IF all = {} THEN <<>>
            ELSE IF rest = {} THEN <<Cleaned(bs[Min(all)])>>
            ELSE <<Cleaned(bs[Min(all)]), Cleaned(bs[Min(rest)])>>
  BY DEF CleanButtons
<1>3. all # {} => Min(all) = 1
  <2> SUFFICES ASSUME all # {} PROVE Min(all) = 1
    OBVIOUS
  <2>1. 1 \in all /\ all \subseteq Nat
    BY <1>1
  <2> HIDE DEF all
  <2>2. Min(all) \in all /\ Min(all) <= 1
    BY <2>1, MinIs
  <2> QED
    BY <1>1, <2>2
<1> HIDE DEF all, out
<1>4. CASE Len(bs) = 0
  BY <1>1, <1>2, <1>4 DEF out
<1>5. CASE Len(bs) = 1
  <2>1. all # {} /\ rest = {}
    BY <1>1, <1>3, <1>5
  <2> QED
    BY <1>1, <1>2, <1>3, <1>5, <2>1 DEF out
<1>6. CASE Len(bs) = 2
  <2>1. all # {} /\ rest = {2}
    BY <1>1, <1>3, <1>6
  <2>2. Min(rest) = 2
    BY <2>1 DEF Min
  <2> HIDE DEF rest
  <2>3. out = <<Cleaned(bs[1]), Cleaned(bs[2])>>
    BY <1>2, <1>3, <2>1, <2>2
  <2> QED
    BY <1>1, <1>6, <2>3 DEF out
<1>7. \A n \in Nat : n <= 2 => n = 0 \/ n = 1 \/ n = 2
  OBVIOUS
<1>8. Len(bs) = 0 \/ Len(bs) = 1 \/ Len(bs) = 2
  BY <1>1, <1>7, Zenon
<1> QED
  BY <1>4, <1>5, <1>6, <1>8, Zenon

LEMMA UpdateKeeps ==
  ASSUME NEW bs, Clean(bs)
  PROVE  SameButtons(bs, CleanButtons(bs))
<1>1. /\ bs \in Seq(Buttons) /\ Len(bs) <= 2
      /\ \A i \in DOMAIN bs : bs[i] \in Buttons /\ bs[i].url /\ CleanLabel(bs[i].label)
  BY DEF Clean
<1>2. \A i \in DOMAIN bs : Complete(bs[i])
  BY <1>1, CleanComplete
<1>3. /\ Len(CleanButtons(bs)) = Len(bs)
      /\ \A i \in DOMAIN bs : CleanButtons(bs)[i] = Cleaned(bs[i])
  BY <1>1, <1>2, CleanButtonsAll
<1>4. \A i \in DOMAIN bs : Cleaned(bs[i]).label = Cut(Trimmed(bs[i].label))
  BY DEF Cleaned
<1> QED
  BY <1>1, <1>3, <1>4, CleanAgain DEF SameButtons

LEMMA ReloadKeeps ==
  ASSUME NEW bs, Clean(bs)
  PROVE  LET read == [i \in DOMAIN bs |-> [label |-> Reread(bs[i].label),
                                           url |-> bs[i].url]]
         IN  read \in Seq(Buttons) /\ SameButtons(bs, CleanButtons(read))
<1> DEFINE read == [i \in DOMAIN bs |-> [label |-> Reread(bs[i].label),
                                         url |-> bs[i].url]]
<1>1. /\ bs \in Seq(Buttons) /\ Len(bs) <= 2 /\ Len(bs) \in Nat
      /\ \A i \in DOMAIN bs : bs[i] \in Buttons /\ bs[i].url /\ CleanLabel(bs[i].label)
  BY DEF Clean
<1>2. ASSUME NEW i \in DOMAIN bs
      PROVE  /\ read[i] = [label |-> Reread(bs[i].label), url |-> TRUE]
             /\ read[i] \in Buttons /\ Complete(read[i])
             /\ Legible(Cleaned(read[i]).label.text) = Legible(bs[i].label.text)
  <2>1. /\ Reread(bs[i].label) \in Labels /\ Bytes(Trimmed(Reread(bs[i].label))) > 0
        /\ Legible(Cut(Trimmed(Reread(bs[i].label))).text) = Legible(bs[i].label.text)
    BY <1>1, RereadKept
  <2>2. read[i] = [label |-> Reread(bs[i].label), url |-> TRUE]
    BY <1>1 DEF Buttons
  <2> QED
    BY <2>1, <2>2 DEF Buttons, Complete, Cleaned
<1>3. read \in Seq(Buttons) /\ Len(read) = Len(bs) /\ DOMAIN read = DOMAIN bs
  <2>1. DOMAIN read = 1 .. Len(bs) /\ \A i \in 1 .. Len(bs) : read[i] \in Buttons
    BY <1>1, <1>2
  <2>2. read \in [1 .. Len(bs) -> Buttons]
    BY <1>1, <2>1
  <2> HIDE DEF read
  <2> QED
    BY <1>1, <2>1, <2>2
<1> HIDE DEF read
<1>4. /\ Len(CleanButtons(read)) = Len(read)
      /\ \A i \in DOMAIN read : CleanButtons(read)[i] = Cleaned(read[i])
  BY <1>1, <1>2, <1>3, CleanButtonsAll
<1>5. SameButtons(bs, CleanButtons(read))
  BY <1>2, <1>3, <1>4 DEF SameButtons
<1> QED
  BY <1>3, <1>5 DEF read

-----------------------------------------------------------------------------
(* Configurations.                                                         *)

\* What a handler or load has before Normalize, and what is in use.
Drafts ==
  [mode : {ModeCustom, ModeDual}, buttons : Seq(Buttons), key : BOOLEAN,
   user : Users \cup {Nobody}, name : Users \cup {Nobody}, clear : BOOLEAN,
   poll : Int]

InUse(c) == c \in Drafts /\ c.poll \in 15 .. 3600 /\ Clean(c.buttons)

\* What Normalize makes of a poll interval.
Seconds == 15 .. 3600

LEMMA IntervalIs ==
  ASSUME NEW secs \in Int
  PROVE  Interval(secs) \in Seconds
<1>1. CASE secs < 15
  BY <1>1 DEF Interval, Seconds
<1>2. CASE secs >= 15 /\ secs > 3600
  <2>1. Interval(secs) = 3600
    BY <1>2 DEF Interval, Seconds
  <2> QED
    BY <2>1 DEF Seconds
<1>3. CASE secs >= 15 /\ secs <= 3600
  <2>1. Interval(secs) = secs
    BY <1>3 DEF Interval, Seconds
  <2> QED
    BY <1>3, <2>1 DEF Seconds
<1> QED
  BY <1>1, <1>2, <1>3

LEMMA NormalizeIs ==
  ASSUME NEW c \in Drafts
  PROVE  InUse(Normalize(c)) /\ Normalize(c).buttons = CleanButtons(c.buttons)
<1> DEFINE bs == CleanButtons(c.buttons)
           p  == Interval(c.poll)
           n  == Normalize(c)
<1>1. /\ c.mode \in {ModeCustom, ModeDual} /\ c.buttons \in Seq(Buttons)
      /\ c.key \in BOOLEAN /\ c.user \in Users \cup {Nobody}
      /\ c.name \in Users \cup {Nobody} /\ c.clear \in BOOLEAN /\ c.poll \in Int
  BY DEF Drafts
<1>2. p \in Seconds
  BY <1>1, IntervalIs
<1>3. Clean(bs)
  BY <1>1, CleanButtonsClean
<1>4. bs \in Seq(Buttons)
  BY <1>3 DEF Clean
<1>5. n = [c EXCEPT !.mode = IF c.mode = 0 THEN ModeDual ELSE c.mode,
                    !.poll = p, !.buttons = bs]
  BY DEF Normalize
<1> HIDE DEF bs, p, n
<1>6. c.mode # 0
  BY <1>1 DEF ModeCustom, ModeDual, ModeJellyfin
<1>7. n = [c EXCEPT !.mode = c.mode, !.poll = p, !.buttons = bs]
  BY <1>5, <1>6
<1>8. n \in Drafts /\ n.poll = p /\ n.buttons = bs
  <2>1. n = [mode |-> c.mode, buttons |-> bs, key |-> c.key, user |-> c.user,
             name |-> c.name, clear |-> c.clear, poll |-> p]
    BY <1>7 DEF Drafts
  <2>2. p \in Int
    BY <1>2 DEF Seconds
  <2> QED
    BY <1>1, <1>4, <2>1, <2>2, Zenon DEF Drafts
<1>9. InUse(n) /\ n.buttons = bs
  BY <1>2, <1>3, <1>8 DEF InUse, Seconds
<1> QED
  BY <1>9 DEF n, bs

\* A saved form for buttons, and one for Jellyfin's settings.
LEMMA SavedButtons ==
  ASSUME NEW c \in Drafts, NEW bs \in ButtonLists
  PROVE  ApplyRequest(c, [buttons |-> bs, jellyfin |-> Absent]) \in Drafts
<1>1. bs \in Seq(Buttons) /\ bs # Absent
  BY DisplayAssumption
<1>2. ApplyRequest(c, [buttons |-> bs, jellyfin |-> Absent])
        = [c EXCEPT !.buttons = bs]
  BY <1>1 DEF ApplyRequest, Given, Drafts
<1> QED
  BY <1>1, <1>2 DEF Drafts

LEMMA SavedSettings ==
  ASSUME NEW c \in Drafts, NEW f \in Forms
  PROVE  /\ ApplyRequest(c, [buttons |-> Absent, jellyfin |-> f]) \in Drafts
         /\ ApplyRequest(c, [buttons |-> Absent, jellyfin |-> f]).buttons = c.buttons
<1> DEFINE a == ApplyRequest(c, [buttons |-> Absent, jellyfin |-> f])
<1>1. f \in Settings /\ f # Absent
  BY DisplayAssumption
<1>2. a = [c EXCEPT !.buttons = c.buttons, !.user = f.user, !.name = f.name,
                    !.clear = f.clear, !.poll = f.poll, !.key = f.key]
  BY <1>1 DEF ApplyRequest, Given, Drafts
<1> HIDE DEF a
<1>3. a \in Drafts /\ a.buttons = c.buttons
  BY <1>1, <1>2 DEF Drafts, Settings
<1> QED
  BY <1>3 DEF a

LEMMA LoadedIs ==
  ASSUME NEW c, InUse(c)
  PROVE  InUse(Loaded(c)) /\ SameButtons(c.buttons, Loaded(c).buttons)
<1> DEFINE read == [i \in DOMAIN c.buttons |->
                      [label |-> Reread(c.buttons[i].label),
                       url |-> c.buttons[i].url]]
<1>1. read \in Seq(Buttons) /\ SameButtons(c.buttons, CleanButtons(read))
  <2>1. Clean(c.buttons)
    BY DEF InUse
  <2> QED
    BY <2>1, ReloadKeeps, Zenon
<1>2. Loaded(c) = Normalize([c EXCEPT !.buttons = read])
  BY DEF Loaded
<1> HIDE DEF read
<1>3. [c EXCEPT !.buttons = read] \in Drafts
  <2>1. c \in Drafts /\ read \in Seq(Buttons)
    BY <1>1 DEF InUse
  <2> QED
    BY <2>1 DEF Drafts
<1>4. [c EXCEPT !.buttons = read].buttons = read
  BY DEF InUse, Drafts
<1> QED
  BY <1>1, <1>2, <1>3, <1>4, NormalizeIs

-----------------------------------------------------------------------------
(* The presence.                                                           *)

ShownInv ==
  /\ cached # Nothing => cached.media \in Users
  /\ presence.media \in Users \cup {Nothing}

LEMMA AppliesShown ==
  ASSUME NEW c, NEW kept, NEW answered \in BOOLEAN, sessions \in Seq(Entries),
         kept # Nothing => kept.media \in Users, Applies(c, kept, answered)
  PROVE  ShownInv'
<1>1. ASSUME NEW i \in Chosen(c), NEW p
      PROVE  Activity(sessions[i].user, p, c).media \in Users
  <2>1. sessions[i] \in Entries
    BY DEF Chosen, Media
  <2> QED
    BY <2>1 DEF Entries, Activity
<1>2. Custom(c).media = Nothing
  BY DEF Custom, Activity
<1>3. CASE On(c) /\ answered /\ Chosen(c) # {}
  <2>1. PICK i \in Chosen(c) :
          /\ presence' = Activity(sessions[i].user, sessions[i].item = "paused", c)
          /\ cached' = presence'
    BY <1>3 DEF Applies
  <2> QED
    BY <1>1, <2>1 DEF ShownInv
<1>4. CASE ~(On(c) /\ answered /\ Chosen(c) # {})
  <2>1. /\ presence' = IF On(c) /\ kept # Nothing THEN kept ELSE Custom(c)
        /\ cached' = kept
    BY <1>4 DEF Applies
  <2> QED
    BY <1>2, <2>1 DEF ShownInv
<1> QED
  BY <1>3, <1>4

\* A poll that Jellyfin has answered.
LEMMA PollShows ==
  ASSUME sessions \in Seq(Entries), On(cfg), UNCHANGED <<cfg, sessions>>,
         Applies(cfg, Kept(Chosen(cfg) # {}), TRUE)
  PROVE  PollShowsWanted'
<1> DEFINE wanted == {i \in DOMAIN sessions : Passes(sessions[i], cfg)}
<1>1. Media(cfg) = {i \in wanted : sessions[i].item # "none"}
  BY DEF Media
<1>2. \A i \in wanted : sessions[i] \in Entries /\ i \in Nat
  OBVIOUS
<1>3. SUFFICES /\ presence'.media # Nothing =>
                    \E i \in wanted :
                      /\ sessions[i].user = presence'.media
                      /\ sessions[i].item = IF presence'.paused THEN "paused"
                                                                ELSE "playing"
                      /\ ~(cfg.clear /\ presence'.paused)
               /\ presence'.media = Nothing =>
                    \A i \in wanted : sessions[i].item = "playing" =>
                      cfg.clear /\ \E j \in wanted :
                                     j < i /\ sessions[j].item = "paused"
               /\ presence'.buttons = Custom(cfg).buttons
  <2>1. cfg' = cfg /\ sessions' = sessions
    OBVIOUS
  <2>2. Custom(cfg)' = Custom(cfg)
    BY <2>1 DEF Custom, Activity
  <2>3. wanted' = wanted
    BY <2>1 DEF Passes
  <2> QED
    BY <2>1, <2>2, <2>3 DEF PollShowsWanted
<1> HIDE DEF wanted
<1>4. CASE Chosen(cfg) # {}
  <2>1. PICK i \in Chosen(cfg) :
          presence' = Activity(sessions[i].user, sessions[i].item = "paused", cfg)
    BY <1>4 DEF Applies
  <2>2. /\ i \in wanted /\ sessions[i].item # "none"
        /\ ~(cfg.clear /\ sessions[i].item = "paused")
    BY <1>1 DEF Chosen
  <2>3. /\ presence'.media = sessions[i].user
        /\ presence'.paused = (sessions[i].item = "paused")
        /\ presence'.buttons = Custom(cfg).buttons
    BY <2>1 DEF Custom, Activity
  <2>4. sessions[i].user # Nothing /\ sessions[i].item \in {"playing", "paused"}
    BY <1>2, <2>2, DisplayAssumption DEF Entries
  <2> QED
    BY <2>2, <2>3, <2>4
<1>5. CASE Chosen(cfg) = {}
  <2>1. presence' = Custom(cfg)
    BY <1>5 DEF Applies, Kept
  <2>2. presence'.media = Nothing /\ presence'.buttons = Custom(cfg).buttons
    BY <2>1 DEF Custom, Activity
  <2>3. ASSUME NEW i \in wanted, sessions[i].item = "playing"
        PROVE  cfg.clear /\ \E j \in wanted : j < i /\ sessions[j].item = "paused"
    <3> DEFINE j == Min(Media(cfg))
    <3>1. i \in Media(cfg) /\ Media(cfg) \subseteq Nat
      BY <1>1, <1>2, <2>3
    <3>2. j \in Media(cfg) /\ \A k \in Media(cfg) : j <= k
      BY <3>1, MinIs
    <3> HIDE DEF j
    <3>3. cfg.clear /\ sessions[j].item = "paused"
      BY <1>5, <3>2 DEF Chosen
    <3>4. j < i
      <4>1. j <= i /\ j # i /\ i \in Nat /\ j \in Nat
        BY <2>3, <3>1, <3>2, <3>3
      <4> QED
        BY <4>1
    <3> QED
      BY <1>1, <3>2, <3>3, <3>4
  <2> QED
    BY <2>2, <2>3
<1> QED
  BY <1>4, <1>5

-----------------------------------------------------------------------------
(* The steps.                                                              *)

DisplayInv ==
  /\ InUse(cfg) /\ sessions \in Seq(Entries) /\ polled \in BOOLEAN
  /\ ShownInv /\ PollShowsWanted

LEMMA DisplayInitInv == Init => DisplayInv
<1> SUFFICES ASSUME Init PROVE DisplayInv
  OBVIOUS
<1>1. Clean(<<>>)
  BY EmptySeq DEF Clean
<1>2. Default \in Drafts /\ Default.poll \in 15 .. 3600 /\ Default.buttons = <<>>
  BY DEF Default, Drafts
<1>3. InUse(cfg)
  BY <1>1, <1>2 DEF Init, InUse
<1>4. ShownInv
  BY DEF Init, ShownInv, Custom, Activity
<1>5. PollShowsWanted
  BY DEF Init, PollShowsWanted
<1>6. sessions \in Seq(Entries)
  BY EmptySeq DEF Init
<1>7. polled \in BOOLEAN
  BY DEF Init
<1> QED
  BY <1>3, <1>4, <1>5, <1>6, <1>7 DEF DisplayInv

\* UpdateConfig, with what a request has made of the configuration.
LEMMA UpdatesStep ==
  ASSUME DisplayInv, NEW c \in Drafts, NEW answered \in BOOLEAN,
         Updates(c, answered)
  PROVE  DisplayInv' /\ cfg'.buttons = CleanButtons(c.buttons)
<1>1. /\ cfg' = Normalize(c) /\ Applies(cfg', cached, answered)
      /\ polled' = FALSE /\ sessions' = sessions
  BY DEF Updates
<1>2. InUse(cfg') /\ cfg'.buttons = CleanButtons(c.buttons)
  BY <1>1, NormalizeIs
<1>3. ShownInv'
  <2>1. sessions \in Seq(Entries) /\ (cached # Nothing => cached.media \in Users)
    BY DEF DisplayInv, ShownInv
  <2> QED
    BY <1>1, <2>1, AppliesShown
<1>4. PollShowsWanted'
  BY <1>1 DEF PollShowsWanted
<1>5. InUse(cfg)' /\ sessions' \in Seq(Entries)
  BY <1>1, <1>2 DEF DisplayInv
<1>6. polled' \in BOOLEAN
  BY <1>1
<1> QED
  BY <1>2, <1>3, <1>4, <1>5, <1>6, Zenon DEF DisplayInv

LEMMA SavesStep ==
  ASSUME DisplayInv, NEW r \in Requests, NEW answered \in BOOLEAN,
         Saves(r, answered)
  PROVE  /\ DisplayInv'
         /\ \/ SameButtons(cfg.buttons, cfg'.buttons)
            \/ \E bs \in ButtonLists, a \in BOOLEAN :
                 Saves([buttons |-> bs, jellyfin |-> Absent], a)
<1>1. cfg \in Drafts /\ Clean(cfg.buttons)
  BY DEF DisplayInv, InUse
<1>2. CASE r \in [buttons : ButtonLists, jellyfin : {Absent}]
  <2>1. PICK bs \in ButtonLists : r = [buttons |-> bs, jellyfin |-> Absent]
    BY <1>2
  <2>2. ApplyRequest(cfg, r) \in Drafts
    BY <1>1, <2>1, SavedButtons
  <2>3. DisplayInv'
    BY <2>2, UpdatesStep DEF Saves
  <2> QED
    BY <2>1, <2>3
<1>3. CASE r \in [buttons : {Absent}, jellyfin : Forms]
  <2>1. PICK f \in Forms : r = [buttons |-> Absent, jellyfin |-> f]
    BY <1>3
  <2>2. ApplyRequest(cfg, r) \in Drafts
        /\ ApplyRequest(cfg, r).buttons = cfg.buttons
    BY <1>1, <2>1, SavedSettings
  <2>3. DisplayInv' /\ cfg'.buttons = CleanButtons(cfg.buttons)
    BY <2>2, UpdatesStep DEF Saves
  <2> QED
    BY <1>1, <2>3, UpdateKeeps
<1> QED
  BY <1>2, <1>3 DEF Requests

LEMMA SwitchesStep ==
  ASSUME DisplayInv, NEW s \in {"custom", "jellyfin", "dual"},
         NEW answered \in BOOLEAN, SwitchesMode(s, answered)
  PROVE  DisplayInv' /\ SameButtons(cfg.buttons, cfg'.buttons)
<1> DEFINE c == [cfg EXCEPT !.mode = NamedMode(s)]
<1>1. cfg \in Drafts /\ Clean(cfg.buttons)
  BY DEF DisplayInv, InUse
<1>2. NamedMode(s) \in {ModeCustom, ModeDual}
  BY DEF NamedMode
<1>3. c \in Drafts /\ c.buttons = cfg.buttons
  BY <1>1, <1>2 DEF Drafts
<1>4. Updates(c, answered)
  BY DEF SwitchesMode
<1> HIDE DEF c
<1>5. DisplayInv' /\ cfg'.buttons = CleanButtons(cfg.buttons)
  BY <1>3, <1>4, UpdatesStep
<1> QED
  BY <1>1, <1>5, UpdateKeeps

LEMMA WebhookStep ==
  ASSUME DisplayInv, NEW e, NEW answered \in BOOLEAN, Webhook(e, answered)
  PROVE  DisplayInv'
<1> DEFINE kept == Kept(EventActive(e, cfg))
<1>1. kept # Nothing => kept.media \in Users
  BY DEF Kept, DisplayInv, ShownInv
<1>2. /\ Applies(cfg, kept, answered) /\ polled' = FALSE
      /\ cfg' = cfg /\ sessions' = sessions
  BY DEF Webhook
<1> HIDE DEF kept
<1>3. ShownInv'
  BY <1>1, <1>2, AppliesShown DEF DisplayInv
<1>4. PollShowsWanted'
  BY <1>2 DEF PollShowsWanted
<1>5. InUse(cfg)' /\ sessions' \in Seq(Entries)
  BY <1>2 DEF DisplayInv
<1>6. polled' \in BOOLEAN
  BY <1>2
<1> QED
  BY <1>3, <1>4, <1>5, <1>6, Zenon DEF DisplayInv

LEMMA PollsStep ==
  ASSUME DisplayInv, NEW answered \in BOOLEAN, Polls(answered)
  PROVE  DisplayInv'
<1> DEFINE kept == Kept(Chosen(cfg) # {})
<1>1. kept # Nothing => kept.media \in Users
  BY DEF Kept, DisplayInv, ShownInv
<1>2. /\ On(cfg) /\ Applies(cfg, kept, answered) /\ polled' = answered
      /\ cfg' = cfg /\ sessions' = sessions
  BY DEF Polls
<1>3. sessions \in Seq(Entries)
  BY DEF DisplayInv
<1>4. PollShowsWanted'
  <2>1. CASE answered = TRUE
    BY <1>2, <1>3, <2>1, PollShows
  <2>2. CASE answered = FALSE
    BY <1>2, <2>2 DEF PollShowsWanted
  <2> QED
    BY <2>1, <2>2
<1> HIDE DEF kept
<1>5. ShownInv'
  BY <1>1, <1>2, <1>3, AppliesShown
<1> QED
  BY <1>2, <1>4, <1>5 DEF DisplayInv, InUse

LEMMA RestartStep ==
  ASSUME DisplayInv, NEW answered \in BOOLEAN, Restart(answered)
  PROVE  DisplayInv' /\ SameButtons(cfg.buttons, cfg'.buttons)
<1>1. /\ cfg' = Loaded(cfg) /\ Applies(cfg', Nothing, answered)
      /\ polled' = FALSE /\ sessions' = sessions
  BY DEF Restart
<1>2. InUse(cfg') /\ SameButtons(cfg.buttons, cfg'.buttons)
  BY <1>1, LoadedIs DEF DisplayInv
<1>3. ShownInv'
  <2>1. sessions \in Seq(Entries)
    BY DEF DisplayInv
  <2>2. Nothing # Nothing => Nothing.media \in Users
    OBVIOUS
  <2> QED
    BY <1>1, <2>1, <2>2, AppliesShown
<1>4. PollShowsWanted'
  BY <1>1 DEF PollShowsWanted
<1>5. InUse(cfg)' /\ sessions' \in Seq(Entries)
  BY <1>1, <1>2 DEF DisplayInv
<1>6. polled' \in BOOLEAN
  BY <1>1
<1> QED
  BY <1>2, <1>3, <1>4, <1>5, <1>6, Zenon DEF DisplayInv

LEMMA OthersStep == DisplayInv /\ (Expires \/ JellyfinChanges) => DisplayInv'
<1> SUFFICES ASSUME DisplayInv, Expires \/ JellyfinChanges PROVE DisplayInv'
  OBVIOUS
<1>1. cfg' = cfg /\ presence' = presence /\ polled' = FALSE
      /\ cached' \in {cached, Nothing}
  BY DEF Expires, JellyfinChanges
<1>2. sessions' \in Seq(Entries)
  <2>1. sessions \in Seq(Entries)
    BY DEF DisplayInv
  <2>2. CASE Expires
    BY <2>1, <2>2 DEF Expires
  <2>3. ASSUME NEW s \in Entries,
               sessions' \in {Append(sessions, s), <<s>> \o sessions}
        PROVE  sessions' \in Seq(Entries)
    <3>1. Append(sessions, s) \in Seq(Entries)
      BY <2>1
    <3>2. <<s>> \o sessions \in Seq(Entries)
      BY <2>1
    <3> QED
      BY <2>3, <3>1, <3>2
  <2>4. ASSUME NEW i \in DOMAIN sessions, NEW s \in Entries,
               sessions' = [sessions EXCEPT ![i] = s]
        PROVE  sessions' \in Seq(Entries)
    BY <2>1, <2>4
  <2>5. ASSUME NEW i \in DOMAIN sessions, sessions' = RemoveAt(sessions, i)
        PROVE  sessions' \in Seq(Entries)
    <3>1. /\ SubSeq(sessions, 1, i - 1) \in Seq(Entries)
          /\ SubSeq(sessions, i + 1, Len(sessions)) \in Seq(Entries)
      BY <2>1
    <3> QED
      BY <2>5, <3>1 DEF RemoveAt
  <2> QED
    BY <2>2, <2>3, <2>4, <2>5 DEF JellyfinChanges
<1>3. ShownInv'
  BY <1>1 DEF DisplayInv, ShownInv
<1>4. PollShowsWanted'
  BY <1>1 DEF PollShowsWanted
<1>5. InUse(cfg)' /\ sessions' \in Seq(Entries)
  BY <1>1, <1>2 DEF DisplayInv
<1>6. polled' \in BOOLEAN
  BY <1>1
<1> QED
  BY <1>2, <1>3, <1>4, <1>5, <1>6, Zenon DEF DisplayInv

\* A step preserves the invariant and, unless it saves buttons, the buttons.
LEMMA DisplayStep ==
  ASSUME DisplayInv, [Next]_vars
  PROVE  /\ DisplayInv'
         /\ [\/ SameButtons(cfg.buttons, cfg'.buttons)
             \/ \E bs \in ButtonLists, answered \in BOOLEAN :
                  Saves([buttons |-> bs, jellyfin |-> Absent], answered)]_cfg
<1>1. ASSUME NEW answered \in BOOLEAN, NEW r \in Requests, Saves(r, answered)
      PROVE  /\ DisplayInv'
             /\ \/ SameButtons(cfg.buttons, cfg'.buttons)
                \/ \E bs \in ButtonLists, a \in BOOLEAN :
                     Saves([buttons |-> bs, jellyfin |-> Absent], a)
  BY <1>1, SavesStep
<1>2. ASSUME NEW answered \in BOOLEAN, NEW s \in {"custom", "jellyfin", "dual"},
             SwitchesMode(s, answered)
      PROVE  DisplayInv' /\ SameButtons(cfg.buttons, cfg'.buttons)
  BY <1>2, SwitchesStep
<1>3. ASSUME NEW answered \in BOOLEAN, NEW e \in {"start", "pause", "stop"},
             Webhook(e, answered)
      PROVE  DisplayInv' /\ cfg' = cfg
  BY <1>3, WebhookStep DEF Webhook
<1>4. ASSUME NEW answered \in BOOLEAN, Polls(answered)
      PROVE  DisplayInv' /\ cfg' = cfg
  BY <1>4, PollsStep DEF Polls
<1>5. ASSUME NEW answered \in BOOLEAN, Restart(answered)
      PROVE  DisplayInv' /\ SameButtons(cfg.buttons, cfg'.buttons)
  BY <1>5, RestartStep
<1>6. CASE Expires \/ JellyfinChanges
  BY <1>6, OthersStep DEF Expires, JellyfinChanges
<1>7. CASE UNCHANGED vars
  <2>1. cfg' = cfg /\ sessions' = sessions /\ cached' = cached
        /\ presence' = presence /\ polled' = polled
    BY <1>7 DEF vars
  <2>2. ShownInv'
    BY <2>1 DEF DisplayInv, ShownInv
  <2>3. PollShowsWanted'
    <3>1. Custom(cfg)' = Custom(cfg)
      BY <2>1 DEF Custom, Activity
    <3>2. {i \in DOMAIN sessions : Passes(sessions[i], cfg)}'
            = {i \in DOMAIN sessions : Passes(sessions[i], cfg)}
      BY <2>1 DEF Passes
    <3> QED
      BY <2>1, <3>1, <3>2 DEF DisplayInv, PollShowsWanted
  <2> QED
    BY <2>1, <2>2, <2>3 DEF DisplayInv, InUse
<1> QED
  BY <1>1, <1>2, <1>3, <1>4, <1>5, <1>6, <1>7 DEF Next

-----------------------------------------------------------------------------

\* The configuration in use is in normal form and the presence is as it should
\* be after a poll, in every state.
THEOREM DisplayInvariant == Spec => []DisplayInv
<1>1. DisplayInv /\ [Next]_vars => DisplayInv'
  BY DisplayStep
<1> QED
  BY <1>1, DisplayInitInv, PTL DEF Spec

\* What normal form is, for every limit and all forms (config.go:128-155,
\* 170-190).
THEOREM DisplayTyped == Spec => []TypeOK
<1>1. DisplayInv => TypeOK
  <2> SUFFICES ASSUME DisplayInv PROVE TypeOK
    OBVIOUS
  <2>1. /\ cfg.mode \in {ModeCustom, ModeDual} /\ cfg.key \in BOOLEAN
        /\ cfg.user \in Users \cup {Nobody} /\ cfg.name \in Users \cup {Nobody}
        /\ cfg.clear \in BOOLEAN
    BY DEF DisplayInv, InUse, Drafts
  <2>2. /\ cfg.buttons \in Seq(Buttons) /\ Len(cfg.buttons) <= 2
        /\ \A i \in DOMAIN cfg.buttons :
             /\ cfg.buttons[i] \in Buttons /\ cfg.buttons[i].url
             /\ CleanLabel(cfg.buttons[i].label)
    BY DEF DisplayInv, InUse, Clean
  <2>3. \A i \in DOMAIN cfg.buttons :
          Complete(cfg.buttons[i]) /\ Bytes(cfg.buttons[i].label) <= LabelMax
    BY <2>2, CleanComplete, SchemaAssumption DEF CleanLabel
  <2>4. cfg.poll \in 15 .. 3600
    BY DEF DisplayInv, InUse
  <2> QED
    BY <2>1, <2>2, <2>3, <2>4 DEF DisplayInv, ShownInv, TypeOK
<1> QED
  BY <1>1, DisplayInvariant, PTL

\* Whatever else is saved, and through every restart, the buttons keep the
\* characters they were saved with (config.go:170-190, store.go:62-76, 114-120).
THEOREM DisplayButtons == Spec => ButtonsKept
<1>1. DisplayInv /\ [Next]_vars =>
        [\/ SameButtons(cfg.buttons, cfg'.buttons)
         \/ \E bs \in ButtonLists, answered \in BOOLEAN :
              Saves([buttons |-> bs, jellyfin |-> Absent], answered)]_cfg
  BY DisplayStep
<1> QED
  BY <1>1, DisplayInvariant, PTL DEF Spec, ButtonsKept

\* An answered poll shows what somebody wants to see and nothing else
\* (mapper.go:27-39, app.go:205-244).
THEOREM DisplayPolls == Spec => []PollShowsWanted
BY DisplayInvariant, PTL DEF DisplayInv
=============================================================================
