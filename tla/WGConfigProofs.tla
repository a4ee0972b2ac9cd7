--------------------------- MODULE WGConfigProofs ---------------------------
(***************************************************************************)
(* Proofs about the text of wg0.conf, for texts of any length: no answer   *)
(* shows the key of a directive, the page's own text posted back is        *)
(* accepted and changes nothing, `wg setconf` gets exactly the directives  *)
(* it knows, a save keeps every key that the user did not touch, and no    *)
(* save gives a key to another directive or to two lines.                  *)
(***************************************************************************)
EXTENDS WGConfig, FiniteSetTheorems, SequenceTheorems, WellFoundedInduction, TLAPS

(* Numbers *)

\* A set of natural numbers has a least element.
LEMMA WellOrdered ==
  ASSUME NEW S, S \subseteq Nat, S # {}
  PROVE  \E n \in S : \A m \in S : n <= m
<1> DEFINE R == {r \in Nat \X Nat : r[1] < r[2]}
<1>1. IsWellFoundedOn(R, Nat)
  BY NatLessThanWellFounded DEF OpToRel
<1> HIDE DEF R
<1>2. PICK n \in S : \A m \in S : ~ (<<m, n>> \in R)
  BY <1>1, WFMin
<1>3. \A m \in S : ~(m < n)
  BY <1>2 DEF R
<1> QED
  BY <1>3

\* A bounded set of natural numbers has a greatest element.
LEMMA Greatest ==
  ASSUME NEW b \in Nat, NEW S, S \subseteq 0..b, S # {}
  PROVE  \E n \in S : \A m \in S : m <= n
<1> DEFINE T == {b - m : m \in S}
<1>1. T \subseteq Nat /\ T # {}
  OBVIOUS
<1> HIDE DEF T
<1>2. PICK k \in T : \A l \in T : k <= l
  BY <1>1, WellOrdered
<1>3. PICK n \in S : k = b - n
  BY <1>2 DEF T
<1>4. \A m \in S : k <= b - m
  BY <1>2 DEF T
<1> QED
  BY <1>3, <1>4

----------------------------------------------------------------------------
(* Texts *)

\* A text as a function from line numbers to lines.
LEMMA TextIs ==
  ASSUME NEW t \in Text
  PROVE  /\ Len(t) \in Nat /\ DOMAIN t = 1..Len(t)
         /\ \A i \in 1..Len(t) : t[i] \in Line
BY DEF Text

\* bufio.Scanner stops at the first line that is too long, or at the end.
LEMMA Scanned ==
  ASSUME NEW t \in Text
  PROVE  /\ scanned(t) \in 0..Len(t)
         /\ \A i \in 1..scanned(t) : t[i].kind # "long"
         /\ scanned(t) = Len(t) \/ t[scanned(t) + 1].kind = "long"
<1> DEFINE L == {i \in 1..Len(t) : t[i].kind = "long"}
           P(n) == /\ \A i \in 1..n : t[i].kind # "long"
                   /\ n = Len(t) \/ t[n + 1].kind = "long"
<1>1. \E n \in 0..Len(t) : P(n)
  <2>1. CASE L = {}
    BY <2>1, TextIs
  <2>2. CASE L # {}
    <3>1. L \subseteq Nat
      OBVIOUS
    <3> HIDE DEF L
    <3>2. PICK m \in L : \A k \in L : m <= k
      BY <2>2, <3>1, WellOrdered
    <3>3. m - 1 \in 0..Len(t) /\ P(m - 1)
      BY <3>2, TextIs DEF L
    <3> QED
      BY <3>3
  <2> QED
    BY <2>1, <2>2
<1>2. scanned(t) = CHOOSE n \in 0..Len(t) : P(n)
  BY DEF scanned
<1> HIDE DEF P
<1>3. scanned(t) \in 0..Len(t) /\ P(scanned(t))
  BY <1>1, <1>2
<1> QED
  BY <1>3 DEF P

\* A text is scanned to its end if no line is too long, and only then.
LEMMA ScannedAll ==
  ASSUME NEW t \in Text
  PROVE  ~HasLong(t) <=> scanned(t) = Len(t)
BY Scanned, TextIs DEF HasLong

\* The nearest header above line i is the one that names its section.
LEMMA NearestHeader ==
  ASSUME NEW t \in Text, NEW i \in 1..Len(t)
  PROVE  LET H == {j \in 1..(i - 1) : t[j].kind = "header"}
         IN  H # {} => \E j \in H : /\ \A k \in H : k <= j
                                    /\ section(t, i) = t[j].key
<1> DEFINE H == {j \in 1..(i - 1) : t[j].kind = "header"}
<1> SUFFICES ASSUME H # {}
             PROVE  \E j \in H : (\A k \in H : k <= j) /\ section(t, i) = t[j].key
  OBVIOUS
<1>1. section(t, i) = t[CHOOSE j \in H : \A k \in H : k <= j].key
  BY DEF section
<1>2. Len(t) \in Nat /\ H \subseteq 0..Len(t)
  BY TextIs
<1> HIDE DEF H
<1>3. \E j \in H : \A k \in H : k <= j
  BY <1>2, Greatest
<1> QED
  BY <1>1, <1>3

\* Lines up to the n-th that differ in values only are the same directives.
LEMMA PrefixDirective ==
  ASSUME NEW f \in Text, NEW t \in Text, NEW n \in Nat, n <= Len(f), n <= Len(t),
         \A k \in 1..n : f[k].kind = t[k].kind /\ f[k].key = t[k].key,
         NEW i \in 1..n
  PROVE  directive(f, i) = directive(t, i)
<1> DEFINE H(x) == {j \in 1..(i - 1) : x[j].kind = "header"}
<1>0. i \in 1..Len(t) /\ i \in 1..Len(f)
  BY TextIs
<1>1. H(f) = H(t)
  OBVIOUS
<1>2. section(f, i) = section(t, i)
  <2>1. CASE H(t) = {}
    BY <1>1, <2>1 DEF section
  <2>2. CASE H(t) # {}
    <3>1. PICK j \in H(t) : (\A k \in H(t) : k <= j) /\ section(t, i) = t[j].key
      BY <1>0, <2>2, NearestHeader
    <3>2. PICK m \in H(f) : (\A k \in H(f) : k <= m) /\ section(f, i) = f[m].key
      BY <1>0, <1>1, <2>2, NearestHeader
    <3>3. j <= m /\ m <= j /\ j \in 1..n /\ m \in Nat
      BY <1>1, <3>1, <3>2
    <3> QED
      BY <3>1, <3>2, <3>3
  <2> QED
    BY <2>1, <2>2
<1> QED
  BY <1>2 DEF directive

\* They are counted alike.
LEMMA PrefixOccurrence ==
  ASSUME NEW f \in Text, NEW t \in Text, NEW n \in Nat, n <= Len(f), n <= Len(t),
         \A k \in 1..n : f[k].kind = t[k].kind /\ f[k].key = t[k].key,
         NEW i \in 1..n
  PROVE  occurrence(f, i) = occurrence(t, i)
<1>1. \A k \in 1..i : k \in 1..n
  OBVIOUS
<1>2. \A k \in 1..n : directive(f, k) = directive(t, k)
  BY PrefixDirective
<1>3. OccurrencesOf(f, directive(f, i), i) = OccurrencesOf(t, directive(t, i), i)
  BY <1>1, <1>2 DEF OccurrencesOf
<1> QED
  BY <1>3 DEF occurrence

\* Texts that differ in values only.
Alike(f, t) ==
  /\ Len(f) = Len(t)
  /\ \A i \in 1..Len(t) : f[i].kind = t[i].kind /\ f[i].key = t[i].key

LEMMA AlikeDirective ==
  ASSUME NEW f \in Text, NEW t \in Text, Alike(f, t), NEW i \in 1..Len(t)
  PROVE  directive(f, i) = directive(t, i)
BY PrefixDirective, TextIs DEF Alike

LEMMA AlikeOccurrences ==
  ASSUME NEW f \in Text, NEW t \in Text, Alike(f, t)
  PROVE  /\ \A d, n : n \in 0..Len(t) => OccurrencesOf(f, d, n) = OccurrencesOf(t, d, n)
         /\ \A i \in 1..Len(t) : occurrence(f, i) = occurrence(t, i)
<1>1. ASSUME NEW d, NEW n \in 0..Len(t)
      PROVE  OccurrencesOf(f, d, n) = OccurrencesOf(t, d, n)
  <2>1. \A i \in 1..n : i \in 1..Len(t)
    BY TextIs
  <2>2. \A i \in 1..n : f[i].kind = t[i].kind /\ directive(f, i) = directive(t, i)
    BY <2>1, AlikeDirective DEF Alike
  <2> QED
    BY <2>2 DEF OccurrencesOf
<1>2. ASSUME NEW i \in 1..Len(t) PROVE occurrence(f, i) = occurrence(t, i)
  <2>1. i \in 0..Len(t)
    BY TextIs
  <2> QED
    BY <1>1, <2>1, AlikeDirective DEF occurrence
<1> QED
  BY <1>1, <1>2

\* The n-th occurrence of a directive is one line.
LEMMA OccurrenceUnique ==
  ASSUME NEW t \in Text, NEW i \in 1..Len(t), NEW j \in 1..Len(t),
         t[i].kind = "directive", t[j].kind = "directive",
         directive(t, i) = directive(t, j), occurrence(t, i) = occurrence(t, j)
  PROVE  i = j
<1>1. ASSUME NEW a \in 1..Len(t), NEW b \in 1..Len(t), a < b,
             t[a].kind = "directive", t[b].kind = "directive",
             directive(t, a) = directive(t, b), occurrence(t, a) = occurrence(t, b)
      PROVE  FALSE
  <2> DEFINE d == directive(t, b)
             A == OccurrencesOf(t, d, a)
             B == OccurrencesOf(t, d, b)
  <2>1. A \subseteq B /\ b \in B /\ b \notin A
    BY <1>1, TextIs DEF OccurrencesOf
  <2>2. IsFiniteSet(B)
    <3>1. B \subseteq 1..b /\ b \in Int
      BY TextIs DEF OccurrencesOf
    <3> QED
      BY <3>1, FS_Interval, FS_Subset
  <2>3. Cardinality(A) = Cardinality(B)
    BY <1>1 DEF occurrence
  <2> HIDE DEF A, B
  <2>4. A = B
    BY <2>1, <2>2, <2>3, FS_Subset
  <2> QED
    BY <2>1, <2>4
<1>2. i \in Nat /\ j \in Nat
  BY TextIs
<1>3. CASE i < j
  BY <1>1, <1>3
<1>4. CASE j < i
  BY <1>1, <1>4
<1> QED
  BY <1>2, <1>3, <1>4

----------------------------------------------------------------------------
(* Redacting and restoring *)

\* What transformConfig makes of a text, line by line.
LEMMA Transformed ==
  ASSUME NEW t \in Text, NEW r, \A i \in 1..scanned(t) : r[i] \in Val
  PROVE  LET f == transformConfig(t, r)
         IN  /\ f \in Text /\ Len(f) = scanned(t)
             /\ \A i \in 1..scanned(t) :
                  /\ f[i].kind = t[i].kind /\ f[i].key = t[i].key
                  /\ f[i].val = IF t[i].kind = "directive" THEN r[i] ELSE t[i].val
<1> DEFINE f == transformConfig(t, r)
           n == scanned(t)
<1>1. n \in Nat /\ n <= Len(t)
  BY Scanned, TextIs
<1>2. f = [i \in 1..n |-> IF t[i].kind = "directive" THEN [t[i] EXCEPT !.val = r[i]]
                                                    ELSE t[i]]
  BY DEF transformConfig
<1> HIDE DEF f, n
<1>3. ASSUME NEW i \in 1..n
      PROVE  /\ f[i] \in Line
             /\ f[i].kind = t[i].kind /\ f[i].key = t[i].key
             /\ f[i].val = IF t[i].kind = "directive" THEN r[i] ELSE t[i].val
  <2>1. t[i] \in Line
    BY <1>1, TextIs
  <2>2. CASE t[i].kind = "directive"
    <3>1. f[i] = [t[i] EXCEPT !.val = r[i]]
      BY <1>2, <2>2
    <3>2. r[i] \in Val
      BY DEF n
    <3> QED
      BY <2>1, <2>2, <3>1, <3>2 DEF Line
  <2>3. CASE t[i].kind # "directive"
    BY <1>2, <2>1, <2>3
  <2> QED
    BY <2>2, <2>3
<1>4. f \in [1..n -> Line]
  BY <1>2, <1>3
<1>5. f \in Seq(Line) /\ Len(f) = n
  BY <1>1, <1>4
<1> QED
  BY <1>3, <1>5 DEF Text, f, n

\* Every value of a text is one.
LEMMA ValueOf ==
  ASSUME NEW t \in Text, NEW i \in 1..Len(t)
  PROVE  t[i].val \in Val
BY TextIs DEF Line

\* RedactConfig leaves everything but the keys.
LEMMA RedactedIs ==
  ASSUME NEW t \in Text
  PROVE  LET f == RedactConfig(t)
         IN  /\ f \in Text /\ Len(f) = scanned(t)
             /\ \A i \in 1..scanned(t) :
                  /\ f[i].kind = t[i].kind /\ f[i].key = t[i].key
                  /\ f[i].val = IF t[i].kind = "directive"
                               THEN redact(directive(t, i), t[i].val) ELSE t[i].val
<1> DEFINE r == [i \in DOMAIN t |-> redact(directive(t, i), t[i].val)]
<1>1. \A i \in 1..scanned(t) : /\ r[i] = redact(directive(t, i), t[i].val)
                               /\ t[i].val \in Val
  BY Scanned, TextIs, ValueOf
<1>2. \A i \in 1..scanned(t) : r[i] \in Val
  BY <1>1 DEF redact, Val
<1>3. RedactConfig(t) = transformConfig(t, r)
  BY DEF RedactConfig
<1> HIDE DEF r
<1> QED
  BY <1>1, <1>2, <1>3, Transformed

\* A stored key, or none.
LEMMA SensitiveValueType ==
  ASSUME NEW t \in Text, NEW d, NEW n
  PROVE  sensitiveValues(t, d, n) \in Val
<1> DEFINE I == {i \in OccurrencesOf(t, d, scanned(t)) : occurrence(t, i) = n}
<1>1. I \subseteq 1..Len(t)
  BY Scanned, TextIs DEF OccurrencesOf
<1>2. sensitiveValues(t, d, n) = IF I = {} THEN Empty ELSE t[CHOOSE i \in I : TRUE].val
  BY DEF sensitiveValues
<1> HIDE DEF I
<1>3. CASE I # {}
  <2>1. (CHOOSE i \in I : TRUE) \in I
    BY <1>3
  <2> QED
    BY <1>1, <1>2, <1>3, <2>1, ValueOf
<1> QED
  BY <1>2, <1>3 DEF Val

\* MergeRedactedConfig leaves everything but the placeholders it knows.
LEMMA MergedIs ==
  ASSUME NEW e \in Text, NEW t \in Text
  PROVE  LET f == MergeRedactedConfig(e, t)
         IN  /\ f \in Text /\ Len(f) = scanned(t)
             /\ \A i \in 1..scanned(t) :
                  /\ f[i].kind = t[i].kind /\ f[i].key = t[i].key
                  /\ f[i].val = IF t[i].kind = "directive"
                               THEN restore(e, directive(t, i), t[i].val, occurrence(t, i))
                               ELSE t[i].val
<1> DEFINE r == [i \in DOMAIN t |-> restore(e, directive(t, i), t[i].val, occurrence(t, i))]
<1>1. \A i \in 1..scanned(t) :
        /\ r[i] = restore(e, directive(t, i), t[i].val, occurrence(t, i))
        /\ t[i].val \in Val
  BY Scanned, TextIs, ValueOf
<1>2. \A i \in 1..scanned(t) : r[i] \in Val
  BY <1>1, SensitiveValueType DEF restore
<1>3. MergeRedactedConfig(e, t) = transformConfig(t, r)
  BY DEF MergeRedactedConfig
<1> HIDE DEF r
<1> QED
  BY <1>1, <1>2, <1>3, Transformed

\* What ValidateConfig accepts: every line is read, every header and directive is
\* known.
LEMMA ValidIs ==
  ASSUME NEW t \in Text, ValidateConfig(t)
  PROVE  /\ scanned(t) = Len(t) /\ t # <<>>
         /\ \A i \in 1..Len(t) :
              /\ t[i].kind \in {"header", "directive", "comment"}
              /\ t[i].kind = "header" => t[i].key \in {Interface, Peer}
              /\ t[i].kind = "directive" =>
                   /\ directive(t, i) \in Directives
                   /\ t[i].val \in Accepts[directive(t, i)]
<1>1. t # <<>>
  <2> SUFFICES ASSUME t = <<>> PROVE FALSE
    OBVIOUS
  <2>1. scanned(t) = 0
    BY Scanned
  <2>2. OccurrencesOf(t, PrivateKey, scanned(t)) = {}
    BY <2>1 DEF OccurrencesOf
  <2>3. ParseConfig(t)[PrivateKey] = Empty
    BY <2>2 DEF ParseConfig, metaDirectives
  <2> QED
    BY <2>3 DEF ValidateConfig
<1>2. \A i \in 1..Len(t) : t[i].kind \in Kinds
  BY TextIs DEF Line
<1>3. \A i \in 1..scanned(t) : t[i].kind # "long"
  BY Scanned
<1> QED
  BY <1>1, <1>2, <1>3 DEF ValidateConfig, validateDirective, Kinds

\* config.go:67-74: what is shown of a config that was accepted holds a key only
\* in a comment.
LEMMA RedactedShowsNoKey ==
  ASSUME NEW t \in Text, ValidateConfig(t)
  PROVE  \A i \in DOMAIN RedactConfig(t) :
           RedactConfig(t)[i].val \in Keys => RedactConfig(t)[i].kind = "comment"
<1> DEFINE f == RedactConfig(t)
<1>1. f \in Text /\ DOMAIN f = 1..Len(t)
  BY RedactedIs, ValidIs, TextIs
<1>2. ASSUME NEW i \in 1..Len(t) PROVE f[i].val \in Keys => f[i].kind = "comment"
  <2>1. /\ f[i].kind = t[i].kind
        /\ f[i].val = IF t[i].kind = "directive"
                     THEN redact(directive(t, i), t[i].val) ELSE t[i].val
    BY RedactedIs, ValidIs
  <2>2. CASE t[i].kind = "directive"
    <3>1. directive(t, i) \in Directives /\ t[i].val \in Accepts[directive(t, i)]
      BY <2>2, ValidIs
    <3>2. CASE directive(t, i) \in isSensitiveDirective
      <4>1. t[i].val \in Keys
        BY <3>1, <3>2, TextAssumption
      <4> QED
        BY <2>1, <2>2, <3>2, <4>1, TextAssumption DEF redact
    <3>3. CASE directive(t, i) \notin isSensitiveDirective
      <4>1. t[i].val \in Values
        BY <3>1, <3>3, TextAssumption
      <4> QED
        BY <2>1, <2>2, <3>3, <4>1, TextAssumption DEF redact
    <3> QED
      BY <3>2, <3>3
  <2>3. CASE t[i].kind = "header"
    <3>1. t[i].val = Empty
      BY <2>3, TextIs DEF Line
    <3> QED
      BY <2>1, <2>3, <3>1, TextAssumption
  <2>4. CASE t[i].kind = "comment"
    BY <2>1, <2>4
  <2> QED
    BY <2>2, <2>3, <2>4, ValidIs
<1> QED
  BY <1>1, <1>2

\* The value stored for the n-th occurrence of a directive is that line's.
LEMMA StoredValue ==
  ASSUME NEW t \in Text, scanned(t) = Len(t), NEW i \in 1..Len(t),
         t[i].kind = "directive"
  PROVE  sensitiveValues(t, directive(t, i), occurrence(t, i)) = t[i].val
<1> DEFINE d == directive(t, i)
           I == {j \in OccurrencesOf(t, d, scanned(t)) : occurrence(t, j) = occurrence(t, i)}
<1>1. sensitiveValues(t, d, occurrence(t, i)) =
        IF I = {} THEN Empty ELSE t[CHOOSE j \in I : TRUE].val
  BY DEF sensitiveValues
<1>2. i \in I
  BY DEF OccurrencesOf
<1>3. \A j \in I : j = i
  BY OccurrenceUnique DEF OccurrencesOf
<1> HIDE DEF I, d
<1>4. (CHOOSE j \in I : TRUE) \in I
  BY <1>2
<1>5. (CHOOSE j \in I : TRUE) = i
  BY <1>3, <1>4
<1> QED
  BY <1>1, <1>2, <1>5 DEF d

\* Texts that agree in every field of every line are the same text.
LEMMA SameText ==
  ASSUME NEW f \in Text, NEW t \in Text, Alike(f, t),
         \A i \in 1..Len(t) : f[i].val = t[i].val
  PROVE  f = t
<1>1. ASSUME NEW i \in 1..Len(t) PROVE f[i] = t[i]
  <2>1. f[i] \in Line /\ t[i] \in Line
    BY TextIs DEF Alike
  <2>2. f[i].kind = t[i].kind /\ f[i].key = t[i].key /\ f[i].val = t[i].val
    BY DEF Alike
  <2>3. /\ f[i] \in [kind : Kinds, key : STRING, val : Val]
        /\ t[i] \in [kind : Kinds, key : STRING, val : Val]
    BY <2>1 DEF Line
  <2> QED
    BY <2>2, <2>3
<1> QED
  BY <1>1, SeqEqual DEF Alike, Text

\* config.go:67-92: merging a config with its own redaction gives it back.
LEMMA MergeUndoesRedact ==
  ASSUME NEW t \in Text, ValidateConfig(t)
  PROVE  MergeRedactedConfig(t, RedactConfig(t)) = t
<1> DEFINE f == RedactConfig(t)
           m == MergeRedactedConfig(t, f)
<1>1. f \in Text /\ scanned(t) = Len(t) /\ Alike(f, t)
  BY RedactedIs, ValidIs DEF Alike
<1>2. scanned(f) = Len(t)
  <2>1. ~HasLong(t)
    BY <1>1, ScannedAll
  <2>2. ~HasLong(f)
    BY <1>1, <2>1, TextIs DEF HasLong, Alike
  <2> QED
    BY <1>1, <2>2, ScannedAll DEF Alike
<1>3. m \in Text /\ Alike(m, t)
  BY <1>1, <1>2, MergedIs DEF Alike
<1>4. ASSUME NEW i \in 1..Len(t) PROVE m[i].val = t[i].val
  <2>1. f[i].kind = t[i].kind /\ directive(f, i) = directive(t, i)
        /\ occurrence(f, i) = occurrence(t, i)
    BY <1>1, AlikeDirective, AlikeOccurrences DEF Alike
  <2>2. f[i].val = IF t[i].kind = "directive"
                   THEN redact(directive(t, i), t[i].val) ELSE t[i].val
    BY <1>1, RedactedIs
  <2>3. m[i].val = IF t[i].kind = "directive"
                   THEN restore(t, directive(t, i), f[i].val, occurrence(t, i))
                   ELSE f[i].val
    BY <1>1, <1>2, <2>1, MergedIs
  <2>4. CASE t[i].kind # "directive"
    BY <2>2, <2>3, <2>4
  <2>5. CASE t[i].kind = "directive"
    <3>1. directive(t, i) \in Directives /\ t[i].val \in Accepts[directive(t, i)]
      BY <2>5, ValidIs
    <3>2. CASE directive(t, i) \in isSensitiveDirective
      <4>1. t[i].val \in Keys
        BY <3>1, <3>2, TextAssumption
      <4>2. t[i].val # Empty
        BY <4>1, TextAssumption
      <4>3. f[i].val = Redacted
        BY <2>2, <2>5, <3>2, <4>2 DEF redact
      <4>4. sensitiveValues(t, directive(t, i), occurrence(t, i)) = t[i].val
        BY <1>1, <2>5, StoredValue
      <4> QED
        BY <2>3, <2>5, <3>2, <4>2, <4>3, <4>4 DEF restore
    <3>3. CASE directive(t, i) \notin isSensitiveDirective
      BY <2>2, <2>3, <2>5, <3>3 DEF restore, redact
    <3> QED
      BY <3>2, <3>3
  <2> QED
    BY <2>4, <2>5
<1> HIDE DEF m
<1>5. m = t
  BY <1>3, <1>4, SameText
<1> QED
  BY <1>5 DEF m

----------------------------------------------------------------------------
(* Leaving lines out *)

\* The number of a line among those that are kept.
Place(K, i) == Cardinality({j \in K : j <= i})

\* Extract numbers the kept lines from 1 without gaps, in their order.
LEMMA Places ==
  ASSUME NEW N \in Nat, NEW K \in SUBSET (1..N)
  PROVE  /\ IsFiniteSet(K) /\ Cardinality(K) \in Nat
         /\ \A i \in K : Place(K, i) \in 1..Cardinality(K)
         /\ \A i, j \in K : i < j <=> Place(K, i) < Place(K, j)
         /\ \A n \in 1..Cardinality(K) : \E i \in K : Place(K, i) = n
<1> DEFINE B(i) == {j \in K : j <= i}
           c == Cardinality(K)
<1>1. IsFiniteSet(K) /\ c \in Nat
  <2>1. 1 \in Int /\ N \in Int
    OBVIOUS
  <2>2. IsFiniteSet(1..N)
    BY <2>1, FS_Interval
  <2>3. IsFiniteSet(K)
    BY <2>2, FS_Subset
  <2> QED
    BY <2>3, FS_CardinalityType
<1>2. \A i \in K : IsFiniteSet(B(i)) /\ Cardinality(B(i)) \in Nat /\ Cardinality(B(i)) <= c
  <2> SUFFICES ASSUME NEW i \in K
               PROVE  IsFiniteSet(B(i)) /\ Cardinality(B(i)) \in Nat /\ Cardinality(B(i)) <= c
    OBVIOUS
  <2>1. B(i) \in SUBSET K
    OBVIOUS
  <2> HIDE DEF B
  <2>2. IsFiniteSet(B(i)) /\ Cardinality(B(i)) <= c
    BY <1>1, <2>1, FS_Subset
  <2> QED
    BY <2>2, FS_CardinalityType
<1>3. ASSUME NEW i \in K PROVE Place(K, i) \in 1..c
  <2>1. i \in B(i)
    OBVIOUS
  <2>2. Cardinality(B(i)) # 0
    <3> HIDE DEF B
    <3> QED
      BY <1>2, <2>1, FS_EmptySet
  <2>3. Place(K, i) = Cardinality(B(i))
    BY DEF Place
  <2> HIDE DEF B, c
  <2> QED
    BY <1>1, <1>2, <2>2, <2>3
<1>4. ASSUME NEW i \in K, NEW j \in K, i < j PROVE Place(K, i) < Place(K, j)
  <2>1. B(i) \in SUBSET B(j) /\ j \in B(j) /\ j \notin B(i)
    <3>1. K \subseteq Nat /\ i \in Nat /\ j \in Nat
      OBVIOUS
    <3>2. \A k \in K : k <= i => k <= j
      BY <1>4, <3>1
    <3>3. j <= j /\ ~(j <= i)
      BY <1>4, <3>1
    <3> QED
      BY <3>2, <3>3
  <2>2. Place(K, i) = Cardinality(B(i)) /\ Place(K, j) = Cardinality(B(j))
    BY DEF Place
  <2> HIDE DEF B
  <2>3. /\ Cardinality(B(i)) <= Cardinality(B(j))
        /\ Cardinality(B(i)) # Cardinality(B(j))
    <3>1. IsFiniteSet(B(j)) /\ B(i) # B(j)
      BY <1>2, <2>1
    <3> QED
      BY <2>1, <3>1, FS_Subset
  <2>4. Cardinality(B(i)) \in Nat /\ Cardinality(B(j)) \in Nat
    BY <1>2
  <2> QED
    BY <2>2, <2>3, <2>4
<1>5. ASSUME NEW i \in K, NEW j \in K PROVE i < j <=> Place(K, i) < Place(K, j)
  <2>1. i \in Nat /\ j \in Nat /\ Place(K, i) \in Nat /\ Place(K, j) \in Nat
    BY <1>1, <1>3
  <2>2. CASE i < j
    BY <1>4, <2>2
  <2>3. CASE j < i
    BY <1>4, <2>1, <2>3
  <2>4. CASE i = j
    BY <2>1, <2>4
  <2> QED
    BY <2>1, <2>2, <2>3, <2>4
<1>6. ASSUME NEW n \in 1..c PROVE \E i \in K : Place(K, i) = n
  <2> DEFINE p == [i \in K |-> Place(K, i)]
  <2>1. p \in [K -> 1..c]
    BY <1>3
  <2>2. \A i, j \in K : p[i] = p[j] => i = j
    BY <1>1, <1>3, <1>5
  <2>3. IsFiniteSet(1..c) /\ Cardinality(1..c) = c
    <3>1. 1 \in Int /\ c \in Int
      BY <1>1
    <3> QED
      BY <1>1, <3>1, FS_Interval
  <2> HIDE DEF p, c
  <2>4. p \in Injection(K, 1..c)
    BY <2>1, <2>2 DEF Injection, IsInjective
  <2>5. p \in Surjection(K, 1..c)
    BY <2>3, <2>4, FS_Injection DEF c
  <2>6. PICK i \in K : p[i] = n
    BY <2>5 DEF Surjection
  <2> QED
    BY <2>6 DEF p
<1> QED
  BY <1>1, <1>3, <1>5, <1>6

\* So Extract puts each kept line at its place, and nothing else anywhere.
LEMMA Extracted ==
  ASSUME NEW t \in Text, NEW K \in SUBSET (1..Len(t))
  PROVE  LET x == Extract(t, K)
         IN  /\ x \in Text /\ Len(x) = Cardinality(K)
             /\ \A i \in K : Place(K, i) \in 1..Len(x) /\ x[Place(K, i)] = t[i]
             /\ \A n \in 1..Len(x) : \E i \in K : Place(K, i) = n
             /\ \A i, j \in K : i < j <=> Place(K, i) < Place(K, j)
<1> DEFINE x == Extract(t, K)
           c == Cardinality(K)
           at(n) == CHOOSE i \in K : Place(K, i) = n
<1>1. Len(t) \in Nat /\ \A i \in 1..Len(t) : t[i] \in Line
  BY TextIs
<1>2. /\ c \in Nat
      /\ \A i \in K : Place(K, i) \in 1..c
      /\ \A i, j \in K : i < j <=> Place(K, i) < Place(K, j)
      /\ \A n \in 1..c : \E i \in K : Place(K, i) = n
  BY <1>1, Places
<1>3. x = [n \in 1..c |-> t[at(n)]]
  BY DEF Extract, Place
<1>4. \A n \in 1..c : at(n) \in K /\ Place(K, at(n)) = n
  BY <1>2
<1> HIDE DEF x, c, at
<1>5. \A n \in 1..c : t[at(n)] \in Line
  BY <1>1, <1>4
<1>6. x \in Seq(Line) /\ Len(x) = c
  <2>1. x \in [1..c -> Line]
    BY <1>3, <1>5
  <2> QED
    BY <1>2, <2>1
<1>7. ASSUME NEW i \in K PROVE x[Place(K, i)] = t[i]
  <2>1. Place(K, i) \in 1..c
    BY <1>2
  <2> DEFINE j == at(Place(K, i))
  <2>2. j \in K /\ Place(K, j) = Place(K, i) /\ x[Place(K, i)] = t[j]
    BY <1>3, <1>4, <2>1
  <2> HIDE DEF j
  <2>3. i \in Nat /\ j \in Nat /\ ~(i < j) /\ ~(j < i)
    BY <1>1, <1>2, <2>1, <2>2
  <2> QED
    BY <2>2, <2>3
<1> QED
  BY <1>2, <1>6, <1>7 DEF x, c, Text

\* If every header is kept, each kept line stays in its section.
LEMMA ExtractedDirective ==
  ASSUME NEW t \in Text, NEW K \in SUBSET (1..Len(t)),
         \A j \in 1..Len(t) : t[j].kind = "header" => j \in K,
         NEW i \in K
  PROVE  directive(Extract(t, K), Place(K, i)) = directive(t, i)
<1> DEFINE x == Extract(t, K)
           n == Place(K, i)
           H == {j \in 1..(i - 1) : t[j].kind = "header"}
           G == {m \in 1..(n - 1) : x[m].kind = "header"}
<1>1. /\ x \in Text
      /\ \A j \in K : Place(K, j) \in 1..Len(x) /\ x[Place(K, j)] = t[j]
      /\ \A m \in 1..Len(x) : \E j \in K : Place(K, j) = m
      /\ \A a, b \in K : a < b <=> Place(K, a) < Place(K, b)
  BY Extracted
<1>2. Len(t) \in Nat /\ Len(x) \in Nat /\ n \in 1..Len(x) /\ i \in 1..Len(t)
  BY <1>1, TextIs
<1> HIDE DEF x, n
<1>3. \A j \in H : j \in K /\ Place(K, j) \in G
  <2> SUFFICES ASSUME NEW j \in H PROVE j \in K /\ Place(K, j) \in G
    OBVIOUS
  <2>1. j \in K /\ j < i /\ t[j].kind = "header"
    BY <1>2
  <2>2. Place(K, j) < n /\ x[Place(K, j)] = t[j] /\ Place(K, j) \in 1..Len(x)
    BY <1>1, <2>1 DEF n
  <2> QED
    BY <1>2, <2>1, <2>2
<1>4. \A m \in G : \E j \in H : Place(K, j) = m
  <2> SUFFICES ASSUME NEW m \in G PROVE \E j \in H : Place(K, j) = m
    OBVIOUS
  <2>1. m \in 1..Len(x) /\ m < n /\ x[m].kind = "header"
    BY <1>2
  <2>2. PICK j \in K : Place(K, j) = m
    BY <1>1, <2>1
  <2>3. j < i /\ t[j].kind = "header" /\ j \in 1..Len(t)
    BY <1>1, <2>1, <2>2 DEF n
  <2> QED
    BY <1>2, <2>2, <2>3
<1>5. section(x, n) = section(t, i)
  <2>1. CASE H = {}
    <3>1. G = {}
      BY <1>4, <2>1
    <3> QED
      BY <2>1, <3>1 DEF section
  <2>2. CASE H # {}
    <3>1. PICK j \in H : (\A k \in H : k <= j) /\ section(t, i) = t[j].key
      BY <1>2, <2>2, NearestHeader
    <3>2. G # {}
      BY <1>3, <3>1
    <3>3. PICK m \in G : (\A k \in G : k <= m) /\ section(x, n) = x[m].key
      BY <1>1, <1>2, <3>2, NearestHeader
    <3>4. PICK k \in H : Place(K, k) = m
      BY <1>4, <3>3
    <3>5. k <= j /\ Place(K, j) <= m
      BY <1>3, <3>1, <3>3, <3>4
    <3>6. k \in K /\ j \in K /\ k \in Nat /\ j \in Nat
      BY <1>3, <3>1, <3>4
    <3>7. Place(K, j) \in Nat /\ Place(K, k) \in Nat
      BY <1>1, <1>2, <3>6
    <3>8. k = j
      BY <1>1, <3>4, <3>5, <3>6, <3>7
    <3> QED
      BY <1>1, <3>1, <3>3, <3>4, <3>6, <3>8
  <2> QED
    BY <2>1, <2>2
<1> QED
  BY <1>1, <1>5 DEF directive, x, n

\* Kept lines of a kind are as many as there are in the extract.
LEMMA ExtractedCount ==
  ASSUME NEW t \in Text, NEW K \in SUBSET (1..Len(t))
  PROVE  LET x == Extract(t, K)
         IN  Cardinality({n \in DOMAIN x : x[n].kind = "directive"})
               = Cardinality({i \in K : t[i].kind = "directive"})
<1> DEFINE x == Extract(t, K)
           S == {i \in K : t[i].kind = "directive"}
           T == {n \in DOMAIN x : x[n].kind = "directive"}
           p == [i \in S |-> Place(K, i)]
<1>1. /\ x \in Text /\ DOMAIN x = 1..Len(x)
      /\ \A j \in K : Place(K, j) \in 1..Len(x) /\ x[Place(K, j)] = t[j]
      /\ \A m \in 1..Len(x) : \E j \in K : Place(K, j) = m
      /\ \A a, b \in K : a < b <=> Place(K, a) < Place(K, b)
  BY Extracted, TextIs
<1>2. IsFiniteSet(S)
  <2>1. Len(t) \in Nat
    BY TextIs
  <2>2. IsFiniteSet(K)
    BY <2>1, Places
  <2>3. S \in SUBSET K
    OBVIOUS
  <2> HIDE DEF S
  <2> QED
    BY <2>2, <2>3, FS_Subset
<1> HIDE DEF x
<1>3. p \in [S -> T]
  BY <1>1
<1>4. \A a, b \in S : p[a] = p[b] => a = b
  <2> SUFFICES ASSUME NEW a \in S, NEW b \in S, p[a] = p[b] PROVE a = b
    OBVIOUS
  <2>1. a \in Nat /\ b \in Nat /\ a \in K /\ b \in K
    BY TextIs
  <2>2. Place(K, a) = Place(K, b)
    OBVIOUS
  <2>3. Len(x) \in Nat /\ Place(K, a) \in 1..Len(x)
    BY <1>1, <2>1, TextIs
  <2> QED
    BY <1>1, <2>1, <2>2, <2>3
<1>5. \A n \in T : \E i \in S : p[i] = n
  <2> SUFFICES ASSUME NEW n \in T PROVE \E i \in S : p[i] = n
    OBVIOUS
  <2>1. PICK i \in K : Place(K, i) = n
    BY <1>1
  <2>2. i \in S
    BY <1>1, <2>1
  <2> QED
    BY <2>1, <2>2
<1> HIDE DEF p, S, T
<1>6. p \in Bijection(S, T)
  BY <1>3, <1>4, <1>5 DEF Bijection, Injection, Surjection, IsInjective
<1>7. Cardinality(T) = Cardinality(S)
  BY <1>2, <1>6, FS_Bijection DEF ExistsBijection
<1> QED
  BY <1>7 DEF S, T, x

----------------------------------------------------------------------------
(* Which key a placeholder of an edited text stands for *)

SensitiveNames == {d[2] : d \in isSensitiveDirective}

\* Lines of t up to n that give a value to name k, whatever section they are in.
Named(t, k, n) == {i \in 1..n : t[i].kind = "directive" /\ t[i].key = k}

rank(t, i) == Cardinality(Named(t, t[i].key, i))

\* Placeholder i of form f, meant as m, is for the key of the same rank in b.
StandsFor(f, m, b, i) ==
  /\ f[i].key \in SensitiveNames
  /\ b # NoFile
  /\ \E l \in 1..Len(b) : /\ b[l].kind = "directive" /\ b[l].key = f[i].key
                          /\ rank(b, l) = rank(f, i)
                          /\ m[i].val = b[l].val

\* What the user sees as f is meant as m, if it was loaded from b.
Linked(f, m, b) ==
  /\ Alike(m, f)
  /\ \A i \in 1..Len(f) :
       IF f[i].kind = "directive" /\ f[i].val = Redacted
       THEN StandsFor(f, m, b, i)
       ELSE m[i].val = f[i].val

\* A key's name tells its section.
LEMMA KeySection ==
  ASSUME NEW d \in Directives, NEW e \in Directives, d[2] = e[2],
         d[2] \in SensitiveNames
  PROVE  d = e /\ d \in isSensitiveDirective
<1> USE DEF Directives, metaDirectives, isSensitiveDirective, SensitiveNames,
            PrivateKey, Address, MTU, ListenPort, FwMark, PublicKey, PresharedKey,
            Endpoint, AllowedIPs, Keepalive, Interface, Peer
<1>1. d[2] \in {"privatekey", "publickey", "presharedkey"}
  OBVIOUS
<1> QED
  BY <1>1

\* So in a config that was accepted, keys are counted alike by either way.
LEMMA RankIsOccurrence ==
  ASSUME NEW t \in Text, ValidateConfig(t), NEW i \in 1..Len(t),
         t[i].kind = "directive", t[i].key \in SensitiveNames
  PROVE  /\ directive(t, i) \in isSensitiveDirective
         /\ directive(t, i) \in Directives /\ directive(t, i)[2] = t[i].key
         /\ occurrence(t, i) = rank(t, i)
<1>1. \A j \in 1..Len(t) : /\ directive(t, j)[2] = t[j].key
                           /\ t[j].kind = "directive" => directive(t, j) \in Directives
  BY ValidIs DEF directive
<1>2. \A j \in 1..Len(t) : t[j].kind = "directive" /\ t[j].key = t[i].key
                           => directive(t, j) = directive(t, i)
  BY <1>1, KeySection
<1>3. directive(t, i) \in isSensitiveDirective
  BY <1>1, KeySection
<1>4. OccurrencesOf(t, directive(t, i), i) = Named(t, t[i].key, i)
  <2>1. \A j \in 1..i : j \in 1..Len(t)
    BY TextIs
  <2>2. \A j \in 1..i : directive(t, j) = directive(t, i) => t[j].key = t[i].key
    BY <1>1, <2>1
  <2> QED
    BY <1>2, <2>1, <2>2 DEF OccurrencesOf, Named
<1> QED
  BY <1>1, <1>3, <1>4 DEF occurrence, rank

\* config.go:76-92: if every placeholder of a form stands for a key of the
\* stored config, and the merged text is accepted, it is what was meant.
LEMMA MergeIsMeant ==
  ASSUME NEW b \in Text, ValidateConfig(b), NEW f \in Text, NEW m \in Text,
         Linked(f, m, b), ~HasLong(f), ValidateConfig(MergeRedactedConfig(b, f))
  PROVE  MergeRedactedConfig(b, f) = m
<1> DEFINE M == MergeRedactedConfig(b, f)
<1>1. scanned(f) = Len(f) /\ scanned(b) = Len(b)
  BY ScannedAll, ValidIs
<1>2. M \in Text /\ Alike(M, f) /\ Alike(f, M)
  BY <1>1, MergedIs DEF Alike
<1>3. Alike(M, m)
  BY <1>2 DEF Linked, Alike
<1>4. ASSUME NEW i \in 1..Len(f) PROVE M[i].val = m[i].val
  <2>1. M[i].val = IF f[i].kind = "directive"
                   THEN restore(b, directive(f, i), f[i].val, occurrence(f, i))
                   ELSE f[i].val
    BY <1>1, MergedIs
  <2>2. CASE f[i].kind # "directive"
    BY <2>1, <2>2 DEF Linked
  <2>3. CASE f[i].kind = "directive" /\ f[i].val # Redacted
    BY <2>1, <2>3 DEF Linked, restore
  <2>4. CASE f[i].kind = "directive" /\ f[i].val = Redacted
    <3>1. StandsFor(f, m, b, i)
      BY <2>4 DEF Linked
    <3>2. PICK l \in 1..Len(b) : /\ b[l].kind = "directive" /\ b[l].key = f[i].key
                                 /\ rank(b, l) = rank(f, i)
                                 /\ m[i].val = b[l].val
      BY <3>1 DEF StandsFor
    <3>3. f[i].key \in SensitiveNames
      BY <3>1 DEF StandsFor
    <3>4. /\ directive(b, l) \in isSensitiveDirective
          /\ directive(b, l) \in Directives /\ directive(b, l)[2] = b[l].key
          /\ occurrence(b, l) = rank(b, l)
      BY <3>2, <3>3, RankIsOccurrence
    <3>5. /\ directive(M, i) \in Directives /\ directive(M, i)[2] = M[i].key
          /\ occurrence(M, i) = rank(M, i)
      BY <1>2, <2>4, <3>3, RankIsOccurrence DEF Alike
    <3>6. directive(f, i) = directive(M, i) /\ occurrence(f, i) = occurrence(M, i)
      BY <1>2, AlikeDirective, AlikeOccurrences DEF Alike
    <3>7. rank(M, i) = rank(f, i)
      <4>1. \A j \in 1..i : j \in 1..Len(f)
        BY TextIs
      <4>2. Named(M, M[i].key, i) = Named(f, f[i].key, i)
        BY <1>2, <4>1 DEF Alike, Named
      <4> QED
        BY <4>2 DEF rank
    <3>8. directive(f, i) = directive(b, l)
      BY <1>2, <3>2, <3>3, <3>4, <3>5, <3>6, KeySection DEF Alike
    <3>9. sensitiveValues(b, directive(f, i), occurrence(f, i)) = b[l].val
      BY <1>1, <3>2, <3>4, <3>5, <3>6, <3>7, <3>8, StoredValue
    <3>10. b[l].val # Empty
      <4>1. b[l].val \in Accepts[directive(b, l)]
        BY <3>2, ValidIs
      <4> QED
        BY <3>4, <4>1, TextAssumption
    <3> QED
      BY <2>1, <2>4, <3>2, <3>4, <3>8, <3>9, <3>10 DEF restore
  <2> QED
    BY <2>2, <2>3, <2>4
<1> HIDE DEF M
<1>5. M = m
  BY <1>2, <1>3, <1>4, SameText DEF Alike
<1> QED
  BY <1>5 DEF M

----------------------------------------------------------------------------
(* Editing *)

\* g is f without lines i to j.
Cut(g, f, i, j) ==
  /\ Len(g) = Len(f) - (j - i + 1)
  /\ \A k \in 1..Len(g) : g[k] = IF k < i THEN f[k] ELSE f[k + (j - i + 1)]

LEMMA WithoutCuts ==
  ASSUME NEW t \in Text, NEW i \in 1..Len(t), NEW j \in i..Len(t)
  PROVE  Without(t, i, j) \in Text /\ Cut(Without(t, i, j), t, i, j)
<1> DEFINE a == SubSeq(t, 1, i - 1)
           b == SubSeq(t, j + 1, Len(t))
<1>1. /\ Len(t) \in Nat /\ i \in Int /\ j \in Int /\ i <= j /\ 1 <= i /\ j <= Len(t)
      /\ \A k \in 1..Len(t) : t[k] \in Line
  BY TextIs
<1>2. /\ a \in Seq(Line) /\ Len(a) = i - 1
      /\ \A k \in 1..(i - 1) : a[k] = t[k]
  BY <1>1, SubSeqProperties
<1>3. /\ b \in Seq(Line) /\ Len(b) = Len(t) - j
      /\ \A k \in 1..(Len(t) - j) : b[k] = t[j + k]
  BY <1>1, SubSeqProperties
<1> HIDE DEF a, b
<1>4. /\ a \o b \in Seq(Line) /\ Len(a \o b) = Len(t) - (j - i + 1)
      /\ \A k \in 1..(Len(t) - (j - i + 1)) :
           (a \o b)[k] = IF k <= i - 1 THEN a[k] ELSE b[k - (i - 1)]
  <2>1. /\ a \o b \in Seq(Line) /\ Len(a \o b) = Len(a) + Len(b)
        /\ \A k \in 1..(Len(a) + Len(b)) :
             (a \o b)[k] = IF k <= Len(a) THEN a[k] ELSE b[k - Len(a)]
    BY <1>2, <1>3, ConcatProperties
  <2>2. Len(a) + Len(b) = Len(t) - (j - i + 1)
    BY <1>1, <1>2, <1>3
  <2> QED
    BY <1>2, <2>1, <2>2
<1>5. Cut(a \o b, t, i, j)
  <2> SUFFICES ASSUME NEW k \in 1..(Len(t) - (j - i + 1))
               PROVE  (a \o b)[k] = IF k < i THEN t[k] ELSE t[k + (j - i + 1)]
    BY <1>4 DEF Cut
  <2>1. CASE k < i
    BY <1>1, <1>2, <1>4, <2>1
  <2>2. CASE ~(k < i)
    <3>1. k - (i - 1) \in 1..(Len(t) - j) /\ j + (k - (i - 1)) = k + (j - i + 1)
      BY <1>1, <2>2
    <3>2. (a \o b)[k] = b[k - (i - 1)]
      <4>1. ~(k <= i - 1)
        BY <1>1, <2>2
      <4> QED
        BY <1>4, <4>1, Zenon
    <3>3. b[k - (i - 1)] = t[j + (k - (i - 1))]
      BY <1>3, <3>1
    <3> QED
      BY <2>2, <3>1, <3>2, <3>3
  <2> QED
    BY <2>1, <2>2
<1> QED
  BY <1>4, <1>5 DEF Without, Text, a, b

\* With puts line l where cutting it out gives the text back.
LEMMA WithAdds ==
  ASSUME NEW t \in Text, NEW i \in 1..(Len(t) + 1), NEW l \in Line
  PROVE  LET f == With(t, i, l)
         IN  f \in Text /\ Len(f) = Len(t) + 1 /\ f[i] = l /\ Cut(t, f, i, i)
<1> DEFINE a == SubSeq(t, 1, i - 1)
           b == SubSeq(t, i, Len(t))
           f == With(t, i, l)
<1>1. /\ Len(t) \in Nat /\ i \in Int /\ 1 <= i /\ i <= Len(t) + 1
      /\ \A k \in 1..Len(t) : t[k] \in Line
  BY TextIs
<1>2. /\ a \in Seq(Line) /\ Len(a) = i - 1
      /\ \A k \in 1..(i - 1) : a[k] = t[k]
  BY <1>1, SubSeqProperties
<1>3. /\ b \in Seq(Line) /\ Len(b) = Len(t) - i + 1
      /\ \A k \in 1..(Len(t) - i + 1) : b[k] = t[i + k - 1]
  BY <1>1, SubSeqProperties
<1>4. <<l>> \in Seq(Line) /\ Len(<<l>>) = 1 /\ <<l>>[1] = l
  OBVIOUS
<1> HIDE DEF a, b
<1>5. /\ a \o <<l>> \in Seq(Line) /\ Len(a \o <<l>>) = i
      /\ \A k \in 1..i : (a \o <<l>>)[k] = IF k <= i - 1 THEN a[k] ELSE <<l>>[k - (i - 1)]
  BY <1>1, <1>2, <1>4, ConcatProperties
<1>6. f = (a \o <<l>>) \o b
  BY DEF With, a, b
<1> HIDE DEF f
<1>7. /\ f \in Seq(Line) /\ Len(f) = Len(t) + 1
      /\ \A k \in 1..(Len(t) + 1) : f[k] = IF k <= i THEN (a \o <<l>>)[k] ELSE b[k - i]
  <2> DEFINE c == a \o <<l>>
  <2> HIDE DEF c
  <2>1. c \in Seq(Line) /\ Len(c) = i /\ f = c \o b
    BY <1>5, <1>6 DEF c
  <2>2. /\ f \in Seq(Line) /\ Len(f) = Len(c) + Len(b)
        /\ \A k \in 1..(Len(c) + Len(b)) :
             f[k] = IF k <= Len(c) THEN c[k] ELSE b[k - Len(c)]
    BY <1>3, <2>1, ConcatProperties
  <2>3. Len(c) + Len(b) = Len(t) + 1
    BY <1>1, <1>3, <2>1
  <2> QED
    BY <2>1, <2>2, <2>3 DEF c
<1>8. f[i] = l
  BY <1>1, <1>4, <1>5, <1>7
<1>9. Cut(t, f, i, i)
  <2> SUFFICES ASSUME NEW k \in 1..Len(t)
               PROVE  t[k] = IF k < i THEN f[k] ELSE f[k + 1]
    BY <1>1, <1>7 DEF Cut
  <2>1. CASE k < i
    BY <1>1, <1>2, <1>5, <1>7, <2>1
  <2>2. CASE k >= i
    <3>1. f[k + 1] = b[(k + 1) - i] /\ (k + 1) - i \in 1..(Len(t) - i + 1)
      BY <1>1, <1>7, <2>2
    <3>2. b[(k + 1) - i] = t[i + ((k + 1) - i) - 1] /\ i + ((k + 1) - i) - 1 = k
      BY <1>1, <1>3, <3>1
    <3> QED
      BY <1>1, <2>2, <3>1, <3>2
  <2> QED
    BY <1>1, <2>1, <2>2
<1> QED
  BY <1>7, <1>8, <1>9 DEF f, Text

\* Cutting lines that do not give a value to a name leaves the rank of those
\* that do.
LEMMA CutKeepsRank ==
  ASSUME NEW g \in Text, NEW f \in Text, NEW i \in 1..Len(f), NEW j \in i..Len(f),
         Cut(g, f, i, j), NEW a \in 1..Len(g),
         a >= i => \A m \in i..j : ~(f[m].kind = "directive" /\ f[m].key = g[a].key)
  PROVE  rank(g, a) = rank(f, IF a < i THEN a ELSE a + (j - i + 1))
<1> DEFINE d == j - i + 1
           o == IF a < i THEN a ELSE a + d
           k == g[a].key
           S == Named(g, k, a)
           T == Named(f, k, o)
           p == [m \in S |-> IF m < i THEN m ELSE m + d]
<1>1. /\ Len(f) \in Nat /\ Len(g) \in Nat /\ i \in Nat /\ j \in Nat /\ a \in Nat
      /\ d \in Nat /\ 1 <= i /\ i <= j /\ j <= Len(f) /\ a <= Len(g)
      /\ Len(g) = Len(f) - d
  BY TextIs DEF Cut
<1>2. o \in 1..Len(f) /\ g[a] = f[o]
  BY <1>1 DEF Cut
<1>3. \A m \in 1..a : g[m] = f[IF m < i THEN m ELSE m + d]
  BY <1>1 DEF Cut
<1>4. p \in [S -> T]
  <2> SUFFICES ASSUME NEW m \in S PROVE (IF m < i THEN m ELSE m + d) \in T
    OBVIOUS
  <2>1. m \in 1..a /\ g[m].kind = "directive" /\ g[m].key = k
    BY DEF Named
  <2>2. (IF m < i THEN m ELSE m + d) \in 1..o
    BY <1>1, <2>1
  <2> QED
    BY <1>3, <2>1, <2>2 DEF Named
<1>5. p \in Injection(S, T)
  <2>1. \A m, n \in S : p[m] = p[n] => m = n
    BY <1>1 DEF Named
  <2> HIDE DEF p, S, T
  <2> QED
    BY <1>4, <2>1 DEF Injection, IsInjective
<1>6. p \in Surjection(S, T)
  <2>1. ASSUME NEW n \in T PROVE \E m \in S : p[m] = n
    <3>1. n \in 1..o /\ f[n].kind = "directive" /\ f[n].key = k
      BY DEF Named
    <3>2. a >= i => n \notin i..j
      BY <3>1
    <3>3. CASE n < i
      <4>1. n \in 1..a
        BY <1>1, <3>1, <3>3
      <4>2. n \in S
        BY <1>3, <3>1, <3>3, <4>1 DEF Named
      <4> QED
        BY <3>3, <4>2
    <3>4. CASE n >= i
      <4>1. a >= i /\ n > j
        BY <1>1, <3>1, <3>2, <3>4
      <4>2. n - d \in 1..a /\ n - d >= i /\ (n - d) + d = n
        BY <1>1, <3>1, <4>1
      <4>3. n - d \in S
        BY <1>1, <1>3, <3>1, <4>2 DEF Named
      <4> QED
        BY <1>1, <4>2, <4>3
    <3> QED
      BY <1>1, <3>1, <3>3, <3>4
  <2> HIDE DEF p, S, T
  <2> QED
    BY <1>4, <2>1 DEF Surjection
<1>7. IsFiniteSet(S)
  <2>1. S \subseteq 1..a /\ 1 \in Int /\ a \in Int
    BY <1>1 DEF Named
  <2> QED
    BY <2>1, FS_Interval, FS_Subset
<1> HIDE DEF p, S, T
<1>8. Cardinality(T) = Cardinality(S)
  BY <1>5, <1>6, <1>7, FS_Bijection DEF Bijection, ExistsBijection
<1> QED
  BY <1>2, <1>8 DEF rank, S, T

\* Form and meaning are edited alike.
LEMMA CutAlike ==
  ASSUME NEW f \in Text, NEW m \in Text, Alike(m, f),
         NEW i \in 1..Len(f), NEW j \in i..Len(f)
  PROVE  /\ Without(f, i, j) \in Text /\ Without(m, i, j) \in Text
         /\ Alike(Without(m, i, j), Without(f, i, j))
<1> DEFINE g == Without(f, i, j)
           n == Without(m, i, j)
<1>1. g \in Text /\ Cut(g, f, i, j) /\ n \in Text /\ Cut(n, m, i, j)
  BY WithoutCuts DEF Alike
<1> HIDE DEF g, n
<1>2. \A k \in 1..Len(g) : (IF k < i THEN k ELSE k + (j - i + 1)) \in 1..Len(f)
  BY <1>1, TextIs DEF Cut
<1>3. Alike(n, g)
  <2>1. Len(n) = Len(g)
    BY <1>1 DEF Cut, Alike
  <2>2. ASSUME NEW k \in 1..Len(g) PROVE n[k].kind = g[k].kind /\ n[k].key = g[k].key
    <3> DEFINE l == IF k < i THEN k ELSE k + (j - i + 1)
    <3>1. g[k] = f[l]
      BY <1>1 DEF Cut
    <3>2. n[k] = m[l]
      BY <1>1, <2>1 DEF Cut
    <3>3. l \in 1..Len(f)
      BY <1>2
    <3> HIDE DEF l
    <3> QED
      BY <3>1, <3>2, <3>3 DEF Alike
  <2> QED
    BY <2>1, <2>2 DEF Alike
<1> QED
  BY <1>1, <1>3 DEF g, n

LEMMA AddAlike ==
  ASSUME NEW f \in Text, NEW m \in Text, Alike(m, f),
         NEW i \in 1..(Len(f) + 1), NEW l \in Line
  PROVE  /\ With(f, i, l) \in Text /\ With(m, i, l) \in Text
         /\ Alike(With(m, i, l), With(f, i, l))
<1> DEFINE F == With(f, i, l)
           M == With(m, i, l)
<1>1. Len(f) \in Nat /\ Len(m) = Len(f) /\ i \in Nat /\ 1 <= i /\ i <= Len(f) + 1
  BY TextIs DEF Alike
<1>2. /\ F \in Text /\ Len(F) = Len(f) + 1 /\ F[i] = l /\ Cut(f, F, i, i)
      /\ M \in Text /\ Len(M) = Len(f) + 1 /\ M[i] = l /\ Cut(m, M, i, i)
  BY <1>1, WithAdds
<1> HIDE DEF F, M
<1>3. \A x \in 1..Len(f) : /\ f[x] = IF x < i THEN F[x] ELSE F[x + 1]
                           /\ m[x] = IF x < i THEN M[x] ELSE M[x + 1]
  BY <1>1, <1>2 DEF Cut
<1>4. ASSUME NEW k \in 1..Len(F), k # i
      PROVE  LET a == IF k < i THEN k ELSE k - 1
             IN  a \in 1..Len(f) /\ F[k] = f[a] /\ M[k] = m[a]
  <2> DEFINE a == IF k < i THEN k ELSE k - 1
  <2>1. a \in 1..Len(f) /\ k = IF a < i THEN a ELSE a + 1
    BY <1>1, <1>2, <1>4
  <2> QED
    BY <1>3, <2>1
<1>5. Alike(M, F)
  <2> SUFFICES ASSUME NEW k \in 1..Len(F)
               PROVE  M[k].kind = F[k].kind /\ M[k].key = F[k].key
    BY <1>2 DEF Alike
  <2>1. CASE k = i
    BY <1>2, <2>1
  <2>2. CASE k # i
    BY <1>4, <2>2 DEF Alike
  <2> QED
    BY <2>1, <2>2
<1> QED
  BY <1>2, <1>5 DEF F, M

\* A deletion with no key of the same name below it keeps every other key.
LEMMA CutLinked ==
  ASSUME NEW f \in Text, NEW m \in Text, NEW b, Linked(f, m, b),
         NEW i \in 1..Len(f), NEW j \in i..Len(f), ~KeyAbove(f, i, j)
  PROVE  Linked(Without(f, i, j), Without(m, i, j), b)
<1> DEFINE g == Without(f, i, j)
           n == Without(m, i, j)
           d == j - i + 1
<1>1. /\ Len(f) \in Nat /\ Len(m) = Len(f) /\ i \in Nat /\ j \in Nat /\ d \in Nat
      /\ 1 <= i /\ i <= j /\ j <= Len(f)
  BY TextIs DEF Linked, Alike
<1>2. g \in Text /\ Cut(g, f, i, j) /\ n \in Text /\ Cut(n, m, i, j)
  BY <1>1, WithoutCuts
<1> HIDE DEF g, n
<1>3. ASSUME NEW k \in 1..Len(g)
      PROVE  LET o == IF k < i THEN k ELSE k + d
             IN  o \in 1..Len(f) /\ g[k] = f[o] /\ n[k] = m[o]
  BY <1>1, <1>2, TextIs DEF Cut
<1>4. Alike(n, g)
  BY CutAlike DEF Linked, g, n
<1>5. ASSUME NEW k \in 1..Len(g)
      PROVE  IF g[k].kind = "directive" /\ g[k].val = Redacted
             THEN StandsFor(g, n, b, k) ELSE n[k].val = g[k].val
  <2> DEFINE o == IF k < i THEN k ELSE k + d
  <2>1. o \in 1..Len(f) /\ g[k] = f[o] /\ n[k] = m[o]
    BY <1>3
  <2>2. k \in Nat
    BY <1>2, TextIs
  <2>3. CASE g[k].kind = "directive" /\ g[k].val = Redacted
    <3>1. StandsFor(f, m, b, o)
      BY <2>1, <2>3 DEF Linked
    <3>2. k >= i => \A x \in i..j : ~(f[x].kind = "directive" /\ f[x].key = g[k].key)
      <4> SUFFICES ASSUME k >= i, NEW x \in i..j,
                          f[x].kind = "directive", f[x].key = g[k].key
                   PROVE  FALSE
        OBVIOUS
      <4>1. o \in (j + 1)..Len(f)
        BY <1>1, <2>1, <2>2
      <4>2. f[x].key \in SensitiveNames
        BY <2>1, <3>1 DEF StandsFor
      <4> QED
        BY <2>1, <2>3, <4>1, <4>2 DEF KeyAbove, SensitiveNames
    <3>3. rank(g, k) = rank(f, o)
      BY <1>2, <3>2, CutKeepsRank
    <3> HIDE DEF o
    <3> QED
      BY <2>1, <2>3, <3>1, <3>3 DEF StandsFor
  <2>4. CASE ~(g[k].kind = "directive" /\ g[k].val = Redacted)
    BY <2>1, <2>4 DEF Linked
  <2> QED
    BY <2>3, <2>4
<1>6. Linked(g, n, b)
  BY <1>4, <1>5 DEF Linked
<1> QED
  BY <1>6 DEF g, n

\* So does a new line that is no placeholder and has no key of its name below.
LEMMA AddLinked ==
  ASSUME NEW f \in Text, NEW m \in Text, NEW b, Linked(f, m, b),
         NEW i \in 1..(Len(f) + 1), NEW l \in Line,
         ~KeyAbove(With(f, i, l), i, i), ~(l.kind = "directive" /\ l.val = Redacted)
  PROVE  Linked(With(f, i, l), With(m, i, l), b)
<1> DEFINE F == With(f, i, l)
           M == With(m, i, l)
<1>1. Len(f) \in Nat /\ Len(m) = Len(f) /\ i \in Nat /\ 1 <= i /\ i <= Len(f) + 1
  BY TextIs DEF Linked, Alike
<1>2. /\ F \in Text /\ Len(F) = Len(f) + 1 /\ F[i] = l /\ Cut(f, F, i, i)
      /\ M \in Text /\ Len(M) = Len(f) + 1 /\ M[i] = l /\ Cut(m, M, i, i)
  BY <1>1, WithAdds
<1>3. i \in 1..Len(F) /\ i \in i..Len(F) /\ i - i + 1 = 1
  BY <1>1, <1>2
<1>4. ~KeyAbove(F, i, i)
  OBVIOUS
<1> HIDE DEF F, M
<1>5. ASSUME NEW k \in 1..Len(F), k # i
      PROVE  LET a == IF k < i THEN k ELSE k - 1
             IN  /\ a \in 1..Len(f) /\ k = IF a < i THEN a ELSE a + 1
                 /\ F[k] = f[a] /\ M[k] = m[a]
  <2> DEFINE a == IF k < i THEN k ELSE k - 1
  <2>1. a \in 1..Len(f) /\ k = IF a < i THEN a ELSE a + 1
    BY <1>1, <1>2, <1>5
  <2>2. \A x \in 1..Len(f) : /\ f[x] = IF x < i THEN F[x] ELSE F[x + 1]
                             /\ m[x] = IF x < i THEN M[x] ELSE M[x + 1]
    BY <1>1, <1>2, <1>3 DEF Cut
  <2> QED
    BY <2>1, <2>2
<1>6. Alike(M, F)
  BY AddAlike DEF Linked, F, M
<1>7. ASSUME NEW k \in 1..Len(F)
      PROVE  IF F[k].kind = "directive" /\ F[k].val = Redacted
             THEN StandsFor(F, M, b, k) ELSE M[k].val = F[k].val
  <2>1. CASE k = i
    BY <1>2, <2>1
  <2>2. CASE k # i
    <3> DEFINE a == IF k < i THEN k ELSE k - 1
    <3>1. /\ a \in 1..Len(f) /\ k = IF a < i THEN a ELSE a + 1
          /\ F[k] = f[a] /\ M[k] = m[a]
      BY <1>5, <2>2
    <3> HIDE DEF a
    <3>2. CASE F[k].kind = "directive" /\ F[k].val = Redacted
      <4>1. StandsFor(f, m, b, a)
        BY <3>1, <3>2 DEF Linked
      <4>2. a >= i => \A x \in i..i : ~(F[x].kind = "directive" /\ F[x].key = f[a].key)
        <5> SUFFICES ASSUME a >= i, F[i].kind = "directive", F[i].key = f[a].key
                     PROVE  FALSE
          BY <1>1
        <5>1. k \in (i + 1)..Len(F)
          BY <1>1, <1>2, <3>1
        <5>2. f[a].key \in SensitiveNames
          BY <4>1 DEF StandsFor
        <5> QED
          BY <1>1, <1>4, <3>1, <3>2, <5>1, <5>2 DEF KeyAbove, SensitiveNames
      <4>3. rank(f, a) = rank(F, IF a < i THEN a ELSE a + (i - i + 1))
        BY <1>2, <1>3, <3>1, <4>2, CutKeepsRank
      <4>4. rank(f, a) = rank(F, k)
        BY <1>3, <3>1, <4>3
      <4> QED
        BY <3>1, <3>2, <4>1, <4>4 DEF StandsFor
    <3>3. CASE ~(F[k].kind = "directive" /\ F[k].val = Redacted)
      BY <3>1, <3>3 DEF Linked
    <3> QED
      BY <3>2, <3>3
  <2> QED
    BY <2>1, <2>2
<1>8. Linked(F, M, b)
  BY <1>6, <1>7 DEF Linked
<1> QED
  BY <1>8 DEF F, M

\* Ranks depend on names only.
LEMMA AlikeRank ==
  ASSUME NEW f \in Text, NEW t \in Text, Alike(f, t), NEW i \in 1..Len(t)
  PROVE  rank(f, i) = rank(t, i)
<1>1. \A j \in 1..i : j \in 1..Len(t)
  BY TextIs
<1>2. Named(f, f[i].key, i) = Named(t, t[i].key, i)
  BY <1>1 DEF Alike, Named
<1> QED
  BY <1>2 DEF rank

\* A text as it was loaded: each placeholder is for the key it hides.
LEMMA LoadLinked ==
  ASSUME NEW t \in Text, ValidateConfig(t)
  PROVE  Linked(RedactConfig(t), t, t)
<1> DEFINE f == RedactConfig(t)
<1>1. f \in Text /\ scanned(t) = Len(t) /\ Alike(f, t) /\ Alike(t, f) /\ Len(f) = Len(t)
  BY RedactedIs, ValidIs DEF Alike
<1>2. ASSUME NEW i \in 1..Len(f)
      PROVE  IF f[i].kind = "directive" /\ f[i].val = Redacted
             THEN StandsFor(f, t, t, i) ELSE t[i].val = f[i].val
  <2>1. /\ f[i].kind = t[i].kind /\ f[i].key = t[i].key
        /\ f[i].val = IF t[i].kind = "directive"
                     THEN redact(directive(t, i), t[i].val) ELSE t[i].val
    BY <1>1, RedactedIs
  <2>2. CASE f[i].kind = "directive" /\ f[i].val = Redacted
    <3>1. directive(t, i) \in Directives /\ t[i].val \in Accepts[directive(t, i)]
      BY <1>1, <2>1, <2>2, ValidIs
    <3>2. t[i].val # Redacted
      BY <3>1, TextAssumption
    <3>3. directive(t, i) \in isSensitiveDirective
      BY <2>1, <2>2, <3>2 DEF redact
    <3>4. t[i].key \in SensitiveNames
      BY <3>3 DEF SensitiveNames, directive
    <3>5. rank(t, i) = rank(f, i)
      BY <1>1, AlikeRank
    <3>6. t # NoFile
      BY TextAssumption
    <3> QED
      BY <1>1, <2>1, <2>2, <3>4, <3>5, <3>6 DEF StandsFor
  <2>3. CASE ~(f[i].kind = "directive" /\ f[i].val = Redacted)
    BY <2>1, <2>3 DEF redact
  <2> QED
    BY <2>2, <2>3
<1> QED
  BY <1>1, <1>2 DEF Linked

\* A directive with another value.
LEMMA SetValueIs ==
  ASSUME NEW f \in Text, NEW i \in 1..Len(f), f[i].kind = "directive", NEW v \in Val
  PROVE  LET F == [f EXCEPT ![i].val = v]
         IN  /\ F \in Text /\ Alike(F, f)
             /\ \A k \in 1..Len(f) : F[k].val = IF k = i THEN v ELSE f[k].val
<1> DEFINE l == [f[i] EXCEPT !.val = v]
           F == [f EXCEPT ![i] = l]
<1>1. f[i] \in Line
  BY TextIs
<1>2. l \in Line /\ l.kind = f[i].kind /\ l.key = f[i].key /\ l.val = v
  BY <1>1 DEF Line
<1> HIDE DEF l
<1>3. /\ F \in Seq(Line) /\ Len(F) = Len(f)
      /\ \A k \in 1..Len(f) : F[k] = IF k = i THEN l ELSE f[k]
  BY <1>2, ExceptSeq DEF Text
<1>4. F = [f EXCEPT ![i].val = v]
  BY DEF l
<1> HIDE DEF F
<1> QED
  BY <1>2, <1>3, <1>4 DEF Alike, Text

\* A value that is typed over means itself.
LEMMA SetLinked ==
  ASSUME NEW f \in Text, NEW m \in Text, NEW b, Linked(f, m, b),
         NEW i \in 1..Len(f), f[i].kind = "directive", NEW v \in Keys \cup Values
  PROVE  Linked([f EXCEPT ![i].val = v], [m EXCEPT ![i].val = v], b)
<1> DEFINE F == [f EXCEPT ![i].val = v]
           M == [m EXCEPT ![i].val = v]
<1>1. v \in Val /\ v # Redacted /\ Len(m) = Len(f) /\ m[i].kind = "directive"
  BY TextAssumption DEF Val, Linked, Alike
<1>2. /\ F \in Text /\ Alike(F, f)
      /\ \A k \in 1..Len(f) : F[k].val = IF k = i THEN v ELSE f[k].val
  <2>1. v \in Val
    BY <1>1
  <2> QED
    BY <2>1, SetValueIs
<1>3. /\ M \in Text /\ Alike(M, m)
      /\ \A k \in 1..Len(f) : M[k].val = IF k = i THEN v ELSE m[k].val
  BY <1>1, SetValueIs
<1> HIDE DEF F, M
<1>4. Alike(M, F)
  BY <1>2, <1>3 DEF Linked, Alike
<1>5. ASSUME NEW k \in 1..Len(F)
      PROVE  IF F[k].kind = "directive" /\ F[k].val = Redacted
             THEN StandsFor(F, M, b, k) ELSE M[k].val = F[k].val
  <2>1. k \in 1..Len(f) /\ F[k].kind = f[k].kind /\ F[k].key = f[k].key
    BY <1>2 DEF Alike
  <2>2. CASE k = i
    BY <1>1, <1>2, <1>3, <2>1, <2>2
  <2>3. CASE k # i
    <3>1. F[k].val = f[k].val /\ M[k].val = m[k].val
      BY <1>2, <1>3, <2>1, <2>3
    <3>2. rank(F, k) = rank(f, k)
      BY <1>2, <2>1, AlikeRank
    <3>3. IF f[k].kind = "directive" /\ f[k].val = Redacted
          THEN StandsFor(f, m, b, k) ELSE m[k].val = f[k].val
      BY <2>1 DEF Linked
    <3> QED
      BY <2>1, <3>1, <3>2, <3>3 DEF StandsFor
  <2> QED
    BY <2>2, <2>3
<1>6. Linked(F, M, b)
  BY <1>4, <1>5 DEF Linked
<1> QED
  BY <1>6 DEF F, M

----------------------------------------------------------------------------
(* The config page *)

\* Only ValidateConfig lets a text into the file.
Accepted == file # NoFile => ValidateConfig(file)

\* Address and MTU are all that is left out of what `wg setconf` is given, and ";"
\* comments all that it does not read.
LEMMA SetconfHolds == TypeOK /\ Accepted => SetconfUnderstood
<1> SUFFICES ASSUME TypeOK, Accepted, file # NoFile PROVE SetconfUnderstood
  BY DEF SetconfUnderstood
<1> DEFINE N == Len(file)
           K == {i \in 1..N : file[i].kind = "directive"
                               => directive(file, i) \notin isInterfaceMetadataDirective}
           x == Extract(file, K)
           D == {i \in DOMAIN file : file[i].kind = "directive"}
           R == OccurrencesOf(file, Address, N) \cup OccurrencesOf(file, MTU, N)
           S == {i \in K : file[i].kind = "directive"}
           T == {i \in DOMAIN x : x[i].kind = "directive"}
<1>1. file \in Text /\ ValidateConfig(file)
  BY DEF TypeOK, Accepted
<1>2. /\ scanned(file) = N /\ N \in Nat /\ DOMAIN file = 1..N
      /\ \A i \in 1..N : file[i].kind = "directive" => directive(file, i) \in Directives
  BY <1>1, ValidIs, TextIs
<1>3. SetconfConfig(file) = x
  BY <1>2 DEF SetconfConfig
<1>4. K \in SUBSET (1..N) /\ \A i \in 1..N : file[i].kind = "header" => i \in K
  OBVIOUS
<1>5. R \in SUBSET D /\ S = D \ R
  BY <1>2 DEF OccurrencesOf, isInterfaceMetadataDirective
<1>6. IsFiniteSet(D)
  <2>1. 1 \in Int /\ N \in Int /\ D \in SUBSET (1..N)
    BY <1>2
  <2> HIDE DEF D, N
  <2>2. IsFiniteSet(1..N)
    BY <2>1, FS_Interval
  <2> QED
    BY <2>1, <2>2, FS_Subset
<1>7. \A i \in K : /\ file[i].kind \in {"header", "directive", "comment"}
                   /\ file[i].kind = "header" => file[i].key \in {Interface, Peer}
                   /\ file[i].kind = "directive"
                        => directive(file, i) \in Directives \ {Address, MTU}
                   /\ file[i].kind = "comment" => file[i].key \in {"#", ";"}
  BY <1>1, <1>2, ValidIs, TextIs DEF isInterfaceMetadataDirective, Line
<1> HIDE DEF K
<1>8. Cardinality(T) = Cardinality(S)
  BY <1>1, <1>4, ExtractedCount
<1>9. ASSUME NEW n \in DOMAIN x
      PROVE  WgReads(x, n) \/ (x[n].kind = "comment" /\ x[n].key = ";")
  <2>1. PICK i \in K : Place(K, i) = n /\ x[n] = file[i]
    BY <1>1, <1>4, Extracted, TextIs
  <2>2. directive(x, n) = directive(file, i)
    BY <1>1, <1>4, <2>1, ExtractedDirective
  <2> HIDE DEF x
  <2> QED
    BY <1>7, <2>1, <2>2 DEF WgReads
<1>10. Cardinality(D) - Cardinality(T) = Cardinality(R)
  <2> HIDE DEF D, R, S, T
  <2>1. IsFiniteSet(R) /\ D \cap R = R
    BY <1>5, <1>6, FS_Subset
  <2>2. Cardinality(S) = Cardinality(D) - Cardinality(R)
    BY <1>5, <1>6, <2>1, FS_Difference
  <2>3. Cardinality(D) \in Nat /\ Cardinality(R) \in Nat
    BY <1>6, <2>1, FS_CardinalityType
  <2> QED
    BY <1>8, <2>2, <2>3
<1> HIDE DEF x
<1> QED
  BY <1>3, <1>9, <1>10 DEF SetconfUnderstood

\* The page's own text, posted back, changes nothing.
LEMMA RoundTripHolds == TypeOK /\ Accepted => RoundTrip
<1> SUFFICES ASSUME TypeOK, Accepted, file # NoFile, ~Mentions(file)
             PROVE  /\ Savable(Merged(RedactConfig(file)))
                    /\ Merged(RedactConfig(file)) = file
  BY DEF RoundTrip
<1>1. file \in Text /\ ValidateConfig(file)
  BY DEF TypeOK, Accepted
<1>2. Contents = file /\ file # <<>>
  BY <1>1, ValidIs DEF Contents
<1>3. Merged(RedactConfig(file)) = file
  BY <1>1, <1>2, MergeUndoesRedact DEF Merged
<1> QED
  BY <1>1, <1>3 DEF Savable

\* A form and what the user means by it stay in step, and until its key lines
\* are shifted each placeholder is for the key it hid when it was loaded.
InStep ==
  \A u \in Users : /\ Alike(meant[u], form[u])
                   /\ ~shifted[u] => Linked(form[u], meant[u], base[u])

\* What every request and every edit preserves.
Inv == TypeOK /\ Accepted /\ OnlyCommentsShowKeys /\ InStep

\* The page before its first request.
LEMMA InitInv == Init => Inv
<1> SUFFICES ASSUME Init PROVE Inv
  OBVIOUS
<1>1. <<>> \in Text /\ Len(<<>>) = 0
  BY DEF Text
<1>2. TypeOK
  BY <1>1, TextAssumption DEF Init, TypeOK
<1>3. Accepted
  BY PlacedAssumption DEF Init, Accepted
<1>4. OnlyCommentsShowKeys
  BY DEF Init, OnlyCommentsShowKeys
<1>5. InStep
  BY <1>1 DEF Init, InStep, Alike, Linked
<1> QED
  BY <1>2, <1>3, <1>4, <1>5 DEF Inv

\* An answer with the contents of wg0.conf.
LEMMA AnswerInv ==
  ASSUME Inv, NEW u \in Users, NEW t \in Text, Answer(u, t), UNCHANGED edits,
         \/ file' = t /\ ValidateConfig(t)
         \/ file' = NoFile /\ t = <<>>
  PROVE  Inv'
<1> DEFINE f == RedactConfig(t)
<1>1. f \in Text
  BY RedactedIs
<1>2. file' \in Text \cup {NoFile}
  OBVIOUS
<1>3. /\ Alike(t, f) /\ Linked(f, t, file')
      /\ \A i \in DOMAIN f : f[i].val \in Keys => f[i].kind = "comment"
  <2>1. CASE file' = t /\ ValidateConfig(t)
    BY <2>1, LoadLinked, RedactedShowsNoKey DEF Linked
  <2>2. CASE file' = NoFile /\ t = <<>>
    <3>1. Len(t) = 0 /\ Len(f) = 0 /\ DOMAIN f = {}
      <4>1. Len(t) = 0
        BY <2>2
      <4>2. Len(f) = 0
        BY <4>1, Scanned, RedactedIs
      <4> HIDE DEF f
      <4> QED
        BY <1>1, <4>1, <4>2, TextIs
    <3> HIDE DEF f
    <3> QED
      BY <3>1 DEF Alike, Linked
  <2> QED
    BY <2>1, <2>2
<1>4. /\ form' = [form EXCEPT ![u] = f] /\ shown' = [shown EXCEPT ![u] = f]
      /\ meant' = [meant EXCEPT ![u] = t] /\ base' = [base EXCEPT ![u] = file']
      /\ shifted' = [shifted EXCEPT ![u] = FALSE]
  BY DEF Answer
<1> HIDE DEF f
<1>5. TypeOK'
  BY <1>1, <1>2, <1>4 DEF Inv, TypeOK
<1>6. Accepted'
  BY TextAssumption DEF Accepted
<1>7. OnlyCommentsShowKeys'
  BY <1>3, <1>4 DEF Inv, TypeOK, OnlyCommentsShowKeys
<1>8. InStep'
  <2> SUFFICES ASSUME NEW w \in Users
               PROVE  /\ Alike(meant'[w], form'[w])
                      /\ ~shifted'[w] => Linked(form'[w], meant'[w], base'[w])
    BY DEF InStep
  <2>1. CASE w = u
    BY <1>3, <1>4, <2>1 DEF Inv, TypeOK
  <2>2. CASE w # u
    BY <1>4, <2>2 DEF Inv, TypeOK, InStep
  <2> QED
    BY <2>1, <2>2
<1> QED
  BY <1>5, <1>6, <1>7, <1>8 DEF Inv

\* api_wg.go:15-43.
LEMMA GetInv == ASSUME Inv, NEW u \in Users, getWGConfig(u) PROVE Inv'
<1>1. Contents \in Text
  BY DEF Contents, Inv, TypeOK, Text
<1>2. \/ file' = Contents /\ ValidateConfig(Contents)
      \/ file' = NoFile /\ Contents = <<>>
  BY DEF getWGConfig, Contents, Inv, Accepted
<1> QED
  BY <1>1, <1>2, AnswerInv DEF getWGConfig

\* What a POST would save is a text.
LEMMA MergedType ==
  ASSUME Inv, NEW f \in Text
  PROVE  Merged(f) \in Text
<1>1. Contents \in Text
  BY DEF Contents, Inv, TypeOK, Text
<1> QED
  BY <1>1, MergedIs DEF Merged

\* api_wg.go:45-99: only what ValidateConfig accepts is written and shown.
LEMMA PostInv == ASSUME Inv, NEW u \in Users, postWGConfig(u) PROVE Inv'
<1>1. form[u] \in Text
  BY DEF Inv, TypeOK
<1>2. Merged(form[u]) \in Text /\ file' = Merged(form[u]) /\ ValidateConfig(Merged(form[u]))
  BY <1>1, MergedType DEF postWGConfig, Savable
<1> QED
  BY <1>2, AnswerInv DEF postWGConfig

\* An edit of the text area.
LEMMA EditInv ==
  ASSUME Inv, NEW u \in Users, NEW f \in Text, NEW m \in Text, NEW shifts \in BOOLEAN,
         Alike(m, f), ~shifted[u] /\ ~shifts => Linked(f, m, base[u]),
         Edit(u, f, m, shifts)
  PROVE  Inv'
<1>1. /\ form' = [form EXCEPT ![u] = f] /\ meant' = [meant EXCEPT ![u] = m]
      /\ UNCHANGED <<file, shown, base>>
  BY DEF Edit
<1>2. /\ shifted' \in [Users -> BOOLEAN]
      /\ \A w \in Users : ~shifted'[w] => ~shifted[w]
      /\ ~shifted'[u] => ~shifts
  <2>1. shifted' = [shifted EXCEPT ![u] = shifted[u] \/ shifts]
    BY DEF Edit
  <2>2. shifted \in [Users -> BOOLEAN]
    BY DEF Inv, TypeOK
  <2>3. (shifted[u] \/ shifts) \in BOOLEAN
    OBVIOUS
  <2> QED
    BY <2>1, <2>2, <2>3
<1>3. edits' \in 0..MaxEdits
  BY TextAssumption DEF Edit, Inv, TypeOK
<1>4. TypeOK'
  BY <1>1, <1>2, <1>3 DEF Inv, TypeOK
<1>5. Accepted' /\ OnlyCommentsShowKeys'
  BY <1>1 DEF Inv, Accepted, OnlyCommentsShowKeys
<1>6. InStep'
  <2> SUFFICES ASSUME NEW w \in Users
               PROVE  /\ Alike(meant'[w], form'[w])
                      /\ ~shifted'[w] => Linked(form'[w], meant'[w], base'[w])
    BY DEF InStep
  <2>1. CASE w = u
    BY <1>1, <1>2, <2>1 DEF Inv, TypeOK
  <2>2. CASE w # u
    BY <1>1, <1>2, <2>2 DEF Inv, TypeOK, InStep
  <2> QED
    BY <2>1, <2>2
<1> QED
  BY <1>4, <1>5, <1>6 DEF Inv

LEMMA DeleteInv ==
  ASSUME Inv, NEW u \in Users, NEW i \in 1..Len(form[u]), NEW j \in i..Len(form[u]),
         Delete(u, i, j)
  PROVE  Inv'
<1>1. form[u] \in Text /\ meant[u] \in Text /\ Alike(meant[u], form[u])
  BY DEF Inv, TypeOK, InStep
<1>2. /\ Without(form[u], i, j) \in Text /\ Without(meant[u], i, j) \in Text
      /\ Alike(Without(meant[u], i, j), Without(form[u], i, j))
  BY <1>1, CutAlike
<1>3. ~shifted[u] /\ ~KeyAbove(form[u], i, j)
        => Linked(Without(form[u], i, j), Without(meant[u], i, j), base[u])
  BY <1>1, CutLinked DEF Inv, InStep
<1>4. KeyAbove(form[u], i, j) \in BOOLEAN
  BY Zenon DEF KeyAbove
<1> QED
  BY <1>2, <1>3, <1>4, EditInv DEF Delete

LEMMA InsertInv ==
  ASSUME Inv, NEW u \in Users, NEW i \in 1..(Len(form[u]) + 1), NEW l \in Lines,
         InsertLine(u, i, l)
  PROVE  Inv'
<1> DEFINE f == With(form[u], i, l)
           m == With(meant[u], i, l)
           shifts == KeyAbove(f, i, i) \/ (l.kind = "directive" /\ l.val = Redacted)
<1>1. /\ form[u] \in Text /\ meant[u] \in Text /\ Alike(meant[u], form[u])
      /\ l \in Line
  BY TextAssumption DEF Inv, TypeOK, InStep
<1>2. f \in Text /\ m \in Text /\ Alike(m, f)
  BY <1>1, AddAlike
<1>3. ~shifted[u] /\ ~shifts => Linked(f, m, base[u])
  BY <1>1, AddLinked DEF Inv, InStep
<1>4. shifts \in BOOLEAN
  BY Zenon DEF KeyAbove
<1>5. Edit(u, f, m, shifts)
  BY DEF InsertLine
<1> HIDE DEF f, m, shifts
<1> QED
  BY <1>2, <1>3, <1>4, <1>5, EditInv

LEMMA SetValueInv ==
  ASSUME Inv, NEW u \in Users, NEW i \in 1..Len(form[u]), NEW v \in Keys \cup Values,
         SetValue(u, i, v)
  PROVE  Inv'
<1> DEFINE f == [form[u] EXCEPT ![i].val = v]
           m == [meant[u] EXCEPT ![i].val = v]
<1>1. /\ form[u] \in Text /\ meant[u] \in Text /\ Alike(meant[u], form[u])
      /\ form[u][i].kind = "directive" /\ v \in Val
  BY DEF SetValue, Inv, TypeOK, InStep, Val
<1>2. f \in Text /\ Alike(f, form[u])
  BY <1>1, SetValueIs
<1>3. m \in Text /\ Alike(m, meant[u])
  BY <1>1, SetValueIs DEF Alike
<1>4. ~shifted[u] => Linked(f, m, base[u])
  BY <1>1, SetLinked DEF Inv, InStep
<1>5. Edit(u, f, m, FALSE)
  BY DEF SetValue
<1> HIDE DEF f, m
<1>6. Alike(m, f)
  BY <1>1, <1>2, <1>3 DEF Alike
<1> QED
  BY <1>2, <1>3, <1>4, <1>5, <1>6, EditInv

LEMMA PasteInv ==
  ASSUME Inv, NEW u \in Users, NEW t \in Pastes, Paste(u, t)
  PROVE  Inv'
<1>1. t \in Text /\ Alike(t, t)
  BY TextAssumption DEF Alike
<1>2. ~Mentions(t) => Linked(t, t, base[u])
  BY <1>1, TextIs DEF Mentions, Linked
<1>3. Mentions(t) \in BOOLEAN
  BY Zenon DEF Mentions
<1> QED
  BY <1>1, <1>2, <1>3, EditInv DEF Paste

LEMMA NextInv == Inv /\ [Next]_vars => Inv'
<1> SUFFICES ASSUME Inv, [Next]_vars PROVE Inv'
  OBVIOUS
<1>1. ASSUME NEW u \in Users,
             \/ getWGConfig(u) \/ postWGConfig(u)
             \/ \E i \in DOMAIN form[u] : DeleteLine(u, i) \/ DeleteSection(u, i)
             \/ \E i \in 1..(Len(form[u]) + 1), l \in Lines : InsertLine(u, i, l)
             \/ \E i \in DOMAIN form[u], v \in Keys \cup Values : SetValue(u, i, v)
             \/ \E t \in Pastes : Paste(u, t)
      PROVE  Inv'
  <2>1. /\ DOMAIN form[u] = 1..Len(form[u]) /\ Len(form[u]) \in Nat
        /\ \A i \in DOMAIN form[u] : i \in i..Len(form[u])
    BY TextIs DEF Inv, TypeOK
  <2>2. ASSUME NEW i \in DOMAIN form[u], DeleteLine(u, i) PROVE Inv'
    BY <2>1, <2>2, DeleteInv DEF DeleteLine
  <2>3. ASSUME NEW i \in DOMAIN form[u], DeleteSection(u, i) PROVE Inv'
    BY <2>1, <2>3, DeleteInv DEF DeleteSection
  <2>4. ASSUME NEW i \in DOMAIN form[u], NEW v \in Keys \cup Values, SetValue(u, i, v)
        PROVE  Inv'
    BY <2>1, <2>4, SetValueInv
  <2> QED
    BY <1>1, <2>2, <2>3, <2>4, GetInv, PostInv, InsertInv, PasteInv
<1>2. CASE UNCHANGED vars
  BY <1>2 DEF vars, pageVars, Inv, TypeOK, Accepted, OnlyCommentsShowKeys, InStep
<1> QED
  BY <1>1, <1>2 DEF Next

(* api_wg.go:15-99: Inv holds whatever users load, edit and post, in any     *)
(* order and however long the texts are.                                     *)
THEOREM Invariance == Spec => []Inv
BY InitInv, NextInv, PTL DEF Spec

(* Every variable keeps its type. *)
THEOREM TypeCorrect == Spec => []TypeOK
BY Invariance, PTL DEF Inv

(* api_wg.go:33, 93, config.go:67-74, 94-130: an answer shows the key of no  *)
(* directive; one in a comment, which RedactConfig does not look at, it does.*)
THEOREM KeysShownOnlyInComments == Spec => []OnlyCommentsShowKeys
BY Invariance, PTL DEF Inv

(* config.go:67-92: the page's own text, posted back unedited, is accepted   *)
(* and leaves wg0.conf as it is.                                             *)
THEOREM RoundTrips == Spec => []RoundTrip
<1>1. Inv => RoundTrip
  BY RoundTripHolds DEF Inv
<1> QED
  BY <1>1, Invariance, PTL

(* config.go:94-130, 203-224: `wg setconf` is given every directive but      *)
(* Address and MTU of a saved config, and no line that it does not read but  *)
(* the ";" comments.                                                         *)
THEOREM SetconfClean == Spec => []SetconfUnderstood
<1>1. Inv => SetconfUnderstood
  BY SetconfHolds DEF Inv
<1> QED
  BY <1>1, Invariance, PTL

(* config.go:76-92, api_wg.go:69-76: a save of a form whose key lines are    *)
(* not shifted stores what the user saw and typed, every untouched key as it *)
(* was when the form was loaded.                                             *)
THEOREM UntouchedKeysKept == Spec => EditKeepsKeys
<1>1. ASSUME Inv, NEW u \in Users, ~shifted[u], ~HasLong(form[u]), Saves(u)
      PROVE  file' = meant[u]
  <2>1. /\ form[u] \in Text /\ meant[u] \in Text
        /\ Linked(form[u], meant[u], file)
        /\ file' = Merged(form[u]) /\ ValidateConfig(Merged(form[u]))
    BY <1>1 DEF Saves, postWGConfig, Savable, Inv, TypeOK, InStep
  <2>2. CASE file = NoFile
    <3>1. Merged(form[u]) = form[u]
      BY <2>2 DEF Merged, Contents
    <3>2. \A i \in 1..Len(form[u]) : meant[u][i].val = form[u][i].val
      BY <2>1, <2>2 DEF Linked, StandsFor
    <3>3. meant[u] = form[u]
      BY <2>1, <3>2, SameText DEF Linked
    <3> QED
      BY <2>1, <3>1, <3>3
  <2>3. CASE file # NoFile
    <3>1. file \in Text /\ ValidateConfig(file)
      BY <1>1, <2>3 DEF Inv, TypeOK, Accepted
    <3>2. Merged(form[u]) = MergeRedactedConfig(file, form[u])
      BY <2>3, <3>1, ValidIs DEF Merged, Contents
    <3> QED
      BY <1>1, <2>1, <3>1, <3>2, MergeIsMeant
  <2> QED
    BY <2>2, <2>3
<1>2. Inv /\ [Next]_vars
        => [\A u \in Users : ~shifted[u] /\ ~HasLong(form[u]) /\ Saves(u)
              => file' = meant[u]]_vars
  BY <1>1
<1> QED
  BY <1>2, Invariance, PTL DEF Spec, EditKeepsKeys

----------------------------------------------------------------------------
(* Where the keys of a save come from *)

\* config.go:76-88: a line that the merge changes was a placeholder, and gets the
\* value of the stored line that is as many-th of the same directive.
LEMMA RestoredFrom ==
  ASSUME NEW e \in Text, scanned(e) = Len(e), NEW t \in Text,
         NEW i \in 1..Len(MergeRedactedConfig(e, t)),
         MergeRedactedConfig(e, t)[i].val # t[i].val
  PROVE  LET f == MergeRedactedConfig(e, t)
         IN  /\ t[i].val = Redacted /\ f[i].kind = "directive"
             /\ \E j \in 1..Len(e) :
                  /\ e[j].kind = "directive" /\ directive(e, j) = directive(f, i)
                  /\ e[j].val = f[i].val /\ occurrence(e, j) = occurrence(f, i)
<1> DEFINE f == MergeRedactedConfig(e, t)
           d == directive(t, i)
           n == occurrence(t, i)
           I == {j \in OccurrencesOf(e, d, scanned(e)) : occurrence(e, j) = n}
<1>1. /\ f \in Text /\ Len(f) = scanned(t) /\ scanned(t) \in Nat /\ scanned(t) <= Len(t)
      /\ \A k \in 1..scanned(t) :
           /\ f[k].kind = t[k].kind /\ f[k].key = t[k].key
           /\ f[k].val = IF t[k].kind = "directive"
                        THEN restore(e, directive(t, k), t[k].val, occurrence(t, k))
                        ELSE t[k].val
  BY MergedIs, Scanned, TextIs
<1> HIDE DEF f
<1>2. directive(f, i) = d /\ occurrence(f, i) = n
  <2> DEFINE m == scanned(t)
  <2>1. /\ m \in Nat /\ m <= Len(f) /\ m <= Len(t) /\ i \in 1..m
        /\ \A k \in 1..m : f[k].kind = t[k].kind /\ f[k].key = t[k].key
    BY <1>1 DEF f
  <2> HIDE DEF m
  <2>2. directive(f, i) = directive(t, i)
    BY <1>1, <2>1, PrefixDirective
  <2>3. occurrence(f, i) = occurrence(t, i)
    BY <1>1, <2>1, PrefixOccurrence
  <2> QED
    BY <2>2, <2>3
<1>3. /\ t[i].kind = "directive" /\ f[i].val = restore(e, d, t[i].val, n)
      /\ f[i].kind = "directive"
  BY <1>1 DEF f
<1>4. t[i].val = Redacted /\ f[i].val = sensitiveValues(e, d, n) /\ f[i].val # Empty
  BY <1>3 DEF restore, f
<1>5. I # {} /\ f[i].val = e[CHOOSE j \in I : TRUE].val
  BY <1>4 DEF sensitiveValues
<1> HIDE DEF I
<1>6. PICK j \in I : f[i].val = e[j].val
  BY <1>5
<1>7. /\ j \in 1..Len(e) /\ e[j].kind = "directive"
      /\ directive(e, j) = d /\ occurrence(e, j) = n
  BY <1>6 DEF I, OccurrencesOf
<1> QED
  BY <1>2, <1>3, <1>4, <1>6, <1>7 DEF f

\* Lines that the merge gives one value, as one directive, were given it by
\* different stored lines.
LEMMA RestoredOnce ==
  ASSUME NEW e \in Text, scanned(e) = Len(e), NEW t \in Text, NEW d, NEW v
  PROVE  LET f == MergeRedactedConfig(e, t)
             R == {i \in DOMAIN f : f[i].val # t[i].val}
         IN  Cardinality(LikeLines(f, R, d, v)) <= Cardinality(LikeLines(e, DOMAIN e, d, v))
<1> DEFINE f == MergeRedactedConfig(e, t)
           R == {i \in DOMAIN f : f[i].val # t[i].val}
           A == LikeLines(f, R, d, v)
           B == LikeLines(e, DOMAIN e, d, v)
           From(i, j) == j \in B /\ occurrence(e, j) = occurrence(f, i)
           from == [i \in A |-> CHOOSE j \in B : From(i, j)]
<1>1. f \in Text /\ DOMAIN f = 1..Len(f) /\ DOMAIN e = 1..Len(e)
  BY MergedIs, TextIs
<1>2. ASSUME NEW i \in A PROVE \E j \in B : From(i, j)
  BY <1>1, <1>2, RestoredFrom DEF LikeLines
<1>3. ASSUME NEW i \in A, NEW k \in A, occurrence(f, i) = occurrence(f, k) PROVE i = k
  BY <1>1, <1>3, OccurrenceUnique DEF LikeLines
<1>4. IsFiniteSet(B)
  <2>1. B \subseteq 1..Len(e) /\ Len(e) \in Int
    BY <1>1, TextIs DEF LikeLines
  <2>2. IsFiniteSet(1..Len(e))
    BY <2>1, FS_Interval
  <2> HIDE DEF B
  <2> QED
    BY <2>1, <2>2, FS_Subset
<1> HIDE DEF A, B, From
<1>5. \A i \in A : from[i] \in B /\ From(i, from[i])
  BY <1>2
<1>6. from \in Injection(A, B)
  <2>1. from \in [A -> B]
    BY <1>5
  <2>2. \A i, k \in A : from[i] = from[k] => i = k
    BY <1>3, <1>5 DEF From
  <2> QED
    BY <2>1, <2>2 DEF Injection, IsInjective
<1>7. Cardinality(A) <= Cardinality(B)
  BY <1>4, <1>6, FS_Injection
<1> QED
  BY <1>7 DEF A, B

\* config.go:76-92, 163-203: however forms are edited and saves interleave, a
\* placeholder gets a key of its own directive and no key is handed out twice.
THEOREM KeysInRole == Spec => KeysStayInRole
<1>1. ASSUME Inv, NEW u \in Users, postWGConfig(u)
      PROVE  RestoresInRole(form[u])
  <2>1. form[u] \in Text /\ file' = Merged(form[u])
    BY <1>1 DEF postWGConfig, Inv, TypeOK
  <2>2. CASE Contents = <<>>
    BY <2>1, <2>2 DEF Merged, RestoresInRole
  <2>3. CASE Contents # <<>>
    <3>1. Contents \in Text /\ scanned(Contents) = Len(Contents)
      BY <1>1, <2>3, ValidIs DEF Contents, Inv, TypeOK, Accepted
    <3>2. file' = MergeRedactedConfig(Contents, form[u])
      BY <2>1, <2>3 DEF Merged
    <3>3. DOMAIN file' = 1..Len(file') /\ DOMAIN Contents = 1..Len(Contents)
      BY <2>1, <3>1, <3>2, MergedIs, TextIs
    <3>4. ASSUME NEW i \in DOMAIN file', file'[i].val # form[u][i].val
          PROVE  /\ form[u][i].val = Redacted
                 /\ LikeLines(Contents, DOMAIN Contents, directive(file', i), file'[i].val) # {}
      <4> DEFINE f == MergeRedactedConfig(Contents, form[u])
      <4>1. i \in 1..Len(f) /\ f[i].val # form[u][i].val
        BY <3>2, <3>3, <3>4
      <4>2. /\ form[u][i].val = Redacted
            /\ \E j \in 1..Len(Contents) :
                 /\ Contents[j].kind = "directive" /\ directive(Contents, j) = directive(f, i)
                 /\ Contents[j].val = f[i].val
        BY <2>1, <3>1, <4>1, RestoredFrom
      <4> HIDE DEF f
      <4>3. file' = f
        BY <3>2 DEF f
      <4> QED
        BY <3>3, <4>2, <4>3 DEF LikeLines
    <3>5. \A d, v : LET R == {i \in DOMAIN file' : file'[i].val # form[u][i].val}
                   IN  Cardinality(LikeLines(file', R, d, v))
                         <= Cardinality(LikeLines(Contents, DOMAIN Contents, d, v))
      BY <2>1, <3>1, <3>2, RestoredOnce
    <3> QED
      BY <3>4, <3>5, Zenon DEF RestoresInRole
  <2> QED
    BY <2>2, <2>3
<1>2. Inv /\ [Next]_vars => [\A u \in Users : postWGConfig(u) => RestoresInRole(form[u])]_vars
  BY <1>1
<1> QED
  BY <1>2, Invariance, PTL DEF Spec, KeysStayInRole

============================================================================
