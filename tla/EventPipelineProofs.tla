-------------------------- MODULE EventPipelineProofs --------------------------
(* What holds of the outbox and of the lane, in the pipeline they are part of, *)
(* for any number of rows, sizes and limits, and number of things that go      *)
(* wrong.                                                                      *)
EXTENDS EventPipeline, WellFoundedInduction, TLAPS

(***************************************************************************)
(* The lane: its inductive invariant                                       *)
(***************************************************************************)
Rising(x) == \A i, j \in 1..Len(x) : i < j => x[i] < x[j]
Older(X, Y) == \A e \in X, f \in Y : e < f

Batch == Members(posting)
Rest  == Members(buffer)

\* What is posted is older than what is buffered.
Sorted == Rising(posting) /\ Rising(buffer) /\ Older(Batch, Rest)

\* What is dropped is older than what is buffered.  It may be newer than a batch
\* that is posted meanwhile, but then the buffer is full: the batch, put back, is
\* dropped as well.
Dropped ==
    /\ Older(trimmed, Rest)
    /\ Older(trimmed, Batch) \/ Len(buffer) = MaxBuffered

Fates ==
    /\ Batch \cup Rest \cup delivered \cup refused \cup trimmed = Envelopes
    /\ (Batch \cup Rest) \cap (delivered \cup refused \cup trimmed) = {}
    /\ delivered \cap refused = {} /\ (delivered \cup refused) \cap trimmed = {}

LaneInv == LaneTypeOK /\ Sorted /\ Dropped /\ Fates /\ NeverStranded

(***************************************************************************)
(* Sequences                                                               *)
(***************************************************************************)
\* The numbers of a set that is not empty have a least one.
LEMMA LeastExists ==
    ASSUME NEW B \in SUBSET Nat, B # {}
    PROVE  \E n \in B : \A m \in B : n <= m
<1> DEFINE Before == {ss \in Nat \X Nat : ss[1] < ss[2]}
<1>1. IsWellFoundedOn(Before, Nat)
  BY NatLessThanWellFounded DEF OpToRel
<1> HIDE DEF Before
<1>2. PICK n \in B : \A m \in B : ~(<<m, n>> \in Before)
  BY <1>1, WFMin, Zenon
<1>3. \A m \in B : ~(m < n)
  BY <1>2 DEF Before
<1> QED
  BY <1>3

\* The first n members of a sequence, or all of them, and the rest.
Least2(m, n) == IF m < n THEN m ELSE n

LEMMA SplitIs ==
    ASSUME NEW S, NEW x \in Seq(S), NEW n \in Nat
    PROVE  LET k == Least2(n, Len(x))
           IN  /\ k \in 0..Len(x)
               /\ First(x, n) \in Seq(S) /\ Len(First(x, n)) = k
               /\ \A i \in 1..k : First(x, n)[i] = x[i]
               /\ After(x, n) \in Seq(S) /\ Len(After(x, n)) = Len(x) - k
               /\ \A i \in 1..(Len(x) - k) : After(x, n)[i] = x[i + k]
<1> DEFINE k == Least2(n, Len(x))
<1> USE DEF Least2
<1>1. k \in 0..Len(x) /\ Len(x) \in Nat
  OBVIOUS
<1>2. First(x, n) = SubSeq(x, 1, k)
  BY DEF First
<1>3. First(x, n) \in Seq(S) /\ Len(First(x, n)) = k
      /\ \A i \in 1..k : First(x, n)[i] = x[i]
  <2> HIDE DEF k
  <2> QED
    BY <1>1, <1>2
<1>4. /\ After(x, n) \in Seq(S) /\ Len(After(x, n)) = Len(x) - k
      /\ \A i \in 1..(Len(x) - k) : After(x, n)[i] = x[i + k]
  <2>1. CASE n < Len(x)
    BY <2>1 DEF After
  <2>2. CASE ~(n < Len(x))
    BY <2>2 DEF After
  <2> QED
    BY <2>1, <2>2
<1> QED
  BY <1>1, <1>3, <1>4

\* Splitting a sequence that rises: nothing is lost, and what comes first is below
\* what comes after.
LEMMA SplitRises ==
    ASSUME NEW S \in SUBSET Nat, NEW x \in Seq(S), NEW n \in Nat, Rising(x)
    PROVE  /\ Rising(First(x, n)) /\ Rising(After(x, n))
           /\ Members(First(x, n)) \cup Members(After(x, n)) = Members(x)
           /\ Older(Members(First(x, n)), Members(After(x, n)))
<1> DEFINE f == First(x, n)
           a == After(x, n)
           k == Least2(n, Len(x))
<1>1. /\ k \in 0..Len(x)
      /\ Len(f) = k /\ \A i \in 1..k : f[i] = x[i]
      /\ Len(a) = Len(x) - k /\ \A i \in 1..(Len(x) - k) : a[i] = x[i + k]
  BY SplitIs
<1>2. Len(x) \in Nat
  OBVIOUS
<1> HIDE DEF f, a, k
<1>3. Rising(f)
  BY <1>1, <1>2 DEF Rising
<1>4. \A i \in 1..Len(a) : i + k \in 1..Len(x) /\ a[i] = x[i + k] /\ k < i + k
  BY <1>1, <1>2
<1>5. Rising(a)
  <2> SUFFICES ASSUME NEW i \in 1..Len(a), NEW j \in 1..Len(a), i < j PROVE a[i] < a[j]
    BY DEF Rising
  <2>1. i + k < j + k
    BY <1>1, <1>2
  <2> QED
    BY <1>4, <2>1 DEF Rising
<1>6. Older(Members(f), Members(a))
  <2> SUFFICES ASSUME NEW i \in 1..Len(f), NEW j \in 1..Len(a) PROVE f[i] < a[j]
    BY DEF Older, Members
  <2>1. i \in 1..Len(x) /\ i < j + k /\ f[i] = x[i]
    BY <1>1, <1>2
  <2> QED
    BY <1>4, <2>1 DEF Rising
<1>7. Members(f) \subseteq Members(x) /\ Members(a) \subseteq Members(x)
  <2>1. \A i \in 1..Len(f) : i \in 1..Len(x) /\ f[i] = x[i]
    BY <1>1, <1>2
  <2>2. Members(f) \subseteq Members(x)
    BY <2>1 DEF Members
  <2>3. Members(a) \subseteq Members(x)
    BY <1>4 DEF Members
  <2> QED
    BY <2>2, <2>3
<1>8. Members(x) \subseteq Members(f) \cup Members(a)
  <2> SUFFICES ASSUME NEW i \in 1..Len(x) PROVE x[i] \in Members(f) \cup Members(a)
    BY DEF Members
  <2>1. CASE i <= k
    <3>1. i \in 1..Len(f) /\ f[i] = x[i]
      BY <1>1, <1>2, <2>1
    <3> QED
      BY <3>1 DEF Members
  <2>2. CASE i > k
    <3>1. i - k \in 1..Len(a) /\ (i - k) + k = i
      BY <1>1, <1>2, <2>2
    <3>2. a[i - k] = x[i]
      BY <1>4, <3>1
    <3> QED
      BY <3>1, <3>2 DEF Members
  <2> QED
    BY <1>1, <1>2, <2>1, <2>2
<1> QED
  BY <1>3, <1>5, <1>6, <1>7, <1>8 DEF f, a

\* Two sequences one behind the other.
LEMMA JoinIs ==
    ASSUME NEW S \in SUBSET Nat, NEW x \in Seq(S), NEW y \in Seq(S)
    PROVE  /\ x \o y \in Seq(S) /\ Len(x \o y) = Len(x) + Len(y)
           /\ Members(x \o y) = Members(x) \cup Members(y)
           /\ \A i \in 1..Len(y) : (x \o y)[i + Len(x)] = y[i]
           /\ Rising(x) /\ Rising(y) /\ Older(Members(x), Members(y)) => Rising(x \o y)
<1> DEFINE z == x \o y
<1>1. /\ Len(x) \in Nat /\ Len(y) \in Nat
      /\ z \in Seq(S) /\ Len(z) = Len(x) + Len(y)
      /\ \A i \in 1..Len(x) : z[i] = x[i]
      /\ \A i \in (Len(x) + 1)..(Len(x) + Len(y)) : z[i] = y[i - Len(x)]
  OBVIOUS
<1> HIDE DEF z
<1>2. \A i \in 1..Len(z) : \/ i \in 1..Len(x) /\ z[i] = x[i]
                           \/ i - Len(x) \in 1..Len(y) /\ z[i] = y[i - Len(x)] /\ i > Len(x)
  <2> TAKE i \in 1..Len(z)
  <2>1. i \in 1..Len(x) \/ i \in (Len(x) + 1)..(Len(x) + Len(y))
    BY <1>1
  <2>2. CASE i \in 1..Len(x)
    BY <1>1, <2>2
  <2>3. CASE i \in (Len(x) + 1)..(Len(x) + Len(y))
    <3>1. z[i] = y[i - Len(x)]
      BY <1>1, <2>3
    <3>2. i - Len(x) \in 1..Len(y) /\ i > Len(x)
      <4> HIDE <1>1
      <4>1. Len(x) \in Nat /\ Len(y) \in Nat
        BY <1>1
      <4> QED
        BY <2>3, <4>1
    <3> QED
      BY <3>1, <3>2
  <2> QED
    BY <2>1, <2>2, <2>3
<1>3. \A i \in 1..Len(y) : i + Len(x) \in 1..Len(z) /\ z[i + Len(x)] = y[i]
  <2> TAKE i \in 1..Len(y)
  <2>1. /\ i + Len(x) \in (Len(x) + 1)..(Len(x) + Len(y)) /\ (i + Len(x)) - Len(x) = i
        /\ i + Len(x) \in 1..Len(z)
    <3>1. Len(x) \in Nat /\ Len(y) \in Nat /\ Len(z) = Len(x) + Len(y)
      BY <1>1
    <3> QED
      BY <3>1
  <2> QED
    BY <1>1, <2>1
<1>4. \A i \in 1..Len(x) : i \in 1..Len(z) /\ z[i] = x[i]
  BY <1>1
<1>5. Members(z) = Members(x) \cup Members(y)
  <2>1. Members(z) \subseteq Members(x) \cup Members(y)
    BY <1>2 DEF Members
  <2>2. Members(x) \cup Members(y) \subseteq Members(z)
    BY <1>3, <1>4 DEF Members
  <2> QED
    BY <2>1, <2>2
<1>6. ASSUME Rising(x), Rising(y), Older(Members(x), Members(y))
      PROVE  Rising(z)
  <2> SUFFICES ASSUME NEW i \in 1..Len(z), NEW j \in 1..Len(z), i < j PROVE z[i] < z[j]
    BY DEF Rising
  <2>1. CASE i \in 1..Len(x) /\ j \in 1..Len(x)
    BY <1>4, <1>6, <2>1 DEF Rising
  <2>2. CASE i \in 1..Len(x) /\ j - Len(x) \in 1..Len(y) /\ z[j] = y[j - Len(x)]
    <3>1. x[i] \in Members(x) /\ y[j - Len(x)] \in Members(y)
      BY <2>2 DEF Members
    <3> QED
      BY <1>4, <1>6, <2>2, <3>1 DEF Older
  <2>3. CASE /\ i - Len(x) \in 1..Len(y) /\ z[i] = y[i - Len(x)]
             /\ j - Len(x) \in 1..Len(y) /\ z[j] = y[j - Len(x)]
    <3>1. i - Len(x) < j - Len(x)
      BY <1>1
    <3> QED
      BY <1>6, <2>3, <3>1 DEF Rising
  <2> QED
    BY <1>1, <1>2, <2>1, <2>2, <2>3
<1> QED
  BY <1>1, <1>3, <1>5, <1>6 DEF z

(***************************************************************************)
(* What moves within the lane                                              *)
(***************************************************************************)
\* What Trim leaves and what it cuts.
LEMMA TrimIs ==
    ASSUME ShippingAssumption, NEW S \in SUBSET Nat, NEW x \in Seq(S), Rising(x), Trim(x)
    PROVE  \E cut \in SUBSET S :
              /\ trimmed' = trimmed \cup cut /\ Members(x) = cut \cup Rest'
              /\ Older(cut, Rest') /\ Rising(buffer')
              /\ buffer' \in Seq(S) /\ Len(buffer') <= MaxBuffered
              /\ Len(x) >= MaxBuffered => Len(buffer') = MaxBuffered
              /\ cut # {} => Len(buffer') = MaxBuffered
              /\ \A i \in 1..Len(buffer') :
                    i + (Len(x) - Len(buffer')) \in 1..Len(x)
                    /\ buffer'[i] = x[i + (Len(x) - Len(buffer'))]
<1> DEFINE k == Excess(x)
           cut == Members(First(x, k))
<1>1. /\ Len(x) \in Nat /\ MaxBuffered \in Nat
      /\ k \in Nat /\ Least2(k, Len(x)) = k
      /\ Len(x) >= MaxBuffered => Len(x) - k = MaxBuffered
      /\ Len(x) - k <= MaxBuffered
      /\ k > 0 => Len(x) - k = MaxBuffered
  BY DEF ShippingAssumption, Excess, Least2
<1>2. buffer' = After(x, k) /\ trimmed' = trimmed \cup cut
  BY DEF Trim
<1> HIDE DEF k
<1>3. /\ k \in 0..Len(x)
      /\ First(x, k) \in Seq(S) /\ Len(First(x, k)) = k
      /\ After(x, k) \in Seq(S) /\ Len(After(x, k)) = Len(x) - k
      /\ \A i \in 1..(Len(x) - k) : After(x, k)[i] = x[i + k]
  <2>1. k \in Nat /\ Least2(k, Len(x)) = k
    BY <1>1
  <2> DEFINE m == Least2(k, Len(x))
  <2>2. /\ m \in 0..Len(x)
        /\ First(x, k) \in Seq(S) /\ Len(First(x, k)) = m
        /\ After(x, k) \in Seq(S) /\ Len(After(x, k)) = Len(x) - m
        /\ \A i \in 1..(Len(x) - m) : After(x, k)[i] = x[i + m]
    BY <2>1, SplitIs
  <2>3. m = k
    BY <2>1
  <2> HIDE DEF m
  <2> QED
    BY <2>2, <2>3
<1>4. /\ Rising(buffer') /\ Members(x) = cut \cup Rest' /\ Older(cut, Rest')
  BY <1>1, <1>2, SplitRises DEF Rest
<1>5. cut \in SUBSET S
  BY <1>3 DEF Members
<1>6. cut # {} => k > 0
  BY <1>3 DEF Members
<1>7. \A i \in 1..Len(buffer') :
         i + (Len(x) - Len(buffer')) \in 1..Len(x) /\ buffer'[i] = x[i + (Len(x) - Len(buffer'))]
  <2>1. Len(x) - Len(buffer') = k
    BY <1>1, <1>2, <1>3
  <2>2. \A i \in 1..Len(buffer') : i + k \in 1..Len(x) /\ buffer'[i] = x[i + k]
    BY <1>1, <1>2, <1>3
  <2> QED
    BY <2>1, <2>2
<1>8. Len(buffer') = Len(x) - k
  BY <1>2, <1>3
<1> HIDE DEF cut
<1>9. /\ Len(buffer') <= MaxBuffered
      /\ Len(x) >= MaxBuffered => Len(buffer') = MaxBuffered
      /\ cut # {} => Len(buffer') = MaxBuffered
  BY <1>1, <1>6, <1>8
<1> QED
  BY <1>2, <1>3, <1>4, <1>5, <1>7, <1>9

\* What PumpOn posts and what it leaves: all of the sequence, in its order.
LEMMA PumpOnIs ==
    ASSUME ShippingAssumption, NEW S \in SUBSET Nat, NEW x \in Seq(S), Rising(x), PumpOn(x)
    PROVE  /\ buffer' \in Seq(S) /\ posting' \in Seq(S)
           /\ Len(buffer') <= Len(x) /\ Len(posting') <= MaxPost
           /\ Sorted' /\ Batch' \cup Rest' = Members(x)
           /\ pump' \in {"idle", "posting"} /\ answering' = FALSE
           /\ (posting' # << >>) = (pump' = "posting")
           /\ pump' = "idle" => phase = "aborted" \/ buffer' = << >>
           /\ Len(x) <= MaxPost => phase = "aborted" \/ buffer' = << >>
<1>1. Len(x) \in Nat /\ MaxPost \in Nat /\ MaxPost > 0
  BY DEF ShippingAssumption
<1>2. CASE x = << >> \/ phase = "aborted"
  <2>1. /\ pump' = "idle" /\ posting' = << >> /\ buffer' = x /\ answering' = FALSE
    BY <1>2 DEF PumpOn
  <2>2. << >> \in Seq(S) /\ Len(<< >>) = 0 /\ Members(<< >>) = {} /\ Rising(<< >>)
    BY DEF Members, Rising
  <2> QED
    BY <1>1, <1>2, <2>1, <2>2 DEF Sorted, Older, Batch, Rest
<1>3. CASE ~(x = << >> \/ phase = "aborted")
  <2>1. /\ pump' = "posting" /\ posting' = First(x, MaxPost) /\ buffer' = After(x, MaxPost)
        /\ answering' = FALSE
    BY <1>3 DEF PumpOn
  <2> DEFINE k == Least2(MaxPost, Len(x))
  <2>2. Len(x) > 0
    BY <1>3
  <2>3. k \in Nat \ {0} /\ k <= MaxPost /\ (Len(x) <= MaxPost => k = Len(x))
    BY <1>1, <2>2 DEF Least2
  <2> HIDE DEF k
  <2>4. /\ posting' \in Seq(S) /\ Len(posting') = k
        /\ buffer' \in Seq(S) /\ Len(buffer') = Len(x) - k
    BY <1>1, <2>1, SplitIs DEF k
  <2>5. Sorted' /\ Batch' \cup Rest' = Members(x)
    BY <1>1, <2>1, SplitRises DEF Sorted, Batch, Rest
  <2>6. posting' # << >>
    BY <2>3, <2>4
  <2>7. Len(x) <= MaxPost => buffer' = << >>
    BY <1>1, <2>3, <2>4
  <2> QED
    BY <1>1, <2>1, <2>3, <2>4, <2>5, <2>6, <2>7
<1> QED
  BY <1>2, <1>3

(***************************************************************************)
(* The steps of the lane                                                   *)
(***************************************************************************)
LEMMA LaneInitially ==
    ASSUME ShippingAssumption, ShippingInit
    PROVE  LaneInv
<1>1. << >> \in Seq(Envelopes) /\ Len(<< >>) = 0
  OBVIOUS
<1>2. Envelopes = {} /\ Batch = {} /\ Rest = {}
  BY DEF ShippingInit, Envelopes, Batch, Rest, Members
<1>3. LaneTypeOK
  <2>1. /\ buffer = << >> /\ posting = << >> /\ pump = "idle" /\ answering = FALSE
        /\ phase = "running" /\ delivered \cup refused \cup trimmed = {}
    BY DEF ShippingInit
  <2>2. Len(buffer) <= MaxBuffered /\ Len(posting) <= MaxPost
    BY <1>1, <2>1 DEF ShippingAssumption
  <2> QED
    BY <1>1, <2>1, <2>2 DEF LaneTypeOK
<1>4. Sorted /\ Dropped
  BY <1>2 DEF ShippingInit, Sorted, Dropped, Rising, Older
<1>5. Fates /\ NeverStranded
  BY <1>2 DEF ShippingInit, Fates, NeverStranded
<1> QED
  BY <1>3, <1>4, <1>5 DEF LaneInv

\* The lane's envelopes are numbers, and what is posted is not buffered.
LEMMA LaneFacts ==
    ASSUME NEW Events, log \in Seq(Events), LaneInv
    PROVE  /\ Envelopes \in SUBSET Nat /\ Batch \in SUBSET Envelopes /\ Rest \in SUBSET Envelopes
           /\ Batch \cap Rest = {} /\ trimmed \in SUBSET Envelopes
           /\ (pump # "posting" => posting = << >> /\ Batch = {})
<1>1. Envelopes \in SUBSET Nat
  BY DEF Envelopes
<1>2. /\ Batch \in SUBSET Envelopes /\ Rest \in SUBSET Envelopes
      /\ trimmed \in SUBSET Envelopes
  BY DEF LaneInv, LaneTypeOK, Batch, Rest, Members
<1>3. Batch \cap Rest = {}
  <2> SUFFICES ASSUME NEW e \in Batch, e \in Rest PROVE FALSE
    OBVIOUS
  <2>1. e < e /\ e \in Nat
    BY <1>1, <1>2 DEF LaneInv, Sorted, Older
  <2> QED
    BY <2>1
<1>4. pump # "posting" => posting = << >> /\ Batch = {}
  BY DEF LaneInv, LaneTypeOK, Batch, Members
<1> QED
  BY <1>1, <1>2, <1>3, <1>4

\* The lane once the posted batch has left it, if there was one, and the pump
\* goes on with what is buffered.
LEMMA PumpGoesOn ==
    ASSUME ShippingAssumption, NEW Events, log \in Seq(Events), LaneInv,
           PumpOn(buffer), UNCHANGED <<log, trimmed, phase>>,
           delivered' \cup refused' = delivered \cup refused \cup Batch,
           delivered' \cap refused' = {}
    PROVE  LaneInv'
<1>1. /\ Envelopes \in SUBSET Nat /\ Batch \in SUBSET Envelopes /\ Rest \in SUBSET Envelopes
      /\ Batch \cap Rest = {} /\ trimmed \in SUBSET Envelopes
  BY LaneFacts
<1>2. /\ buffer \in Seq(Envelopes) /\ Len(buffer) \in Nat /\ Len(buffer) <= MaxBuffered
      /\ Rising(buffer) /\ MaxBuffered \in Nat
  BY DEF LaneInv, LaneTypeOK, Sorted, ShippingAssumption
<1>3. /\ buffer' \in Seq(Envelopes) /\ posting' \in Seq(Envelopes)
      /\ Len(buffer') <= Len(buffer) /\ Len(posting') <= MaxPost
      /\ Sorted' /\ Batch' \cup Rest' = Rest
      /\ pump' \in {"idle", "posting"} /\ answering' = FALSE
      /\ (posting' # << >>) = (pump' = "posting")
      /\ pump' = "idle" => phase = "aborted" \/ buffer' = << >>
  BY <1>1, <1>2, PumpOnIs DEF Rest
<1>4. Envelopes' = Envelopes
  BY DEF Envelopes
<1>5. Len(buffer') <= MaxBuffered
  <2>1. Len(buffer') \in Nat
    BY <1>3
  <2> QED
    BY <1>2, <1>3, <2>1
<1>6. LaneTypeOK'
  BY <1>1, <1>3, <1>4, <1>5 DEF LaneInv, LaneTypeOK
<1>7. Dropped'
  BY <1>3 DEF LaneInv, Dropped, Older
<1>8. Fates'
  BY <1>1, <1>3, <1>4 DEF LaneInv, Fates
<1>9. NeverStranded'
  BY <1>3 DEF NeverStranded
<1> QED
  BY <1>3, <1>6, <1>7, <1>8, <1>9 DEF LaneInv

\* A shipping while the pump is busy: what is dropped for it is the oldest of the
\* buffer, and the buffer is full then.
LEMMA ShipBehind ==
    ASSUME ShippingAssumption, NEW Events, log \in Seq(Events), NEW event \in Events, LaneInv,
           Ship(event), phase = "running", pump # "idle"
    PROVE  LaneInv'
<1> DEFINE e == Len(log) + 1
           x == Append(buffer, e)
<1>1. /\ log' = Append(log, event) /\ Trim(x)
      /\ UNCHANGED <<posting, pump, answering, delivered, refused, phase>>
  BY DEF Ship
<1>2. /\ Envelopes \in SUBSET Nat /\ Batch \in SUBSET Envelopes /\ Rest \in SUBSET Envelopes
      /\ Batch \cap Rest = {} /\ trimmed \in SUBSET Envelopes
  BY LaneFacts
<1>3. /\ e \in Nat /\ Envelopes' = Envelopes \cup {e} /\ Envelopes' \in SUBSET Nat
      /\ \A f \in Envelopes : f < e
  <2>1. Len(log) \in Nat /\ Len(log') = Len(log) + 1
    BY <1>1
  <2> QED
    BY <2>1 DEF Envelopes
<1>4. /\ buffer \in Seq(Envelopes) /\ posting \in Seq(Envelopes)
      /\ Len(buffer) \in Nat /\ Rising(buffer) /\ MaxBuffered \in Nat
      /\ Len(buffer) <= MaxBuffered
  BY DEF LaneInv, LaneTypeOK, Sorted, ShippingAssumption
<1> HIDE DEF e
<1>5. /\ x \in Seq(Envelopes') /\ Len(x) = Len(buffer) + 1
      /\ Members(x) = Rest \cup {e} /\ Rising(x)
  <2>1. \A i \in 1..Len(buffer) : buffer[i] \in Envelopes
    BY <1>4
  <2>2. /\ x \in Seq(Envelopes') /\ Len(x) = Len(buffer) + 1
        /\ \A i \in 1..Len(buffer) : x[i] = buffer[i]
        /\ x[Len(buffer) + 1] = e
    BY <1>3, <1>4
  <2> HIDE DEF x
  <2>3. \A i \in 1..Len(x) : i \in 1..Len(buffer) \/ i = Len(buffer) + 1
    BY <1>4, <2>2
  <2>4. Rising(x)
    <3> SUFFICES ASSUME NEW i \in 1..Len(x), NEW j \in 1..Len(x), i < j PROVE x[i] < x[j]
      BY DEF Rising
    <3>1. i \in 1..Len(buffer) /\ x[i] = buffer[i]
      BY <1>4, <2>2
    <3>2. CASE j \in 1..Len(buffer)
      BY <1>4, <2>2, <3>1, <3>2 DEF Rising
    <3>3. CASE j = Len(buffer) + 1
      BY <1>3, <2>1, <2>2, <3>1, <3>3
    <3> QED
      BY <2>3, <3>2, <3>3
  <2>5. Members(x) = Rest \cup {e}
    <3>1. Members(x) \subseteq Rest \cup {e}
      BY <2>2, <2>3 DEF Members, Rest
    <3>2. Len(buffer) + 1 \in 1..Len(x) /\ 1..Len(buffer) \subseteq 1..Len(x)
      BY <1>4, <2>2
    <3>3. Rest \cup {e} \subseteq Members(x)
      BY <2>2, <3>2 DEF Members, Rest
    <3> QED
      BY <3>1, <3>3
  <2> QED
    BY <2>2, <2>4, <2>5
<1> HIDE DEF x
<1>6. PICK cut \in SUBSET Envelopes' :
         /\ trimmed' = trimmed \cup cut /\ Rest \cup {e} = cut \cup Rest'
         /\ Older(cut, Rest') /\ Rising(buffer')
         /\ buffer' \in Seq(Envelopes') /\ Len(buffer') <= MaxBuffered
         /\ Len(x) >= MaxBuffered => Len(buffer') = MaxBuffered
         /\ cut # {} => Len(buffer') = MaxBuffered
  <2>1. Trim(x) /\ Rising(x) /\ x \in Seq(Envelopes') /\ Envelopes' \in SUBSET Nat
    BY <1>1, <1>3, <1>5
  <2> DEFINE S == Envelopes'
  <2>2. S \in SUBSET Nat /\ x \in Seq(S)
    BY <2>1
  <2> HIDE DEF S
  <2>3. \E cut \in SUBSET S :
           /\ trimmed' = trimmed \cup cut /\ Members(x) = cut \cup Rest'
           /\ Older(cut, Rest') /\ Rising(buffer')
           /\ buffer' \in Seq(S) /\ Len(buffer') <= MaxBuffered
           /\ Len(x) >= MaxBuffered => Len(buffer') = MaxBuffered
           /\ cut # {} => Len(buffer') = MaxBuffered
    BY <2>1, <2>2, TrimIs
  <2> QED
    BY <1>5, <2>3 DEF S
<1>7. Batch' = Batch
  BY <1>1 DEF Batch
<1>8. \A f \in cut, g \in Rest' : f < g /\ f # g
  BY <1>3, <1>6 DEF Older
<1>9. posting' \in Seq(Envelopes')
  <2>1. posting \in Seq(Envelopes \cup {e})
    <3> HIDE DEF e
    <3> QED
      BY <1>4
  <2> QED
    BY <1>1, <1>3, <2>1
<1>10. LaneTypeOK'
  BY <1>1, <1>3, <1>6, <1>9 DEF LaneInv, LaneTypeOK
<1>11. Sorted'
  BY <1>1, <1>2, <1>3, <1>6, <1>7 DEF LaneInv, Sorted, Older
<1>12. Dropped'
  <2>1. Older(trimmed', Rest')
    BY <1>2, <1>3, <1>6 DEF LaneInv, Dropped, Older
  <2>2. CASE Len(buffer') = MaxBuffered
    BY <2>1, <2>2 DEF Dropped
  <2>3. CASE Len(buffer') # MaxBuffered
    <3>1. cut = {} /\ Len(buffer) # MaxBuffered
      BY <1>4, <1>5, <1>6, <2>3
    <3>2. Older(trimmed', Batch')
      BY <1>6, <1>7, <3>1 DEF LaneInv, Dropped
    <3> QED
      BY <2>1, <3>2 DEF Dropped
  <2> QED
    BY <2>2, <2>3
<1>13. Fates'
  <2>1. e \notin Envelopes
    BY <1>3
  <2>2. cut \cap Rest' = {}
    BY <1>8
  <2> QED
    <3>1. Fates /\ delivered' = delivered /\ refused' = refused
      BY <1>1 DEF LaneInv
    <3>2. delivered \cup refused \subseteq Envelopes
      BY DEF LaneInv, LaneTypeOK
    <3>3. Batch \cap cut = {}
      BY <1>2, <1>6, <2>1
    <3>4. Batch' \cup Rest' \cup delivered' \cup refused' \cup trimmed' = Envelopes'
      BY <1>3, <1>6, <1>7, <3>1 DEF Fates
    <3>5. (delivered' \cup refused') \cap trimmed' = {}
      BY <1>6, <2>1, <3>1, <3>2 DEF Fates
    <3>6. (Batch' \cup Rest') \cap (delivered' \cup refused') = {}
      BY <1>6, <1>7, <2>1, <3>1, <3>2 DEF Fates
    <3>7. (Batch' \cup Rest') \cap trimmed' = {}
      BY <1>2, <1>6, <1>7, <2>1, <2>2, <3>1, <3>3 DEF Fates
    <3> QED
      BY <3>1, <3>4, <3>5, <3>6, <3>7 DEF Fates
<1>14. NeverStranded'
  BY <1>1 DEF NeverStranded
<1> QED
  BY <1>10, <1>11, <1>12, <1>13, <1>14 DEF LaneInv

\* A shipping that finds the pump idle, and so the lane empty, is posted.
LEMMA ShipFirst ==
    ASSUME ShippingAssumption, NEW Events, log \in Seq(Events), NEW event \in Events, LaneInv,
           Ship(event), phase = "running", pump = "idle"
    PROVE  LaneInv'
<1> DEFINE e == Len(log) + 1
           x == << e >>
<1>1. buffer = << >> /\ posting = << >>
  BY DEF LaneInv, NeverStranded, LaneTypeOK
<1>2. /\ log' = Append(log, event) /\ PumpOn(x)
      /\ UNCHANGED <<delivered, refused, trimmed, phase>>
  <2>1. Append(<< >>, e) = << e >>
    OBVIOUS
  <2> QED
    BY <1>1, <2>1 DEF Ship
<1>3. /\ e \in Nat /\ Envelopes' = Envelopes \cup {e} /\ Envelopes' \in SUBSET Nat
      /\ \A f \in Envelopes : f < e
  <2>1. Len(log) \in Nat /\ Len(log') = Len(log) + 1
    BY <1>2
  <2> QED
    BY <2>1 DEF Envelopes
<1> HIDE DEF e
<1>4. Batch = {} /\ Rest = {}
  BY <1>1 DEF Batch, Rest, Members
<1>5. /\ x \in Seq(Envelopes') /\ Len(x) = 1 /\ Rising(x) /\ Members(x) = {e}
  <2>1. x \in Seq(Envelopes') /\ Len(x) = 1 /\ x[1] = e
    BY <1>3
  <2> HIDE DEF x
  <2>2. 1..Len(x) = {1}
    BY <2>1
  <2>3. Members(x) = {e}
    BY <2>1, <2>2 DEF Members
  <2>4. Rising(x)
    BY <2>2 DEF Rising
  <2> QED
    BY <2>1, <2>3, <2>4
<1> HIDE DEF x
<1>6. MaxPost \in Nat /\ MaxBuffered \in Nat /\ 1 <= MaxPost /\ 1 <= MaxBuffered
  BY DEF ShippingAssumption
<1>7. /\ buffer' \in Seq(Envelopes') /\ posting' \in Seq(Envelopes')
      /\ Len(buffer') <= 1 /\ Len(posting') <= MaxPost
      /\ Sorted' /\ Batch' \cup Rest' = {e}
      /\ pump' \in {"idle", "posting"} /\ answering' = FALSE
      /\ (posting' # << >>) = (pump' = "posting")
      /\ buffer' = << >>
  <2> DEFINE S == Envelopes'
  <2>1. S \in SUBSET Nat /\ x \in Seq(S)
    BY <1>3, <1>5
  <2> HIDE DEF S
  <2>2. /\ buffer' \in Seq(S) /\ posting' \in Seq(S)
        /\ Len(buffer') <= Len(x) /\ Len(posting') <= MaxPost
        /\ Sorted' /\ Batch' \cup Rest' = Members(x)
        /\ pump' \in {"idle", "posting"} /\ answering' = FALSE
        /\ (posting' # << >>) = (pump' = "posting")
        /\ Len(x) <= MaxPost => phase = "aborted" \/ buffer' = << >>
    BY <1>2, <1>5, <2>1, PumpOnIs
  <2> QED
    BY <1>5, <1>6, <2>2 DEF S
<1>8. LaneTypeOK'
  <2>1. Len(buffer') <= MaxBuffered
    BY <1>6, <1>7
  <2> QED
    BY <1>2, <1>3, <1>7, <2>1 DEF LaneInv, LaneTypeOK
<1>9. Dropped'
  <2>1. \A f \in trimmed' : f < e
    BY <1>2, <1>3 DEF LaneInv, LaneTypeOK
  <2> QED
    BY <1>7, <2>1 DEF Dropped, Older
<1>10. Fates'
  <2>1. e \notin Envelopes
    BY <1>3
  <2>2. Fates /\ delivered \cup refused \cup trimmed \subseteq Envelopes
    BY DEF LaneInv, LaneTypeOK
  <2> QED
    BY <1>2, <1>3, <1>4, <1>7, <2>1, <2>2 DEF Fates
<1>11. NeverStranded'
  BY <1>7 DEF NeverStranded
<1> QED
  BY <1>7, <1>8, <1>9, <1>10, <1>11 DEF LaneInv

\* A POST that failed: the batch is again in front of the buffer, and what no
\* longer fits is dropped from the front.
LEMMA FailsKeeps ==
    ASSUME ShippingAssumption, NEW Events, log \in Seq(Events), LaneInv, Fails
    PROVE  LaneInv'
<1> DEFINE x == posting \o buffer
<1>1. /\ Trim(x) /\ UNCHANGED <<log, delivered, refused, phase>>
      /\ posting' = << >> /\ pump' = "backoff" /\ answering' = FALSE
  BY DEF Fails, Unshift
<1>2. /\ Envelopes \in SUBSET Nat /\ Batch \in SUBSET Envelopes /\ Rest \in SUBSET Envelopes
      /\ Batch \cap Rest = {} /\ trimmed \in SUBSET Envelopes
  BY LaneFacts
<1>3. /\ buffer \in Seq(Envelopes) /\ posting \in Seq(Envelopes)
      /\ Len(buffer) \in Nat /\ Len(posting) \in Nat /\ MaxBuffered \in Nat
      /\ Rising(posting) /\ Rising(buffer) /\ Older(Batch, Rest)
  BY DEF LaneInv, LaneTypeOK, Sorted, ShippingAssumption
<1>4. /\ x \in Seq(Envelopes) /\ Len(x) = Len(posting) + Len(buffer)
      /\ Members(x) = Batch \cup Rest /\ Rising(x)
      /\ \A i \in 1..Len(buffer) : x[i + Len(posting)] = buffer[i]
  BY <1>2, <1>3, JoinIs DEF Batch, Rest
<1> HIDE DEF x
<1>5. PICK cut \in SUBSET Envelopes :
         /\ trimmed' = trimmed \cup cut /\ Batch \cup Rest = cut \cup Rest'
         /\ Older(cut, Rest') /\ Rising(buffer')
         /\ buffer' \in Seq(Envelopes) /\ Len(buffer') <= MaxBuffered
         /\ Len(x) >= MaxBuffered => Len(buffer') = MaxBuffered
         /\ \A i \in 1..Len(buffer') :
               i + (Len(x) - Len(buffer')) \in 1..Len(x)
               /\ buffer'[i] = x[i + (Len(x) - Len(buffer'))]
  BY <1>1, <1>2, <1>4, TrimIs
<1>6. Envelopes' = Envelopes /\ Batch' = {}
  BY <1>1 DEF Envelopes, Batch, Members
<1>7. LaneTypeOK'
  <2>1. << >> \in Seq(Envelopes) /\ Len(<< >>) = 0 /\ 0 <= MaxPost
    BY DEF ShippingAssumption
  <2>2. delivered' \cup refused' \cup trimmed' \subseteq Envelopes'
    BY <1>1, <1>5, <1>6 DEF LaneInv, LaneTypeOK
  <2> QED
    BY <1>1, <1>5, <1>6, <2>1, <2>2 DEF LaneInv, LaneTypeOK
<1>8. Sorted'
  BY <1>1, <1>5, <1>6 DEF Sorted, Rising, Older
<1>9. Dropped'
  <2>1. Older(trimmed, Rest')
    <3>1. CASE Older(trimmed, Batch)
      BY <1>5, <3>1 DEF LaneInv, Dropped, Older
    <3>2. CASE Len(buffer) = MaxBuffered
      <4>1. Len(buffer') = Len(buffer) /\ Len(x) - Len(buffer') = Len(posting)
        <5>1. Len(x) >= MaxBuffered /\ Len(buffer') = MaxBuffered
          BY <1>3, <1>4, <1>5, <3>2
        <5> QED
          BY <1>3, <1>4, <3>2, <5>1
      <4>2. \A i \in 1..Len(buffer') : i \in 1..Len(buffer) /\ buffer'[i] = buffer[i]
        BY <1>4, <1>5, <4>1
      <4>3. Rest' \subseteq Rest
        BY <4>2 DEF Rest, Members
      <4> QED
        BY <4>3 DEF LaneInv, Dropped, Older
    <3> QED
      BY <3>1, <3>2 DEF LaneInv, Dropped
  <2>2. Older(trimmed', Rest')
    BY <1>5, <2>1 DEF Older
  <2> QED
    BY <1>6, <2>2 DEF Dropped, Older
<1>10. Fates'
  <2>1. cut \cap Rest' = {}
    <3> SUFFICES ASSUME NEW e \in cut, e \in Rest' PROVE FALSE
      OBVIOUS
    <3>1. e < e /\ e \in Nat
      BY <1>2, <1>5 DEF Older
    <3> QED
      BY <3>1
  <2>2. Fates
    BY DEF LaneInv
  <2>3. cut \cap (delivered \cup refused \cup trimmed) = {}
    BY <1>5, <2>2 DEF Fates
  <2>4. Rest' \cap (delivered \cup refused \cup trimmed) = {}
    BY <1>5, <2>2 DEF Fates
  <2> QED
    BY <1>1, <1>5, <1>6, <2>1, <2>2, <2>3, <2>4 DEF Fates
<1>11. NeverStranded'
  BY <1>1 DEF NeverStranded
<1> QED
  BY <1>7, <1>8, <1>9, <1>10, <1>11 DEF LaneInv

\* One step per action.
LEMMA LaneStep ==
    ASSUME ShippingAssumption, NEW Events, log \in Seq(Events), LaneInv, ShippingStep
    PROVE  LaneInv' /\ log' = log
<1>1. ShippingStep => log' = log
  BY DEF ShippingStep, Pump, Accepted, Refused, Fails, BackoffEnds, DrainEnds, StopReturns,
         TargetHandles, Stop, HandledLate
<1>2. CASE Accepted
  <2>1. /\ PumpOn(buffer) /\ UNCHANGED <<log, trimmed, phase, refused>>
        /\ delivered' = delivered \cup Batch
    BY <1>2 DEF Accepted, Batch
  <2>2. delivered' \cap refused' = {}
    BY <2>1 DEF LaneInv, Fates
  <2> QED
    BY <1>1, <2>1, <2>2, PumpGoesOn
<1>3. CASE Refused
  <2>1. /\ PumpOn(buffer) /\ UNCHANGED <<log, trimmed, phase, delivered>>
        /\ refused' = refused \cup Batch
    BY <1>3 DEF Refused, Batch
  <2>2. delivered' \cap refused' = {}
    BY <2>1 DEF LaneInv, Fates
  <2> QED
    BY <1>1, <2>1, <2>2, PumpGoesOn
<1>4. CASE Fails
  BY <1>1, <1>4, FailsKeeps
<1>5. CASE BackoffEnds
  <2>1. /\ PumpOn(buffer) /\ UNCHANGED <<log, trimmed, phase, delivered, refused>>
        /\ pump # "posting"
    BY <1>5 DEF BackoffEnds, fateVars
  <2>2. Batch = {} /\ delivered \cap refused = {}
    BY <2>1, LaneFacts DEF LaneInv, Fates
  <2> QED
    BY <1>1, <2>1, <2>2, PumpGoesOn
<1>6. ASSUME UNCHANGED <<log, buffer, posting, pump, delivered, refused, trimmed>>,
             answering' \in BOOLEAN,
             phase' \in {phase, "draining", "aborted", "stopped"},
             phase' \in {"running", "draining"} => phase \in {"running", "draining"}
      PROVE  LaneInv'
  <2>1. Envelopes' = Envelopes /\ Batch' = Batch /\ Rest' = Rest
    BY <1>6 DEF Envelopes, Batch, Rest
  <2>2. LaneTypeOK'
    BY <1>6, <2>1 DEF LaneInv, LaneTypeOK
  <2>3. Sorted' /\ Dropped'
    BY <1>6, <2>1 DEF LaneInv, Sorted, Dropped
  <2>4. Fates' /\ NeverStranded'
    BY <1>6, <2>1 DEF LaneInv, Fates, NeverStranded
  <2> QED
    BY <2>2, <2>3, <2>4 DEF LaneInv
<1>7. answering \in BOOLEAN /\ phase \in {"running", "draining", "aborted", "stopped"}
  BY DEF LaneInv, LaneTypeOK
<1>8. CASE DrainEnds \/ StopReturns \/ Stop
  BY <1>1, <1>6, <1>7, <1>8 DEF DrainEnds, StopReturns, Stop, laneVars, fateVars
<1>9. CASE TargetHandles
  BY <1>1, <1>6, <1>7, <1>9 DEF TargetHandles, fateVars
<1>10. CASE \E s \in late : HandledLate(s)
  BY <1>1, <1>6, <1>7, <1>10 DEF HandledLate, laneVars, fateVars
<1> QED
  BY <1>2, <1>3, <1>4, <1>5, <1>8, <1>9, <1>10 DEF ShippingStep, Pump

\* ship keeps it, whatever it finds the shipper at.
LEMMA LaneShips ==
    ASSUME ShippingAssumption, NEW Events, log \in Seq(Events), NEW event \in Events, LaneInv,
           Ship(event)
    PROVE  LaneInv' /\ log' \in Seq(Events)
<1>1. CASE phase = "running"
  <2>1. log' \in Seq(Events)
    BY <1>1 DEF Ship
  <2> QED
    BY <1>1, <2>1, ShipFirst, ShipBehind
<1>2. CASE phase # "running"
  <2>1. UNCHANGED shippingVars
    BY <1>2 DEF Ship
  <2> QED
    BY <2>1 DEF shippingVars, laneVars, fateVars, LaneInv, LaneTypeOK, Sorted, Dropped, Fates,
                NeverStranded, Envelopes, Batch, Rest
<1> QED
  BY <1>1, <1>2

LEMMA LaneRests ==
    ASSUME LaneInv, UNCHANGED shippingVars
    PROVE  LaneInv'
BY DEF shippingVars, laneVars, fateVars, LaneInv, LaneTypeOK, Sorted, Dropped, Fates,
       NeverStranded, Envelopes, Batch, Rest

\* The invariant is what the lane promises, and more.
LEMMA LaneInvKeeps ==
    ASSUME NEW Events, log \in Seq(Events), LaneInv
    PROVE  LaneKeeps
<1>1. Envelopes \in SUBSET Nat
  BY LaneFacts
<1>2. /\ buffer \in Seq(Envelopes) /\ posting \in Seq(Envelopes)
      /\ Rising(posting) /\ Rising(buffer) /\ Older(Batch, Rest)
  BY DEF LaneInv, LaneTypeOK, Sorted
<1>3. Members(Held) = Batch \cup Rest /\ Rising(Held)
  BY <1>1, <1>2, JoinIs DEF Held, Batch, Rest
<1>4. HeldInOrder
  BY <1>3 DEF HeldInOrder, Rising
<1>5. OneFate
  BY <1>3 DEF LaneInv, Fates, OneFate
<1>6. OldestDropped
  BY DEF LaneInv, Dropped, Older, Rest, Members, OldestDropped
<1> QED
  BY <1>4, <1>5, <1>6 DEF LaneKeeps, LaneInv

(***************************************************************************)
(* What arrives: its inductive invariant                                   *)
(***************************************************************************)
\* What is behind something newer is in G.
BehindIn(x, G) == \A i, j \in 1..Len(x) : i < j /\ x[j] < x[i] => x[j] \in G

Arrived == Members(arrived)
InLane  == Batch \cup Rest

\* What is in the lane arrives before all that is newer, or with it: the target has
\* had every older envelope of the lane once it has had a newer one, or gets them in
\* the same POST, answered or given up on.
ArriveInv ==
    /\ arrived \in Seq(Envelopes)
    /\ \A s \in late : s \in Seq(Envelopes) /\ Rising(s)
    /\ delivered \subseteq Arrived
    /\ answering => Batch \subseteq Arrived
    /\ \A e \in InLane, f \in Arrived : e < f => e \in Arrived
    /\ \A s \in late : \A e \in InLane, f \in Members(s) : e < f => e \in Members(s)
    /\ BehindIn(arrived, refused \cup trimmed)

\* f[i] is what Without keeps of the first i members.
Kept(s, S, f, n) ==
    f = [i \in 0..n |-> IF i = 0 THEN << >>
                        ELSE IF s[i] \in S THEN f[i - 1] ELSE Append(f[i - 1], s[i])]

LEMMA KeptExists ==
    ASSUME NEW s, NEW S, NEW n \in Nat
    PROVE  \E f : Kept(s, S, f, n)
<1> DEFINE None == {m \in Nat : \A f : ~Kept(s, S, f, m)}
<1> SUFFICES ASSUME None # {} PROVE FALSE
  OBVIOUS
<1>1. PICK m \in None : \A k \in None : m <= k
  BY LeastExists
<1>2. CASE m = 0
  <2>1. Kept(s, S, [i \in 0..0 |-> << >>], 0)
    BY DEF Kept
  <2> QED
    BY <1>2, <2>1
<1>3. CASE m # 0
  <2>1. m - 1 \in Nat /\ m - 1 \notin None
    BY <1>1, <1>3
  <2>2. PICK g : Kept(s, S, g, m - 1)
    BY <2>1
  <2> DEFINE f == [i \in 0..m |->
                     IF i = m THEN IF s[m] \in S THEN g[m - 1] ELSE Append(g[m - 1], s[m])
                     ELSE g[i]]
  <2>3. \A i \in 0..(m - 1) : f[i] = g[i]
    OBVIOUS
  <2>4. \A i \in 0..m : f[i] = IF i = 0 THEN << >>
                               ELSE IF s[i] \in S THEN f[i - 1] ELSE Append(f[i - 1], s[i])
    <3> TAKE i \in 0..m
    <3>1. CASE i = m
      BY <1>3, <2>3, <3>1
    <3>2. CASE i # m
      <4>1. i \in 0..(m - 1) /\ (i # 0 => i - 1 \in 0..(m - 1))
        BY <3>2
      <4>2. g[i] = IF i = 0 THEN << >>
                   ELSE IF s[i] \in S THEN g[i - 1] ELSE Append(g[i - 1], s[i])
        BY <2>2, <4>1 DEF Kept
      <4> HIDE DEF f
      <4> QED
        BY <2>3, <4>1, <4>2
    <3> QED
      BY <3>1, <3>2
  <2>5. f = [i \in 0..m |-> f[i]]
    OBVIOUS
  <2> HIDE DEF f
  <2>6. Kept(s, S, f, m)
    BY <2>4, <2>5 DEF Kept
  <2> QED
    BY <2>6
<1> QED
  BY <1>2, <1>3

LEMMA WithoutKeeps ==
    ASSUME NEW s, NEW S, Len(s) \in Nat
    PROVE  \E f : Kept(s, S, f, Len(s)) /\ Without(s, S) = f[Len(s)]
<1> DEFINE F == CHOOSE f : Kept(s, S, f, Len(s))
<1>1. Kept(s, S, F, Len(s))
  BY KeptExists
<1>2. Without(s, S) = F[Len(s)]
  BY DEF Without, Kept
<1> QED
  BY <1>1, <1>2

LEMMA AppendIs ==
    ASSUME NEW A \in SUBSET Nat, NEW s \in Seq(A), Rising(s), NEW e \in A,
           \A f \in Members(s) : f < e
    PROVE  /\ Append(s, e) \in Seq(A)
           /\ Members(Append(s, e)) = Members(s) \cup {e}
           /\ Rising(Append(s, e))
<1>1. << e >> \in Seq(A) /\ Len(<< e >>) = 1 /\ << e >>[1] = e /\ Append(s, e) = s \o << e >>
  OBVIOUS
<1>2. Members(<< e >>) = {e}
  <2>1. 1..Len(<< e >>) = {1}
    BY <1>1
  <2> QED
    BY <1>1, <2>1 DEF Members
<1>3. Rising(<< e >>)
  <2>1. \A i, j \in 1..Len(<< e >>) : ~(i < j)
    BY <1>1
  <2> QED
    BY <2>1 DEF Rising
<1>4. Older(Members(s), Members(<< e >>))
  BY <1>2 DEF Older
<1> DEFINE y == << e >>
<1>5. y \in Seq(A) /\ Rising(y) /\ Members(y) = {e} /\ Older(Members(s), Members(y))
      /\ Append(s, e) = s \o y
  BY <1>1, <1>2, <1>3, <1>4
<1> HIDE DEF y
<1>6. s \o y \in Seq(A) /\ Members(s \o y) = Members(s) \cup Members(y) /\ Rising(s \o y)
  BY <1>5, JoinIs
<1> QED
  BY <1>5, <1>6

\* What t keeps of the first n members of s.
KeepsFirst(s, S, A, t, n) ==
    t \in Seq(A) /\ Members(t) = {s[i] : i \in 1..n} \ S /\ Rising(t)

LEMMA KeptAre ==
    ASSUME NEW A \in SUBSET Nat, NEW s \in Seq(A), Rising(s), NEW S, NEW f, Kept(s, S, f, Len(s))
    PROVE  \A n \in 0..Len(s) : KeepsFirst(s, S, A, f[n], n)
<1> DEFINE Not == {n \in 0..Len(s) : ~KeepsFirst(s, S, A, f[n], n)}
<1> SUFFICES ASSUME Not # {} PROVE FALSE
  OBVIOUS
<1>1. Len(s) \in Nat /\ Not \in SUBSET Nat
  OBVIOUS
<1>2. \A i \in 0..Len(s) : f[i] = IF i = 0 THEN << >>
                                  ELSE IF s[i] \in S THEN f[i - 1] ELSE Append(f[i - 1], s[i])
  BY DEF Kept
<1>3. PICK n \in Not : \A k \in Not : n <= k
  BY <1>1, LeastExists
<1>4. CASE n = 0
  <2>1. 0 \in 0..Len(s)
    BY <1>1
  <2>2. f[0] = << >>
    BY <1>2, <2>1
  <2>3. << >> \in Seq(A) /\ Members(<< >>) = {} /\ Rising(<< >>)
    BY DEF Members, Rising
  <2>4. {s[i] : i \in 1..0} = {}
    OBVIOUS
  <2> QED
    BY <1>4, <2>2, <2>3, <2>4 DEF KeepsFirst
<1>5. CASE n # 0
  <2>1. n \in 1..Len(s) /\ n - 1 \in 0..Len(s) /\ n - 1 \notin Not
    BY <1>3, <1>5
  <2>2. KeepsFirst(s, S, A, f[n - 1], n - 1)
    BY <2>1
  <2>3. f[n] = IF s[n] \in S THEN f[n - 1] ELSE Append(f[n - 1], s[n])
    BY <1>5, <1>2, <2>1
  <2>4. s[n] \in A
    BY <2>1
  <2>5. {s[i] : i \in 1..n} = {s[i] : i \in 1..(n - 1)} \cup {s[n]}
    BY <2>1
  <2>6. \A e \in {s[i] : i \in 1..(n - 1)} : e < s[n]
    BY <2>1 DEF Rising
  <2> DEFINE t == f[n - 1]
  <2>7. t \in Seq(A) /\ Members(t) = {s[i] : i \in 1..(n - 1)} \ S /\ Rising(t)
    BY <2>2 DEF KeepsFirst
  <2> HIDE DEF t
  <2>8. CASE s[n] \in S
    <3>1. f[n] = t
      BY <2>3, <2>8 DEF t
    <3>2. Members(t) = {s[i] : i \in 1..n} \ S
      BY <2>5, <2>7, <2>8
    <3>3. KeepsFirst(s, S, A, f[n], n)
      BY <2>7, <3>1, <3>2 DEF KeepsFirst
    <3> QED
      BY <3>3
  <2>9. CASE s[n] \notin S
    <3>1. f[n] = Append(t, s[n])
      BY <2>3, <2>9 DEF t
    <3>2. \A e \in Members(t) : e < s[n]
      BY <2>6, <2>7
    <3>3. Append(t, s[n]) \in Seq(A) /\ Members(Append(t, s[n])) = Members(t) \cup {s[n]}
          /\ Rising(Append(t, s[n]))
      <4> DEFINE e == s[n]
      <4>1. e \in A /\ \A g \in Members(t) : g < e
        BY <2>4, <3>2
      <4> HIDE DEF e
      <4>2. Append(t, e) \in Seq(A) /\ Members(Append(t, e)) = Members(t) \cup {e}
            /\ Rising(Append(t, e))
        BY <2>7, <4>1, AppendIs
      <4> QED
        BY <4>2 DEF e
    <3>4. Members(f[n]) = {s[i] : i \in 1..n} \ S
      BY <2>5, <2>7, <2>9, <3>1, <3>3
    <3>5. KeepsFirst(s, S, A, f[n], n)
      BY <3>1, <3>3, <3>4 DEF KeepsFirst
    <3> QED
      BY <3>5
  <2> QED
    BY <2>8, <2>9
<1> QED
  BY <1>4, <1>5

\* Without takes the members of S out, no others, and leaves the order.
LEMMA WithoutIs ==
    ASSUME NEW A \in SUBSET Nat, NEW s \in Seq(A), Rising(s), NEW S
    PROVE  /\ Without(s, S) \in Seq(A) /\ Rising(Without(s, S))
           /\ Members(Without(s, S)) = Members(s) \ S
<1>1. Len(s) \in Nat
  OBVIOUS
<1>2. PICK f : Kept(s, S, f, Len(s)) /\ Without(s, S) = f[Len(s)]
  BY <1>1, WithoutKeeps
<1>3. KeepsFirst(s, S, A, f[Len(s)], Len(s))
  BY <1>1, <1>2, KeptAre
<1> QED
  BY <1>2, <1>3 DEF KeepsFirst, Members

\* What a POST adds to what has arrived: all of it has, and what of it comes behind
\* something newer was older than that when it came.
LEMMA HandleAdds ==
    ASSUME NEW A \in SUBSET Nat, NEW s \in Seq(A), Rising(s), arrived \in Seq(A), Handle(s),
           NEW G, BehindIn(arrived, G),
           \A e \in Members(s) \ Arrived, f \in Arrived : e < f => e \in G
    PROVE  /\ arrived' \in Seq(A) /\ Arrived' = Arrived \cup Members(s)
           /\ BehindIn(arrived', G)
<1> DEFINE y == Without(s, Arrived)
<1>1. arrived' = arrived \o y
  BY DEF Handle, Arrived
<1>2. y \in Seq(A) /\ Rising(y) /\ Members(y) = Members(s) \ Arrived
  BY WithoutIs
<1> HIDE DEF y
<1>3. /\ Len(arrived) \in Nat /\ Len(y) \in Nat
      /\ arrived' \in Seq(A) /\ Len(arrived') = Len(arrived) + Len(y)
      /\ \A i \in 1..Len(arrived) : arrived'[i] = arrived[i]
  BY <1>1, <1>2
<1>4. /\ Arrived' = Arrived \cup Members(y)
      /\ \A i \in 1..Len(y) : arrived'[i + Len(arrived)] = y[i]
  BY <1>1, <1>2, JoinIs DEF Arrived
<1>5. \A j \in 1..Len(arrived') : j \notin 1..Len(arrived) =>
         j - Len(arrived) \in 1..Len(y) /\ arrived'[j] = y[j - Len(arrived)]
  <2> SUFFICES ASSUME NEW j \in 1..Len(arrived'), j \notin 1..Len(arrived)
               PROVE  j - Len(arrived) \in 1..Len(y) /\ arrived'[j] = y[j - Len(arrived)]
    OBVIOUS
  <2>1. j - Len(arrived) \in 1..Len(y) /\ (j - Len(arrived)) + Len(arrived) = j
    BY <1>3
  <2> QED
    BY <1>4, <2>1
<1>6. BehindIn(arrived', G)
  <2> SUFFICES ASSUME NEW i \in 1..Len(arrived'), NEW j \in 1..Len(arrived'), i < j,
                      arrived'[j] < arrived'[i]
               PROVE  arrived'[j] \in G
    BY DEF BehindIn
  <2>1. CASE j \in 1..Len(arrived)
    <3>1. i \in 1..Len(arrived)
      BY <1>3, <2>1
    <3> QED
      BY <1>3, <2>1, <3>1 DEF BehindIn
  <2>2. CASE j \notin 1..Len(arrived) /\ i \in 1..Len(arrived)
    <3>1. arrived'[j] \in Members(y)
      BY <1>5, <2>2 DEF Members
    <3>2. arrived'[i] \in Arrived
      BY <1>3, <2>2 DEF Members, Arrived
    <3> QED
      BY <1>2, <3>1, <3>2
  <2>3. CASE j \notin 1..Len(arrived) /\ i \notin 1..Len(arrived)
    <3>1. /\ i - Len(arrived) \in 1..Len(y) /\ arrived'[i] = y[i - Len(arrived)]
          /\ j - Len(arrived) \in 1..Len(y) /\ arrived'[j] = y[j - Len(arrived)]
      BY <1>5, <2>3
    <3>2. i - Len(arrived) < j - Len(arrived)
      BY <1>3
    <3>3. arrived'[i] < arrived'[j]
      BY <1>2, <3>1, <3>2 DEF Rising
    <3>4. arrived'[i] \in Nat /\ arrived'[j] \in Nat
      <4>1. y[i - Len(arrived)] \in A /\ y[j - Len(arrived)] \in A
        BY <1>2, <3>1
      <4> QED
        BY <3>1, <4>1
    <3> QED
      BY <3>3, <3>4
  <2> QED
    BY <2>1, <2>2, <2>3
<1>7. Arrived' = Arrived \cup Members(s)
  BY <1>2, <1>4
<1> QED
  BY <1>3, <1>6, <1>7

\* Nothing comes back into the lane.
LEMMA LaneShrinks ==
    ASSUME LaneInv, LaneInv', log' = log,
           delivered \subseteq delivered', refused \subseteq refused', trimmed \subseteq trimmed'
    PROVE  Envelopes' = Envelopes /\ InLane' \subseteq InLane
<1>1. Envelopes' = Envelopes
  BY DEF Envelopes
<1> QED
  BY <1>1 DEF LaneInv, Fates, InLane

\* A step of the lane that brings nothing to the target.  A POST that is given up
\* on has all of the lane that is older than what it carries.
LEMMA NothingArrives ==
    ASSUME LaneInv, LaneInv', ArriveInv, log' = log, arrived' = arrived,
           delivered \subseteq delivered', refused \subseteq refused', trimmed \subseteq trimmed',
           delivered' \subseteq Arrived, late' \in {late, late \cup {posting}},
           answering' => answering /\ posting' = posting
    PROVE  ArriveInv'
<1>1. Envelopes' = Envelopes /\ InLane' \subseteq InLane /\ Arrived' = Arrived
  BY LaneShrinks DEF Arrived
<1>2. posting \in Seq(Envelopes) /\ Rising(posting) /\ Older(Batch, Rest)
  BY DEF LaneInv, LaneTypeOK, Sorted
<1>3. Envelopes \in SUBSET Nat /\ Batch \subseteq Envelopes /\ Rest \subseteq Envelopes
  <2>1. Envelopes \in SUBSET Nat
    BY DEF Envelopes
  <2>2. posting \in Seq(Envelopes) /\ buffer \in Seq(Envelopes)
    BY DEF LaneInv, LaneTypeOK
  <2>3. Batch \subseteq Envelopes /\ Rest \subseteq Envelopes
    BY <2>2 DEF Batch, Rest, Members
  <2> QED
    BY <2>1, <2>3
<1>4. \A e \in InLane, f \in Batch : e < f => e \in Batch
  <2> SUFFICES ASSUME NEW e \in Rest, NEW f \in Batch, e < f PROVE FALSE
    BY DEF InLane
  <2>1. f < e /\ e \in Nat /\ f \in Nat
    BY <1>2, <1>3 DEF Older
  <2> QED
    BY <2>1
<1>5. \A s \in late' : s \in late \/ s = posting
  OBVIOUS
<1>6. \A s \in late' : s \in Seq(Envelopes) /\ Rising(s)
  BY <1>2, <1>5 DEF ArriveInv
<1>7. \A s \in late' : \A e \in InLane, f \in Members(s) : e < f => e \in Members(s)
  BY <1>4, <1>5 DEF ArriveInv, Batch
<1>8. answering' => Batch' \subseteq Arrived
  BY DEF ArriveInv, Batch
<1>9. BehindIn(arrived', refused' \cup trimmed')
  BY DEF ArriveInv, BehindIn
<1>10. arrived' \in Seq(Envelopes')
  BY <1>1 DEF ArriveInv
<1> QED
  BY <1>1, <1>6, <1>7, <1>8, <1>9, <1>10 DEF ArriveInv

\* A POST that the target handles, in time or late: what it first hears of behind
\* something newer is no longer in the lane, and was not delivered.
LEMMA HandlesInOrder ==
    ASSUME LaneInv, LaneInv', ArriveInv, NEW s, Handle(s), s \in Seq(Envelopes), Rising(s),
           \A e \in InLane, f \in Members(s) : e < f => e \in Members(s),
           log' = log, posting' = posting, UNCHANGED fateVars, late' \subseteq late,
           answering' => answering \/ Batch \subseteq Members(s)
    PROVE  ArriveInv'
<1>1. Envelopes' = Envelopes /\ InLane' \subseteq InLane
  BY LaneShrinks DEF fateVars
<1>2. Envelopes \in SUBSET Nat /\ Members(s) \subseteq Envelopes
  BY DEF Envelopes, Members
<1>3. \A e \in Members(s) \ Arrived, f \in Arrived : e < f => e \in refused \cup trimmed
  BY <1>2 DEF ArriveInv, LaneInv, Fates, InLane
<1>4. /\ arrived' \in Seq(Envelopes) /\ Arrived' = Arrived \cup Members(s)
      /\ BehindIn(arrived', refused \cup trimmed)
  BY <1>2, <1>3, HandleAdds DEF ArriveInv
<1>5. \A e \in InLane', f \in Arrived' : e < f => e \in Arrived'
  BY <1>1, <1>4 DEF ArriveInv
<1>6. \A t \in late' : t \in Seq(Envelopes) /\ Rising(t)
                       /\ \A e \in InLane', f \in Members(t) : e < f => e \in Members(t)
  BY <1>1 DEF ArriveInv
<1>7. delivered' \subseteq Arrived' /\ (answering' => Batch' \subseteq Arrived')
  BY <1>4 DEF ArriveInv, Batch, fateVars
<1>8. refused' = refused /\ trimmed' = trimmed
  BY DEF fateVars
<1> QED
  BY <1>1, <1>4, <1>5, <1>6, <1>7, <1>8 DEF ArriveInv

\* One step per action.
LEMMA ArriveStep ==
    ASSUME NEW Events, log \in Seq(Events), LaneInv, LaneInv', ArriveInv, ShippingStep, log' = log
    PROVE  ArriveInv'
<1>1. ASSUME NEW s, Trim(s) PROVE trimmed \subseteq trimmed'
  BY <1>1 DEF Trim
<1>2. ASSUME NEW s, PumpOn(s) PROVE answering' = FALSE
  BY <1>2 DEF PumpOn
<1>3. delivered \subseteq Arrived
  BY DEF ArriveInv
<1>4. CASE Accepted
  <2>1. /\ PumpOn(buffer) /\ UNCHANGED <<arrived, late, refused, trimmed>>
        /\ answering /\ delivered' = delivered \cup Batch
    BY <1>4 DEF Accepted, Batch
  <2>2. Batch \subseteq Arrived
    BY <2>1 DEF ArriveInv
  <2> QED
    BY <1>2, <1>3, <2>1, <2>2, NothingArrives
<1>5. CASE Refused
  <2>1. /\ PumpOn(buffer) /\ UNCHANGED <<arrived, late, delivered, trimmed>>
        /\ refused' = refused \cup Batch
    BY <1>5 DEF Refused, Batch
  <2> QED
    BY <1>2, <1>3, <2>1, NothingArrives
<1>6. CASE Fails
  <2>1. /\ Trim(Unshift(posting, buffer)) /\ answering' = FALSE
        /\ UNCHANGED <<arrived, delivered, refused>>
        /\ late' \in {late, late \cup {posting}}
    BY <1>6 DEF Fails
  <2> QED
    BY <1>1, <1>3, <2>1, NothingArrives
<1>7. CASE BackoffEnds
  <2>1. PumpOn(buffer) /\ UNCHANGED <<arrived, late, delivered, refused, trimmed>>
    BY <1>7 DEF BackoffEnds, fateVars
  <2> QED
    BY <1>2, <1>3, <2>1, NothingArrives
<1>8. CASE DrainEnds \/ StopReturns \/ Stop
  <2>1. UNCHANGED <<arrived, late, answering, posting, delivered, refused, trimmed>>
    BY <1>8 DEF DrainEnds, StopReturns, Stop, laneVars, fateVars
  <2> QED
    BY <1>3, <2>1, NothingArrives
<1>9. CASE TargetHandles
  <2>1. Handle(posting) /\ posting' = posting /\ UNCHANGED fateVars /\ late' = late
    BY <1>9 DEF TargetHandles
  <2>2. posting \in Seq(Envelopes) /\ Rising(posting) /\ Older(Batch, Rest)
    BY DEF LaneInv, LaneTypeOK, Sorted
  <2>3. \A e \in InLane, f \in Members(posting) : e < f => e \in Members(posting)
    <3> SUFFICES ASSUME NEW e \in Rest, NEW f \in Batch, e < f PROVE FALSE
      BY DEF InLane, Batch
    <3>1. Envelopes \in SUBSET Nat /\ Batch \subseteq Envelopes /\ Rest \subseteq Envelopes
      BY LaneFacts
    <3>2. f < e /\ e \in Nat /\ f \in Nat
      BY <2>2, <3>1 DEF Older
    <3> QED
      BY <3>2
  <2>4. Batch \subseteq Members(posting)
    BY DEF Batch
  <2> QED
    BY <2>1, <2>2, <2>3, <2>4, HandlesInOrder
<1>10. CASE \E s \in late : HandledLate(s)
  <2>1. PICK s \in late : HandledLate(s)
    BY <1>10
  <2>2. Handle(s) /\ UNCHANGED <<posting, answering>> /\ UNCHANGED fateVars /\ late' \subseteq late
    BY <2>1 DEF HandledLate, laneVars
  <2>3. /\ s \in Seq(Envelopes) /\ Rising(s)
        /\ \A e \in InLane, f \in Members(s) : e < f => e \in Members(s)
    BY DEF ArriveInv
  <2> QED
    BY <2>2, <2>3, HandlesInOrder
<1> QED
  BY <1>4, <1>5, <1>6, <1>7, <1>8, <1>9, <1>10 DEF ShippingStep, Pump

\* What is shipped is newer than all that has arrived, or may yet.
LEMMA ArriveShips ==
    ASSUME NEW Events, log \in Seq(Events), NEW event \in Events, LaneInv, LaneInv', ArriveInv,
           Ship(event)
    PROVE  ArriveInv'
<1>1. CASE phase # "running"
  <2>1. UNCHANGED shippingVars
    BY <1>1 DEF Ship
  <2> QED
    BY <2>1 DEF shippingVars, laneVars, fateVars, ArriveInv, Envelopes, InLane, Arrived, Batch, Rest
<1>2. CASE phase = "running"
  <2> DEFINE n == Len(log) + 1
  <2>1. /\ log' = Append(log, event) /\ UNCHANGED <<arrived, late, delivered, refused>>
        /\ trimmed \subseteq trimmed'
        /\ answering' => answering /\ posting' = posting
    BY <1>2 DEF Ship, PumpOn, Trim
  <2>2. /\ n \in Nat /\ Envelopes' = Envelopes \cup {n} /\ Envelopes \in SUBSET Nat
        /\ \A f \in Envelopes : f < n
    <3>1. Len(log) \in Nat /\ Len(log') = Len(log) + 1
      BY <2>1
    <3> QED
      BY <3>1 DEF Envelopes
  <2> HIDE DEF n
  <2>3. InLane' \subseteq InLane \cup {n}
    BY <2>1, <2>2 DEF LaneInv, Fates, InLane
  <2>4. Arrived' = Arrived /\ Arrived \subseteq Envelopes
    BY <2>1 DEF Arrived, ArriveInv, Members
  <2>5. \A s \in late : Members(s) \subseteq Envelopes
    BY DEF ArriveInv, Members
  <2>6. \A f \in Envelopes : ~(n < f)
    BY <2>2
  <2>7. \A e \in InLane', f \in Arrived' : e < f => e \in Arrived'
    BY <2>3, <2>4, <2>6 DEF ArriveInv
  <2>8. \A s \in late' : \A e \in InLane', f \in Members(s) : e < f => e \in Members(s)
    BY <2>1, <2>3, <2>5, <2>6 DEF ArriveInv
  <2>9. \A s \in Seq(Envelopes) : s \in Seq(Envelopes')
    BY <2>2
  <2>10. arrived' \in Seq(Envelopes') /\ \A s \in late' : s \in Seq(Envelopes') /\ Rising(s)
    BY <2>1, <2>9 DEF ArriveInv
  <2>11. BehindIn(arrived', refused' \cup trimmed')
    BY <2>1 DEF ArriveInv, BehindIn
  <2>12. delivered' \subseteq Arrived' /\ (answering' => Batch' \subseteq Arrived')
    BY <2>1, <2>4 DEF ArriveInv, Batch
  <2> QED
    BY <2>7, <2>8, <2>10, <2>11, <2>12 DEF ArriveInv
<1> QED
  BY <1>1, <1>2

LEMMA ArriveRests ==
    ASSUME ArriveInv, UNCHANGED shippingVars
    PROVE  ArriveInv'
BY DEF shippingVars, laneVars, fateVars, ArriveInv, Envelopes, InLane, Arrived, Batch, Rest

LEMMA ArriveInitially ==
    ASSUME ShippingInit
    PROVE  ArriveInv
<1>1. /\ << >> \in Seq(Envelopes) /\ Len(<< >>) = 0
  OBVIOUS
<1>2. Arrived = {} /\ BehindIn(arrived, refused \cup trimmed)
  BY DEF ShippingInit, Arrived, Members, BehindIn
<1> QED
  BY <1>1, <1>2 DEF ShippingInit, ArriveInv

(***************************************************************************)
(* The outbox: its inductive invariant                                     *)
(***************************************************************************)
\* What the poll fetched, and what is to be marked, are pending and different.
Claims ==
    /\ batch \subseteq Pending
    /\ marking # Nobody => marking \in Pending \ batch

\* A row that waits to be published was published only for what went wrong.
Counted ==
    \A r \in Rows : copies[r] <= IF row[r] = "pending" /\ marking # r THEN faults ELSE 1 + faults

\* A row that was not written was not published.
Unwritten == \A r \in Rows : row[r] = "absent" => copies[r] = 0

OutboxInv == OutboxTypeOK /\ Claims /\ Counted /\ Unwritten

\* What Publish takes is in the batch.
LEMMA OldestInBatch ==
    ASSUME batch \in SUBSET Rows, batch # {}
    PROVE  Oldest \in batch
<1>1. batch \in SUBSET Nat
  BY OutboxAssumption DEF Rows
<1>2. \E r \in batch : \A s \in batch : r <= s
  BY <1>1, LeastExists
<1> QED
  BY <1>2 DEF Oldest

LEMMA OutboxStarts == OutboxInit => OutboxInv
BY OutboxAssumption DEF OutboxInit, OutboxInv, OutboxTypeOK, Claims, Counted, Unwritten,
   Statuses, Nobody, Pending, faultVars

\* One step per action of the outbox.
LEMMA OutboxKeeps == OutboxInv /\ (OutboxStep \/ Flush) => OutboxInv'
<1> SUFFICES ASSUME OutboxInv, OutboxStep \/ Flush PROVE OutboxInv'
  OBVIOUS
<1> USE OutboxAssumption DEF OutboxInv, OutboxTypeOK, Statuses, faultVars
<1>1. \A r \in Rows : r # Nobody
  BY DEF Rows, Nobody
<1>2. CASE \E r \in Rows : Commit(r)
  BY <1>1, <1>2 DEF Commit, Claims, Counted, Unwritten, Pending
<1>3. CASE \E r \in Rows : Cleanup(r)
  BY <1>1, <1>3 DEF Cleanup, Claims, Counted, Unwritten, Pending
<1>4. CASE Poll
  <2>1. Fetched \subseteq Pending /\ Pending \subseteq Rows
    BY DEF Fetched, Pending
  <2> QED
    BY <1>4, <2>1 DEF Poll, Claims, Counted, Unwritten, Pending
<1>5. CASE Publish
  <2>1. Oldest \in batch /\ Oldest \in Rows
    BY <1>5, OldestInBatch DEF Publish
  <2>2. CASE connected
    <3>1. /\ wire' = Append(wire, Oldest) /\ marking' = Oldest
          /\ copies' = [copies EXCEPT ![Oldest] = @ + 1]
          /\ batch' = batch \ {Oldest} /\ marking = Nobody
          /\ row' = row /\ connected' = connected
          /\ faults' = faults /\ breaks' = breaks /\ lost' = lost
      BY <1>5, <2>2 DEF Publish
    <3>2. wire \in Seq(Rows) /\ copies \in [Rows -> Nat] /\ faults \in Nat
      OBVIOUS
    <3>3. wire' \in Seq(Rows) /\ copies' \in [Rows -> Nat]
      BY <2>1, <3>1, <3>2
    <3>4. OutboxTypeOK'
      BY <2>1, <3>1, <3>3
    <3>5. Claims' /\ Unwritten'
      BY <2>1, <3>1 DEF Claims, Unwritten, Pending
    <3>6. Counted /\ Oldest \in Pending
      BY <2>1 DEF Claims
    <3> HIDE DEF OutboxInv, OutboxTypeOK
    <3>7. Counted'
      BY <1>1, <2>1, <3>1, <3>2, <3>6 DEF Counted, Pending
    <3> QED
      BY <3>4, <3>5, <3>7 DEF OutboxInv
  <2>3. CASE ~connected
    BY <1>5, <2>1, <2>3 DEF Publish, Claims, Counted, Unwritten, Pending
  <2> QED
    BY <2>2, <2>3
<1>6. CASE MarkPublished
  BY <1>1, <1>6 DEF MarkPublished, Claims, Counted, Unwritten, Pending
<1>7. CASE MarkFails
  BY <1>1, <1>7 DEF MarkFails, Claims, Counted, Unwritten, Pending
<1>8. CASE Disconnect
  <2>1. PICK k \in 0..Len(wire) :
           /\ wire' = SubSeq(wire, k + 1, Len(wire))
           /\ lost' = lost \cup {r \in OnWire(k) : row[r] # "pending" \/ marking = r}
    BY <1>8 DEF Disconnect
  <2>2. wire' \in Seq(Rows) /\ lost' \subseteq Rows
    BY <2>1 DEF OnWire
  <2>3. /\ connected' = FALSE /\ faults' = faults /\ breaks' = breaks + 1
        /\ UNCHANGED <<row, batch, marking, copies>>
    BY <1>8 DEF Disconnect
  <2>4. OutboxTypeOK'
    <3>1. connected' \in BOOLEAN
      BY <2>3
    <3>2. faults' \in Nat /\ breaks' \in Nat
      BY <2>3
    <3> QED
      BY <2>2, <2>3, <3>1, <3>2, Zenon
  <2>5. Claims' /\ Unwritten'
    BY <2>3 DEF Claims, Unwritten, Pending
  <2>6. Counted'
    <3>1. \A r \in Rows : copies[r] \in Nat
      OBVIOUS
    <3>2. Counted /\ faults \in Nat
      OBVIOUS
    <3> HIDE DEF OutboxInv, OutboxTypeOK
    <3> QED
      BY <2>3, <3>1, <3>2 DEF Counted
  <2> QED
    BY <2>4, <2>5, <2>6 DEF OutboxInv
<1>9. CASE Reconnect
  BY <1>9 DEF Reconnect, Claims, Counted, Unwritten, Pending
<1>10. CASE Crash
  <2>1. wire' \in Seq(Rows) /\ lost' \subseteq Rows
    BY <1>10 DEF Crash, OnWire
  <2> QED
    BY <1>10, <2>1 DEF Crash, Claims, Counted, Unwritten, Pending
<1>11. CASE Flush
  <2>1. wire' \in Seq(Rows)
    BY <1>11 DEF Flush
  <2> QED
    BY <1>11, <2>1 DEF Flush, Claims, Counted, Unwritten, Pending
<1> QED
  BY <1>2, <1>3, <1>4, <1>5, <1>6, <1>7, <1>8, <1>9, <1>10, <1>11 DEF OutboxStep

\* What happens in the API leaves the outbox alone.
LEMMA OutboxStutters == OutboxInv /\ UNCHANGED outboxVars => OutboxInv'
BY DEF OutboxInv, OutboxTypeOK, Claims, Counted, Unwritten, Pending, outboxVars, faultVars

(***************************************************************************)
(* The theorems                                                            *)
(***************************************************************************)
\* Every step of the pipeline is one of the outbox, or leaves it alone: the
\* pipeline implements the outbox, whatever the API makes of what it publishes.
THEOREM PipelineIsOutbox == Spec => OutboxSpec
<1>1. Init => OutboxInit
  BY DEF Init
<1>2. [Next]_vars => [OutboxStep \/ Flush]_outboxVars
  BY DEF Next, Project, vars
<1> QED
  BY <1>1, <1>2, PTL DEF Spec, OutboxSpec

\* The outbox keeps its invariant.
THEOREM OutboxInvariance == OutboxSpec => []OutboxInv
BY OutboxStarts, OutboxKeeps, OutboxStutters, PTL DEF OutboxSpec

\* The outbox keeps its shape: publishWith, publishEvent and MarkPublished, whatever
\* fails between them.
THEOREM OutboxTyped == OutboxSpec => []OutboxTypeOK
<1>1. OutboxInv => OutboxTypeOK
  BY DEF OutboxInv
<1> QED
  BY <1>1, OutboxInvariance, PTL

\* A row is published once, and once more for each crash or failed update at most.
THEOREM PublishedOncePerFault == Spec => []OncePerFault
<1>1. OutboxInv => OncePerFault
  BY DEF OutboxInv, OutboxTypeOK, Counted, OncePerFault
<1> QED
  BY <1>1, PipelineIsOutbox, OutboxInvariance, PTL

\* What processNewEvents fetched is pending still when publishEvent publishes it.
THEOREM PublishesPending == Spec => PublishedPending
<1>1. OutboxInv /\ [OutboxStep \/ Flush]_outboxVars =>
        [\A r \in Rows : copies'[r] # copies[r] => row[r] = "pending"]_outboxVars
  <2> SUFFICES ASSUME OutboxInv, OutboxStep \/ Flush, NEW r \in Rows, copies'[r] # copies[r]
               PROVE  row[r] = "pending"
    BY DEF outboxVars
  <2>1. Publish /\ connected
    BY DEF OutboxStep, Commit, Cleanup, Poll, Publish, MarkPublished, MarkFails,
           Disconnect, Reconnect, Crash, Flush
  <2>2. Oldest \in batch
    BY <2>1, OldestInBatch DEF Publish, OutboxInv, OutboxTypeOK
  <2>3. r = Oldest
    BY <2>1 DEF Publish, OutboxInv, OutboxTypeOK
  <2> QED
    BY <2>2, <2>3 DEF OutboxInv, Claims, Pending
<1> QED
  BY <1>1, PipelineIsOutbox, OutboxInvariance, PTL DEF OutboxSpec, PublishedPending

\* The lane keeps its invariant in the pipeline: ship, pump, trim and stop.
THEOREM LaneInvariance == Spec => [](log \in Seq(Rows) /\ LaneInv)
<1>1. Init => log \in Seq(Rows) /\ LaneInv
  <2> SUFFICES ASSUME Init PROVE log \in Seq(Rows) /\ LaneInv
    OBVIOUS
  <2>1. ShippingInit
    BY DEF Init
  <2>2. LaneInv
    BY <2>1, LaneInitially, ShippingAssumption
  <2>3. log \in Seq(Rows)
    BY <2>1 DEF ShippingInit
  <2> QED
    BY <2>2, <2>3
<1>2. OutboxTypeOK /\ log \in Seq(Rows) /\ LaneInv /\ [Next]_vars => (log \in Seq(Rows) /\ LaneInv)'
  <2> SUFFICES ASSUME OutboxTypeOK, log \in Seq(Rows), LaneInv, [Next]_vars
               PROVE  log' \in Seq(Rows) /\ LaneInv'
    OBVIOUS
  <2>1. CASE Project
    <3>1. Head(wire) \in Rows
      BY <2>1 DEF Project, Flush, OutboxTypeOK
    <3>2. Ship(Head(wire))
      BY <2>1 DEF Project
    <3> QED
      BY <3>1, <3>2, LaneShips, ShippingAssumption
  <2>2. CASE ShippingStep
    BY <2>2, LaneStep, ShippingAssumption
  <2>3. CASE UNCHANGED shippingVars
    BY <2>3, LaneRests DEF shippingVars
  <2> QED
    BY <2>1, <2>2, <2>3 DEF Next, vars
<1> QED
  BY <1>1, <1>2, PipelineIsOutbox, OutboxTyped, PTL DEF Spec

\* Whatever its POSTs come to, in whatever order events reach the API and however
\* a stop falls between: the lane holds, delivers, refuses or drops each envelope,
\* in order (ship, pump, trim and stop).
THEOREM ShippingKeeps == Spec => []LaneKeeps
<1>1. log \in Seq(Rows) /\ LaneInv => LaneKeeps
  BY LaneInvKeeps
<1> QED
  BY <1>1, LaneInvariance, PTL

\* The target hears of the envelopes in the order they were shipped, whatever POSTs
\* fail, are answered in vain, or are handled long after the lane gave them up; only
\* one that was refused or dropped can come behind a newer one (pump and unshift).
THEOREM ArrivalsInOrder == Spec => []ArrivesInOrder
<1>1. Init => ArriveInv
  BY ArriveInitially DEF Init
<1>2. OutboxTypeOK /\ (log \in Seq(Rows) /\ LaneInv) /\ ArriveInv
      /\ (log \in Seq(Rows) /\ LaneInv)' /\ [Next]_vars => ArriveInv'
  <2> SUFFICES ASSUME OutboxTypeOK, log \in Seq(Rows), LaneInv, ArriveInv, LaneInv', [Next]_vars
               PROVE  ArriveInv'
    OBVIOUS
  <2>1. CASE Project
    <3>1. Head(wire) \in Rows
      BY <2>1 DEF Project, Flush, OutboxTypeOK
    <3>2. Ship(Head(wire))
      BY <2>1 DEF Project
    <3> QED
      BY <3>1, <3>2, ArriveShips
  <2>2. CASE ShippingStep
    <3>1. log' = log
      BY <2>2 DEF ShippingStep, Pump, Accepted, Refused, Fails, BackoffEnds, DrainEnds,
                  StopReturns, TargetHandles, Stop, HandledLate
    <3> QED
      BY <2>2, <3>1, ArriveStep
  <2>3. CASE UNCHANGED shippingVars
    BY <2>3, ArriveRests
  <2> QED
    BY <2>1, <2>2, <2>3 DEF Next, vars
<1>3. ArriveInv => ArrivesInOrder
  BY DEF ArriveInv, ArrivesInOrder, BehindIn
<1>4. Spec => []ArriveInv
  BY <1>1, <1>2, LaneInvariance, PipelineIsOutbox, OutboxTyped, PTL DEF Spec
<1> QED
  BY <1>3, <1>4, PTL

(***************************************************************************)
(* What becomes of a published row's event                                 *)
(***************************************************************************)
\* Nothing publishes the row again.
Marked(r) == row[r] \in {"published", "deleted"} \/ marking = r
Shipped(r) == \E i \in 1..Len(log) : log[i] = r

\* The event of a row that is not published again is still to leave, went down with
\* its connection or process, or was shipped, unless the shipper was stopped.
Carried ==
    \A r \in Rows : Marked(r) =>
        \/ r \in OnWire(Len(wire)) \cup lost
        \/ phase # "running"
        \/ Shipped(r)

\* Steps of the outbox: what leaves the wire without being shipped is lost.
LEMMA CarriedOn ==
    ASSUME OutboxInv, Carried, OutboxStep, UNCHANGED shippingVars
    PROVE  Carried'
<1>1. /\ wire \in Seq(Rows) /\ Len(wire) \in Nat /\ row \in [Rows -> Statuses]
      /\ marking # Nobody => marking \in Rows /\ row[marking] = "pending"
  BY DEF OutboxInv, OutboxTypeOK, Claims, Pending
<1>2. Rows' = Rows /\ phase' = phase /\ \A r : Shipped(r)' = Shipped(r)
  BY DEF Rows, shippingVars, Shipped
<1>3. ASSUME OnWire(Len(wire)) \subseteq OnWire(Len(wire))', lost \subseteq lost',
             \A r \in Rows : Marked(r)' => Marked(r) \/ r \in OnWire(Len(wire))'
      PROVE  Carried'
  BY <1>2, <1>3 DEF Carried
<1>4. \A r \in Rows : r # Nobody
  BY OutboxAssumption DEF Rows, Nobody
<1>5. CASE \/ \E r \in Rows : Commit(r) \/ Cleanup(r)
           \/ Poll \/ MarkPublished \/ MarkFails \/ Reconnect
  <2>1. wire' = wire /\ lost' = lost
    BY <1>5 DEF Commit, Cleanup, Poll, MarkPublished, MarkFails, Reconnect, faultVars
  <2>2. \A r \in Rows : Marked(r)' => Marked(r)
    BY <1>1, <1>4, <1>5 DEF Commit, Cleanup, Poll, MarkPublished, MarkFails, Reconnect, Marked
  <2> QED
    BY <1>3, <2>1, <2>2 DEF OnWire
<1>6. CASE Publish
  <2>1. row' = row /\ lost' = lost
    BY <1>6 DEF Publish, faultVars
  <2>2. CASE ~connected
    BY <1>3, <1>6, <2>1, <2>2 DEF Publish, Marked, OnWire
  <2>3. CASE connected
    <3>1. Oldest \in Rows
      BY <1>6, OldestInBatch DEF Publish, OutboxInv, OutboxTypeOK
    <3>2. wire' = Append(wire, Oldest) /\ marking' = Oldest
      BY <1>6, <2>3 DEF Publish
    <3> HIDE DEF Oldest
    <3>3. /\ Len(wire') = Len(wire) + 1 /\ wire'[Len(wire')] = Oldest
          /\ \A i \in 1..Len(wire) : wire'[i] = wire[i]
      BY <1>1, <3>1, <3>2
    <3>4. /\ OnWire(Len(wire)) \subseteq OnWire(Len(wire))' /\ Oldest \in OnWire(Len(wire))'
      BY <1>1, <3>3 DEF OnWire
    <3> QED
      BY <1>3, <2>1, <3>2, <3>4 DEF Marked
  <2> QED
    BY <2>2, <2>3
<1>7. CASE Disconnect
  <2>1. PICK k \in 0..Len(wire) :
           /\ wire' = SubSeq(wire, k + 1, Len(wire))
           /\ lost' = lost \cup {r \in OnWire(k) : row[r] # "pending" \/ marking = r}
    BY <1>7 DEF Disconnect
  <2>2. row' = row /\ marking' = marking
    BY <1>7 DEF Disconnect
  <2>3. OnWire(Len(wire)) \subseteq OnWire(k) \cup OnWire(Len(wire))'
    <3>1. /\ Len(wire') = Len(wire) - k
          /\ \A i \in 1..(Len(wire) - k) : wire'[i] = wire[i + k]
      BY <1>1, <2>1
    <3>2. \A i \in (k + 1)..Len(wire) : i - k \in 1..Len(wire') /\ wire'[i - k] = wire[i]
      BY <1>1, <3>1
    <3>3. \A i \in 1..Len(wire) : i \in 1..k \/ i \in (k + 1)..Len(wire)
      BY <1>1
    <3> QED
      BY <3>2, <3>3 DEF OnWire
  <2>4. \A r \in Rows : Marked(r) => row[r] # "pending" \/ marking = r
    BY DEF Marked
  <2> QED
    BY <1>2, <2>1, <2>2, <2>3, <2>4 DEF Carried, Marked
<1>8. CASE Crash
  <2>1. /\ row' = row /\ marking' = Nobody
        /\ lost' = lost \cup {r \in OnWire(Len(wire)) : row[r] # "pending"}
    BY <1>8 DEF Crash
  <2>2. \A r \in Rows : Marked(r)' => Marked(r) /\ row[r] # "pending"
    BY <1>4, <2>1 DEF Marked
  <2> QED
    BY <1>2, <2>1, <2>2 DEF Carried
<1> QED
  BY <1>5, <1>6, <1>7, <1>8 DEF OutboxStep

\* Project: what reaches the API is shipped, or the shipper is stopped.
LEMMA CarriedOver ==
    ASSUME OutboxInv, log \in Seq(Rows), Carried, Project
    PROVE  Carried'
<1>1. /\ wire \in Seq(Rows) /\ wire # << >> /\ wire' = Tail(wire)
      /\ UNCHANGED <<row, marking, lost>> /\ Ship(Head(wire))
  BY DEF Project, Flush, OutboxInv, OutboxTypeOK, faultVars
<1>2. /\ Head(wire) \in Rows /\ Len(wire') = Len(wire) - 1
      /\ Len(wire) \in Nat /\ Head(wire) = wire[1]
      /\ \A i \in 1..(Len(wire) - 1) : wire'[i] = wire[i + 1]
  BY <1>1
<1>3. OnWire(Len(wire)) \subseteq {Head(wire)} \cup OnWire(Len(wire))'
  <2>1. \A i \in 2..Len(wire) : i - 1 \in 1..Len(wire') /\ wire'[i - 1] = wire[i]
    BY <1>2
  <2>2. \A i \in 1..Len(wire) : i = 1 \/ i \in 2..Len(wire)
    BY <1>2
  <2> QED
    BY <1>2, <2>1, <2>2 DEF OnWire
<1>4. CASE phase # "running"
  <2>1. phase' = phase
    BY <1>1, <1>4 DEF Ship, shippingVars
  <2> QED
    BY <1>4, <2>1 DEF Carried
<1>5. CASE phase = "running"
  <2>1. log' = Append(log, Head(wire)) /\ phase' = phase
    BY <1>1, <1>5 DEF Ship
  <2>2. /\ Len(log') = Len(log) + 1 /\ Len(log) \in Nat
        /\ log'[Len(log')] = Head(wire) /\ \A i \in 1..Len(log) : log'[i] = log[i]
    BY <1>2, <2>1
  <2>3. \A r \in Rows : r = Head(wire) \/ Shipped(r) => \E i \in 1..Len(log') : log'[i] = r
    BY <2>2 DEF Shipped
  <2> SUFFICES ASSUME NEW r \in Rows, Marked(r), r \notin OnWire(Len(wire))' \cup lost
               PROVE  \E i \in 1..Len(log') : log'[i] = r
    BY <1>1 DEF Carried, Marked, Shipped, Rows
  <2>4. r = Head(wire) \/ Shipped(r)
    BY <1>3, <1>5 DEF Carried
  <2> QED
    BY <2>3, <2>4
<1> QED
  BY <1>4, <1>5

\* An event that was published is never lost but with its connection or process,
\* published and marked (publishEvent, Publish of the connection, send): whatever
\* else happens it is shipped, while the shipper runs.
THEOREM NothingElseLost == Spec => []Carried
<1>1. Init => Carried
  BY OutboxAssumption DEF Init, OutboxInit, Carried, Marked, Rows, Nobody
<1>2. OutboxInv /\ (log \in Seq(Rows) /\ LaneInv) /\ Carried /\ [Next]_vars => Carried'
  <2> SUFFICES ASSUME OutboxInv, log \in Seq(Rows), LaneInv, Carried, [Next]_vars PROVE Carried'
    OBVIOUS
  <2>1. CASE Project
    BY <2>1, CarriedOver
  <2>2. CASE OutboxStep /\ UNCHANGED shippingVars
    BY <2>2, CarriedOn
  <2>3. CASE ShippingStep /\ UNCHANGED outboxVars
    <3>1. log' = log
      BY <2>3, LaneStep, ShippingAssumption
    <3>2. phase # "running" => phase' # "running"
      BY <2>3 DEF ShippingStep, Pump, Accepted, Refused, Fails, BackoffEnds, DrainEnds,
                  StopReturns, TargetHandles, Stop, HandledLate
    <3>3. UNCHANGED <<row, marking, wire, lost>>
      BY <2>3 DEF outboxVars, faultVars
    <3> QED
      BY <3>1, <3>2, <3>3 DEF Carried, Marked, Shipped, OnWire, Rows
  <2>4. CASE UNCHANGED vars
    BY <2>4 DEF vars, outboxVars, shippingVars, faultVars, Carried, Marked, Shipped, OnWire, Rows
  <2> QED
    BY <2>1, <2>2, <2>3, <2>4 DEF Next
<1> QED
  BY <1>1, <1>2, PipelineIsOutbox, OutboxInvariance, LaneInvariance, PTL DEF Spec
================================================================================
