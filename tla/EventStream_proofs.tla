-------------------------- MODULE EventStream_proofs --------------------------
(***************************************************************************)
(* Proof that no event is skipped silently, for every length of the        *)
(* stream, number of signals, connections and faults.                      *)
(*                                                                         *)
(* The property speaks of the head of the wire only.  The invariant says   *)
(* how everything behind it continues: the stream holds the last numbers   *)
(* that were appended; the numbers on the wire follow one another, except  *)
(* that a snapshot may come first; on an open connection they lead up to   *)
(* the last number appended, so that the next append continues them; and   *)
(* the cursor of the page names the event it heard last, or no event of    *)
(* the stream.                                                             *)
(***************************************************************************)
EXTENDS EventStream, SequenceTheorems, TLAPS

Statuses == 0..Final
Event == [id : Nat, n : Nat \cup {Snapshot}, status : Statuses]

Types ==
  /\ row \in Statuses /\ pending \subseteq Statuses
  /\ stream \in Seq(Event) /\ appended \in Nat
  /\ conn \in [at : {"none", "asked", "open", "completed"}, snap : Statuses]
  /\ wire \in Seq(Event)
  /\ cursor \in Nat \cup {NoCursor} /\ heard \in Nat

\* The stream is the end of what was appended, each entry with its own id.
StreamIsTail ==
  /\ Len(stream) <= appended
  /\ \A i \in DOMAIN stream : /\ stream[i].n = appended - Len(stream) + i
                              /\ stream[i].id = stream[i].n

\* Nothing is sent before the subscription; an id names the number of its event; a
\* snapshot comes first.
WireShape ==
  /\ conn.at \in {"none", "asked"} => wire = <<>>
  /\ \A p \in DOMAIN wire : /\ wire[p].id > 0 => wire[p].n = wire[p].id
                            /\ wire[p].n = Snapshot => p = 1

\* No numbered event lies between p and q.
Unnumbered(w, p, q) == \A m \in DOMAIN w : p < m /\ m < q => w[m].n = 0

\* Numbers on the wire follow one another,
Consecutive(w) ==
  \A p, q \in DOMAIN w :
    p < q /\ w[p].n > 0 /\ w[q].n > 0 /\ Unnumbered(w, p, q) => w[q].n = w[p].n + 1

\* the first one follows what the page has heard, unless a snapshot precedes it,
Continues(w, h) ==
  \A q \in DOMAIN w : h # 0 /\ w[q].n > 0 /\ Unnumbered(w, 0, q) => w[q].n = h + 1

\* and the last one is the last appended: there is nothing to miss.
UpToDate(w, h, a) ==
  /\ \A p \in DOMAIN w : w[p].n > 0 /\ Unnumbered(w, p, Len(w) + 1) => w[p].n = a
  /\ h # 0 /\ Unnumbered(w, 0, Len(w) + 1) => h = a

CursorIsHeard ==
  /\ cursor = NoCursor => heard = 0
  /\ cursor > 0 => heard = cursor

StreamInv ==
  /\ Types /\ StreamIsTail /\ WireShape
  /\ Consecutive(wire) /\ Continues(wire, heard)
  /\ conn.at = "open" => UpToDate(wire, heard, appended)
  /\ CursorIsHeard

----------------------------------------------------------------------------
(* Sequences of events *)

\* A numbered event that continues an up-to-date wire keeps it in order,
LEMMA AppendNumbered ==
  ASSUME NEW w \in Seq(Event), NEW h \in Nat, NEW a \in Nat, NEW e \in Event, e.n = a + 1,
         Consecutive(w), Continues(w, h), UpToDate(w, h, a)
  PROVE  /\ Consecutive(Append(w, e)) /\ Continues(Append(w, e), h)
         /\ UpToDate(Append(w, e), h, a + 1)
<1> DEFINE v == Append(w, e)
           l == Len(w) + 1
<1>1. /\ v \in Seq(Event) /\ Len(v) = l /\ DOMAIN v = 1..l /\ v[l] = e /\ l \in Nat \ {0}
      /\ DOMAIN w = 1..(l - 1) /\ \A m \in DOMAIN w : v[m] = w[m] /\ m \in DOMAIN v
  OBVIOUS
<1> HIDE DEF v, l
<1>3. \A p, q : Unnumbered(v, p, q) => Unnumbered(w, p, q)
  BY <1>1 DEF Unnumbered
<1>4. Consecutive(v)
  <2> SUFFICES ASSUME NEW p \in DOMAIN v, NEW q \in DOMAIN v, p < q, v[p].n > 0, v[q].n > 0,
                      Unnumbered(v, p, q)
               PROVE  v[q].n = v[p].n + 1
    BY DEF Consecutive
  <2>1. p \in DOMAIN w /\ Unnumbered(w, p, q)
    BY <1>1, <1>3
  <2>2. CASE q = l
    BY <1>1, <2>1, <2>2 DEF UpToDate, l
  <2>3. CASE q # l
    BY <1>1, <2>1, <2>3 DEF Consecutive
  <2> QED
    BY <2>2, <2>3
<1>5. Continues(v, h)
  <2> SUFFICES ASSUME NEW q \in DOMAIN v, h # 0, v[q].n > 0, Unnumbered(v, 0, q)
               PROVE  v[q].n = h + 1
    BY DEF Continues
  <2>1. Unnumbered(w, 0, q)
    BY <1>1, <1>3
  <2>2. CASE q = l
    BY <1>1, <2>1, <2>2 DEF UpToDate, l
  <2>3. CASE q # l
    BY <1>1, <2>1, <2>3 DEF Continues
  <2> QED
    BY <2>2, <2>3
<1>6. \A p \in Int : p < l => ~Unnumbered(v, p, l + 1)
  BY <1>1 DEF Unnumbered
<1>7. UpToDate(v, h, a + 1)
  <2>1. ASSUME NEW p \in DOMAIN v, Unnumbered(v, p, Len(v) + 1) PROVE v[p].n = a + 1
    BY <1>1, <1>6, <2>1
  <2>2. ~Unnumbered(v, 0, Len(v) + 1)
    BY <1>1, <1>6
  <2> QED
    BY <2>1, <2>2 DEF UpToDate
<1> QED
  BY <1>4, <1>5, <1>7 DEF v

\* and so does one without a number.
LEMMA AppendTransient ==
  ASSUME NEW w \in Seq(Event), NEW h \in Nat, NEW a \in Nat, NEW e \in Event, e.n = 0,
         Consecutive(w), Continues(w, h), UpToDate(w, h, a)
  PROVE  /\ Consecutive(Append(w, e)) /\ Continues(Append(w, e), h)
         /\ UpToDate(Append(w, e), h, a)
<1> DEFINE v == Append(w, e)
           l == Len(w) + 1
<1>1. /\ v \in Seq(Event) /\ Len(v) = l /\ DOMAIN v = 1..l /\ v[l] = e /\ l \in Nat \ {0}
      /\ DOMAIN w = 1..(l - 1) /\ \A m \in DOMAIN w : v[m] = w[m] /\ m \in DOMAIN v
  OBVIOUS
<1> HIDE DEF v, l
<1>2. \A p \in Int, q \in Int : Unnumbered(v, p, q) => Unnumbered(w, p, q)
  BY <1>1 DEF Unnumbered
<1>3. \A p \in DOMAIN v : v[p].n > 0 => p \in DOMAIN w /\ v[p] = w[p]
  BY <1>1
<1>4. \A p \in Int : Unnumbered(v, p, l + 1) => Unnumbered(w, p, l)
  BY <1>1 DEF Unnumbered
<1>5. Consecutive(v)
  BY <1>1, <1>2, <1>3 DEF Consecutive
<1>6. Continues(v, h)
  BY <1>1, <1>2, <1>3 DEF Continues
<1>7. UpToDate(v, h, a)
  BY <1>1, <1>3, <1>4 DEF UpToDate, l
<1> QED
  BY <1>5, <1>6, <1>7 DEF v

\* What the page has heard after event e.
HeardAfter(e, h) == CASE e.n = Snapshot -> 0 [] e.n = 0 -> h [] OTHER -> e.n

\* The handler of an event leaves a wire that continues what it has heard.
LEMMA TailContinues ==
  ASSUME NEW w \in Seq(Event), w # <<>>, NEW h \in Nat, NEW a \in Nat,
         \A p \in DOMAIN w : w[p].n = Snapshot => p = 1,
         Consecutive(w), Continues(w, h)
  PROVE  /\ HeardAfter(Head(w), h) \in Nat
         /\ Consecutive(Tail(w)) /\ Continues(Tail(w), HeardAfter(Head(w), h))
         /\ UpToDate(w, h, a) => UpToDate(Tail(w), HeardAfter(Head(w), h), a)
<1> DEFINE t == Tail(w)
           g == HeardAfter(Head(w), h)
           l == Len(w)
<1>1. /\ t \in Seq(Event) /\ l \in Nat \ {0} /\ DOMAIN w = 1..l /\ Len(t) = l - 1
      /\ DOMAIN t = 1..(l - 1) /\ Head(w) = w[1] /\ w[1] \in Event
      /\ \A m \in DOMAIN t : t[m] = w[m + 1] /\ m + 1 \in DOMAIN w
  OBVIOUS
<1>2. /\ g \in Nat /\ (w[1].n > 0 => g = w[1].n) /\ (w[1].n = 0 => g = h)
      /\ (w[1].n = Snapshot => g = 0) /\ w[1].n \in Nat \cup {Snapshot}
  BY <1>1 DEF HeardAfter, Event, Snapshot
<1> HIDE DEF t, g, l
<1>3. \A p \in Int, q \in Int : p >= 0 /\ Unnumbered(t, p, q) => Unnumbered(w, p + 1, q + 1)
  <2> SUFFICES ASSUME NEW p \in Int, NEW q \in Int, p >= 0, Unnumbered(t, p, q),
                      NEW m \in DOMAIN w, p + 1 < m, m < q + 1
               PROVE  w[m].n = 0
    BY DEF Unnumbered
  <2>1. m - 1 \in DOMAIN t /\ t[m - 1] = w[m]
    BY <1>1
  <2> QED
    BY <1>1, <2>1 DEF Unnumbered
<1>4. w[1].n = 0 => \A q \in Int : Unnumbered(t, 0, q) => Unnumbered(w, 0, q + 1)
  <2> SUFFICES ASSUME w[1].n = 0, NEW q \in Int, Unnumbered(t, 0, q), NEW m \in DOMAIN w,
                      0 < m, m < q + 1
               PROVE  w[m].n = 0
    BY DEF Unnumbered
  <2>1. Unnumbered(w, 1, q + 1)
    BY <1>3
  <2>2. m = 1 \/ 1 < m
    BY <1>1
  <2> QED
    BY <2>1, <2>2 DEF Unnumbered
<1>5. Consecutive(t)
  <2> SUFFICES ASSUME NEW p \in DOMAIN t, NEW q \in DOMAIN t, p < q, t[p].n > 0, t[q].n > 0,
                      Unnumbered(t, p, q)
               PROVE  t[q].n = t[p].n + 1
    BY DEF Consecutive
  <2>1. Unnumbered(w, p + 1, q + 1)
    BY <1>1, <1>3
  <2> QED
    BY <1>1, <2>1 DEF Consecutive
<1>6. Continues(t, g)
  <2> SUFFICES ASSUME NEW q \in DOMAIN t, g # 0, t[q].n > 0, Unnumbered(t, 0, q)
               PROVE  t[q].n = g + 1
    BY DEF Continues
  <2>1. q + 1 \in DOMAIN w /\ t[q] = w[q + 1] /\ 1 < q + 1 /\ 1 \in DOMAIN w
    BY <1>1
  <2>2. CASE w[1].n > 0
    <3>1. Unnumbered(w, 1, q + 1)
      BY <1>1, <1>3
    <3> QED
      BY <1>2, <2>1, <2>2, <3>1 DEF Consecutive
  <2>3. CASE w[1].n = 0
    BY <1>1, <1>2, <1>4, <2>1, <2>3 DEF Continues
  <2> QED
    BY <1>2, <2>2, <2>3
<1>7. ASSUME UpToDate(w, h, a) PROVE UpToDate(t, g, a)
  <2>1. ASSUME NEW p \in DOMAIN t, t[p].n > 0, Unnumbered(t, p, Len(t) + 1)
        PROVE  t[p].n = a
    <3>1. Unnumbered(w, p + 1, l + 1)
      BY <1>1, <1>3, <2>1
    <3> QED
      BY <1>1, <1>7, <2>1, <3>1 DEF UpToDate, l
  <2>2. ASSUME g # 0, Unnumbered(t, 0, Len(t) + 1) PROVE g = a
    <3>1. Unnumbered(w, 1, l + 1)
      BY <1>1, <1>3, <2>2
    <3>2. CASE w[1].n > 0
      BY <1>1, <1>2, <1>7, <3>1, <3>2 DEF UpToDate, l
    <3>3. CASE w[1].n = 0
      BY <1>1, <1>2, <1>4, <1>7, <2>2, <3>3 DEF UpToDate, l
    <3> QED
      BY <1>2, <2>2, <3>2, <3>3
  <2> QED
    BY <2>1, <2>2 DEF UpToDate
<1> QED
  BY <1>2, <1>5, <1>6, <1>7 DEF t, g

\* What SubSeq cuts off the end of a sequence.
LEMMA Suffix ==
  ASSUME NEW S, NEW s \in Seq(S), NEW k \in Nat, k <= Len(s),
         NEW w, w = SubSeq(s, k + 1, Len(s))
  PROVE  /\ w \in Seq(S) /\ Len(w) = Len(s) - k /\ DOMAIN w = 1..(Len(s) - k)
         /\ \A i \in 1..(Len(s) - k) : w[i] = s[k + i] /\ k + i \in 1..Len(s)
<1>1. Len(s) \in Nat /\ k + 1 \in Int /\ \A i \in (k + 1)..Len(s) : s[i] \in S
  OBVIOUS
<1>2. /\ w \in Seq(S)
      /\ Len(w) = IF k + 1 <= Len(s) THEN Len(s) - (k + 1) + 1 ELSE 0
      /\ \A i \in 1..(Len(s) - (k + 1) + 1) : w[i] = s[(k + 1) + i - 1]
  BY <1>1, SubSeqProperties
<1>3. Len(w) = Len(s) - k
  BY <1>1, <1>2
<1>4. DOMAIN w = 1..(Len(s) - k)
  BY <1>2, <1>3
<1>5. \A i \in 1..(Len(s) - k) : w[i] = s[k + i] /\ k + i \in 1..Len(s)
  <2> SUFFICES ASSUME NEW i \in 1..(Len(s) - k) PROVE w[i] = s[k + i] /\ k + i \in 1..Len(s)
    OBVIOUS
  <2>1. (k + 1) + i - 1 = k + i /\ i \in 1..(Len(s) - (k + 1) + 1)
    BY <1>1
  <2> QED
    BY <1>1, <1>2, <2>1
<1> QED
  BY <1>2, <1>3, <1>4, <1>5

\* Events numbered up to a, sent to a page that has heard the one before them or
\* nothing, are an up-to-date wire.
LEMMA NumberedContinue ==
  ASSUME NEW w \in Seq(Event), NEW a \in Nat, NEW l \in Nat, Len(w) = l, l <= a,
         \A i \in 1..l : w[i].n = a - l + i,
         NEW h \in Nat, h = 0 \/ h = a - l
  PROVE  Consecutive(w) /\ Continues(w, h) /\ UpToDate(w, h, a)
<1>1. DOMAIN w = 1..l
  OBVIOUS
<1>2. \A i \in 1..l : w[i].n > 0
  OBVIOUS
<1>3. Consecutive(w)
  <2> SUFFICES ASSUME NEW p \in 1..l, NEW q \in 1..l, p < q, Unnumbered(w, p, q)
               PROVE  w[q].n = w[p].n + 1
    BY <1>1 DEF Consecutive
  <2>1. p + 1 \in 1..l
    OBVIOUS
  <2>2. p + 1 \in DOMAIN w /\ w[p + 1].n # 0
    BY <1>1, <1>2, <2>1
  <2>3. q = p + 1
    <3>1. ~(p < p + 1 /\ p + 1 < q)
      BY <2>2 DEF Unnumbered
    <3> QED
      BY <3>1
  <2>4. w[p].n = a - l + p /\ w[q].n = a - l + q
    OBVIOUS
  <2>5. a - l + q = (a - l + p) + 1
    BY <2>3
  <2> QED
    BY <2>4, <2>5
<1>4. Continues(w, h)
  <2> SUFFICES ASSUME NEW q \in 1..l, h # 0, Unnumbered(w, 0, q)
               PROVE  w[q].n = h + 1
    BY <1>1 DEF Continues
  <2>1. 1 \in DOMAIN w /\ w[1].n # 0
    BY <1>1, <1>2
  <2>2. q = 1
    BY <2>1 DEF Unnumbered
  <2> QED
    BY <2>2
<1>5. ASSUME NEW p \in 1..l, Unnumbered(w, p, l + 1) PROVE w[p].n = a
  <2>1. p = l
    <3>1. p + 1 \in 1..l => p + 1 \in DOMAIN w /\ w[p + 1].n # 0
      BY <1>1, <1>2
    <3> QED
      BY <1>5, <3>1 DEF Unnumbered
  <2> QED
    BY <2>1
<1>6. ASSUME h # 0, Unnumbered(w, 0, l + 1) PROVE h = a
  <2>1. l = 0
    <3>1. l # 0 => 1 \in DOMAIN w /\ w[1].n # 0
      BY <1>1, <1>2
    <3> QED
      BY <1>6, <3>1 DEF Unnumbered
  <2> QED
    BY <1>6, <2>1
<1> QED
  BY <1>1, <1>3, <1>4, <1>5, <1>6 DEF UpToDate

\* So is the part of the stream behind position k, sent to a page that has heard
\* event k or nothing.
LEMMA SuffixContinues ==
  ASSUME NEW s \in Seq(Event), NEW a \in Nat, Len(s) <= a,
         \A i \in DOMAIN s : s[i].n = a - Len(s) + i,
         NEW k \in 0..Len(s), NEW h \in Nat, h = 0 \/ h = a - Len(s) + k
  PROVE  LET w == SubSeq(s, k + 1, Len(s))
         IN  /\ w \in Seq(Event)
             /\ \A i \in DOMAIN w : \E j \in DOMAIN s : w[i] = s[j]
             /\ Consecutive(w) /\ Continues(w, h) /\ UpToDate(w, h, a)
<1> DEFINE w == SubSeq(s, k + 1, Len(s))
           l == Len(s) - k
<1>0. k \in Nat /\ k <= Len(s) /\ l \in Nat /\ Len(s) = l + k /\ DOMAIN s = 1..Len(s)
  OBVIOUS
<1>1. /\ w \in Seq(Event) /\ Len(w) = l /\ DOMAIN w = 1..l
      /\ \A i \in 1..l : w[i] = s[k + i] /\ k + i \in 1..Len(s)
  BY <1>0, Suffix
<1> HIDE DEF w, l
<1>2. ASSUME NEW i \in 1..l PROVE w[i].n = a - l + i
  <2>1. w[i].n = a - Len(s) + (k + i)
    BY <1>0, <1>1
  <2> QED
    BY <1>0, <2>1
<1>3. l <= a /\ (h = 0 \/ h = a - l)
  BY <1>0
<1>4. Consecutive(w) /\ Continues(w, h) /\ UpToDate(w, h, a)
  BY <1>0, <1>1, <1>2, <1>3, NumberedContinue
<1>5. \A i \in DOMAIN w : \E j \in DOMAIN s : w[i] = s[j]
  BY <1>0, <1>1
<1> QED
  BY <1>1, <1>4, <1>5 DEF w

\* What it takes for the stream to be the end of what was appended.
LEMMA NumberedStream ==
  ASSUME NEW l \in Nat, NEW a \in Nat, stream' \in Seq(Event), Len(stream') = l,
         DOMAIN stream' = 1..l, appended' = a, l <= a,
         \A i \in 1..l : stream'[i].n = a - l + i /\ stream'[i].id = stream'[i].n
  PROVE  StreamIsTail'
BY DEF StreamIsTail

\* XADD with MAXLEN keeps the stream the end of what was appended.
LEMMA AddedIsTail ==
  ASSUME Types, StreamIsTail, NEW e \in Event, e.n = appended + 1, e.id = e.n,
         stream' = Added(e), appended' = appended + 1
  PROVE  stream' \in Seq(Event) /\ StreamIsTail'
<1> DEFINE longer == Append(stream, e)
           l == Len(stream) + 1
<1>0. stream \in Seq(Event) /\ appended \in Nat /\ Len(stream) <= appended
  BY DEF Types, StreamIsTail
<1>1. /\ longer \in Seq(Event) /\ l \in Nat \ {0} /\ Len(longer) = l /\ DOMAIN longer = 1..l
      /\ l <= appended + 1
      /\ \A i \in 1..l : longer[i].n = appended + 1 - l + i /\ longer[i].id = longer[i].n
  BY <1>0 DEF StreamIsTail
<1>1a. stream' = SubSeq(longer, IF Len(longer) > MaxLength THEN 2 ELSE 1, Len(longer))
  BY DEF Added
<1> HIDE DEF longer, l
<1>2. \E k \in {0, 1} : stream' = SubSeq(longer, k + 1, l) /\ k < l
  <2>1. CASE l > MaxLength
    <3>1. stream' = SubSeq(longer, 2, l)
      BY <1>1, <1>1a, <2>1
    <3>2. 1 < l /\ 1 + 1 = 2
      BY <1>1, <2>1, StreamAssumption
    <3> QED
      BY <3>1, <3>2
  <2>2. CASE ~(l > MaxLength)
    <3>1. stream' = SubSeq(longer, 1, l)
      BY <1>1, <1>1a, <2>2
    <3>2. 0 < l /\ 0 + 1 = 1
      BY <1>1
    <3> QED
      BY <3>1, <3>2
  <2> QED
    BY <2>1, <2>2
<1>3. PICK k \in {0, 1} : stream' = SubSeq(longer, k + 1, l) /\ k < l
  BY <1>2
<1>4. PICK m \in Nat, a \in Nat : m = l - k /\ a = appended + 1
  BY <1>0, <1>1, <1>3
<1>5. /\ stream' \in Seq(Event) /\ Len(stream') = m /\ DOMAIN stream' = 1..m
      /\ \A i \in 1..m : stream'[i] = longer[k + i] /\ k + i \in 1..l
  <2>1. k \in Nat /\ k <= Len(longer)
    BY <1>1, <1>3
  <2> QED
    BY <1>1, <1>3, <1>4, <2>1, Suffix
<1>6. ASSUME NEW i \in 1..m
      PROVE  stream'[i].n = a - m + i /\ stream'[i].id = stream'[i].n
  <2>1. stream'[i] = longer[k + i] /\ k + i \in 1..l
    BY <1>5
  <2>2. stream'[i].n = appended + 1 - l + (k + i) /\ stream'[i].id = stream'[i].n
    BY <1>1, <2>1
  <2>3. appended + 1 - l + (k + i) = a - m + i
    BY <1>0, <1>1, <1>3, <1>4
  <2> QED
    BY <2>2, <2>3
<1>7. appended' = a /\ m <= a
  BY <1>0, <1>1, <1>3, <1>4
<1> QED
  BY <1>5, <1>6, <1>7, NumberedStream

----------------------------------------------------------------------------
(* The steps *)

\* Initially nothing was appended, sent or heard.
LEMMA InitStreamInv == Init => StreamInv
<1> SUFFICES ASSUME Init PROVE StreamInv
  OBVIOUS
<1>1. Types
  BY StreamAssumption DEF Init, Types, NoConnection, NoCursor, Statuses
<1>2. stream = <<>> /\ wire = <<>> /\ DOMAIN <<>> = {} /\ Len(<<>>) = 0
  BY DEF Init
<1>3. StreamIsTail /\ WireShape
  BY <1>2 DEF Init, StreamIsTail, WireShape
<1>4. Consecutive(wire) /\ Continues(wire, heard)
  BY <1>2 DEF Consecutive, Continues
<1>5. conn.at = "none" /\ CursorIsHeard
  BY DEF Init, NoConnection, CursorIsHeard, NoCursor
<1> QED
  BY <1>1, <1>3, <1>4, <1>5 DEF StreamInv

\* Steps that concern neither the stream nor the connection keep the invariant.
LEMMA Elsewhere ==
  ASSUME StreamInv, UNCHANGED <<stream, appended, conn, wire, cursor, heard>>,
         row' \in Statuses, pending' \subseteq Statuses
  PROVE  StreamInv'
<1>1. Types'
  BY DEF StreamInv, Types
<1>2. StreamIsTail' /\ WireShape' /\ CursorIsHeard'
  BY DEF StreamInv, StreamIsTail, WireShape, CursorIsHeard
<1> QED
  BY <1>1, <1>2 DEF StreamInv

\* So do those that leave the page without a connection.
LEMMA Disconnected ==
  ASSUME StreamInv, UNCHANGED <<row, stream, appended, cursor, heard>>,
         pending' \subseteq Statuses, wire' = <<>>,
         conn' \in [at : {"none", "asked"}, snap : Statuses]
  PROVE  StreamInv'
<1>1. Types'
  BY DEF StreamInv, Types
<1>2. DOMAIN <<>> = {} /\ conn'.at # "open"
  OBVIOUS
<1>3. StreamIsTail' /\ WireShape' /\ CursorIsHeard'
  BY <1>2 DEF StreamInv, StreamIsTail, WireShape, CursorIsHeard
<1>4. Consecutive(wire') /\ Continues(wire', heard')
  BY <1>2 DEF Consecutive, Continues
<1> QED
  BY <1>1, <1>2, <1>3, <1>4 DEF StreamInv

\* What broadcast sends on an open connection continues it, whether the append it
\* follows was answered, executed without an answer, or lost.
LEMMA BroadcastContinues ==
  ASSUME StreamInv, NEW e \in Event, Broadcast(e), e.id > 0 => e.n = e.id,
         \/ e.n = appended + 1 /\ appended' = appended + 1
         \/ e.n = 0 /\ appended' = appended
  PROVE  /\ wire' \in Seq(Event)
         /\ conn' \in [at : {"none", "asked", "open", "completed"}, snap : Statuses]
         /\ WireShape' /\ Consecutive(wire') /\ Continues(wire', heard)
         /\ conn'.at = "open" => UpToDate(wire', heard, appended')
<1>1. /\ wire \in Seq(Event) /\ heard \in Nat /\ appended \in Nat
      /\ conn \in [at : {"none", "asked", "open", "completed"}, snap : Statuses]
      /\ WireShape /\ Consecutive(wire) /\ Continues(wire, heard)
      /\ conn.at = "open" => UpToDate(wire, heard, appended)
  BY DEF StreamInv, Types
<1>2. CASE conn.at # "open"
  <2>1. UNCHANGED <<conn, wire>>
    BY <1>2 DEF Broadcast
  <2> QED
    BY <1>1, <1>2, <2>1 DEF WireShape
<1>3. CASE conn.at = "open"
  <2>1. wire' = Append(wire, e)
    BY <1>3 DEF Broadcast
  <2>2. /\ conn' \in [at : {"none", "asked", "open", "completed"}, snap : Statuses]
        /\ conn'.at \in {"open", "completed"}
    BY <1>1, <1>3 DEF Broadcast
  <2>3. /\ Consecutive(wire') /\ Continues(wire', heard) /\ UpToDate(wire', heard, appended')
    BY <1>1, <1>3, <2>1, AppendNumbered, AppendTransient
  <2>4. WireShape'
    <3>1. wire' \in Seq(Event) /\ DOMAIN wire' = 1..(Len(wire) + 1) /\ Len(wire) \in Nat
      BY <1>1, <2>1
    <3>2. ASSUME NEW p \in DOMAIN wire'
          PROVE  (wire'[p].id > 0 => wire'[p].n = wire'[p].id) /\ (wire'[p].n = Snapshot => p = 1)
      <4>1. CASE p = Len(wire) + 1
        <5>1. wire'[p] = e /\ e.n # Snapshot
          BY <1>1, <2>1, <4>1 DEF Snapshot
        <5> QED
          BY <5>1
      <4>2. CASE p # Len(wire) + 1
        <5>1. p \in DOMAIN wire /\ wire'[p] = wire[p]
          BY <1>1, <2>1, <3>1, <4>2
        <5> QED
          BY <1>1, <5>1 DEF WireShape
      <4> QED
        BY <4>1, <4>2
    <3> QED
      BY <2>2, <3>2 DEF WireShape
  <2> QED
    BY <1>1, <2>1, <2>2, <2>3, <2>4
<1> QED
  BY <1>2, <1>3

\* Every way in which publish ends keeps the invariant.
LEMMA PublishStreamInv ==
  ASSUME StreamInv, NEW status, Publish(status)
  PROVE  StreamInv'
<1> DEFINE n == appended + 1
           stored == [id |-> n, n |-> n, status |-> status]
<1>0. /\ status \in Statuses /\ pending' \subseteq Statuses /\ appended \in Nat
      /\ UNCHANGED <<row, cursor, heard>>
  BY DEF StreamInv, Types, Publish, page
<1>1. /\ stored \in Event /\ stored.n = appended + 1 /\ stored.id = stored.n
      /\ [stored EXCEPT !.id = 0] \in Event /\ [stored EXCEPT !.id = 0].n = appended + 1
      /\ [stored EXCEPT !.id = 0].id = 0
  BY <1>0 DEF Event
<1>2. \E e \in Event : /\ Broadcast(e) /\ (e.id > 0 => e.n = e.id)
                       /\ \/ e.n = appended + 1 /\ appended' = appended + 1 /\ stream' = Added(stored)
                          \/ e.n = 0 /\ appended' = appended /\ stream' = stream
  <2>1. CASE stream' = Added(stored) /\ appended' = n /\ Broadcast(stored)
    BY <1>1, <2>1
  <2>2. CASE stream' = Added(stored) /\ appended' = n /\ Broadcast([stored EXCEPT !.id = 0])
    BY <1>1, <2>2
  <2>3. CASE UNCHANGED <<stream, appended>> /\ Broadcast([id |-> 0, n |-> 0, status |-> status])
    <3>1. [id |-> 0, n |-> 0, status |-> status] \in Event
      BY <1>0 DEF Event
    <3> QED
      BY <2>3, <3>1
  <2> QED
    BY <2>1, <2>2, <2>3 DEF Publish
<1>3. PICK e \in Event : /\ Broadcast(e) /\ (e.id > 0 => e.n = e.id)
                         /\ \/ e.n = appended + 1 /\ appended' = appended + 1 /\ stream' = Added(stored)
                            \/ e.n = 0 /\ appended' = appended /\ stream' = stream
  BY <1>2
<1> HIDE DEF stored
<1>4. /\ wire' \in Seq(Event)
      /\ conn' \in [at : {"none", "asked", "open", "completed"}, snap : Statuses]
      /\ WireShape' /\ Consecutive(wire') /\ Continues(wire', heard)
      /\ conn'.at = "open" => UpToDate(wire', heard, appended')
  BY <1>3, BroadcastContinues
<1>5. stream' \in Seq(Event) /\ StreamIsTail'
  <2>1. CASE appended' = appended + 1 /\ stream' = Added(stored)
    BY <1>1, <2>1, AddedIsTail DEF StreamInv
  <2>2. CASE appended' = appended /\ stream' = stream
    BY <2>2 DEF StreamInv, StreamIsTail, Types
  <2> QED
    BY <1>3, <2>1, <2>2
<1>6. Types'
  BY <1>0, <1>3, <1>4, <1>5 DEF StreamInv, Types
<1>7. CursorIsHeard'
  BY <1>0 DEF StreamInv, CursorIsHeard
<1> QED
  BY <1>0, <1>4, <1>5, <1>6, <1>7 DEF StreamInv

\* A stream that was lost is the empty end of what was appended.
LEMMA FlushStreamInv == StreamInv /\ Flush => StreamInv'
<1> SUFFICES ASSUME StreamInv, Flush PROVE StreamInv'
  OBVIOUS
<1>1. stream' = <<>> /\ UNCHANGED <<row, pending, appended, conn, wire, cursor, heard>>
  BY DEF Flush, page
<1>2. DOMAIN <<>> = {} /\ Len(<<>>) = 0 /\ <<>> \in Seq(Event)
  OBVIOUS
<1>3. Types'
  BY <1>1, <1>2 DEF StreamInv, Types
<1>4. StreamIsTail'
  BY <1>1, <1>2 DEF StreamInv, StreamIsTail, Types
<1>5. WireShape' /\ CursorIsHeard'
  BY <1>1 DEF StreamInv, WireShape, CursorIsHeard
<1> QED
  BY <1>1, <1>3, <1>4, <1>5 DEF StreamInv

\* What subscribe sends: the snapshot, or the events behind the cursor, which begin
\* right behind what the page has heard and end with the last one appended.
LEMMA SubscribeSends ==
  ASSUME StreamInv, Subscribe
  PROVE  /\ wire' \in Seq(Event)
         /\ \A p \in DOMAIN wire' : /\ wire'[p].id > 0 => wire'[p].n = wire'[p].id
                                    /\ wire'[p].n = Snapshot => p = 1
         /\ Consecutive(wire') /\ Continues(wire', heard) /\ UpToDate(wire', heard, appended)
<1>1. PICK events \in {stream, <<>>} :
        wire' = IF NeedsSnapshot(events) THEN <<[id |-> 0, n |-> Snapshot, status |-> conn.snap]>>
                ELSE After(events, cursor)
  BY DEF Subscribe
<1>2. /\ stream \in Seq(Event) /\ appended \in Nat /\ heard \in Nat /\ Len(stream) <= appended
      /\ DOMAIN stream = 1..Len(stream) /\ Len(stream) \in Nat
      /\ cursor \in Nat \cup {NoCursor} /\ conn.snap \in Statuses
      /\ \A i \in DOMAIN stream : /\ stream[i].n = appended - Len(stream) + i
                                  /\ stream[i].id = stream[i].n
  BY DEF StreamInv, Types, StreamIsTail
<1>3. CASE NeedsSnapshot(events)
  <2>1. PICK e \in Event : e.id = 0 /\ e.n = Snapshot /\ wire' = <<e>>
    <3>1. [id |-> 0, n |-> Snapshot, status |-> conn.snap] \in Event
      BY <1>2 DEF Event
    <3> QED
      BY <1>1, <1>3, <3>1
  <2>2. wire' \in Seq(Event) /\ DOMAIN wire' = {1} /\ wire'[1] = e /\ Len(wire') = 1
    BY <2>1
  <2>3. \A p \in DOMAIN wire' : p = 1 /\ wire'[p].id = 0 /\ wire'[p].n = -1
    BY <2>1, <2>2 DEF Snapshot
  <2>4. ~Unnumbered(wire', 0, Len(wire') + 1)
    BY <2>2, <2>3 DEF Unnumbered
  <2> QED
    BY <2>2, <2>3, <2>4 DEF Consecutive, Continues, UpToDate
<1>4. CASE ~NeedsSnapshot(events)
  <2>1. events = stream /\ (cursor = NoCursor \/ Holds(stream, cursor)) /\ wire' = After(stream, cursor)
    BY <1>1, <1>4 DEF NeedsSnapshot
  <2>2. \A i \in DOMAIN stream : stream[i].n > 0
    BY <1>2
  <2>3. CASE cursor = NoCursor
    <3>0. ~Holds(stream, cursor)
      BY <1>2, <2>2, <2>3 DEF Holds, NoCursor
    <3>1. wire' = stream /\ heard = 0
      BY <2>1, <2>3, <3>0 DEF After, StreamInv, CursorIsHeard
    <3>2. Consecutive(stream) /\ Continues(stream, heard) /\ UpToDate(stream, heard, appended)
      BY <1>2, <3>1, NumberedContinue
    <3> QED
      BY <1>2, <2>2, <3>1, <3>2 DEF Snapshot
  <2>4. CASE cursor # NoCursor
    <3>1. PICK k \in DOMAIN stream :
            stream[k].id = cursor /\ wire' = SubSeq(stream, k + 1, Len(stream))
      <4>1. \E i \in DOMAIN stream : stream[i].id = cursor
        BY <2>1, <2>4 DEF Holds
      <4>2. wire' = LET index == CHOOSE i \in DOMAIN stream : stream[i].id = cursor
                    IN  SubSeq(stream, index + 1, Len(stream))
        BY <2>1, <2>4 DEF After
      <4> QED
        BY <4>1, <4>2
    <3>2. cursor = appended - Len(stream) + k /\ cursor > 0
      BY <1>2, <3>1
    <3>3. heard = appended - Len(stream) + k /\ k \in 0..Len(stream)
      BY <1>2, <3>1, <3>2 DEF StreamInv, CursorIsHeard
    <3>4. /\ wire' \in Seq(Event)
          /\ \A i \in DOMAIN wire' : \E j \in DOMAIN stream : wire'[i] = stream[j]
          /\ Consecutive(wire') /\ Continues(wire', heard) /\ UpToDate(wire', heard, appended)
      BY <1>2, <3>1, <3>3, SuffixContinues
    <3> QED
      BY <1>2, <2>2, <3>4 DEF Snapshot
  <2> QED
    BY <2>3, <2>4
<1> QED
  BY <1>3, <1>4

\* A subscription keeps the invariant.
LEMMA SubscribeStreamInv == StreamInv /\ Subscribe => StreamInv'
<1> SUFFICES ASSUME StreamInv, Subscribe PROVE StreamInv'
  OBVIOUS
<1>1. /\ conn' \in [at : {"none", "asked", "open", "completed"}, snap : Statuses]
      /\ conn'.at \in {"open", "completed"}
  BY StreamAssumption DEF Subscribe, Statuses
<1>2. UNCHANGED <<row, pending, stream, appended, cursor, heard>>
  BY DEF Subscribe, platform, page
<1>3. /\ wire' \in Seq(Event)
      /\ \A p \in DOMAIN wire' : /\ wire'[p].id > 0 => wire'[p].n = wire'[p].id
                                 /\ wire'[p].n = Snapshot => p = 1
      /\ Consecutive(wire') /\ Continues(wire', heard) /\ UpToDate(wire', heard, appended)
  BY SubscribeSends
<1>4. Types'
  BY <1>1, <1>2, <1>3 DEF StreamInv, Types
<1>5. StreamIsTail' /\ CursorIsHeard'
  BY <1>2 DEF StreamInv, StreamIsTail, CursorIsHeard
<1>6. WireShape'
  BY <1>1, <1>3 DEF WireShape
<1> QED
  BY <1>2, <1>3, <1>4, <1>5, <1>6 DEF StreamInv

\* The handler of an event takes over its id and its number together.
LEMMA OnEventStreamInv == StreamInv /\ OnEvent => StreamInv'
<1> SUFFICES ASSUME StreamInv, OnEvent PROVE StreamInv'
  OBVIOUS
<1> DEFINE e == wire[1]
<1>1. /\ wire \in Seq(Event) /\ wire # <<>> /\ wire' = Tail(wire) /\ Head(wire) = e /\ e \in Event
      /\ 1 \in DOMAIN wire /\ heard \in Nat /\ appended \in Nat
      /\ UNCHANGED <<row, pending, stream, appended, conn>>
  BY DEF StreamInv, Types, OnEvent, platform
<1>2. cursor' = e.id /\ heard' = HeardAfter(e, heard)
  BY <1>1 DEF OnEvent, HeardAfter
<1>3. (e.id > 0 => e.n = e.id) /\ \A p \in DOMAIN wire : wire[p].n = Snapshot => p = 1
  BY <1>1 DEF StreamInv, WireShape
<1>4. /\ heard' \in Nat /\ Consecutive(wire') /\ Continues(wire', heard')
      /\ conn'.at = "open" => UpToDate(wire', heard', appended')
  BY <1>1, <1>2, <1>3, TailContinues DEF StreamInv
<1>5. /\ wire' \in Seq(Event) /\ Len(wire) \in Nat \ {0} /\ DOMAIN wire = 1..Len(wire)
      /\ DOMAIN wire' = 1..(Len(wire) - 1)
      /\ \A m \in DOMAIN wire' : wire'[m] = wire[m + 1] /\ m + 1 \in DOMAIN wire /\ m + 1 # 1
  BY <1>1
<1>6. WireShape'
  <2>1. conn'.at \notin {"none", "asked"}
    BY <1>1 DEF StreamInv, WireShape
  <2>2. \A p \in DOMAIN wire' : /\ wire'[p].id > 0 => wire'[p].n = wire'[p].id
                                /\ wire'[p].n # Snapshot
    BY <1>3, <1>5 DEF StreamInv, WireShape
  <2> QED
    BY <2>1, <2>2 DEF WireShape
<1>7. Types'
  BY <1>1, <1>2, <1>4, <1>5 DEF StreamInv, Types, Event
<1>8. CursorIsHeard'
  <2>1. e.id \in Nat /\ e.n \in Nat \cup {Snapshot}
    BY <1>1 DEF Event
  <2>2. cursor' # NoCursor
    BY <1>2, <2>1 DEF NoCursor
  <2>3. e.id > 0 => heard' = e.id
    BY <1>2, <1>3, <2>1 DEF HeardAfter, Snapshot
  <2> QED
    BY <1>2, <2>2, <2>3 DEF CursorIsHeard
<1>9. StreamIsTail'
  BY <1>1 DEF StreamInv, StreamIsTail
<1> QED
  BY <1>4, <1>6, <1>7, <1>8, <1>9 DEF StreamInv

\* Every step keeps the invariant.
LEMMA NextStreamInv == StreamInv /\ [Next]_vars => StreamInv'
<1> SUFFICES ASSUME StreamInv, [Next]_vars PROVE StreamInv'
  OBVIOUS
<1> USE DEF platform, page
<1>0. row \in Statuses /\ pending \subseteq Statuses
  BY DEF StreamInv, Types
<1>1. CASE Commit
  <2>1. row' \in Statuses /\ pending' \subseteq Statuses
    BY <1>0, <1>1, StreamAssumption DEF Commit, Statuses
  <2> QED
    BY <1>1, <2>1, Elsewhere DEF Commit
<1>2. CASE Observe
  BY <1>0, <1>2, Elsewhere DEF Observe
<1>3. ASSUME NEW s \in pending, Publish(s) PROVE StreamInv'
  BY <1>3, PublishStreamInv
<1>4. CASE Flush
  BY <1>4, FlushStreamInv
<1>5. CASE ReadSnapshot
  <2>1. wire' = <<>> /\ conn' \in [at : {"none", "asked"}, snap : Statuses]
    BY <1>0, <1>5 DEF ReadSnapshot, StreamInv, WireShape
  <2> QED
    BY <1>0, <1>5, <2>1, Disconnected DEF ReadSnapshot
<1>6. CASE Subscribe
  BY <1>6, SubscribeStreamInv
<1>7. NoConnection \in [at : {"none", "asked"}, snap : Statuses]
  BY StreamAssumption DEF NoConnection, Statuses
<1>8. CASE Drop
  BY <1>0, <1>7, <1>8, Disconnected DEF Drop
<1>9. CASE Crash
  BY <1>0, <1>7, <1>9, Disconnected DEF Crash
<1>10. CASE OnEvent
  BY <1>10, OnEventStreamInv
<1>11. CASE StreamEnds
  BY <1>0, <1>7, <1>11, Disconnected DEF StreamEnds
<1>12. CASE Effect
  BY <1>0, <1>7, <1>12, Disconnected DEF Effect
<1>13. CASE Poll
  BY <1>0, <1>13, Elsewhere DEF Poll
<1>14. ASSUME NEW r \in Reloads, ReadRow(r) \/ Reloaded(r) \/ ReloadFails(r) PROVE StreamInv'
  BY <1>0, <1>14, Elsewhere DEF ReadRow, Reloaded, ReloadFails
<1>15. CASE UNCHANGED vars
  BY <1>0, <1>15, Elsewhere DEF vars
<1> QED
  BY <1>1, <1>2, <1>3, <1>4, <1>5, <1>6, <1>8, <1>9, <1>10, <1>11, <1>12, <1>13, <1>14, <1>15
     DEF Next

\* The invariant holds throughout.
LEMMA StreamInductive == Spec => []StreamInv
BY InitStreamInv, NextStreamInv, PTL DEF Spec

\* A page that comes back with the id of an event never skips one silently: until a
\* snapshot tells it to start over, the next appended event it handles is the successor
\* of the last one, whatever the length of the stream, the number of connections, of
\* threads that publish, and of appends that failed or were executed without an answer.
THEOREM NoGaps == Spec => []NoSilentGap
<1>1. StreamInv => NoSilentGap
  <2> SUFFICES ASSUME StreamInv, wire # <<>>, heard # 0, Head(wire).n > 0
               PROVE  Head(wire).n = heard + 1
    BY DEF NoSilentGap
  <2>1. wire \in Seq(Event) /\ DOMAIN wire = 1..Len(wire) /\ 1 \in DOMAIN wire /\ Head(wire) = wire[1]
    BY DEF StreamInv, Types
  <2>2. Unnumbered(wire, 0, 1)
    BY <2>1 DEF Unnumbered
  <2> QED
    BY <2>1, <2>2 DEF StreamInv, Continues
<1> QED
  BY <1>1, StreamInductive, PTL
=============================================================================
