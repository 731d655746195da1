--------------------------- MODULE EventOrderProofs ---------------------------
(***************************************************************************)
(* Proofs about the order of the events on the path of EventPath, and that *)
(* none is lost or doubled on it, for any reports, capacities and bounds.  *)
(***************************************************************************)
EXTENDS EventPathProofs

\* Of two events of one source (L: those of the connection test) the first was
\* raised first; and so for the events of two sets, and of a sequence.
Before(L, a, b) == (a \in L <=> b \in L) => a < b
Below(L, S, T)  == \A a \in S, b \in T : Before(L, a, b)
Ascends(L, s)   == \A m, n \in DOMAIN s : m < n => Before(L, s[m], s[n])

\* The same for the rows of a table and for the items of the queue.
ItemsOf(s)        == {e.item : e \in EntriesOf(s)}
RowsAscend(L, s)  == \A m, n \in DOMAIN s : m < n => Before(L, s[m].item, s[n].item)
Queued(q, r)      == UNION {EntriesOf(q[i][2]) : i \in {i \in DOMAIN q : q[i][1] = r}}
QueueAscends(L, q) ==
  /\ \A i \in DOMAIN q : Ascends(L, q[i][2])
  /\ \A i, j \in DOMAIN q : i < j /\ q[i][1] = q[j][1] =>
       Below(L, EntriesOf(q[i][2]), EntriesOf(q[j][2]))

\* The stages an event of one kind passes: Stored, the Entry to be stored, the
\* Batch in hand, the Queue, the Dsp. The later the stage, the later the event.
Staged(L, Stored, Entry, Batch, Queue, Dsp) ==
  /\ Below(L, Stored, Entry \union Batch \union Queue \union Dsp)
  /\ Below(L, Entry, Batch \union Queue \union Dsp)
  /\ Below(L, Batch, Queue \union Dsp)
  /\ Below(L, Queue, Dsp)
-----------------------------------------------------------------------------
\* Sequences: what they hold, and what is left of their order.
LEMMA EntriesIn ==
  ASSUME NEW S, NEW s \in Seq(S) PROVE EntriesOf(s) \subseteq S
<1>1. \A n \in DOMAIN s : s[n] \in S
  OBVIOUS
<1> QED
  BY <1>1, Zenon DEF EntriesOf

LEMMA EntriesAppend ==
  ASSUME NEW S, NEW s \in Seq(S), NEW e \in S
  PROVE  EntriesOf(Append(s, e)) = EntriesOf(s) \union {e}
<1>1. \A n \in DOMAIN s : n \in DOMAIN Append(s, e) /\ Append(s, e)[n] = s[n]
  OBVIOUS
<1>2. Len(s) + 1 \in DOMAIN Append(s, e) /\ Append(s, e)[Len(s) + 1] = e
  OBVIOUS
<1>3. \A n \in DOMAIN Append(s, e) : n \in DOMAIN s \/ n = Len(s) + 1
  OBVIOUS
<1>4. EntriesOf(s) \union {e} \subseteq EntriesOf(Append(s, e))
  BY <1>1, <1>2, Zenon DEF EntriesOf
<1>5. EntriesOf(Append(s, e)) \subseteq EntriesOf(s) \union {e}
  BY <1>1, <1>2, <1>3, Zenon DEF EntriesOf
<1> QED
  BY <1>4, <1>5

LEMMA EntriesHead ==
  ASSUME NEW S, NEW s \in Seq(S), s # <<>>
  PROVE  EntriesOf(s) = {Head(s)} \union EntriesOf(Tail(s))
<1>1. \A n \in DOMAIN Tail(s) : n + 1 \in DOMAIN s /\ Tail(s)[n] = s[n + 1]
  OBVIOUS
<1>2. \A n \in DOMAIN s : n = 1 \/ (n - 1 \in DOMAIN Tail(s) /\ s[n] = Tail(s)[n - 1])
  OBVIOUS
<1>3. Head(s) = s[1] /\ 1 \in DOMAIN s
  OBVIOUS
<1>4. {Head(s)} \union EntriesOf(Tail(s)) \subseteq EntriesOf(s)
  <2>1. Head(s) \in EntriesOf(s)
    BY <1>3, Zenon DEF EntriesOf
  <2>2. ASSUME NEW x \in EntriesOf(Tail(s)) PROVE x \in EntriesOf(s)
    <3>1. PICK n \in DOMAIN Tail(s) : x = Tail(s)[n]
      BY DEF EntriesOf
    <3>2. n + 1 \in DOMAIN s /\ x = s[n + 1]
      BY <1>1, <3>1
    <3> QED
      BY <3>2, Zenon DEF EntriesOf
  <2> QED
    BY <2>1, <2>2
<1>5. EntriesOf(s) \subseteq {Head(s)} \union EntriesOf(Tail(s))
  BY <1>2, <1>3, Zenon DEF EntriesOf
<1> QED
  BY <1>4, <1>5

LEMMA AscendsAppend ==
  ASSUME NEW L, NEW S, NEW s \in Seq(S), NEW e \in S,
         Ascends(L, s), Below(L, EntriesOf(s), {e})
  PROVE  Ascends(L, Append(s, e))
<1>1. SUFFICES ASSUME NEW m \in DOMAIN Append(s, e), NEW n \in DOMAIN Append(s, e), m < n
      PROVE  Before(L, Append(s, e)[m], Append(s, e)[n])
  BY DEF Ascends
<1>2. m \in DOMAIN s /\ Append(s, e)[m] = s[m]
  BY <1>1
<1>3. \/ n \in DOMAIN s /\ Append(s, e)[n] = s[n]
      \/ Append(s, e)[n] = e
  BY <1>1
<1> QED
  BY <1>1, <1>2, <1>3 DEF Ascends, Below, EntriesOf

LEMMA AscendsTail ==
  ASSUME NEW L, NEW S, NEW s \in Seq(S), s # <<>>, Ascends(L, s)
  PROVE  Ascends(L, Tail(s)) /\ Below(L, {Head(s)}, EntriesOf(Tail(s)))
<1>1. \A n \in DOMAIN Tail(s) : n \in Nat /\ 1 < n + 1 /\ n + 1 \in DOMAIN s /\ Tail(s)[n] = s[n + 1]
  OBVIOUS
<1>2. Head(s) = s[1] /\ 1 \in DOMAIN s
  OBVIOUS
<1>3. \A m, n \in DOMAIN Tail(s) : m < n => m + 1 < n + 1
  BY <1>1
<1>4. Ascends(L, Tail(s))
  BY <1>1, <1>3 DEF Ascends
<1>5. Below(L, {Head(s)}, EntriesOf(Tail(s)))
  BY <1>1, <1>2 DEF Ascends, Below, EntriesOf
<1> QED
  BY <1>4, <1>5

\* Rows: one more at the end, and those that are left of them.
LEMMA RowsAppend ==
  ASSUME NEW L, NEW s \in Seq(Entries), NEW e \in Entries,
         RowsAscend(L, s), Below(L, ItemsOf(s), {e.item})
  PROVE  RowsAscend(L, Append(s, e)) /\ ItemsOf(Append(s, e)) = ItemsOf(s) \union {e.item}
<1>1. RowsAscend(L, Append(s, e))
  <2>1. SUFFICES ASSUME NEW m \in DOMAIN Append(s, e), NEW n \in DOMAIN Append(s, e), m < n
        PROVE  Before(L, Append(s, e)[m].item, Append(s, e)[n].item)
    BY DEF RowsAscend
  <2>2. m \in DOMAIN s /\ Append(s, e)[m] = s[m]
    BY <2>1
  <2>3. \/ n \in DOMAIN s /\ Append(s, e)[n] = s[n]
        \/ Append(s, e)[n] = e
    BY <2>1
  <2>4. s[m].item \in ItemsOf(s)
    BY <2>2, Zenon DEF ItemsOf, EntriesOf
  <2> QED
    BY <2>1, <2>2, <2>3, <2>4 DEF RowsAscend, Below
<1>2. EntriesOf(Append(s, e)) = EntriesOf(s) \union {e}
  BY EntriesAppend
<1> QED
  BY <1>1, <1>2 DEF ItemsOf

LEMMA RowsCut ==
  ASSUME NEW s \in Seq(Entries), NEW k \in 1..(Len(s) + 1)
  PROVE  /\ \A L : RowsAscend(L, s) => RowsAscend(L, SubSeq(s, k, Len(s)))
         /\ EntriesOf(SubSeq(s, k, Len(s))) \subseteq EntriesOf(s)
<1> DEFINE t == SubSeq(s, k, Len(s))
<1>1. \A n \in DOMAIN t : n \in Nat /\ k + n - 1 \in DOMAIN s /\ t[n] = s[k + n - 1]
  OBVIOUS
<1>2. \A m, n \in DOMAIN t : m < n => k + m - 1 < k + n - 1
  BY <1>1
<1>3. ASSUME NEW L, RowsAscend(L, s) PROVE RowsAscend(L, t)
  <2> SUFFICES ASSUME NEW m \in DOMAIN t, NEW n \in DOMAIN t, m < n
      PROVE  Before(L, t[m].item, t[n].item)
    BY DEF RowsAscend
  <2>1. k + m - 1 \in DOMAIN s /\ k + n - 1 \in DOMAIN s /\ k + m - 1 < k + n - 1
    BY <1>1, <1>2
  <2>2. Before(L, s[k + m - 1].item, s[k + n - 1].item)
    BY <1>3, <2>1 DEF RowsAscend
  <2>3. t[m] = s[k + m - 1] /\ t[n] = s[k + n - 1]
    BY <1>1
  <2> QED
    BY <2>2, <2>3
<1>4. EntriesOf(t) \subseteq EntriesOf(s)
  <2> SUFFICES ASSUME NEW x \in EntriesOf(t) PROVE x \in EntriesOf(s)
    OBVIOUS
  <2>1. PICK n \in DOMAIN t : x = t[n]
    BY DEF EntriesOf
  <2>2. k + n - 1 \in DOMAIN s /\ x = s[k + n - 1]
    BY <1>1, <2>1
  <2> QED
    BY <2>2, Zenon DEF EntriesOf
<1> QED
  BY <1>3, <1>4
-----------------------------------------------------------------------------
\* The queue: an item more at its end, one less at its head.
Kinds == Reports \X Seq(Nat)

LEMMA QueuedAppend ==
  ASSUME NEW q \in Seq(Kinds), NEW k \in Reports, NEW s \in Seq(Nat), NEW r
  PROVE  Queued(Append(q, <<k, s>>), r)
           = Queued(q, r) \union (IF r = k THEN EntriesOf(s) ELSE {})
<1> DEFINE p == Append(q, <<k, s>>)
<1>1. <<k, s>> \in Kinds /\ <<k, s>>[1] = k /\ <<k, s>>[2] = s
  BY DEF Kinds
<1>2. \A i \in DOMAIN q : i \in DOMAIN p /\ p[i] = q[i]
  BY <1>1
<1>3. Len(q) + 1 \in DOMAIN p /\ p[Len(q) + 1] = <<k, s>>
  BY <1>1
<1>4. \A i \in DOMAIN p : i \in DOMAIN q \/ i = Len(q) + 1
  BY <1>1
<1> HIDE DEF p
<1>5. Queued(q, r) \subseteq Queued(p, r)
  BY <1>2, Zenon DEF Queued
<1>6. r = k => EntriesOf(s) \subseteq Queued(p, r)
  BY <1>1, <1>3, Zenon DEF Queued
<1>7. Queued(p, r) \subseteq Queued(q, r) \union (IF r = k THEN EntriesOf(s) ELSE {})
  <2> SUFFICES ASSUME NEW x \in Queued(p, r), x \notin Queued(q, r)
      PROVE  r = k /\ x \in EntriesOf(s)
    OBVIOUS
  <2>1. PICK i \in DOMAIN p : p[i][1] = r /\ x \in EntriesOf(p[i][2])
    BY DEF Queued
  <2>2. i \notin DOMAIN q
    BY <1>2, <2>1 DEF Queued
  <2> QED
    BY <1>1, <1>3, <1>4, <2>1, <2>2
<1> QED
  BY <1>5, <1>6, <1>7 DEF p

LEMMA QueuedHead ==
  ASSUME NEW q \in Seq(Kinds), q # <<>>, NEW r
  PROVE  Queued(q, r) = Queued(Tail(q), r)
           \union (IF r = Head(q)[1] THEN EntriesOf(Head(q)[2]) ELSE {})
<1> DEFINE t == Tail(q)
<1>1. \A i \in DOMAIN t : i + 1 \in DOMAIN q /\ t[i] = q[i + 1]
  OBVIOUS
<1>2. \A i \in DOMAIN q : i = 1 \/ (i - 1 \in DOMAIN t /\ q[i] = t[i - 1])
  OBVIOUS
<1>3. Head(q) = q[1] /\ 1 \in DOMAIN q
  OBVIOUS
<1> HIDE DEF t
<1>4. Queued(t, r) \subseteq Queued(q, r)
  <2> SUFFICES ASSUME NEW x \in Queued(t, r) PROVE x \in Queued(q, r)
    OBVIOUS
  <2>1. PICK i \in DOMAIN t : t[i][1] = r /\ x \in EntriesOf(t[i][2])
    BY DEF Queued
  <2>2. i + 1 \in DOMAIN q /\ q[i + 1] = t[i]
    BY <1>1
  <2> QED
    BY <2>1, <2>2, Zenon DEF Queued
<1>5. r = Head(q)[1] => EntriesOf(Head(q)[2]) \subseteq Queued(q, r)
  BY <1>3, Zenon DEF Queued
<1>6. Queued(q, r) \subseteq Queued(t, r)
        \union (IF r = Head(q)[1] THEN EntriesOf(Head(q)[2]) ELSE {})
  <2> SUFFICES ASSUME NEW x \in Queued(q, r), x \notin Queued(t, r)
      PROVE  r = Head(q)[1] /\ x \in EntriesOf(Head(q)[2])
    OBVIOUS
  <2>1. PICK i \in DOMAIN q : q[i][1] = r /\ x \in EntriesOf(q[i][2])
    BY DEF Queued
  <2>2. i = 1
    <3> SUFFICES ASSUME i # 1 PROVE FALSE
      OBVIOUS
    <3>1. i - 1 \in DOMAIN t /\ t[i - 1] = q[i]
      BY <1>2
    <3> QED
      BY <2>1, <3>1, Zenon DEF Queued
  <2> QED
    BY <1>3, <2>1, <2>2
<1> QED
  BY <1>4, <1>5, <1>6 DEF t

LEMMA QueueAscendsAppend ==
  ASSUME NEW L, NEW q \in Seq(Kinds), NEW k \in Reports, NEW s \in Seq(Nat),
         QueueAscends(L, q), Ascends(L, s), Below(L, Queued(q, k), EntriesOf(s))
  PROVE  QueueAscends(L, Append(q, <<k, s>>))
<1> DEFINE p == Append(q, <<k, s>>)
<1>1. <<k, s>> \in Kinds /\ <<k, s>>[1] = k /\ <<k, s>>[2] = s
  BY DEF Kinds
<1>2. \A i \in DOMAIN p : \/ i \in DOMAIN q /\ p[i] = q[i]
                          \/ i = Len(q) + 1 /\ p[i] = <<k, s>>
  BY <1>1
<1>3. \A i \in DOMAIN q : ~(Len(q) + 1 < i) /\ i \in Nat
  OBVIOUS
<1>4. Len(q) \in Nat /\ ~(Len(q) + 1 < Len(q) + 1)
  OBVIOUS
<1> HIDE DEF p
<1>5. \A i \in DOMAIN p : Ascends(L, p[i][2])
  BY <1>1, <1>2 DEF QueueAscends
<1>6. ASSUME NEW i \in DOMAIN p, NEW j \in DOMAIN p, i < j, p[i][1] = p[j][1]
      PROVE  Below(L, EntriesOf(p[i][2]), EntriesOf(p[j][2]))
  <2>1. i \in DOMAIN q /\ p[i] = q[i]
    BY <1>2, <1>3, <1>4, <1>6
  <2>2. CASE j \in DOMAIN q /\ p[j] = q[j]
    BY <1>6, <2>1, <2>2 DEF QueueAscends
  <2>3. CASE p[j] = <<k, s>>
    <3>1. EntriesOf(q[i][2]) \subseteq Queued(q, k)
      BY <1>1, <1>6, <2>1, <2>3 DEF Queued
    <3> QED
      BY <1>1, <2>1, <2>3, <3>1 DEF Below
  <2> QED
    BY <1>2, <2>2, <2>3
<1> QED
  BY <1>5, <1>6 DEF QueueAscends, p

LEMMA QueueAscendsTail ==
  ASSUME NEW L, NEW q \in Seq(Kinds), q # <<>>, QueueAscends(L, q)
  PROVE  /\ QueueAscends(L, Tail(q)) /\ Ascends(L, Head(q)[2])
         /\ Below(L, EntriesOf(Head(q)[2]), Queued(Tail(q), Head(q)[1]))
<1> DEFINE t == Tail(q)
<1>1. \A i \in DOMAIN t : i \in Nat /\ 1 < i + 1 /\ i + 1 \in DOMAIN q /\ t[i] = q[i + 1]
  OBVIOUS
<1>2. Head(q) = q[1] /\ 1 \in DOMAIN q
  OBVIOUS
<1>3. \A i, j \in DOMAIN t : i < j => i + 1 < j + 1
  BY <1>1
<1> HIDE DEF t
<1>4. QueueAscends(L, t)
  <2>1. \A i \in DOMAIN t : Ascends(L, t[i][2])
    BY <1>1 DEF QueueAscends
  <2>2. ASSUME NEW i \in DOMAIN t, NEW j \in DOMAIN t, i < j, t[i][1] = t[j][1]
        PROVE  Below(L, EntriesOf(t[i][2]), EntriesOf(t[j][2]))
    <3>1. /\ i + 1 \in DOMAIN q /\ t[i] = q[i + 1]
          /\ j + 1 \in DOMAIN q /\ t[j] = q[j + 1]
          /\ i + 1 < j + 1
      BY <1>1, <1>3, <2>2
    <3>2. q[i + 1][1] = q[j + 1][1]
      BY <2>2, <3>1
    <3>3. Below(L, EntriesOf(q[i + 1][2]), EntriesOf(q[j + 1][2]))
      BY <3>1, <3>2 DEF QueueAscends
    <3> QED
      BY <3>1, <3>3
  <2> QED
    BY <2>1, <2>2 DEF QueueAscends
<1>5. Ascends(L, Head(q)[2])
  BY <1>2 DEF QueueAscends
<1>6. Below(L, EntriesOf(Head(q)[2]), Queued(t, Head(q)[1]))
  <2> SUFFICES ASSUME NEW a \in EntriesOf(Head(q)[2]), NEW b \in Queued(t, Head(q)[1])
      PROVE  Before(L, a, b)
    BY DEF Below
  <2>1. PICK i \in DOMAIN t : t[i][1] = Head(q)[1] /\ b \in EntriesOf(t[i][2])
    BY DEF Queued
  <2>2. 1 < i + 1 /\ i + 1 \in DOMAIN q /\ t[i] = q[i + 1]
    BY <1>1
  <2>3. Below(L, EntriesOf(q[1][2]), EntriesOf(q[i + 1][2]))
    BY <1>2, <2>1, <2>2 DEF QueueAscends
  <2> QED
    BY <1>2, <2>1, <2>2, <2>3 DEF Below
<1> QED
  BY <1>4, <1>5, <1>6 DEF t
-----------------------------------------------------------------------------
\* One more event of the connection test changes nothing for those before it.
LEMMA BeforeStays ==
  ASSUME NEW n \in Nat, NEW L, NEW a \in 1..n, NEW b \in 1..n
  PROVE  Before(L, a, b) <=> Before(L \union {n + 1}, a, b)
<1>1. a # n + 1 /\ b # n + 1
  OBVIOUS
<1> QED
  BY <1>1 DEF Before

LEMMA OrderStays ==
  ASSUME NEW n \in Nat, NEW L
  PROVE  /\ \A S, T \in SUBSET (1..n) : Below(L, S, T) => Below(L \union {n + 1}, S, T)
         /\ \A s \in Seq(1..n) : Ascends(L, s) => Ascends(L \union {n + 1}, s)
         /\ \A s \in Seq(Entries) :
              ItemsOf(s) \subseteq 1..n /\ RowsAscend(L, s) => RowsAscend(L \union {n + 1}, s)
<1>1. ASSUME NEW S \in SUBSET (1..n), NEW T \in SUBSET (1..n), Below(L, S, T)
      PROVE  Below(L \union {n + 1}, S, T)
  BY <1>1, BeforeStays DEF Below
<1>2. ASSUME NEW s \in Seq(1..n), Ascends(L, s)
      PROVE  Ascends(L \union {n + 1}, s)
  <2>1. \A m \in DOMAIN s : s[m] \in 1..n
    OBVIOUS
  <2> QED
    BY <1>2, <2>1, BeforeStays DEF Ascends
<1>3. ASSUME NEW s \in Seq(Entries), ItemsOf(s) \subseteq 1..n, RowsAscend(L, s)
      PROVE  RowsAscend(L \union {n + 1}, s)
  <2>1. \A m \in DOMAIN s : s[m].item \in 1..n
    BY <1>3 DEF ItemsOf, EntriesOf
  <2> QED
    BY <1>3, <2>1, BeforeStays DEF RowsAscend
<1> QED
  BY <1>1, <1>2, <1>3

LEMMA QueueStays ==
  ASSUME NEW n \in Nat, NEW L, NEW q \in Seq(Reports \X Seq(1..n)), QueueAscends(L, q)
  PROVE  QueueAscends(L \union {n + 1}, q)
<1>1. \A i \in DOMAIN q : q[i][2] \in Seq(1..n)
  OBVIOUS
<1>2. \A i \in DOMAIN q : EntriesOf(q[i][2]) \in SUBSET (1..n)
  BY <1>1 DEF EntriesOf
<1> QED
  BY <1>1, <1>2, OrderStays DEF QueueAscends
-----------------------------------------------------------------------------
\* The events of one kind, of the n raised so far: the rows s, the entry, the
\* batch and the queue, and the sequence d the DSP still has.
Ordered(L, n, s, Entry, Batch, Queue, d) ==
  /\ ItemsOf(s) \subseteq 1..n /\ RowsAscend(L, s)
  /\ Ascends(L, d) /\ EntriesOf(d) \intersect L = {}
  /\ Staged(L, ItemsOf(s), Entry, Batch, Queue, EntriesOf(d))

\* Fewer rows, nothing in hand, an empty queue: what is left is in order.
LEMMA OrderedLess ==
  ASSUME NEW L, NEW n \in Nat, NEW s, NEW E, NEW B, NEW Q, NEW d,
         Ordered(L, n, s, E, B, Q, d),
         NEW t, RowsAscend(L, t), ItemsOf(t) \subseteq ItemsOf(s),
         NEW F \in SUBSET E, NEW C \in SUBSET B, NEW P \in SUBSET Q
  PROVE  Ordered(L, n, t, F, C, P, d)
<1>1. Staged(L, ItemsOf(s), E, B, Q, EntriesOf(d))
  BY DEF Ordered
<1>2. Staged(L, ItemsOf(t), F, C, P, EntriesOf(d))
  BY <1>1 DEF Staged, Below
<1> QED
  BY <1>2 DEF Ordered

\* The DSP raises one more event, of this kind or of another.
LEMMA OrderedRaise ==
  ASSUME NEW L, NEW n \in Nat, NEW s, NEW E \in SUBSET (1..n), NEW B \in SUBSET (1..n),
         NEW Q \in SUBSET (1..n), NEW d \in Seq(1..n), L \subseteq 1..n,
         Ordered(L, n, s, E, B, Q, d)
  PROVE  /\ Ordered(L, n + 1, s, E, B, Q, d)
         /\ Ordered(L, n + 1, s, E, B, Q, Append(d, n + 1))
<1>1. /\ ItemsOf(s) \subseteq 1..n /\ ItemsOf(s) \subseteq 1..(n + 1)
      /\ EntriesOf(d) \subseteq 1..n
  BY DEF Ordered, EntriesOf
<1>2. \A S \in SUBSET (1..n) : Below(L, S, {n + 1})
  BY DEF Below, Before
<1>3. d \in Seq(1..(n + 1)) /\ n + 1 \in 1..(n + 1)
  OBVIOUS
<1>4. EntriesOf(Append(d, n + 1)) = EntriesOf(d) \union {n + 1}
  BY <1>3, EntriesAppend
<1>5. Ascends(L, Append(d, n + 1))
  BY <1>1, <1>2, <1>3, AscendsAppend DEF Ordered
<1>6. Staged(L, ItemsOf(s), E, B, Q, EntriesOf(d))
  BY DEF Ordered
<1>7. /\ Below(L, ItemsOf(s), {n + 1}) /\ Below(L, E, {n + 1})
      /\ Below(L, B, {n + 1}) /\ Below(L, Q, {n + 1})
  BY <1>1, <1>2
<1>8. Staged(L, ItemsOf(s), E, B, Q, EntriesOf(d) \union {n + 1})
  BY <1>6, <1>7 DEF Staged, Below
<1>9. n + 1 \notin L
  OBVIOUS
<1> QED
  BY <1>1, <1>4, <1>5, <1>6, <1>8, <1>9 DEF Ordered

\* The connection test puts one more event into the queue.
LEMMA OrderedLink ==
  ASSUME NEW L, NEW n \in Nat, NEW s \in Seq(Entries), NEW E \in SUBSET (1..n),
         NEW B \in SUBSET (1..n), NEW Q \in SUBSET (1..n), NEW d \in Seq(1..n),
         Ordered(L, n, s, E, B, Q, d)
  PROVE  /\ Ordered(L \union {n + 1}, n + 1, s, E, B, Q, d)
         /\ Ordered(L \union {n + 1}, n + 1, s, E, B, Q \union {n + 1}, d)
<1> DEFINE K == L \union {n + 1}
<1>1. /\ ItemsOf(s) \subseteq 1..n /\ ItemsOf(s) \subseteq 1..(n + 1)
      /\ EntriesOf(d) \subseteq 1..n
  BY DEF Ordered, EntriesOf
<1>2. RowsAscend(K, s) /\ Ascends(K, d)
  BY <1>1, OrderStays DEF Ordered
<1>3. n + 1 \notin EntriesOf(d)
  BY <1>1
<1>4. EntriesOf(d) \intersect K = {}
  BY <1>3 DEF Ordered
<1>5. Staged(L, ItemsOf(s), E, B, Q, EntriesOf(d))
  BY DEF Ordered
<1>6. Staged(K, ItemsOf(s), E, B, Q, EntriesOf(d))
  <2>1. /\ E \union B \union Q \union EntriesOf(d) \in SUBSET (1..n)
        /\ B \union Q \union EntriesOf(d) \in SUBSET (1..n)
        /\ Q \union EntriesOf(d) \in SUBSET (1..n) /\ EntriesOf(d) \in SUBSET (1..n)
        /\ ItemsOf(s) \in SUBSET (1..n)
    BY <1>1
  <2> QED
    BY <1>5, <2>1, OrderStays DEF Staged
<1>7. \A S \in SUBSET (1..n) : Below(K, S, {n + 1})
  BY DEF Below, Before
<1>8. Below(K, ItemsOf(s), {n + 1}) /\ Below(K, E, {n + 1}) /\ Below(K, B, {n + 1})
  BY <1>1, <1>7
<1>9. Below(K, {n + 1}, EntriesOf(d))
  BY <1>4 DEF Below, Before
<1>10. Staged(K, ItemsOf(s), E, B, Q \union {n + 1}, EntriesOf(d))
  <2> HIDE DEF K
  <2> QED
    BY <1>6, <1>8, <1>9 DEF Staged, Below
<1> QED
  BY <1>1, <1>2, <1>4, <1>6, <1>10 DEF Ordered

\* What the DSP has is read into the queue.
LEMMA OrderedRead ==
  ASSUME NEW L, NEW n \in Nat, NEW s, NEW E, NEW B, NEW Q, NEW d,
         Ordered(L, n, s, E, B, Q, d)
  PROVE  Ordered(L, n, s, E, B, Q \union EntriesOf(d), <<>>)
<1>1. EntriesOf(<<>>) = {} /\ Ascends(L, <<>>)
  BY DEF EntriesOf, Ascends
<1>2. Staged(L, ItemsOf(s), E, B, Q, EntriesOf(d))
  BY DEF Ordered
<1>3. Staged(L, ItemsOf(s), E, B, Q \union EntriesOf(d), {})
  BY <1>2 DEF Staged, Below
<1> QED
  BY <1>1, <1>3 DEF Ordered

\* An item of the queue is taken in hand, an event of it is to be stored, and
\* is stored.
LEMMA OrderedTake ==
  ASSUME NEW L, NEW n \in Nat, NEW s, NEW B, NEW Q, NEW d,
         Ordered(L, n, s, {}, {}, Q \union B, d), Below(L, B, Q)
  PROVE  Ordered(L, n, s, {}, B, Q, d)
<1>1. Staged(L, ItemsOf(s), {}, {}, Q \union B, EntriesOf(d))
  BY DEF Ordered
<1>2. Staged(L, ItemsOf(s), {}, B, Q, EntriesOf(d))
  BY <1>1 DEF Staged, Below
<1> QED
  BY <1>2 DEF Ordered

LEMMA OrderedNext ==
  ASSUME NEW L, NEW n \in Nat, NEW s, NEW a, NEW B, NEW Q, NEW d,
         Ordered(L, n, s, {}, {a} \union B, Q, d), Below(L, {a}, B)
  PROVE  Ordered(L, n, s, {a}, B, Q, d)
<1>1. Staged(L, ItemsOf(s), {}, {a} \union B, Q, EntriesOf(d))
  BY DEF Ordered
<1>2. Staged(L, ItemsOf(s), {a}, B, Q, EntriesOf(d))
  BY <1>1 DEF Staged, Below
<1> QED
  BY <1>2 DEF Ordered

LEMMA OrderedStore ==
  ASSUME NEW L, NEW n \in Nat, NEW s \in Seq(Entries), NEW e \in Entries,
         e.item \in 1..n, NEW B, NEW Q, NEW d, Ordered(L, n, s, {e.item}, B, Q, d)
  PROVE  Ordered(L, n, Append(s, e), {}, B, Q, d)
<1>1. Staged(L, ItemsOf(s), {e.item}, B, Q, EntriesOf(d))
  BY DEF Ordered
<1>2. Below(L, ItemsOf(s), {e.item})
  BY <1>1 DEF Staged, Below
<1>3. /\ RowsAscend(L, Append(s, e))
      /\ ItemsOf(Append(s, e)) = ItemsOf(s) \union {e.item}
  BY <1>2, RowsAppend DEF Ordered
<1>4. Staged(L, ItemsOf(s) \union {e.item}, {}, B, Q, EntriesOf(d))
  BY <1>1 DEF Staged, Below
<1> QED
  BY <1>3, <1>4 DEF Ordered
-----------------------------------------------------------------------------
\* The inductive invariant: every kind of event is in order at every stage.
Entry(r) == IF handler.at = "insert" /\ handler.kind = r THEN {handler.entry.item}
            ELSE {}
Batch(r) == IF handler.kind = r THEN EntriesOf(handler.batch) ELSE {}

EventOrder ==
  /\ handler.at = "idle" => handler.batch = <<>>
  /\ Ascends(byLink, handler.batch)
  /\ QueueAscends(byLink, equeue)
  /\ \A r \in Reports :
       Ordered(byLink, raised, rows[r], Entry(r), Batch(r), Queued(equeue, r), dspHas[r])

\* The types of what the invariant speaks about.
LEMMA OrderTypes ==
  ASSUME PathIInv
  PROVE  /\ raised \in Nat /\ byLink \subseteq 1..raised
         /\ equeue \in Seq(Reports \X Seq(1..raised)) /\ equeue \in Seq(Kinds)
         /\ handler.kind \in Reports /\ handler.batch \in Seq(1..raised)
         /\ handler.batch \in Seq(Nat)
         /\ handler.entry \in Entries
         /\ handler.at \in {"idle", "insert", "tell", "next"}
         /\ handler.at \in {"insert", "tell"} => handler.entry.item \in 1..raised
         /\ \A r \in Reports :
              /\ rows[r] \in Seq(Entries)
              /\ dspHas[r] \in Seq(1..raised) /\ dspHas[r] \in Seq(Nat)
              /\ Entry(r) \in SUBSET (1..raised) /\ Batch(r) \in SUBSET (1..raised)
              /\ Queued(equeue, r) \in SUBSET (1..raised)
              /\ EntriesOf(dspHas[r]) \in SUBSET (1..raised)
<1>1. /\ StoreTypeOK /\ HandlerOK /\ QueuesOK
      /\ raised \in Nat /\ byLink \subseteq 1..raised
  BY EventAssumption DEF PathIInv, QueuesOK
<1>2. Seq(1..raised) \subseteq Seq(Nat)
  <2>1. 1..raised \subseteq Nat
    BY <1>1
  <2> QED
    BY <2>1, SeqMonotone
<1>3. /\ Items \subseteq Reports \X Seq(1..raised)
      /\ Items \subseteq Kinds
  BY <1>2 DEF Items, Kinds
<1>4. equeue \in Seq(Items)
  BY <1>1 DEF QueuesOK
<1>5. equeue \in Seq(Reports \X Seq(1..raised)) /\ equeue \in Seq(Kinds)
  BY <1>3, <1>4, SeqMonotone
<1>6. /\ handler.kind \in Reports /\ handler.batch \in Seq(1..raised)
      /\ handler.entry \in Entries
      /\ handler.at \in {"idle", "insert", "tell", "next"}
      /\ handler.at \in {"insert", "tell"} => handler.entry.item \in 1..raised
  BY <1>1 DEF HandlerOK
<1>7. \A r \in Reports : rows[r] \in Seq(Entries) /\ dspHas[r] \in Seq(1..raised)
  BY <1>1 DEF StoreTypeOK, QueuesOK
<1>8. \A s \in Seq(1..raised) : EntriesOf(s) \in SUBSET (1..raised)
  BY EntriesIn
<1>9. \A i \in DOMAIN equeue : equeue[i][2] \in Seq(1..raised)
  BY <1>5
<1>10. ASSUME NEW r \in Reports
       PROVE  /\ Entry(r) \in SUBSET (1..raised) /\ Batch(r) \in SUBSET (1..raised)
              /\ Queued(equeue, r) \in SUBSET (1..raised)
              /\ EntriesOf(dspHas[r]) \in SUBSET (1..raised)
  <2>1. Entry(r) \in SUBSET (1..raised) /\ Batch(r) \in SUBSET (1..raised)
    BY <1>6, <1>8 DEF Entry, Batch
  <2>2. Queued(equeue, r) \in SUBSET (1..raised)
    BY <1>8, <1>9 DEF Queued
  <2> QED
    BY <1>7, <1>8, <2>1, <2>2
<1> QED
  BY <1>1, <1>2, <1>5, <1>6, <1>7, <1>10

LEMMA OrderInit == Init => EventOrder
<1> SUFFICES ASSUME Init PROVE EventOrder
  OBVIOUS
<1>1. /\ handler = Rest /\ equeue = <<>> /\ byLink = {} /\ raised = 0
      /\ \A r \in Reports : rows[r] = <<>> /\ dspHas[r] = <<>>
  BY DEF Init, StoreInit
<1>2. \A L : Ascends(L, <<>>) /\ RowsAscend(L, <<>>) /\ QueueAscends(L, <<>>)
  BY DEF Ascends, RowsAscend, QueueAscends
<1>3. EntriesOf(<<>>) = {} /\ ItemsOf(<<>>) = {} /\ \A r : Queued(<<>>, r) = {}
  BY DEF EntriesOf, ItemsOf, Queued
<1>4. handler.at = "idle" /\ handler.batch = <<>>
  BY <1>1 DEF Rest
<1>5. \A r \in Reports : Entry(r) = {} /\ Batch(r) = {}
  BY <1>3, <1>4 DEF Entry, Batch
<1>6. \A L, n : Ordered(L, n, <<>>, {}, {}, {}, <<>>)
  BY <1>2, <1>3 DEF Ordered, Staged, Below
<1>7. Ascends(byLink, handler.batch) /\ QueueAscends(byLink, equeue)
  BY <1>1, <1>2, <1>4
<1>8. ASSUME NEW r \in Reports
      PROVE  Ordered(byLink, raised, rows[r], Entry(r), Batch(r), Queued(equeue, r), dspHas[r])
  <2>1. /\ rows[r] = <<>> /\ dspHas[r] = <<>> /\ Entry(r) = {} /\ Batch(r) = {}
        /\ Queued(equeue, r) = {}
    BY <1>1, <1>3, <1>5
  <2> QED
    BY <1>6, <2>1
<1> QED
  BY <1>4, <1>7, <1>8 DEF EventOrder

LEMMA RaiseOrder ==
  ASSUME PathIInv, EventOrder, NEW r \in Reports, Raise(r)
  PROVE  EventOrder'
<1>1. /\ raised' = raised + 1 /\ byLink' = byLink /\ equeue' = equeue
      /\ handler' = handler /\ rows' = rows
      /\ \A q \in Reports :
           dspHas'[q] = IF q = r THEN Append(dspHas[q], raised + 1) ELSE dspHas[q]
  BY DEF Raise, storevars, PathIInv, QueuesOK
<1>2. ASSUME NEW q \in Reports
      PROVE  Ordered(byLink, raised + 1, rows[q], Entry(q), Batch(q), Queued(equeue, q), dspHas'[q])
  <2>1. /\ raised \in Nat /\ byLink \subseteq 1..raised
        /\ Entry(q) \in SUBSET (1..raised) /\ Batch(q) \in SUBSET (1..raised)
        /\ Queued(equeue, q) \in SUBSET (1..raised) /\ dspHas[q] \in Seq(1..raised)
    BY OrderTypes
  <2>2. Ordered(byLink, raised, rows[q], Entry(q), Batch(q), Queued(equeue, q), dspHas[q])
    BY DEF EventOrder
  <2> QED
    BY <1>1, <2>1, <2>2, OrderedRaise
<1>3. \A q \in Reports : Entry(q)' = Entry(q) /\ Batch(q)' = Batch(q)
  BY <1>1 DEF Entry, Batch
<1> QED
  BY <1>1, <1>2, <1>3 DEF EventOrder

LEMMA LinkEventOrder ==
  ASSUME PathIInv, EventOrder, LinkEvent
  PROVE  EventOrder'
<1>1. /\ raised' = raised + 1 /\ byLink' = byLink \union {raised + 1}
      /\ equeue' = Append(equeue, <<Soe, <<raised + 1>>>>)
      /\ handler' = handler /\ rows' = rows /\ dspHas' = dspHas
  BY DEF LinkEvent, storevars
<1>2. /\ raised \in Nat /\ byLink \subseteq 1..raised /\ equeue \in Seq(Kinds)
      /\ equeue \in Seq(Reports \X Seq(1..raised)) /\ handler.batch \in Seq(1..raised)
  BY OrderTypes
<1> DEFINE s == <<raised + 1>>
           K == byLink \union {raised + 1}
<1>3. s \in Seq(Nat) /\ EntriesOf(s) = {raised + 1} /\ Soe \in Reports
  BY <1>2, EventAssumption DEF EntriesOf
<1>4. ASSUME NEW q \in Reports
      PROVE  Queued(equeue, q)'
               = Queued(equeue, q) \union (IF q = Soe THEN {raised + 1} ELSE {})
  <2>1. Queued(Append(equeue, <<Soe, s>>), q)
          = Queued(equeue, q) \union (IF q = Soe THEN EntriesOf(s) ELSE {})
    <3> HIDE DEF s
    <3> QED
      BY <1>2, <1>3, QueuedAppend
  <2> QED
    BY <1>1, <1>3, <2>1
<1>5. ASSUME NEW q \in Reports
      PROVE  Ordered(K, raised + 1, rows[q], Entry(q), Batch(q), Queued(equeue, q)', dspHas[q])
  <2>1. /\ Entry(q) \in SUBSET (1..raised) /\ Batch(q) \in SUBSET (1..raised)
        /\ Queued(equeue, q) \in SUBSET (1..raised) /\ dspHas[q] \in Seq(1..raised)
        /\ rows[q] \in Seq(Entries)
    BY OrderTypes
  <2>2. Ordered(byLink, raised, rows[q], Entry(q), Batch(q), Queued(equeue, q), dspHas[q])
    BY DEF EventOrder
  <2>3. /\ Ordered(K, raised + 1, rows[q], Entry(q), Batch(q), Queued(equeue, q), dspHas[q])
        /\ Ordered(K, raised + 1, rows[q], Entry(q), Batch(q),
                   Queued(equeue, q) \union {raised + 1}, dspHas[q])
    BY <1>2, <2>1, <2>2, OrderedLink
  <2> QED
    BY <1>4, <2>3
<1>6. Ascends(K, handler.batch)
  BY <1>2, OrderStays DEF EventOrder
<1>7. QueueAscends(K, equeue')
  <2>1. QueueAscends(K, equeue)
    BY <1>2, QueueStays DEF EventOrder
  <2>2. Ascends(K, s)
    BY DEF Ascends
  <2>3. Below(K, Queued(equeue, Soe), EntriesOf(s))
    <3>1. Queued(equeue, Soe) \in SUBSET (1..raised)
      BY <1>3, OrderTypes
    <3> QED
      BY <1>2, <1>3, <3>1 DEF Below, Before
  <2> HIDE DEF s, K
  <2>4. QueueAscends(K, Append(equeue, <<Soe, s>>))
    BY <1>2, <1>3, <2>1, <2>2, <2>3, QueueAscendsAppend
  <2> QED
    BY <1>1, <2>4 DEF s
<1>8. \A q \in Reports : Entry(q)' = Entry(q) /\ Batch(q)' = Batch(q)
  BY <1>1 DEF Entry, Batch
<1> QED
  BY <1>1, <1>5, <1>6, <1>7, <1>8 DEF EventOrder

LEMMA ReadEventsOrder ==
  ASSUME PathIInv, EventOrder, NEW r \in Reports, ReadEvents(r)
  PROVE  EventOrder'
<1>1. /\ raised' = raised /\ byLink' = byLink /\ handler' = handler /\ rows' = rows
      /\ \A q \in Reports : Entry(q)' = Entry(q) /\ Batch(q)' = Batch(q)
  BY DEF ReadEvents, Entry, Batch
<1>2. CASE UNCHANGED <<equeue, dspHas>>
  <2>1. \A q \in Reports : Queued(equeue, q)' = Queued(equeue, q)
    BY <1>2
  <2> QED
    BY <1>1, <1>2, <2>1 DEF EventOrder
<1>3. CASE /\ equeue' = IF dspHas[r] = <<>> THEN equeue ELSE Append(equeue, <<r, dspHas[r]>>)
           /\ dspHas' = [dspHas EXCEPT ![r] = <<>>]
  <2>1. /\ raised \in Nat /\ equeue \in Seq(Kinds)
        /\ dspHas[r] \in Seq(1..raised) /\ dspHas[r] \in Seq(Nat)
    BY OrderTypes
  <2>2. \A q \in Reports : dspHas'[q] = IF q = r THEN <<>> ELSE dspHas[q]
    BY <1>3 DEF PathIInv, QueuesOK
  <2>3. EntriesOf(<<>>) = {}
    BY DEF EntriesOf
  <2>4. ASSUME NEW q \in Reports
        PROVE  Queued(equeue, q)' = Queued(equeue, q)
                 \union (IF q = r THEN EntriesOf(dspHas[r]) ELSE {})
    <3>1. CASE dspHas[r] = <<>>
      BY <1>3, <2>3, <3>1
    <3>2. CASE dspHas[r] # <<>>
      <4>1. Queued(Append(equeue, <<r, dspHas[r]>>), q)
              = Queued(equeue, q) \union (IF q = r THEN EntriesOf(dspHas[r]) ELSE {})
        BY <2>1, QueuedAppend
      <4> QED
        BY <1>3, <3>2, <4>1
    <3> QED
      BY <3>1, <3>2
  <2>5. ASSUME NEW q \in Reports
        PROVE  Ordered(byLink, raised, rows[q], Entry(q), Batch(q), Queued(equeue, q)', dspHas'[q])
    <3>1. Ordered(byLink, raised, rows[q], Entry(q), Batch(q), Queued(equeue, q), dspHas[q])
      BY DEF EventOrder
    <3>2. CASE q = r
      <4>1. Ordered(byLink, raised, rows[q], Entry(q), Batch(q),
                    Queued(equeue, q) \union EntriesOf(dspHas[q]), <<>>)
        BY <2>1, <3>1, OrderedRead
      <4> QED
        BY <2>2, <2>4, <3>2, <4>1
    <3>3. CASE q # r
      <4>1. Queued(equeue, q)' = Queued(equeue, q) /\ dspHas'[q] = dspHas[q]
        BY <2>2, <2>4, <3>3
      <4> QED
        BY <3>1, <4>1
    <3> QED
      BY <3>2, <3>3
  <2>6. QueueAscends(byLink, equeue')
    <3>1. CASE dspHas[r] = <<>>
      BY <1>3, <3>1 DEF EventOrder
    <3>2. CASE dspHas[r] # <<>>
      <4>1. Ascends(byLink, dspHas[r]) /\ Below(byLink, Queued(equeue, r), EntriesOf(dspHas[r]))
        BY DEF EventOrder, Ordered, Staged
      <4>2. QueueAscends(byLink, Append(equeue, <<r, dspHas[r]>>))
        BY <2>1, <4>1, QueueAscendsAppend DEF EventOrder
      <4> QED
        BY <1>3, <3>2, <4>2
    <3> QED
      BY <3>1, <3>2
  <2> QED
    BY <1>1, <2>5, <2>6 DEF EventOrder
<1> QED
  BY <1>2, <1>3 DEF ReadEvents

LEMMA TakeItemOrder ==
  ASSUME PathIInv, EventOrder, TakeItem
  PROVE  EventOrder'
<1>1. /\ handler.at = "idle" /\ equeue # <<>> /\ equeue' = Tail(equeue)
      /\ handler'.at = "next" /\ handler'.kind = Head(equeue)[1]
      /\ handler'.batch = Head(equeue)[2]
      /\ rows' = rows /\ raised' = raised /\ byLink' = byLink /\ dspHas' = dspHas
  BY DEF TakeItem, Rest, storevars
<1>2. raised \in Nat /\ equeue \in Seq(Kinds)
  BY OrderTypes
<1>3. /\ QueueAscends(byLink, Tail(equeue)) /\ Ascends(byLink, Head(equeue)[2])
      /\ Below(byLink, EntriesOf(Head(equeue)[2]), Queued(Tail(equeue), Head(equeue)[1]))
  BY <1>1, <1>2, QueueAscendsTail DEF EventOrder
<1>4. ASSUME NEW q \in Reports
      PROVE  Ordered(byLink, raised, rows[q], Entry(q)', Batch(q)', Queued(equeue, q)', dspHas[q])
  <2> DEFINE B == IF q = Head(equeue)[1] THEN EntriesOf(Head(equeue)[2]) ELSE {}
             Q == Queued(Tail(equeue), q)
  <2>1. Entry(q) = {} /\ Batch(q) = {}
    <3>1. handler.batch = <<>> /\ EntriesOf(<<>>) = {}
      BY <1>1 DEF EventOrder, EntriesOf
    <3> QED
      BY <1>1, <3>1 DEF Entry, Batch
  <2>2. Entry(q)' = {} /\ Batch(q)' = B /\ Queued(equeue, q)' = Q
    BY <1>1 DEF Entry, Batch
  <2>3. Queued(equeue, q) = Q \union B
    BY <1>1, <1>2, QueuedHead
  <2>4. Below(byLink, B, Q)
    BY <1>3 DEF Below
  <2>5. Ordered(byLink, raised, rows[q], {}, {}, Q \union B, dspHas[q])
    BY <2>1, <2>3 DEF EventOrder
  <2> HIDE DEF B, Q
  <2>6. Ordered(byLink, raised, rows[q], {}, B, Q, dspHas[q])
    BY <1>2, <2>4, <2>5, OrderedTake
  <2> QED
    BY <2>2, <2>6
<1> QED
  BY <1>1, <1>3, <1>4 DEF EventOrder

\* The event NextEvent takes from the item in hand.
LEMMA NextEventHand ==
  ASSUME PathIInv, NextEvent
  PROVE  /\ handler.at = "next" /\ handler.batch # <<>>
         /\ handler'.at = "insert" /\ handler'.kind = handler.kind
         /\ handler'.batch = Tail(handler.batch)
         /\ handler'.entry.item = Head(handler.batch)
         /\ rows' = rows /\ restarts' = restarts
<1>1. handler.at = "next" /\ handler.batch # <<>>
  BY DEF NextEvent, PathIInv, HandlerOK
<1>2. rows' = rows /\ restarts' = restarts
  BY DEF NextEvent, WriteFile, storevars
<1>3. handler \in [at : {"idle", "insert", "tell", "next"}, kind : Reports,
                   batch : Seq(1..raised), entry : Entries]
  BY DEF PathIInv, HandlerOK
<1>4. \E n : handler' = [handler EXCEPT !.at = "insert", !.batch = Tail(@),
                          !.entry = [item |-> Head(handler.batch), no |-> n]]
  BY Zenon DEF NextEvent
<1>5. PICK n : handler' = [handler EXCEPT !.at = "insert", !.batch = Tail(@),
                             !.entry = [item |-> Head(handler.batch), no |-> n]]
  BY <1>4
<1> QED
  BY <1>1, <1>2, <1>3, <1>5

LEMMA NextEventOrder ==
  ASSUME PathIInv, EventOrder, NextEvent
  PROVE  EventOrder'
<1>1. /\ handler.at = "next" /\ handler'.at = "insert" /\ handler'.kind = handler.kind
      /\ handler'.batch = Tail(handler.batch)
      /\ handler'.entry.item = Head(handler.batch)
      /\ handler.batch # <<>>
      /\ rows' = rows /\ raised' = raised /\ byLink' = byLink /\ dspHas' = dspHas
      /\ equeue' = equeue
  BY NextEventHand DEF NextEvent
<1>2. raised \in Nat /\ handler.batch \in Seq(Nat)
  BY OrderTypes
<1> DEFINE a == Head(handler.batch)
           B == EntriesOf(Tail(handler.batch))
<1>3. /\ Ascends(byLink, Tail(handler.batch)) /\ Below(byLink, {a}, B)
      /\ EntriesOf(handler.batch) = {a} \union B
  BY <1>1, <1>2, AscendsTail, EntriesHead DEF EventOrder
<1>4. ASSUME NEW q \in Reports
      PROVE  Ordered(byLink, raised, rows[q], Entry(q)', Batch(q)', Queued(equeue, q), dspHas[q])
  <2>1. Ordered(byLink, raised, rows[q], Entry(q), Batch(q), Queued(equeue, q), dspHas[q])
    BY DEF EventOrder
  <2>2. Entry(q) = {}
    BY <1>1 DEF Entry
  <2>3. CASE q = handler.kind
    <3>1. Batch(q) = {a} \union B /\ Entry(q)' = {a} /\ Batch(q)' = B
      BY <1>1, <1>3, <2>3 DEF Entry, Batch
    <3> HIDE DEF a, B
    <3>2. Ordered(byLink, raised, rows[q], {a}, B, Queued(equeue, q), dspHas[q])
      BY <1>2, <1>3, <2>1, <2>2, <3>1, OrderedNext
    <3> QED
      BY <3>1, <3>2
  <2>4. CASE q # handler.kind
    <3>1. Batch(q) = {} /\ Entry(q)' = {} /\ Batch(q)' = {}
      BY <1>1, <2>4 DEF Entry, Batch
    <3> QED
      BY <2>1, <2>2, <3>1
  <2> QED
    BY <2>3, <2>4
<1> QED
  BY <1>1, <1>3, <1>4 DEF EventOrder

LEMMA StoreEventOrder ==
  ASSUME PathIInv, EventOrder, StoreEvent
  PROVE  EventOrder'
<1>1. /\ handler.at = "insert" /\ handler'.at = "tell" /\ handler'.kind = handler.kind
      /\ handler'.batch = handler.batch
      /\ raised' = raised /\ byLink' = byLink /\ dspHas' = dspHas /\ equeue' = equeue
  BY DEF StoreEvent, PathIInv, HandlerOK
<1>2. /\ raised \in Nat /\ handler.kind \in Reports /\ handler.entry \in Entries
      /\ handler.entry.item \in 1..raised
  BY <1>1, OrderTypes
<1>3. \/ rows' = rows
      \/ rows' = [rows EXCEPT ![handler.kind] = Append(@, handler.entry)]
  BY DEF StoreEvent, Insert, InsertFails
<1>4. ASSUME NEW q \in Reports
      PROVE  Ordered(byLink, raised, rows'[q], Entry(q)', Batch(q)', Queued(equeue, q), dspHas[q])
  <2>1. Ordered(byLink, raised, rows[q], Entry(q), Batch(q), Queued(equeue, q), dspHas[q])
    BY DEF EventOrder
  <2>2. Entry(q)' = {} /\ Batch(q)' = Batch(q)
    BY <1>1 DEF Entry, Batch
  <2>3. rows[q] \in Seq(Entries) /\ rows \in [Reports -> Seq(Entries)]
    BY DEF PathIInv, StoreTypeOK
  <2>4. CASE rows'[q] = rows[q]
    <3>1. Ordered(byLink, raised, rows[q], {}, Batch(q), Queued(equeue, q), dspHas[q])
      BY <1>2, <2>1, OrderedLess DEF Ordered
    <3> QED
      BY <2>2, <2>4, <3>1
  <2>5. CASE q = handler.kind /\ rows'[q] = Append(rows[q], handler.entry)
    <3>1. Entry(q) = {handler.entry.item}
      BY <1>1, <2>5 DEF Entry
    <3>2. Ordered(byLink, raised, Append(rows[q], handler.entry), {}, Batch(q),
                  Queued(equeue, q), dspHas[q])
      BY <1>2, <2>1, <2>3, <3>1, OrderedStore
    <3> QED
      BY <2>2, <2>5, <3>2
  <2> QED
    BY <1>3, <2>3, <2>4, <2>5
<1> QED
  BY <1>1, <1>4 DEF EventOrder

LEMMA TellEventOrder ==
  ASSUME PathIInv, EventOrder, TellEvent
  PROVE  EventOrder'
<1>1. /\ handler.at = "tell" /\ handler'.at \in {"idle", "next"}
      /\ handler'.at = "next" => handler'.kind = handler.kind
      /\ handler'.batch = handler.batch
      /\ handler'.at = "idle" => handler'.batch = <<>>
      /\ rows' = rows /\ raised' = raised /\ byLink' = byLink /\ dspHas' = dspHas
      /\ equeue' = equeue
  BY DEF TellEvent, Rest, storevars, PathIInv, HandlerOK
<1>2. raised \in Nat
  BY OrderTypes
<1>3. EntriesOf(<<>>) = {}
  BY DEF EntriesOf
<1>4. ASSUME NEW q \in Reports
      PROVE  Ordered(byLink, raised, rows[q], Entry(q)', Batch(q)', Queued(equeue, q), dspHas[q])
  <2>1. Ordered(byLink, raised, rows[q], Entry(q), Batch(q), Queued(equeue, q), dspHas[q])
    BY DEF EventOrder
  <2>2. Entry(q) = {} /\ Entry(q)' = {} /\ Batch(q)' \in SUBSET Batch(q)
    BY <1>1, <1>3 DEF Entry, Batch
  <2> QED
    BY <1>2, <2>1, <2>2, OrderedLess DEF Ordered
<1> QED
  BY <1>1, <1>4 DEF EventOrder

\* What a step of the tables' keeper, a clearing or a restart leaves of the rows.
LEMMA RowsLeft ==
  ASSUME PathIInv, Maintain \/ Reboot, NEW r \in Reports
  PROVE  /\ rows'[r] \in Seq(Entries)
         /\ \A L : RowsAscend(L, rows[r]) => RowsAscend(L, rows'[r])
         /\ EntriesOf(rows'[r]) \subseteq EntriesOf(rows[r])
<1>1. /\ StoreTypeOK /\ rows[r] \in Seq(Entries)
      /\ rows \in [Reports -> Seq(Entries)] /\ Capacity[r] \in Nat \ {0}
  BY ReportAssumption DEF PathIInv, StoreTypeOK
<1>2. rows'[r] = rows[r] \/ rows'[r] = <<>> \/ rows'[r] = Newest(r)
  <2>1. CASE Trim
    <3>1. rows' = rows \/ rows' = [rows EXCEPT ![job.of] = Newest(job.of)]
      BY <2>1 DEF Trim
    <3> QED
      BY <1>1, <3>1
  <2>2. ASSUME NEW q \in Reports, Clear(q)
        PROVE  rows'[r] = rows[r] \/ rows'[r] = <<>>
    BY <1>1, <2>2 DEF Clear
  <2>3. CASE UNCHANGED rows
    BY <2>3
  <2> QED
    BY <2>1, <2>2, <2>3 DEF Maintain, Reboot, StoreStep, Count, Unlink, Zero, Sweep, Restart
<1>3. CASE rows'[r] = rows[r]
  BY <1>1, <1>3
<1>4. CASE rows'[r] = <<>>
  BY <1>4 DEF RowsAscend, EntriesOf
<1>5. CASE rows'[r] = Newest(r)
  <2>1. CASE Len(rows[r]) <= Capacity[r]
    BY <1>1, <1>5, <2>1, NewestRows
  <2>2. CASE Len(rows[r]) > Capacity[r]
    <3> DEFINE s == rows[r]
               k == Len(s) - Capacity[r] + 1
    <3>1. Newest(r) = SubSeq(s, k, Len(s)) /\ Newest(r) \in Seq(Entries)
      BY <1>1, <2>2, NewestRows
    <3>2. k \in 1..(Len(s) + 1) /\ s \in Seq(Entries)
      BY <1>1, <2>2
    <3> HIDE DEF k, s
    <3>3. /\ \A L : RowsAscend(L, s) => RowsAscend(L, SubSeq(s, k, Len(s)))
          /\ EntriesOf(SubSeq(s, k, Len(s))) \subseteq EntriesOf(s)
      BY <3>2, RowsCut
    <3> QED
      BY <1>5, <3>1, <3>3 DEF s
  <2>3. Len(rows[r]) \in Nat
    BY <1>1
  <2> QED
    BY <1>1, <2>1, <2>2, <2>3
<1> QED
  BY <1>2, <1>3, <1>4, <1>5

LEMMA MaintainOrder ==
  ASSUME PathIInv, EventOrder, Maintain \/ Reboot
  PROVE  EventOrder'
<1>1. /\ raised' = raised /\ byLink' = byLink /\ dspHas' = dspHas
      /\ \/ handler' = handler /\ equeue' = equeue
         \/ handler' = Rest /\ equeue' = <<>>
  BY DEF Maintain, Reboot, eventvars
<1>2. raised \in Nat
  BY OrderTypes
<1>3. /\ EntriesOf(<<>>) = {} /\ \A L : Ascends(L, <<>>) /\ QueueAscends(L, <<>>)
      /\ \A q : Queued(<<>>, q) = {}
  BY DEF EntriesOf, Ascends, QueueAscends, Queued
<1>4. Rest.at = "idle" /\ Rest.batch = <<>>
  BY DEF Rest
<1>5. ASSUME NEW q \in Reports
      PROVE  Ordered(byLink, raised, rows'[q], Entry(q)', Batch(q)', Queued(equeue, q)', dspHas[q])
  <2>1. Ordered(byLink, raised, rows[q], Entry(q), Batch(q), Queued(equeue, q), dspHas[q])
    BY DEF EventOrder
  <2>2. /\ Entry(q)' \in SUBSET Entry(q) /\ Batch(q)' \in SUBSET Batch(q)
        /\ Queued(equeue, q)' \in SUBSET Queued(equeue, q)
    BY <1>1, <1>3, <1>4 DEF Entry, Batch
  <2>3. RowsAscend(byLink, rows'[q])
    BY <2>1, RowsLeft DEF Ordered
  <2>4. ItemsOf(rows'[q]) \subseteq ItemsOf(rows[q])
    BY RowsLeft DEF ItemsOf
  <2> QED
    BY <1>2, <2>1, <2>2, <2>3, <2>4, OrderedLess
<1>6. /\ handler'.at = "idle" => handler'.batch = <<>>
      /\ Ascends(byLink, handler'.batch) /\ QueueAscends(byLink, equeue')
  BY <1>1, <1>3, <1>4 DEF EventOrder
<1> QED
  BY <1>1, <1>5, <1>6 DEF EventOrder

LEMMA LoseRecordingOrder ==
  ASSUME PathIInv, EventOrder, LoseRecording
  PROVE  EventOrder'
<1>1. /\ handler.at = "next" /\ handler.batch # <<>>
      /\ \/ handler' = Rest /\ Tail(handler.batch) = <<>>
         \/ handler' = [handler EXCEPT !.batch = Tail(handler.batch)]
      /\ rows' = rows
  BY LoseRecordingHand DEF PathIInv
<1>2. raised' = raised /\ byLink' = byLink /\ dspHas' = dspHas /\ equeue' = equeue
  BY DEF LoseRecording
<1>3. /\ handler'.at \in {"idle", "next"} /\ handler'.batch = Tail(handler.batch)
      /\ handler'.at = "next" => handler'.kind = handler.kind
      /\ handler'.at = "idle" => handler'.batch = <<>>
  <2>1. handler.batch \in Seq(1..raised) /\ handler \in [at : {"idle", "insert", "tell", "next"},
          kind : Reports, batch : Seq(1..raised), entry : Entries]
    BY DEF PathIInv, HandlerOK
  <2>2. CASE handler' = Rest /\ Tail(handler.batch) = <<>>
    BY <2>2 DEF Rest
  <2>3. CASE handler' = [handler EXCEPT !.batch = Tail(handler.batch)]
    BY <1>1, <2>1, <2>3
  <2> QED
    BY <1>1, <2>2, <2>3
<1>4. raised \in Nat /\ handler.batch \in Seq(Nat)
  BY OrderTypes
<1>5. /\ EntriesOf(<<>>) = {} /\ Ascends(byLink, Tail(handler.batch))
      /\ EntriesOf(Tail(handler.batch)) \subseteq EntriesOf(handler.batch)
  <2>1. Ascends(byLink, Tail(handler.batch))
    BY <1>1, <1>4, AscendsTail DEF EventOrder
  <2>2. EntriesOf(handler.batch) = {Head(handler.batch)} \union EntriesOf(Tail(handler.batch))
    BY <1>1, <1>4, EntriesHead
  <2>3. EntriesOf(<<>>) = {}
    BY DEF EntriesOf
  <2> QED
    BY <2>1, <2>2, <2>3
<1>6. ASSUME NEW q \in Reports
      PROVE  Ordered(byLink, raised, rows[q], Entry(q)', Batch(q)', Queued(equeue, q), dspHas[q])
  <2>1. Ordered(byLink, raised, rows[q], Entry(q), Batch(q), Queued(equeue, q), dspHas[q])
    BY DEF EventOrder
  <2>2. Entry(q) = {} /\ Entry(q)' = {}
    BY <1>1, <1>3 DEF Entry
  <2>3. Batch(q)' \in SUBSET Batch(q)
    BY <1>3, <1>5 DEF Batch
  <2> QED
    BY <1>4, <2>1, <2>2, <2>3, OrderedLess DEF Ordered
<1> QED
  BY <1>1, <1>2, <1>3, <1>5, <1>6 DEF EventOrder

LEMMA OrderStep == PathIInv /\ EventOrder /\ [Next]_vars => EventOrder'
<1> SUFFICES ASSUME PathIInv, EventOrder, [Next]_vars PROVE EventOrder'
  OBVIOUS
<1>1. CASE LowerFlag \/ UNCHANGED vars
  <2>1. UNCHANGED <<rows, raised, byLink, dspHas, equeue, handler>>
    BY <1>1 DEF LowerFlag, vars, storevars, eventvars
  <2> QED
    BY <2>1 DEF EventOrder, Entry, Batch
<1> QED
  BY <1>1, RaiseOrder, LinkEventOrder, ReadEventsOrder, TakeItemOrder, NextEventOrder,
     LoseRecordingOrder, StoreEventOrder, TellEventOrder, MaintainOrder DEF Next, Run, Handle

LEMMA OrderInvariant == Spec => [](PathIInv /\ EventOrder)
<1>1. PathIInv /\ EventOrder /\ [Next]_vars => EventOrder'
  BY OrderStep
<1> QED
  BY <1>1, PathInvariant, OrderInit, PTL DEF Spec

\* Within a report the events of one source stand in the order they were
\* raised, none twice, whatever fails and wherever the program restarts.
THEOREM ReportsInOrder == Spec => []InOrder
<1>1. EventOrder => InOrder
  BY DEF EventOrder, Ordered, RowsAscend, Before, InOrder
<1> QED
  BY <1>1, OrderInvariant, PTL
-----------------------------------------------------------------------------
\* The places of an event: what the DSP has, what the queue carries, what
\* dsp_handle has in hand; and the end, where it has been told or dropped.
DspSet(d)     == UNION {EntriesOf(d[r]) : r \in Reports}
QueueSet(q)   == UNION {EntriesOf(q[i][2]) : i \in DOMAIN q}
QueueApart(q) == \A i, j \in DOMAIN q :
                   i # j => EntriesOf(q[i][2]) \intersect EntriesOf(q[j][2]) = {}
InHand == EntriesOf(handler.batch)
            \union (IF handler.at \in {"insert", "tell"} THEN {handler.entry.item} ELSE {})
Ended == told \union dropped

\* Of n events none is in two of the four places, and none is missing before
\* the first of the m restarts.
Placed(D, Q, H, T, n, m) ==
  /\ D \intersect Q = {} /\ D \intersect H = {} /\ D \intersect T = {}
  /\ Q \intersect H = {} /\ Q \intersect T = {} /\ H \intersect T = {}
  /\ D \union Q \union H \union T \subseteq 1..n
  /\ m = 0 => 1..n \subseteq D \union Q \union H \union T

\* The inductive invariant, with what keeps the places apart when events move.
EventPlaces ==
  /\ \A r, q \in Reports : r # q => EntriesOf(dspHas[r]) \intersect EntriesOf(dspHas[q]) = {}
  /\ QueueApart(equeue)
  /\ handler.at \in {"insert", "tell"} => handler.entry.item \notin EntriesOf(handler.batch)
  /\ told \intersect dropped = {}
  /\ Placed(DspSet(dspHas), QueueSet(equeue), InHand, Ended, raised, restarts)

LEMMA QueueSetOf ==
  ASSUME NEW q \in Seq(Kinds)
  PROVE  QueueSet(q) = UNION {Queued(q, r) : r \in Reports}
<1>1. \A i \in DOMAIN q : q[i][1] \in Reports
  BY DEF Kinds
<1>2. \A x \in QueueSet(q) : \E i \in DOMAIN q : x \in EntriesOf(q[i][2])
  BY DEF QueueSet
<1>3. \A x \in QueueSet(q) : \E r \in Reports : x \in Queued(q, r)
  BY <1>1, <1>2, Zenon DEF Queued
<1>4. \A r \in Reports : \A x \in Queued(q, r) : x \in QueueSet(q)
  BY Zenon DEF Queued, QueueSet
<1> QED
  BY <1>3, <1>4

LEMMA QueueSetAppend ==
  ASSUME NEW q \in Seq(Kinds), NEW k \in Reports, NEW s \in Seq(Nat), QueueApart(q)
  PROVE  /\ QueueSet(Append(q, <<k, s>>)) = QueueSet(q) \union EntriesOf(s)
         /\ QueueSet(q) \intersect EntriesOf(s) = {} => QueueApart(Append(q, <<k, s>>))
<1> DEFINE p == Append(q, <<k, s>>)
<1>1. <<k, s>> \in Kinds /\ <<k, s>>[2] = s
  BY DEF Kinds
<1>2. p \in Seq(Kinds)
  BY <1>1
<1>3. QueueSet(p) = QueueSet(q) \union EntriesOf(s)
  <2>1. \A r \in Reports :
          Queued(p, r) = Queued(q, r) \union (IF r = k THEN EntriesOf(s) ELSE {})
    BY QueuedAppend
  <2> HIDE DEF p
  <2>2. /\ QueueSet(p) = UNION {Queued(p, r) : r \in Reports}
        /\ QueueSet(q) = UNION {Queued(q, r) : r \in Reports}
    BY <1>2, QueueSetOf
  <2>3. \A x : x \in QueueSet(p) <=> \E r \in Reports : x \in Queued(p, r)
    BY <2>2, Zenon
  <2>4. \A x : x \in QueueSet(q) <=> \E r \in Reports : x \in Queued(q, r)
    BY <2>2, Zenon
  <2>5. \A x : x \in QueueSet(p) <=> x \in QueueSet(q) \/ x \in EntriesOf(s)
    BY <2>1, <2>3, <2>4
  <2> QED
    BY <2>5
<1>4. \A i \in DOMAIN p : \/ i \in DOMAIN q /\ p[i] = q[i]
                          \/ i = Len(q) + 1 /\ p[i] = <<k, s>>
  BY <1>1
<1> HIDE DEF p
<1>5. ASSUME QueueSet(q) \intersect EntriesOf(s) = {} PROVE QueueApart(p)
  <2> SUFFICES ASSUME NEW i \in DOMAIN p, NEW j \in DOMAIN p, i # j
      PROVE  EntriesOf(p[i][2]) \intersect EntriesOf(p[j][2]) = {}
    BY DEF QueueApart
  <2>1. \A m \in DOMAIN q : EntriesOf(q[m][2]) \intersect EntriesOf(s) = {}
    BY <1>5 DEF QueueSet
  <2>2. CASE i \in DOMAIN q /\ p[i] = q[i] /\ j \in DOMAIN q /\ p[j] = q[j]
    BY <2>2 DEF QueueApart
  <2> QED
    BY <1>1, <1>4, <2>1, <2>2
<1> QED
  BY <1>3, <1>5 DEF p

LEMMA QueueSetHead ==
  ASSUME NEW q \in Seq(Kinds), q # <<>>, QueueApart(q)
  PROVE  /\ QueueSet(q) = QueueSet(Tail(q)) \union EntriesOf(Head(q)[2])
         /\ QueueSet(Tail(q)) \intersect EntriesOf(Head(q)[2]) = {}
         /\ QueueApart(Tail(q))
<1> DEFINE t == Tail(q)
<1>1. t \in Seq(Kinds) /\ Head(q) \in Kinds /\ Head(q)[1] \in Reports
  BY HeadAndTail DEF Kinds
<1>2. QueueSet(q) = QueueSet(t) \union EntriesOf(Head(q)[2])
  <2>1. \A r \in Reports : Queued(q, r) = Queued(t, r)
           \union (IF r = Head(q)[1] THEN EntriesOf(Head(q)[2]) ELSE {})
    BY QueuedHead
  <2> HIDE DEF t
  <2>2. /\ QueueSet(q) = UNION {Queued(q, r) : r \in Reports}
        /\ QueueSet(t) = UNION {Queued(t, r) : r \in Reports}
    BY <1>1, QueueSetOf
  <2>3. \A x : x \in QueueSet(q) <=> \E r \in Reports : x \in Queued(q, r)
    BY <2>2, Zenon
  <2>4. \A x : x \in QueueSet(t) <=> \E r \in Reports : x \in Queued(t, r)
    BY <2>2, Zenon
  <2>5. \A x : x \in QueueSet(q) <=> x \in QueueSet(t) \/ x \in EntriesOf(Head(q)[2])
    BY <1>1, <2>1, <2>3, <2>4
  <2> QED
    BY <2>5
<1>3. \A i \in DOMAIN t : i \in Nat /\ i + 1 \in DOMAIN q /\ i + 1 # 1 /\ t[i] = q[i + 1]
  OBVIOUS
<1>4. Head(q) = q[1] /\ 1 \in DOMAIN q
  OBVIOUS
<1>5. \A i, j \in DOMAIN t : i # j => i + 1 # j + 1
  BY <1>3
<1> HIDE DEF t
<1>6. QueueSet(t) \intersect EntriesOf(Head(q)[2]) = {}
  <2>1. ASSUME NEW i \in DOMAIN t
        PROVE  EntriesOf(t[i][2]) \intersect EntriesOf(Head(q)[2]) = {}
    <3>1. i + 1 \in DOMAIN q /\ i + 1 # 1 /\ t[i] = q[i + 1]
      BY <1>3
    <3> QED
      BY <1>4, <3>1 DEF QueueApart
  <2> QED
    BY <2>1, Zenon DEF QueueSet
<1>7. QueueApart(t)
  <2> SUFFICES ASSUME NEW i \in DOMAIN t, NEW j \in DOMAIN t, i # j
      PROVE  EntriesOf(t[i][2]) \intersect EntriesOf(t[j][2]) = {}
    BY DEF QueueApart
  <2>1. /\ i + 1 \in DOMAIN q /\ t[i] = q[i + 1] /\ j + 1 \in DOMAIN q /\ t[j] = q[j + 1]
        /\ i + 1 # j + 1
    BY <1>3, <1>5
  <2> QED
    BY <2>1 DEF QueueApart
<1> QED
  BY <1>2, <1>6, <1>7 DEF t

\* An event is raised, into the DSP or the queue; some move on by one place.
LEMMA PlacedRaise ==
  ASSUME NEW n \in Nat, NEW D, NEW Q, NEW H, NEW T, NEW m,
         Placed(D, Q, H, T, n, m)
  PROVE  /\ Placed(D \union {n + 1}, Q, H, T, n + 1, m)
         /\ Placed(D, Q \union {n + 1}, H, T, n + 1, m)
<1>1. 1..(n + 1) = 1..n \union {n + 1} /\ n + 1 \notin 1..n
  OBVIOUS
<1>2. /\ D \subseteq 1..n /\ Q \subseteq 1..n /\ H \subseteq 1..n /\ T \subseteq 1..n
  BY DEF Placed
<1>3. n + 1 \notin D /\ n + 1 \notin Q /\ n + 1 \notin H /\ n + 1 \notin T
  BY <1>1, <1>2
<1> QED
  BY <1>1, <1>3 DEF Placed

LEMMA PlacedMove ==
  ASSUME NEW n, NEW D, NEW Q, NEW H, NEW T, NEW X, NEW m
  PROVE  /\ Placed(D \union X, Q, H, T, n, m) /\ D \intersect X = {}
              => Placed(D, Q \union X, H, T, n, m)
         /\ Placed(D, Q \union X, H, T, n, m) /\ Q \intersect X = {}
              => Placed(D, Q, H \union X, T, n, m)
         /\ Placed(D, Q, H \union X, T, n, m) /\ H \intersect X = {}
              => Placed(D, Q, H, T \union X, n, m)
BY DEF Placed

LEMMA PlacesInit == Init => EventPlaces
<1> SUFFICES ASSUME Init PROVE EventPlaces
  OBVIOUS
<1>1. /\ handler = Rest /\ equeue = <<>> /\ told = {} /\ dropped = {} /\ raised = 0
      /\ \A r \in Reports : dspHas[r] = <<>>
  BY DEF Init
<1>2. EntriesOf(<<>>) = {} /\ QueueSet(<<>>) = {} /\ QueueApart(<<>>)
  BY DEF EntriesOf, QueueSet, QueueApart
<1>3. DspSet(dspHas) = {}
  BY <1>1, <1>2 DEF DspSet
<1>4. handler.at = "idle" /\ InHand = {}
  BY <1>1, <1>2 DEF Rest, InHand
<1>5. 1..0 = {}
  OBVIOUS
<1>6. Placed({}, {}, {}, {}, 0, restarts)
  BY <1>5 DEF Placed
<1> QED
  BY <1>1, <1>2, <1>3, <1>4, <1>6 DEF EventPlaces, Ended

LEMMA RaisePlaces ==
  ASSUME PathIInv, EventPlaces, NEW r \in Reports, Raise(r)
  PROVE  EventPlaces'
<1>1. /\ raised' = raised + 1 /\ equeue' = equeue /\ handler' = handler /\ UNCHANGED <<told, dropped>>
      /\ restarts' = restarts
      /\ \A q \in Reports :
           dspHas'[q] = IF q = r THEN Append(dspHas[q], raised + 1) ELSE dspHas[q]
  BY DEF Raise, storevars, PathIInv, QueuesOK
<1>2. raised \in Nat /\ raised + 1 \in Nat /\ \A q \in Reports : dspHas[q] \in Seq(Nat)
  BY OrderTypes
<1>3. ASSUME NEW q \in Reports
      PROVE  EntriesOf(dspHas'[q])
               = EntriesOf(dspHas[q]) \union (IF q = r THEN {raised + 1} ELSE {})
  BY <1>1, <1>2, EntriesAppend
<1>4. DspSet(dspHas') = DspSet(dspHas) \union {raised + 1}
  BY <1>3 DEF DspSet
<1>5. \A q \in Reports : raised + 1 \notin EntriesOf(dspHas[q])
  <2>1. \A q \in Reports : EntriesOf(dspHas[q]) \in SUBSET (1..raised)
    BY OrderTypes
  <2>2. raised + 1 \notin 1..raised
    BY <1>2
  <2> QED
    BY <2>1, <2>2
<1>6. \A q, k \in Reports :
        q # k => EntriesOf(dspHas'[q]) \intersect EntriesOf(dspHas'[k]) = {}
  BY <1>3, <1>5 DEF EventPlaces
<1>7. Placed(DspSet(dspHas'), QueueSet(equeue), InHand, Ended, raised + 1, restarts)
  <2>1. Placed(DspSet(dspHas), QueueSet(equeue), InHand, Ended, raised, restarts)
    BY DEF EventPlaces
  <2>2. Placed(DspSet(dspHas) \union {raised + 1}, QueueSet(equeue), InHand, Ended,
               raised + 1, restarts)
    BY <1>2, <2>1, PlacedRaise
  <2> QED
    BY <1>4, <2>2
<1>8. InHand' = InHand
  BY <1>1 DEF InHand
<1> QED
  BY <1>1, <1>6, <1>7, <1>8 DEF EventPlaces, Ended

LEMMA LinkEventPlaces ==
  ASSUME PathIInv, EventPlaces, LinkEvent
  PROVE  EventPlaces'
<1>1. /\ raised' = raised + 1 /\ equeue' = Append(equeue, <<Soe, <<raised + 1>>>>)
      /\ handler' = handler /\ dspHas' = dspHas /\ UNCHANGED <<told, dropped>> /\ restarts' = restarts
  BY DEF LinkEvent, storevars
<1>2. raised \in Nat /\ equeue \in Seq(Kinds) /\ QueueApart(equeue)
  BY OrderTypes DEF EventPlaces
<1> DEFINE s == <<raised + 1>>
<1>3. s \in Seq(Nat) /\ EntriesOf(s) = {raised + 1} /\ Soe \in Reports
  BY <1>2, EventAssumption DEF EntriesOf
<1>4. QueueSet(equeue) \intersect {raised + 1} = {}
  <2>1. QueueSet(equeue) \subseteq 1..raised /\ raised + 1 \notin 1..raised
    BY <1>2 DEF EventPlaces, Placed
  <2> QED
    BY <2>1
<1> HIDE DEF s
<1>5. /\ QueueSet(Append(equeue, <<Soe, s>>)) = QueueSet(equeue) \union {raised + 1}
      /\ QueueApart(Append(equeue, <<Soe, s>>))
  BY <1>2, <1>3, <1>4, QueueSetAppend
<1>6. equeue' = Append(equeue, <<Soe, s>>)
  BY <1>1 DEF s
<1>7. Placed(DspSet(dspHas), QueueSet(equeue'), InHand, Ended, raised + 1, restarts)
  <2>1. Placed(DspSet(dspHas), QueueSet(equeue), InHand, Ended, raised, restarts)
    BY DEF EventPlaces
  <2>2. Placed(DspSet(dspHas), QueueSet(equeue) \union {raised + 1}, InHand, Ended,
               raised + 1, restarts)
    BY <1>2, <2>1, PlacedRaise
  <2> QED
    BY <1>5, <1>6, <2>2
<1>8. InHand' = InHand
  BY <1>1 DEF InHand
<1> QED
  BY <1>1, <1>5, <1>6, <1>7, <1>8 DEF EventPlaces, Ended

LEMMA ReadEventsPlaces ==
  ASSUME PathIInv, EventPlaces, NEW r \in Reports, ReadEvents(r)
  PROVE  EventPlaces'
<1>1. /\ raised' = raised /\ handler' = handler /\ UNCHANGED <<told, dropped>> /\ restarts' = restarts
  BY DEF ReadEvents
<1>2. InHand' = InHand
  BY <1>1 DEF InHand
<1>3. CASE UNCHANGED <<equeue, dspHas>>
  BY <1>1, <1>2, <1>3 DEF EventPlaces, Ended
<1>4. CASE /\ equeue' = IF dspHas[r] = <<>> THEN equeue ELSE Append(equeue, <<r, dspHas[r]>>)
           /\ dspHas' = [dspHas EXCEPT ![r] = <<>>]
  <2> DEFINE X == EntriesOf(dspHas[r])
             D == DspSet(dspHas')
  <2>1. equeue \in Seq(Kinds) /\ QueueApart(equeue) /\ dspHas[r] \in Seq(Nat)
    BY OrderTypes DEF EventPlaces
  <2>2. \A q \in Reports : dspHas'[q] = IF q = r THEN <<>> ELSE dspHas[q]
    BY <1>4 DEF PathIInv, QueuesOK
  <2>3. EntriesOf(<<>>) = {}
    BY DEF EntriesOf
  <2>4. \A q \in Reports : EntriesOf(dspHas'[q]) = IF q = r THEN {} ELSE EntriesOf(dspHas[q])
    BY <2>2, <2>3
  <2>5. DspSet(dspHas) = D \union X
    BY <2>4 DEF DspSet
  <2>6. D \intersect X = {}
    BY <2>4 DEF DspSet, EventPlaces
  <2>7. \A q, k \in Reports :
          q # k => EntriesOf(dspHas'[q]) \intersect EntriesOf(dspHas'[k]) = {}
    BY <2>4 DEF EventPlaces
  <2>8. Placed(D \union X, QueueSet(equeue), InHand, Ended, raised, restarts)
    BY <2>5 DEF EventPlaces
  <2>9. QueueSet(equeue) \intersect X = {}
    <3> HIDE DEF X, D
    <3> QED
      BY <2>8 DEF Placed
  <2>10. QueueSet(equeue') = QueueSet(equeue) \union X /\ QueueApart(equeue')
    <3>1. CASE dspHas[r] = <<>>
      BY <1>4, <2>1, <2>3, <3>1
    <3>2. CASE dspHas[r] # <<>>
      <4>1. /\ QueueSet(Append(equeue, <<r, dspHas[r]>>)) = QueueSet(equeue) \union X
            /\ QueueApart(Append(equeue, <<r, dspHas[r]>>))
        BY <2>1, <2>9, QueueSetAppend
      <4> QED
        BY <1>4, <3>2, <4>1
    <3> QED
      BY <3>1, <3>2
  <2>11. Placed(D, QueueSet(equeue) \union X, InHand, Ended, raised, restarts)
    <3> HIDE DEF X, D
    <3> QED
      BY <2>6, <2>8, PlacedMove
  <2> QED
    BY <1>1, <1>2, <2>7, <2>10, <2>11 DEF EventPlaces, Ended
<1> QED
  BY <1>3, <1>4 DEF ReadEvents

LEMMA TakeItemPlaces ==
  ASSUME PathIInv, EventOrder, EventPlaces, TakeItem
  PROVE  EventPlaces'
<1>1. /\ handler.at = "idle" /\ equeue # <<>> /\ equeue' = Tail(equeue)
      /\ handler'.at = "next" /\ handler'.batch = Head(equeue)[2]
      /\ raised' = raised /\ dspHas' = dspHas /\ UNCHANGED <<told, dropped>> /\ restarts' = restarts
  BY DEF TakeItem, Rest, storevars
<1> DEFINE X == EntriesOf(Head(equeue)[2])
<1>2. /\ QueueSet(equeue) = QueueSet(equeue') \union X
      /\ QueueSet(equeue') \intersect X = {} /\ QueueApart(equeue')
  BY <1>1, OrderTypes, QueueSetHead DEF EventPlaces
<1>3. InHand = {} /\ InHand' = X
  BY <1>1 DEF EventOrder, InHand, EntriesOf
<1>4. Placed(DspSet(dspHas), QueueSet(equeue') \union X, {}, Ended, raised, restarts)
  BY <1>2, <1>3 DEF EventPlaces
<1> HIDE DEF X
<1>5. Placed(DspSet(dspHas), QueueSet(equeue'), {} \union X, Ended, raised, restarts)
  BY <1>2, <1>4, PlacedMove
<1>6. {} \union X = X
  OBVIOUS
<1> QED
  BY <1>1, <1>2, <1>3, <1>5, <1>6 DEF EventPlaces, Ended

LEMMA NextEventPlaces ==
  ASSUME PathIInv, EventOrder, EventPlaces, NextEvent
  PROVE  EventPlaces'
<1>1. /\ handler.at = "next" /\ handler'.at = "insert" /\ handler.batch # <<>>
      /\ handler'.batch = Tail(handler.batch)
      /\ handler'.entry.item = Head(handler.batch)
      /\ raised' = raised /\ dspHas' = dspHas /\ UNCHANGED <<told, dropped>> /\ restarts' = restarts
      /\ equeue' = equeue
  BY NextEventHand DEF NextEvent
<1>2. handler.batch \in Seq(Nat)
  BY OrderTypes
<1>3. /\ Below(byLink, {Head(handler.batch)}, EntriesOf(Tail(handler.batch)))
      /\ EntriesOf(handler.batch) = {Head(handler.batch)} \union EntriesOf(Tail(handler.batch))
      /\ Head(handler.batch) \in Nat
  BY <1>1, <1>2, AscendsTail, EntriesHead, HeadAndTail DEF EventOrder
<1>4. Head(handler.batch) \notin EntriesOf(Tail(handler.batch))
  BY <1>3 DEF Below, Before
<1>5. InHand' = InHand
  BY <1>1, <1>3 DEF InHand
<1> QED
  BY <1>1, <1>4, <1>5 DEF EventPlaces, Ended

LEMMA StoreEventPlaces ==
  ASSUME PathIInv, EventPlaces, StoreEvent
  PROVE  EventPlaces'
<1>1. /\ handler.at = "insert" /\ handler'.at = "tell" /\ handler'.batch = handler.batch
      /\ handler'.entry = handler.entry
      /\ raised' = raised /\ dspHas' = dspHas /\ equeue' = equeue /\ UNCHANGED <<told, dropped>>
      /\ restarts' = restarts
  BY DEF StoreEvent, Insert, InsertFails, PathIInv, HandlerOK
<1>2. InHand' = InHand
  BY <1>1 DEF InHand
<1> QED
  BY <1>1, <1>2 DEF EventPlaces, Ended

LEMMA TellEventPlaces ==
  ASSUME PathIInv, EventPlaces, TellEvent
  PROVE  EventPlaces'
<1> DEFINE X == {handler.entry.item}
           B == EntriesOf(handler.batch)
<1>1. /\ handler.at = "tell" /\ handler'.at \in {"idle", "next"}
      /\ handler'.batch = handler.batch
      /\ told' = told \union X /\ dropped' = dropped
      /\ raised' = raised /\ dspHas' = dspHas /\ equeue' = equeue /\ restarts' = restarts
  BY DEF TellEvent, Rest, storevars, PathIInv, HandlerOK
<1>2. InHand = B \union X /\ InHand' = B /\ B \intersect X = {}
  BY <1>1 DEF InHand, EventPlaces
<1>3. Placed(DspSet(dspHas), QueueSet(equeue), B \union X, Ended, raised, restarts)
  BY <1>2 DEF EventPlaces
<1> HIDE DEF X, B
<1>4. Ended' = Ended \union X /\ told' \intersect dropped' = {}
  <2>1. Ended \intersect X = {} /\ told \intersect dropped = {}
    BY <1>3 DEF Placed, EventPlaces
  <2> QED
    BY <1>1, <2>1 DEF Ended
<1>5. Placed(DspSet(dspHas), QueueSet(equeue), B, Ended \union X, raised, restarts)
  BY <1>2, <1>3, PlacedMove
<1> QED
  BY <1>1, <1>2, <1>4, <1>5 DEF EventPlaces

LEMMA LoseRecordingPlaces ==
  ASSUME PathIInv, EventOrder, EventPlaces, LoseRecording
  PROVE  EventPlaces'
<1> DEFINE X == {Head(handler.batch)}
           B == EntriesOf(Tail(handler.batch))
<1>1. /\ handler.at = "next" /\ handler.batch # <<>>
      /\ \/ handler' = Rest /\ Tail(handler.batch) = <<>>
         \/ handler' = [handler EXCEPT !.batch = Tail(handler.batch)]
      /\ restarts' = restarts
  BY LoseRecordingHand DEF PathIInv
<1>2. /\ told' = told /\ dropped' = dropped \union X
      /\ raised' = raised /\ dspHas' = dspHas /\ equeue' = equeue
  BY DEF LoseRecording
<1>3. handler'.at \in {"idle", "next"} /\ handler'.batch = Tail(handler.batch)
  <2>1. handler \in [at : {"idle", "insert", "tell", "next"}, kind : Reports,
                     batch : Seq(1..raised), entry : Entries]
    BY DEF PathIInv, HandlerOK
  <2>2. CASE handler' = Rest /\ Tail(handler.batch) = <<>>
    BY <2>2 DEF Rest
  <2>3. CASE handler' = [handler EXCEPT !.batch = Tail(handler.batch)]
    BY <1>1, <2>1, <2>3
  <2> QED
    BY <1>1, <2>2, <2>3
<1>4. handler.batch \in Seq(Nat)
  BY OrderTypes
<1>5. /\ Below(byLink, X, B) /\ EntriesOf(handler.batch) = X \union B
      /\ Head(handler.batch) \in Nat
  BY <1>1, <1>4, AscendsTail, EntriesHead, HeadAndTail DEF EventOrder
<1>6. InHand = B \union X /\ InHand' = B /\ B \intersect X = {}
  <2>1. Head(handler.batch) \notin B
    BY <1>5 DEF Below, Before
  <2> QED
    BY <1>1, <1>3, <1>5, <2>1 DEF InHand
<1>7. Placed(DspSet(dspHas), QueueSet(equeue), B \union X, Ended, raised, restarts)
  BY <1>6 DEF EventPlaces
<1> HIDE DEF X, B
<1>8. Ended' = Ended \union X /\ told' \intersect dropped' = {}
  <2>1. Ended \intersect X = {} /\ told \intersect dropped = {}
    BY <1>7 DEF Placed, EventPlaces
  <2> QED
    BY <1>2, <2>1 DEF Ended
<1>9. Placed(DspSet(dspHas), QueueSet(equeue), B, Ended \union X, raised, restarts)
  BY <1>6, <1>7, PlacedMove
<1> QED
  BY <1>1, <1>2, <1>3, <1>6, <1>8, <1>9 DEF EventPlaces

LEMMA MaintainPlaces ==
  ASSUME PathIInv, EventPlaces, Maintain \/ Reboot
  PROVE  EventPlaces'
<1>1. CASE Maintain
  <2>1. UNCHANGED <<handler, equeue, dspHas, told, dropped, raised>> /\ restarts' = restarts
    BY <1>1 DEF Maintain, eventvars, StoreStep, Count, Trim, Unlink, Zero, Sweep, Clear
  <2>2. InHand' = InHand
    BY <2>1 DEF InHand
  <2> QED
    BY <2>1, <2>2 DEF EventPlaces, Ended
<1>2. CASE Reboot
  <2>1. /\ handler' = Rest /\ equeue' = <<>> /\ dspHas' = dspHas /\ UNCHANGED <<told, dropped>>
        /\ raised' = raised /\ restarts' = restarts + 1 /\ restarts \in Nat
    BY <1>2 DEF Reboot, Restart, PathIInv, StoreTypeOK
  <2>2. EntriesOf(<<>>) = {} /\ QueueSet(<<>>) = {} /\ QueueApart(<<>>)
    BY DEF EntriesOf, QueueSet, QueueApart
  <2>3. handler'.at = "idle" /\ InHand' = {}
    BY <2>1, <2>2 DEF Rest, InHand
  <2>4. restarts + 1 # 0
    BY <2>1
  <2>5. Placed(DspSet(dspHas), {}, {}, Ended, raised, restarts + 1)
    BY <2>4 DEF Placed, EventPlaces
  <2> QED
    BY <2>1, <2>2, <2>3, <2>5 DEF EventPlaces, Ended
<1> QED
  BY <1>1, <1>2

LEMMA PlacesStep == PathIInv /\ EventOrder /\ EventPlaces /\ [Next]_vars => EventPlaces'
<1> SUFFICES ASSUME PathIInv, EventOrder, EventPlaces, [Next]_vars PROVE EventPlaces'
  OBVIOUS
<1>1. CASE LowerFlag \/ UNCHANGED vars
  <2>1. UNCHANGED <<raised, dspHas, equeue, handler, told, dropped, restarts>>
    BY <1>1 DEF LowerFlag, vars, storevars, eventvars
  <2>2. InHand' = InHand
    BY <2>1 DEF InHand
  <2> QED
    BY <2>1, <2>2 DEF EventPlaces, Ended
<1> QED
  BY <1>1, RaisePlaces, LinkEventPlaces, ReadEventsPlaces, TakeItemPlaces, NextEventPlaces,
     LoseRecordingPlaces, StoreEventPlaces, TellEventPlaces, MaintainPlaces
     DEF Next, Run, Handle

\* No event is in two places, and before the first restart none is gone: those
\* that are neither on their way nor told are recordings given up.
THEOREM EventsKeepPlace == Spec => []EventsHavePlace
<1>1. EventPlaces => EventsHavePlace
  <2> SUFFICES ASSUME EventPlaces PROVE EventsHavePlace
    OBVIOUS
  <2> DEFINE D == UNION {EntriesOf(dspHas[r]) : r \in Reports}
             Q == UNION {EntriesOf(q[2]) : q \in EntriesOf(equeue)}
             Places == <<D, Q, InHand, told, dropped>>
  <2>1. D = DspSet(dspHas) /\ Q = QueueSet(equeue)
    BY DEF DspSet, QueueSet, EntriesOf
  <2>2. /\ Placed(D, Q, InHand, Ended, raised, restarts)
        /\ told \intersect dropped = {}
    BY <2>1 DEF EventPlaces
  <2>3. EventsHavePlace <=>
          /\ restarts = 0 => UNION EntriesOf(Places) = 1..raised
          /\ \A i, j \in 1..5 : i < j => Places[i] \intersect Places[j] = {}
    BY DEF EventsHavePlace, InHand
  <2> HIDE DEF D, Q
  <2>4. EntriesOf(Places) = {D, Q, InHand, told, dropped}
    BY DEF EntriesOf
  <2>5. UNION EntriesOf(Places) = D \union Q \union InHand \union told \union dropped
    BY <2>4
  <2>6. restarts = 0 => UNION EntriesOf(Places) = 1..raised
    BY <2>2, <2>5 DEF Placed, Ended
  <2>7. \A i, j \in 1..5 : i < j => Places[i] \intersect Places[j] = {}
    BY <2>2 DEF Placed, Ended
  <2> QED
    BY <2>3, <2>6, <2>7
<1>2. PathIInv /\ EventOrder /\ EventPlaces /\ [Next]_vars => EventPlaces'
  BY PlacesStep
<1> QED
  BY <1>1, <1>2, PlacesInit, OrderInvariant, PTL DEF Spec
=============================================================================
