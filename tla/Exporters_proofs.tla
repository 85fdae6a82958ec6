-------------------------- MODULE Exporters_proofs --------------------------
(***************************************************************************)
(* Theorems about Exporters, for any states, tasks and values.             *)
(***************************************************************************)
EXTENDS Exporters, FiniteSetTheorems, WellFoundedInduction, SequenceTheorems, TLAPS

-----------------------------------------------------------------------------
(* Induction over the numbers. *)

(* A set of numbers has a least element: the intervals up to each are       *)
(* finite sets, which strict inclusion orders well.                         *)
LEMMA LeastNatural ==
    ASSUME NEW T \in SUBSET Nat, T # {}
    PROVE  \E n \in T : \A m \in T : n <= m
<1> DEFINE R == StrictSubsetOrdering(Nat)
           S == FiniteSubsetsOf(Nat)
           U == {0..n : n \in T}
<1>1. IsWellFoundedOn(R, S)
    BY FS_StrictSubsetOrderingWellFounded
<1>2. U \subseteq S /\ U # {}
    <2>1. ASSUME NEW n \in T PROVE 0..n \in S
        <3>1. IsFiniteSet(0..n)
            BY FS_Interval
        <3> QED
            BY <3>1 DEF FiniteSubsetsOf
    <2> QED
        BY <2>1
<1> HIDE DEF R, S
<1>3. PICK x \in U : \A y \in U : ~(<<y, x>> \in R)
    BY <1>1, <1>2, WFMin
<1>4. PICK n \in T : x = 0..n
    BY <1>3
<1>5. ASSUME NEW m \in T, m < n PROVE FALSE
    <2>1. 0..m \subseteq 0..n /\ 0..m # 0..n
        <3>1. n \in 0..n /\ n \notin 0..m
            BY <1>5
        <3> QED
            BY <1>5, <3>1
    <2>2. <<0..m, 0..n>> \in R
        BY <2>1 DEF R, StrictSubsetOrdering
    <2> QED
        BY <1>3, <1>4, <2>2
<1> QED
    BY <1>5

(* Induction. The predicate is a set: what the theorems of the library      *)
(* state for an operator cannot be instantiated by the provers.             *)
LEMMA InductionOnSet ==
    ASSUME NEW T, 0 \in T, \A n \in Nat : n \in T => n + 1 \in T
    PROVE  Nat \subseteq T
<1> SUFFICES ASSUME Nat \ T # {} PROVE FALSE
    OBVIOUS
<1>1. PICK n \in Nat \ T : \A m \in Nat \ T : n <= m
    BY LeastNatural
<1>2. n # 0 /\ n - 1 \in Nat /\ (n - 1) + 1 = n
    BY <1>1
<1>3. n - 1 \in T
    BY <1>1, <1>2
<1> QED
    BY <1>1, <1>2, <1>3

-----------------------------------------------------------------------------
(* The inductive invariants. *)

Entries(tab) == Name \X IF tab = "task_state" THEN Range(StateNames) ELSE Value

LoopType ==
    /\ current \in DeviceStates \cup {None}
    /\ shown \in DeviceStates \cup {None}
    /\ written \in Nat
    /\ current # None => written <= Len(Writes[current])

PromType ==
    /\ gauge \in [DOMAIN gauge -> Value]
    /\ DOMAIN gauge \subseteq Key
    /\ children \in [Range(Families) -> Seq(Key)]
    /\ \A f \in Range(Families) :
          /\ Range(children[f]) = {k \in DOMAIN gauge : k[1] = f}
          /\ IsFiniteSet(Range(children[f]))
          /\ Cardinality(Range(children[f])) = Len(children[f])

ScrapeType ==
    /\ scrape \in [active : BOOLEAN, family : 1..(Len(Families) + 1), keys : Seq(Key),
                   base : DeviceStates \cup {None}, seen : SUBSET DeviceStates,
                   sample : {<<>>} \cup (Key \X Value)]
    /\ Range(scrape.keys) \subseteq DOMAIN gauge

TableType ==
    /\ DOMAIN table = Tables
    /\ \A tab \in Tables :
          /\ table[tab] \in Seq(Entries(tab))
          /\ IsInjective([i \in DOMAIN table[tab] |-> table[tab][i][1]])

ExportType ==
    /\ export \in [active : BOOLEAN, tab : Tables, taken : Seq(Entries(export.tab)),
                   whole : BOOLEAN, live : BOOLEAN, items : Seq(Entries(export.tab)),
                   size : Nat, out : Seq(Entries(export.tab)),
                   result : {"none", "all", "some", "error"}]
    /\ Len(export.out) <= export.size

TypeInv == LoopType /\ PromType /\ ScrapeType /\ TableType /\ ExportType

(* A gauge has the value of the last write to it that is done. *)
GaugeInv ==
    current # None =>
        LET w == PrometheusWrites[current]
            done == {i \in DOMAIN w : i <= written}
        IN  \A i \in done :
                /\ w[i].key \in DOMAIN gauge
                /\ \/ gauge[w[i].key] = w[i].value
                   \/ \E k \in done : k > i /\ w[k].key = w[i].key

(* So has a dictionary that was replaced: for each name the entry that was  *)
(* put last.                                                                *)
PutIn(tab, i) == Writes[current][i].op = "put" /\ Writes[current][i].tab = tab

LastPuts(tab) ==
    {i \in 1..written : PutIn(tab, i) /\ \A k \in (i + 1)..written :
        PutIn(tab, k) => Writes[current][k].entry[1] # Writes[current][i].entry[1]}

TableInv ==
    current # None =>
        \A tab \in Tables :
            (\A i \in (written + 1)..Len(Writes[current]) :
                Writes[current][i] # [op |-> "clear", tab |-> tab])
            => Range(table[tab]) = {Writes[current][i].entry : i \in LastPuts(tab)}

(* The gauge that w of an earlier push set has its value still, or one of   *)
(* the states pushed since.                                                 *)
StillFrom(w, states) ==
    /\ w.key \in DOMAIN gauge
    /\ (\A s \in states : OneWriter(s, w.key)) =>
          \E s \in states : \E v \in Sets[s] : v.key = w.key /\ v.value = gauge[w.key]

(* What was shown is there until what is pushed replaces it, and a scrape   *)
(* knows all that was pushed since it began.                                *)
FreshInv ==
    /\ Pushed => shown = current
    /\ shown # None =>
          /\ current # None
          /\ \A w \in Sets[shown] : StillFrom(w, {shown, current})
    /\ scrape.active /\ scrape.base # None =>
          /\ current \in scrape.seen
          /\ \A w \in Sets[scrape.base] : StillFrom(w, scrape.seen)
    /\ ~scrape.active => scrape.sample = <<>>

(* A callback that took a whole dictionary iterates over it to the end. *)
ExportInv ==
    export.active =>
        /\ export.result = "none"
        /\ export.whole =>
              /\ export.size = Len(export.taken)
              /\ \A i \in DOMAIN export.out : export.out[i] = export.taken[i]
              /\ Iterated = export.taken
              /\ export.live => ~Filling(export.tab)

-----------------------------------------------------------------------------
(* FlattenSeq. *)

(* t is the first n sequences of seqs, one after the other, and o says      *)
(* which of them an element is from.                                        *)
IsFlat(S, seqs, n, t, o) ==
    /\ t \in Seq(S)
    /\ o \in [1..Len(t) -> 1..n]
    /\ \A p, q \in 1..Len(t) : p <= q => o[p] <= o[q]
    /\ \A p \in 1..Len(t) : \E j \in 1..Len(seqs[o[p]]) : t[p] = seqs[o[p]][j]
    /\ \A i \in 1..n : \A j \in 1..Len(seqs[i]) :
          \E p \in 1..Len(t) : o[p] = i /\ t[p] = seqs[i][j]

LEMMA FlatBegin ==
    ASSUME NEW S, NEW seqs \in Seq(Seq(S)), Len(seqs) # 0
    PROVE  \E o : IsFlat(S, seqs, 1, seqs[1], o)
<1> DEFINE o == [p \in 1..Len(seqs[1]) |-> 1]
<1>1. seqs[1] \in Seq(S)
    OBVIOUS
<1>2. /\ o \in [1..Len(seqs[1]) -> 1..1]
      /\ \A p, q \in 1..Len(seqs[1]) : p <= q => o[p] <= o[q]
    OBVIOUS
<1>3. \A p \in 1..Len(seqs[1]) : \E j \in 1..Len(seqs[o[p]]) : seqs[1][p] = seqs[o[p]][j]
    OBVIOUS
<1>4. ASSUME NEW i \in 1..1, NEW j \in 1..Len(seqs[i])
      PROVE  \E p \in 1..Len(seqs[1]) : o[p] = i /\ seqs[1][p] = seqs[i][j]
    <2>1. i = 1
        OBVIOUS
    <2>2. j \in 1..Len(seqs[1])
        BY <2>1
    <2> QED
        BY <2>1, <2>2
<1> HIDE DEF o
<1>5. IsFlat(S, seqs, 1, seqs[1], o)
    BY <1>1, <1>2, <1>3, <1>4, Zenon DEF IsFlat
<1> QED
    BY <1>5

LEMMA FlatStep ==
    ASSUME NEW S, NEW seqs \in Seq(Seq(S)), NEW n \in Nat, n + 1 <= Len(seqs),
           NEW t, NEW o, IsFlat(S, seqs, n, t, o)
    PROVE  \E r : IsFlat(S, seqs, n + 1, t \o seqs[n + 1], r)
<1> DEFINE s == seqs[n + 1]
           u == t \o s
           r == [p \in 1..Len(u) |-> IF p <= Len(t) THEN o[p] ELSE n + 1]
<1>1. /\ s \in Seq(S) /\ t \in Seq(S) /\ u \in Seq(S)
      /\ Len(s) \in Nat /\ Len(t) \in Nat /\ Len(u) = Len(t) + Len(s)
      /\ \A p \in 1..Len(t) : u[p] = t[p]
      /\ \A j \in 1..Len(s) : u[Len(t) + j] = s[j]
    BY DEF IsFlat
<1>2. o \in [1..Len(t) -> 1..n]
    BY DEF IsFlat
<1>3. r \in [1..Len(u) -> 1..(n + 1)]
    BY <1>1, <1>2
<1>4. ASSUME NEW p \in 1..Len(u), NEW q \in 1..Len(u), p <= q
      PROVE  r[p] <= r[q]
    <2>1. CASE q <= Len(t)
        <3>1. p \in 1..Len(t) /\ q \in 1..Len(t)
            BY <1>1, <1>4, <2>1
        <3>2. o[p] <= o[q]
            BY <1>4, <3>1 DEF IsFlat
        <3> QED
            BY <3>1, <3>2
    <2>2. CASE ~(q <= Len(t))
        <3>1. r[q] = n + 1
            BY <2>2
        <3>2. r[p] \in 1..(n + 1)
            BY <1>3
        <3> HIDE DEF r
        <3> QED
            BY <3>1, <3>2
    <2> QED
        BY <2>1, <2>2
<1>5. ASSUME NEW p \in 1..Len(u)
      PROVE  \E j \in 1..Len(seqs[r[p]]) : u[p] = seqs[r[p]][j]
    <2>1. CASE p <= Len(t)
        <3>1. p \in 1..Len(t) /\ r[p] = o[p] /\ u[p] = t[p]
            BY <1>1, <2>1
        <3>2. \E j \in 1..Len(seqs[o[p]]) : t[p] = seqs[o[p]][j]
            BY <3>1 DEF IsFlat
        <3> HIDE DEF r, u
        <3> QED
            BY <3>1, <3>2
    <2>2. CASE ~(p <= Len(t))
        <3>1. p - Len(t) \in 1..Len(s) /\ r[p] = n + 1 /\ Len(t) + (p - Len(t)) = p
            BY <1>1, <2>2
        <3>2. u[p] = s[p - Len(t)]
            BY <1>1, <3>1
        <3> QED
            BY <3>1, <3>2
    <2> QED
        BY <2>1, <2>2
<1>6. ASSUME NEW i \in 1..(n + 1), NEW j \in 1..Len(seqs[i])
      PROVE  \E p \in 1..Len(u) : r[p] = i /\ u[p] = seqs[i][j]
    <2>1. CASE i = n + 1
        <3>1. Len(t) + j \in 1..Len(u) /\ ~(Len(t) + j <= Len(t)) /\ u[Len(t) + j] = s[j]
            BY <1>1, <2>1
        <3> QED
            BY <2>1, <3>1
    <2>2. CASE i # n + 1
        <3>1. i \in 1..n
            BY <2>2
        <3>2. PICK p \in 1..Len(t) : o[p] = i /\ t[p] = seqs[i][j]
            BY <3>1 DEF IsFlat
        <3>3. p \in 1..Len(u) /\ r[p] = o[p] /\ u[p] = t[p]
            BY <1>1
        <3> QED
            BY <3>2, <3>3
    <2> QED
        BY <2>1, <2>2
<1>7. IsFlat(S, seqs, n + 1, u, r)
    <2> HIDE DEF r, u
    <2> QED
        BY <1>1, <1>3, <1>4, <1>5, <1>6 DEF IsFlat
<1> QED
    BY <1>7

(* The recursive function of FlattenSeq exists. *)
LEMMA FlattenExists ==
    ASSUME NEW S, NEW seqs \in Seq(Seq(S)), Len(seqs) # 0
    PROVE  \E f : /\ f = [i \in 1..Len(seqs) |->
                             IF i = 1 THEN seqs[i] ELSE f[i - 1] \o seqs[i]]
                  /\ FlattenSeq(seqs) = f[Len(seqs)]
<1> DEFINE IsIt(g, n) == g = [i \in 1..n |-> IF i = 1 THEN seqs[i] ELSE g[i - 1] \o seqs[i]]
           T == {n \in Nat : n <= Len(seqs) => \E g : IsIt(g, n)}
<1> HIDE DEF IsIt
<1>0. Len(seqs) \in Nat
    OBVIOUS
<1>1. 0 \in T
    <2>1. IsIt([i \in 1..0 |-> 0], 0)
        BY DEF IsIt
    <2> QED
        BY <2>1
<1>2. ASSUME NEW n \in Nat, n \in T PROVE n + 1 \in T
    <2> SUFFICES ASSUME n + 1 <= Len(seqs) PROVE \E g : IsIt(g, n + 1)
        OBVIOUS
    <2>1. PICK g : IsIt(g, n)
        BY <1>0, <1>2
    <2> DEFINE last == IF n = 0 THEN seqs[1] ELSE g[n] \o seqs[n + 1]
               h == [i \in 1..(n + 1) |-> IF i = n + 1 THEN last ELSE g[i]]
    <2>2. ASSUME NEW i \in 1..(n + 1)
          PROVE  h[i] = IF i = 1 THEN seqs[i] ELSE h[i - 1] \o seqs[i]
        <3>1. CASE i = n + 1 /\ i # 1
            <4>1. i - 1 = n /\ n # n + 1 /\ n \in 1..(n + 1) /\ n # 0
                BY <3>1
            <4> QED
                BY <3>1, <4>1
        <3>2. CASE i # n + 1 /\ i # 1
            <4>1. i \in 1..n /\ i - 1 \in 1..(n + 1) /\ i - 1 # n + 1
                BY <3>2
            <4>2. g[i] = g[i - 1] \o seqs[i]
                BY <2>1, <3>2, <4>1 DEF IsIt
            <4> QED
                BY <3>2, <4>1, <4>2
        <3>3. CASE i = 1 /\ i # n + 1
            <4>1. i \in 1..n
                BY <3>3
            <4> QED
                BY <2>1, <3>3, <4>1 DEF IsIt
        <3>4. CASE i = 1 /\ i = n + 1
            BY <3>4
        <3> QED
            BY <3>1, <3>2, <3>3, <3>4
    <2>3. IsIt(h, n + 1)
        BY <2>2 DEF IsIt
    <2> QED
        BY <2>3
<1> HIDE DEF T, IsIt
<1>3. Nat \subseteq T
    BY <1>1, <1>2, InductionOnSet
<1>4. \E g : IsIt(g, Len(seqs))
    <2>1. Len(seqs) \in Nat
        OBVIOUS
    <2> QED
        BY <1>3, <2>1 DEF T
<1>5. FlattenSeq(seqs) = (CHOOSE g : IsIt(g, Len(seqs)))[Len(seqs)]
    BY DEF FlattenSeq, IsIt
<1>6. IsIt(CHOOSE g : IsIt(g, Len(seqs)), Len(seqs))
    BY <1>4
<1> QED
    BY <1>5, <1>6 DEF IsIt

(* What FlattenSeq returns. *)
LEMMA FlattenIsFlat ==
    ASSUME NEW S, NEW seqs \in Seq(Seq(S))
    PROVE  \E o : IsFlat(S, seqs, Len(seqs), FlattenSeq(seqs), o)
<1>1. CASE Len(seqs) = 0
    <2>1. FlattenSeq(seqs) = seqs /\ seqs = <<>>
        BY <1>1 DEF FlattenSeq
    <2>2. IsFlat(S, <<>>, 0, <<>>, [p \in 1..0 |-> 0])
        BY DEF IsFlat
    <2> QED
        BY <1>1, <2>1, <2>2
<1>2. CASE Len(seqs) # 0
    <2>1. PICK f : /\ f = [i \in 1..Len(seqs) |->
                             IF i = 1 THEN seqs[i] ELSE f[i - 1] \o seqs[i]]
                   /\ FlattenSeq(seqs) = f[Len(seqs)]
        BY <1>2, FlattenExists
    <2> DEFINE T == {n \in Nat : n + 1 <= Len(seqs) =>
                                    \E o : IsFlat(S, seqs, n + 1, f[n + 1], o)}
    <2>2. 0 \in T
        <3>1. 1 \in 1..Len(seqs)
            BY <1>2
        <3>2. f[1] = seqs[1]
            BY <2>1, <3>1
        <3> QED
            BY <1>2, <3>2, FlatBegin
    <2>3. ASSUME NEW n \in Nat, n \in T PROVE n + 1 \in T
        <3> SUFFICES ASSUME (n + 1) + 1 <= Len(seqs)
                     PROVE  \E o : IsFlat(S, seqs, (n + 1) + 1, f[(n + 1) + 1], o)
            OBVIOUS
        <3>1. PICK o : IsFlat(S, seqs, n + 1, f[n + 1], o)
            BY <2>3
        <3>2. (n + 1) + 1 \in 1..Len(seqs) /\ (n + 1) + 1 # 1 /\ ((n + 1) + 1) - 1 = n + 1
            OBVIOUS
        <3>3. f[(n + 1) + 1] = f[n + 1] \o seqs[(n + 1) + 1]
            BY <2>1, <3>2
        <3>4. n + 1 \in Nat
            OBVIOUS
        <3> QED
            BY <3>1, <3>3, <3>4, FlatStep
    <2> HIDE DEF T
    <2>4. Nat \subseteq T
        BY <2>2, <2>3, InductionOnSet
    <2>5. Len(seqs) - 1 \in Nat /\ (Len(seqs) - 1) + 1 = Len(seqs)
        BY <1>2
    <2>6. Len(seqs) - 1 \in T
        BY <2>4, <2>5
    <2>7. \E o : IsFlat(S, seqs, Len(seqs), f[Len(seqs)], o)
        BY <2>5, <2>6 DEF T
    <2> QED
        BY <2>1, <2>7
<1> QED
    BY <1>1, <1>2

(* The elements of a sequence and who they are from: owner i has the set    *)
(* by[i], whose elements all occur, after those of the owners before it.    *)
Owned(w, by, o) ==
    /\ o \in [DOMAIN w -> DOMAIN by]
    /\ \A p, q \in DOMAIN w : p <= q => o[p] <= o[q]
    /\ \A p \in DOMAIN w : w[p] \in by[o[p]]
    /\ \A i \in DOMAIN by : \A x \in by[i] : \E p \in DOMAIN w : o[p] = i /\ w[p] = x

LEMMA FlattenOwned ==
    ASSUME NEW S, NEW seqs \in Seq(Seq(S))
    PROVE  /\ FlattenSeq(seqs) \in Seq(S)
           /\ \E o : Owned(FlattenSeq(seqs), [i \in DOMAIN seqs |-> Range(seqs[i])], o)
<1> DEFINE t == FlattenSeq(seqs)
           by == [i \in DOMAIN seqs |-> Range(seqs[i])]
<1>1. PICK o : IsFlat(S, seqs, Len(seqs), t, o)
    BY FlattenIsFlat
<1>2. /\ DOMAIN seqs = 1..Len(seqs) /\ DOMAIN by = 1..Len(seqs)
      /\ \A i \in 1..Len(seqs) : seqs[i] \in Seq(S) /\ DOMAIN seqs[i] = 1..Len(seqs[i])
    OBVIOUS
<1> HIDE DEF t
<1>3. t \in Seq(S) /\ DOMAIN t = 1..Len(t) /\ o \in [DOMAIN t -> DOMAIN by]
    <2>1. t \in Seq(S) /\ o \in [1..Len(t) -> 1..Len(seqs)]
        BY <1>1 DEF IsFlat
    <2>2. DOMAIN t = 1..Len(t)
        BY <2>1
    <2> HIDE DEF by
    <2> QED
        BY <1>2, <2>1, <2>2
<1>4. \A p, q \in DOMAIN t : p <= q => o[p] <= o[q]
    BY <1>1, <1>3 DEF IsFlat
<1>5. ASSUME NEW p \in DOMAIN t PROVE t[p] \in by[o[p]]
    <2>1. PICK j \in 1..Len(seqs[o[p]]) : t[p] = seqs[o[p]][j]
        BY <1>1, <1>3 DEF IsFlat
    <2>2. o[p] \in DOMAIN seqs /\ j \in DOMAIN seqs[o[p]]
        BY <1>2, <1>3
    <2> QED
        BY <2>1, <2>2 DEF Range
<1>6. ASSUME NEW i \in DOMAIN by, NEW x \in by[i]
      PROVE  \E p \in DOMAIN t : o[p] = i /\ t[p] = x
    <2>1. i \in 1..Len(seqs)
        BY <1>2
    <2>2. PICK j \in 1..Len(seqs[i]) : x = seqs[i][j]
        BY <1>2, <2>1 DEF Range
    <2>3. \E p \in 1..Len(t) : o[p] = i /\ t[p] = seqs[i][j]
        BY <1>1, <2>1 DEF IsFlat
    <2> QED
        BY <1>3, <2>2, <2>3
<1> HIDE DEF t, by
<1>7. Owned(t, by, o)
    BY <1>3, <1>4, <1>5, <1>6 DEF Owned
<1> QED
    BY <1>3, <1>7 DEF t, by

LEMMA FlattenRange ==
    ASSUME NEW S, NEW seqs \in Seq(Seq(S))
    PROVE  /\ FlattenSeq(seqs) \in Seq(S)
           /\ Range(FlattenSeq(seqs)) = UNION {Range(seqs[i]) : i \in DOMAIN seqs}
<1> DEFINE t == FlattenSeq(seqs)
           by == [i \in DOMAIN seqs |-> Range(seqs[i])]
<1>1. PICK o : Owned(t, by, o)
    BY FlattenOwned
<1>2. ASSUME NEW x \in Range(t) PROVE \E i \in DOMAIN seqs : x \in Range(seqs[i])
    <2>1. PICK p \in DOMAIN t : t[p] = x
        BY DEF Range
    <2>2. o[p] \in DOMAIN seqs /\ t[p] \in by[o[p]]
        BY <1>1 DEF Owned
    <2> QED
        BY <2>1, <2>2
<1>3. ASSUME NEW i \in DOMAIN seqs, NEW x \in Range(seqs[i]) PROVE x \in Range(t)
    <2>1. i \in DOMAIN by /\ x \in by[i]
        OBVIOUS
    <2>2. \E p \in DOMAIN t : t[p] = x
        BY <1>1, <2>1 DEF Owned
    <2> QED
        BY <2>2 DEF Range
<1>4. t \in Seq(S)
    BY FlattenOwned
<1> HIDE DEF t
<1> QED
    BY <1>2, <1>3, <1>4 DEF t

(* A sequence of sequences of one element each *)
Singles(S, n, f, seqs) ==
    /\ n \in Nat /\ f \in [1..n -> S]
    /\ DOMAIN seqs = 1..n /\ seqs \in Seq(Seq(S))
    /\ \A i \in 1..n : seqs[i] = <<f[i]>>

LEMMA FlattenSingles ==
    ASSUME NEW S, NEW n, NEW f, NEW seqs, Singles(S, n, f, seqs)
    PROVE  /\ FlattenSeq(seqs) \in Seq(S)
           /\ Range(FlattenSeq(seqs)) = {f[i] : i \in 1..n}
<1>1. ASSUME NEW x PROVE Range(<<x>>) = {x}
    <2>1. DOMAIN <<x>> = {1} /\ <<x>>[1] = x
        OBVIOUS
    <2> QED
        BY <2>1 DEF Range
<1>2. \A i \in 1..n : Range(seqs[i]) = {f[i]}
    BY <1>1 DEF Singles
<1>3. UNION {Range(seqs[i]) : i \in DOMAIN seqs} = {f[i] : i \in 1..n}
    BY <1>2 DEF Singles
<1>4. seqs \in Seq(Seq(S))
    BY DEF Singles
<1> QED
    BY <1>3, <1>4, FlattenRange

(* Of the positions in T one is the last. *)
LEMMA LastPosition ==
    ASSUME NEW n \in Nat, NEW T \in SUBSET (1..n), T # {}
    PROVE  \E p \in T : \A q \in T : q <= p
<1> DEFINE U == {n - p : p \in T}
<1>1. U \in SUBSET Nat /\ U # {}
    <2>1. \A p \in T : n - p \in Nat
        OBVIOUS
    <2> QED
        BY <2>1
<1> HIDE DEF U
<1>2. PICK m \in U : \A k \in U : m <= k
    BY <1>1, LeastNatural
<1>3. PICK p \in T : m = n - p
    BY DEF U
<1>4. ASSUME NEW q \in T PROVE q <= p
    <2>1. n - q \in U
        BY DEF U
    <2>2. n - p <= n - q
        BY <1>2, <1>3, <2>1
    <2> QED
        BY <2>2
<1> QED
    BY <1>4

(* The last element of K is from the last owner that has one. *)
LEMMA LastOwner ==
    ASSUME NEW S, NEW w \in Seq(S), NEW by, NEW o, Owned(w, by, o), DOMAIN by \subseteq Nat,
           NEW K, NEW i \in DOMAIN by, by[i] \cap K # {},
           \A k \in DOMAIN by : k > i => by[k] \cap K = {}
    PROVE  \E p \in DOMAIN w : /\ o[p] = i /\ w[p] \in by[i] \cap K
                               /\ \A q \in DOMAIN w : q > p => w[q] \notin K
<1> DEFINE T == {p \in 1..Len(w) : w[p] \in K}
<1>1. Len(w) \in Nat /\ DOMAIN w = 1..Len(w)
    OBVIOUS
<1>2. PICK p0 \in DOMAIN w : o[p0] = i /\ w[p0] \in K
    BY DEF Owned
<1>3. T \in SUBSET (1..Len(w)) /\ p0 \in T
    BY <1>1, <1>2
<1> HIDE DEF T
<1>4. PICK p \in T : \A q \in T : q <= p
    BY <1>1, <1>3, LastPosition
<1>5. p \in DOMAIN w /\ w[p] \in K /\ p0 <= p
    BY <1>1, <1>3, <1>4 DEF T
<1>6. o[p] \in DOMAIN by /\ o[p0] <= o[p] /\ w[p] \in by[o[p]]
    BY <1>2, <1>5 DEF Owned
<1>7. o[p] = i
    BY <1>2, <1>5, <1>6
<1>8. ASSUME NEW q \in DOMAIN w, q > p, w[q] \in K PROVE FALSE
    <2>1. q \in T
        BY <1>1, <1>8 DEF T
    <2>2. q <= p
        BY <1>4, <2>1
    <2> QED
        BY <1>1, <1>5, <1>8, <2>2
<1> QED
    BY <1>5, <1>6, <1>7, <1>8

-----------------------------------------------------------------------------
(* The literals. *)

LEMMA GaugeFacts ==
    /\ TaskGauges \in Seq(Range(TaskGauges)) /\ DeviceGauges \in Seq(Range(DeviceGauges))
    /\ Range(TaskGauges) = {"stack_watermark", "cpu_ratio"}
    /\ Range(DeviceGauges) = {"heap_free", "heap_min_ever", "oom_projection",
                              "cpu_utilization", "packet_loss"}
    /\ Tables = {"task_state", "stack_watermark", "cpu_ratio"}
<1>1. Range(TaskGauges) = {"stack_watermark", "cpu_ratio"}
    <2>1. DOMAIN TaskGauges = {1, 2}
        BY DEF TaskGauges
    <2> QED
        BY <2>1 DEF Range, TaskGauges
<1>2. Range(DeviceGauges) = {"heap_free", "heap_min_ever", "oom_projection",
                             "cpu_utilization", "packet_loss"}
    <2>1. DOMAIN DeviceGauges = {1, 2, 3, 4, 5}
        BY DEF DeviceGauges
    <2> QED
        BY <2>1 DEF Range, DeviceGauges
<1>3. TaskGauges \in Seq(Range(TaskGauges))
    BY <1>1 DEF TaskGauges
<1>4. DeviceGauges \in Seq(Range(DeviceGauges))
    BY <1>2 DEF DeviceGauges
<1> QED
    BY <1>1, <1>2, <1>3, <1>4 DEF Tables

LEMMA FamilyFacts ==
    /\ Families \in Seq(Range(Families)) /\ Len(Families) \in Nat
    /\ Range(Families) = {"task_state"} \cup Range(TaskGauges) \cup Range(DeviceGauges)
    /\ TableOrder \in Seq(Tables) /\ Range(TableOrder) = Tables
<1> DEFINE S == {"task_state"} \cup Range(TaskGauges) \cup Range(DeviceGauges)
           one == <<"task_state">>
<1>1. /\ TaskGauges \in Seq(S) /\ DeviceGauges \in Seq(S) /\ one \in Seq(S)
    BY GaugeFacts
<1>2. Range(one) = {"task_state"}
    BY DEF Range
<1> HIDE DEF S, one
<1> DEFINE order == one \o TaskGauges
<1>3. order \in Seq(S) /\ Range(order) = Range(one) \cup Range(TaskGauges)
    BY <1>1, RangeConcatenation
<1> HIDE DEF order
<1>4. /\ order \o DeviceGauges \in Seq(S)
      /\ Range(order \o DeviceGauges) = Range(order) \cup Range(DeviceGauges)
    BY <1>1, <1>3, RangeConcatenation
<1>5. Families = order \o DeviceGauges /\ TableOrder = order
    BY DEF Families, TableOrder, one, order
<1>6. Range(Families) = S
    BY <1>2, <1>3, <1>4, <1>5 DEF S
<1>7. Range(TableOrder) = Tables
    BY <1>2, <1>3, <1>5 DEF Tables
<1>8. TableOrder \in Seq(Range(TableOrder))
    BY <1>3, <1>5, SeqOfRange
<1>9. Families \in Seq(S) /\ Len(Families) \in Nat
    BY <1>4, <1>5
<1> QED
    BY <1>6, <1>7, <1>8, <1>9 DEF S

-----------------------------------------------------------------------------
(* The writes of a push, task by task. *)

Task == [name : Name, state : Range(StateNames), gauge : [Range(TaskGauges) -> Value]]

SetWrite == [op : {"set"}, key : Key, value : Value]

StateWrite(t, n) ==
    [op |-> "set", key |-> <<"task_state", t.name, n>>, value |-> IF t.state = n THEN 1 ELSE 0]

GaugeWrite(t, g) == [op |-> "set", key |-> <<g, t.name>>, value |-> t.gauge[g]]

DeviceWrite(s, g) == [op |-> "set", key |-> <<g>>, value |-> s.device[g]]

TaskSets(t) ==
    {StateWrite(t, n) : n \in Range(StateNames)} \cup {GaugeWrite(t, g) : g \in Range(TaskGauges)}

DeviceSets(s) == {DeviceWrite(s, g) : g \in Range(DeviceGauges)}

(* The device is owner 0. *)
SetsBy(s) == [i \in 0..Len(s.tasks) |-> IF i = 0 THEN DeviceSets(s) ELSE TaskSets(s.tasks[i])]

LEMMA StateFacts ==
    ASSUME NEW s \in DeviceStates
    PROVE  /\ s.tasks \in Seq(Task) /\ Len(s.tasks) \in Nat
           /\ DOMAIN s.tasks = 1..Len(s.tasks)
           /\ \A i \in 1..Len(s.tasks) : s.tasks[i] \in Task
           /\ s.device \in [Range(DeviceGauges) -> Value]
<1>1. s \in DeviceState
    BY ExporterAssumption
<1>2. s.tasks \in Seq(Task) /\ s.device \in [Range(DeviceGauges) -> Value]
    BY <1>1 DEF DeviceState, Task
<1> QED
    BY <1>2

LEMMA TaskSetsTyped ==
    ASSUME NEW t \in Task
    PROVE  TaskSets(t) \subseteq SetWrite
<1>1. ASSUME NEW n \in Range(StateNames) PROVE StateWrite(t, n) \in SetWrite
    <2>1. <<"task_state", t.name, n>> \in Key
        BY DEF Key, Task
    <2>2. (IF t.state = n THEN 1 ELSE 0) \in Value
        BY ExporterAssumption
    <2> QED
        BY <2>1, <2>2 DEF StateWrite, SetWrite
<1>2. ASSUME NEW g \in Range(TaskGauges) PROVE GaugeWrite(t, g) \in SetWrite
    <2>1. <<g, t.name>> \in Key
        BY DEF Key, Task
    <2>2. t.gauge[g] \in Value
        BY DEF Task
    <2> QED
        BY <2>1, <2>2 DEF GaugeWrite, SetWrite
<1> QED
    BY <1>1, <1>2 DEF TaskSets

LEMMA DeviceSetsTyped ==
    ASSUME NEW s \in DeviceStates
    PROVE  DeviceSets(s) \subseteq SetWrite
<1>1. ASSUME NEW g \in Range(DeviceGauges) PROVE DeviceWrite(s, g) \in SetWrite
    <2>1. <<g>> \in Key
        BY DEF Key
    <2>2. s.device[g] \in Value
        BY StateFacts
    <2> QED
        BY <2>1, <2>2 DEF DeviceWrite, SetWrite
<1> QED
    BY <1>1 DEF DeviceSets

LEMMA TaskWritten ==
    ASSUME NEW t \in Task
    PROVE  TaskWrites(t) \in Seq(SetWrite) /\ Range(TaskWrites(t)) = TaskSets(t)
<1> DEFINE f == [j \in 1..Len(StateNames) |-> StateWrite(t, StateNames[j])]
           g == [j \in 1..Len(TaskGauges) |-> GaugeWrite(t, TaskGauges[j])]
<1>1. /\ DOMAIN StateNames = 1..Len(StateNames) /\ Len(StateNames) \in Nat
      /\ Range(StateNames) = {StateNames[j] : j \in 1..Len(StateNames)}
    BY ExporterAssumption DEF Range
<1>2. /\ DOMAIN TaskGauges = 1..Len(TaskGauges) /\ Len(TaskGauges) \in Nat
      /\ Range(TaskGauges) = {TaskGauges[j] : j \in 1..Len(TaskGauges)}
    BY GaugeFacts DEF Range
<1>3. f \in [1..Len(StateNames) -> SetWrite]
    <2>1. \A j \in 1..Len(StateNames) : StateWrite(t, StateNames[j]) \in SetWrite
        BY <1>1, TaskSetsTyped DEF TaskSets
    <2> QED
        BY <2>1
<1>4. g \in [1..Len(TaskGauges) -> SetWrite]
    <2>1. \A j \in 1..Len(TaskGauges) : GaugeWrite(t, TaskGauges[j]) \in SetWrite
        BY <1>2, TaskSetsTyped DEF TaskSets
    <2> QED
        BY <2>1
<1> DEFINE states == [j \in DOMAIN StateNames |->
                        Gauge(<<"task_state", t.name, StateNames[j]>>,
                              IF t.state = StateNames[j] THEN 1 ELSE 0)]
           gauges == [j \in DOMAIN TaskGauges |->
                        Gauge(<<TaskGauges[j], t.name>>, t.gauge[TaskGauges[j]])]
<1>5. TaskWrites(t) = FlattenSeq(states) \o FlattenSeq(gauges)
    BY DEF TaskWrites, TaskStateWrites
<1>6. /\ \A j \in 1..Len(StateNames) : f[j] = StateWrite(t, StateNames[j])
      /\ \A j \in 1..Len(TaskGauges) : g[j] = GaugeWrite(t, TaskGauges[j])
    OBVIOUS
<1>7. /\ DOMAIN states = 1..Len(StateNames)
      /\ \A j \in 1..Len(StateNames) : states[j] = <<f[j]>>
    BY <1>1 DEF Gauge, StateWrite
<1>8. /\ DOMAIN gauges = 1..Len(TaskGauges)
      /\ \A j \in 1..Len(TaskGauges) : gauges[j] = <<g[j]>>
    BY <1>2 DEF Gauge, GaugeWrite
<1>9. states \in Seq(Seq(SetWrite))
    <2>1. \A j \in 1..Len(StateNames) : <<f[j]>> \in Seq(SetWrite)
        BY <1>3
    <2> HIDE DEF f
    <2>2. \A j \in 1..Len(StateNames) : states[j] \in Seq(SetWrite)
        BY <1>7, <2>1
    <2> QED
        BY <1>1, <2>2
<1>10. gauges \in Seq(Seq(SetWrite))
    <2>1. \A j \in 1..Len(TaskGauges) : <<g[j]>> \in Seq(SetWrite)
        BY <1>4
    <2> HIDE DEF g
    <2>2. \A j \in 1..Len(TaskGauges) : gauges[j] \in Seq(SetWrite)
        BY <1>8, <2>1
    <2> QED
        BY <1>2, <2>2
<1> HIDE DEF f, g, states, gauges
<1>11. /\ FlattenSeq(states) \in Seq(SetWrite)
       /\ Range(FlattenSeq(states)) = {f[j] : j \in 1..Len(StateNames)}
    <2>1. Singles(SetWrite, Len(StateNames), f, states)
        BY <1>1, <1>3, <1>7, <1>9 DEF Singles
    <2> QED
        BY <2>1, FlattenSingles
<1>12. /\ FlattenSeq(gauges) \in Seq(SetWrite)
       /\ Range(FlattenSeq(gauges)) = {g[j] : j \in 1..Len(TaskGauges)}
    <2>1. Singles(SetWrite, Len(TaskGauges), g, gauges)
        BY <1>2, <1>4, <1>8, <1>10 DEF Singles
    <2> QED
        BY <2>1, FlattenSingles
<1>13. /\ FlattenSeq(states) \o FlattenSeq(gauges) \in Seq(SetWrite)
       /\ Range(FlattenSeq(states) \o FlattenSeq(gauges))
            = {f[j] : j \in 1..Len(StateNames)} \cup {g[j] : j \in 1..Len(TaskGauges)}
    BY <1>11, <1>12, RangeConcatenation
<1>14. {f[j] : j \in 1..Len(StateNames)} = {StateWrite(t, n) : n \in Range(StateNames)}
    BY <1>1, <1>6
<1>15. {g[j] : j \in 1..Len(TaskGauges)} = {GaugeWrite(t, h) : h \in Range(TaskGauges)}
    BY <1>2, <1>6
<1> QED
    BY <1>5, <1>13, <1>14, <1>15 DEF TaskSets

LEMMA DeviceWritten ==
    ASSUME NEW s \in DeviceStates,
           NEW seqs, seqs = [j \in DOMAIN DeviceGauges |->
                               Gauge(<<DeviceGauges[j]>>, s.device[DeviceGauges[j]])]
    PROVE  /\ FlattenSeq(seqs) \in Seq(SetWrite)
           /\ Range(FlattenSeq(seqs)) = DeviceSets(s)
           /\ FlattenSeq(seqs) # <<>>
<1> DEFINE f == [j \in 1..Len(DeviceGauges) |-> DeviceWrite(s, DeviceGauges[j])]
<1>1. /\ DOMAIN DeviceGauges = 1..Len(DeviceGauges) /\ Len(DeviceGauges) \in Nat
      /\ Range(DeviceGauges) = {DeviceGauges[j] : j \in 1..Len(DeviceGauges)}
    BY GaugeFacts DEF Range
<1>2. f \in [1..Len(DeviceGauges) -> SetWrite]
    <2>1. \A j \in 1..Len(DeviceGauges) : DeviceWrite(s, DeviceGauges[j]) \in SetWrite
        BY <1>1, DeviceSetsTyped DEF DeviceSets
    <2> QED
        BY <2>1
<1>3. /\ DOMAIN seqs = 1..Len(DeviceGauges)
      /\ \A j \in 1..Len(DeviceGauges) : seqs[j] = <<f[j]>>
    BY <1>1 DEF Gauge, DeviceWrite
<1>4. \A j \in 1..Len(DeviceGauges) : f[j] = DeviceWrite(s, DeviceGauges[j])
    OBVIOUS
<1> HIDE DEF f
<1>5. seqs \in Seq(Seq(SetWrite))
    <2>1. \A j \in 1..Len(DeviceGauges) : <<f[j]>> \in Seq(SetWrite)
        BY <1>2
    <2>2. \A j \in 1..Len(DeviceGauges) : seqs[j] \in Seq(SetWrite)
        BY <1>3, <2>1
    <2>3. seqs = [j \in DOMAIN seqs |-> seqs[j]]
        OBVIOUS
    <2> QED
        BY <1>1, <1>3, <2>2, <2>3, IsASeq
<1>6. /\ FlattenSeq(seqs) \in Seq(SetWrite)
      /\ Range(FlattenSeq(seqs)) = {f[j] : j \in 1..Len(DeviceGauges)}
    <2>1. Singles(SetWrite, Len(DeviceGauges), f, seqs)
        BY <1>1, <1>2, <1>3, <1>5 DEF Singles
    <2> QED
        BY <2>1, FlattenSingles
<1>7. {f[j] : j \in 1..Len(DeviceGauges)} = DeviceSets(s)
    BY <1>1, <1>4 DEF DeviceSets
<1>8. FlattenSeq(seqs) # <<>>
    <2>1. DeviceWrite(s, "heap_free") \in Range(FlattenSeq(seqs))
        BY <1>6, <1>7, GaugeFacts DEF DeviceSets
    <2> QED
        BY <2>1 DEF Range
<1> QED
    BY <1>6, <1>7, <1>8

(* Everything update_metrics writes *)
LEMMA PrometheusOwned ==
    ASSUME NEW s \in DeviceStates
    PROVE  /\ PrometheusWrites[s] \in Seq(SetWrite)
           /\ PrometheusWrites[s] # <<>>
           /\ DOMAIN SetsBy(s) = 0..Len(s.tasks)
           /\ \E o : Owned(PrometheusWrites[s], SetsBy(s), o)
<1> DEFINE dev == [j \in DOMAIN DeviceGauges |->
                     Gauge(<<DeviceGauges[j]>>, s.device[DeviceGauges[j]])]
           seqs == [i \in DOMAIN s.tasks |-> TaskWrites(s.tasks[i])]
           d == FlattenSeq(dev)
           f == FlattenSeq(seqs)
           w == d \o f
           by == [i \in DOMAIN seqs |-> Range(seqs[i])]
<1>1. PrometheusWrites[s] = w
    BY DEF PrometheusWrites
<1>2. d \in Seq(SetWrite) /\ Range(d) = DeviceSets(s) /\ d # <<>>
    BY DeviceWritten
<1>3. /\ seqs \in Seq(Seq(SetWrite)) /\ DOMAIN seqs = 1..Len(s.tasks)
      /\ \A i \in 1..Len(s.tasks) : Range(seqs[i]) = TaskSets(s.tasks[i])
    <2>1. \A i \in 1..Len(s.tasks) :
             /\ TaskWrites(s.tasks[i]) \in Seq(SetWrite)
             /\ Range(TaskWrites(s.tasks[i])) = TaskSets(s.tasks[i])
        BY StateFacts, TaskWritten
    <2>2. seqs = [i \in 1..Len(s.tasks) |-> TaskWrites(s.tasks[i])] /\ Len(s.tasks) \in Nat
        BY StateFacts
    <2>3. DOMAIN seqs = 1..Len(s.tasks) /\ \A i \in 1..Len(s.tasks) : seqs[i] = TaskWrites(s.tasks[i])
        BY <2>2
    <2> HIDE DEF seqs
    <2>4. seqs \in Seq(Seq(SetWrite))
        BY <2>1, <2>2, IsASeq
    <2> QED
        BY <2>1, <2>3, <2>4
<1>4. /\ DOMAIN by = 1..Len(s.tasks)
      /\ \A i \in 1..Len(s.tasks) : by[i] = TaskSets(s.tasks[i])
    BY <1>3
<1> HIDE DEF dev, seqs, d
<1>5. f \in Seq(SetWrite) /\ \E o : Owned(f, by, o)
    BY <1>3, FlattenOwned
<1> HIDE DEF f, by
<1>6. PICK r : Owned(f, by, r)
    BY <1>5
<1> DEFINE n == Len(d)
           o == [p \in DOMAIN w |-> IF p <= n THEN 0 ELSE r[p - n]]
<1>7. /\ w \in Seq(SetWrite) /\ n \in Nat /\ n > 0 /\ Len(f) \in Nat
      /\ DOMAIN w = 1..(n + Len(f)) /\ DOMAIN d = 1..n /\ DOMAIN f = 1..Len(f)
      /\ \A p \in 1..n : w[p] = d[p]
      /\ \A p \in 1..Len(f) : w[p + n] = f[p]
    BY <1>2, <1>5
<1> HIDE DEF n, w
<1>8. /\ r \in [1..Len(f) -> 1..Len(s.tasks)]
      /\ \A p, q \in 1..Len(f) : p <= q => r[p] <= r[q]
      /\ \A p \in 1..Len(f) : f[p] \in TaskSets(s.tasks[r[p]])
      /\ \A i \in 1..Len(s.tasks) : \A x \in TaskSets(s.tasks[i]) :
            \E p \in 1..Len(f) : r[p] = i /\ f[p] = x
    <2>1. r \in [1..Len(f) -> 1..Len(s.tasks)]
        BY <1>4, <1>6, <1>7 DEF Owned
    <2>2. \A p, q \in 1..Len(f) : p <= q => r[p] <= r[q]
        BY <1>6, <1>7 DEF Owned
    <2>3. ASSUME NEW p \in 1..Len(f) PROVE f[p] \in TaskSets(s.tasks[r[p]])
        <3>1. f[p] \in by[r[p]] /\ r[p] \in 1..Len(s.tasks)
            BY <1>6, <1>7, <2>1 DEF Owned
        <3> QED
            BY <1>4, <3>1
    <2>4. ASSUME NEW i \in 1..Len(s.tasks), NEW x \in TaskSets(s.tasks[i])
          PROVE  \E p \in 1..Len(f) : r[p] = i /\ f[p] = x
        <3>1. i \in DOMAIN by /\ x \in by[i]
            BY <1>4
        <3> QED
            BY <1>6, <1>7, <3>1 DEF Owned
    <2> QED
        BY <2>1, <2>2, <2>3, <2>4
<1>9. /\ Len(s.tasks) \in Nat /\ DOMAIN SetsBy(s) = 0..Len(s.tasks)
      /\ SetsBy(s)[0] = DeviceSets(s)
      /\ \A i \in 1..Len(s.tasks) : SetsBy(s)[i] = TaskSets(s.tasks[i])
    BY StateFacts DEF SetsBy
<1>10. ASSUME NEW p \in DOMAIN w
       PROVE  \/ p \in 1..n /\ o[p] = 0 /\ w[p] = d[p]
              \/ p - n \in 1..Len(f) /\ o[p] = r[p - n] /\ w[p] = f[p - n] /\ p > n
    <2>1. CASE p <= n
        BY <1>7, <2>1
    <2>2. CASE ~(p <= n)
        <3>0. p \in 1..(n + Len(f)) /\ n \in Nat /\ Len(f) \in Nat
            BY <1>7
        <3>1. p - n \in 1..Len(f) /\ (p - n) + n = p /\ p > n
            BY <2>2, <3>0
        <3>2. w[p] = f[p - n]
            BY <1>7, <3>1
        <3> QED
            BY <2>2, <3>1, <3>2
    <2> QED
        BY <2>1, <2>2
<1>11. o \in [DOMAIN w -> 0..Len(s.tasks)]
    <2>1. \A p \in DOMAIN w : o[p] \in 0..Len(s.tasks)
        BY <1>8, <1>9, <1>10
    <2> QED
        BY <2>1
<1>12. ASSUME NEW p \in DOMAIN w, NEW q \in DOMAIN w, p <= q PROVE o[p] <= o[q]
    <2> HIDE DEF o
    <2>1. p \in Nat /\ q \in Nat /\ n \in Nat /\ o[q] \in Nat /\ o[p] \in Nat
        BY <1>7, <1>9, <1>11
    <2>2. CASE p \in 1..n
        <3>1. o[p] = 0
            BY <1>10, <2>1, <2>2
        <3> QED
            BY <2>1, <3>1
    <2>3. CASE ~(p \in 1..n)
        <3>1. p - n \in 1..Len(f) /\ o[p] = r[p - n]
            BY <1>10, <2>3
        <3>2. ~(q \in 1..n)
            BY <1>12, <2>1, <3>1, <1>7
        <3>3. q - n \in 1..Len(f) /\ o[q] = r[q - n]
            BY <1>10, <3>2
        <3>4. p - n <= q - n
            BY <1>12, <2>1
        <3> QED
            BY <1>8, <3>1, <3>3, <3>4
    <2> QED
        BY <2>2, <2>3
<1>13. ASSUME NEW p \in DOMAIN w PROVE w[p] \in SetsBy(s)[o[p]]
    <2>1. CASE p \in 1..n /\ o[p] = 0 /\ w[p] = d[p]
        <3>1. d[p] \in Range(d)
            BY <1>7, <2>1 DEF Range
        <3> QED
            BY <1>2, <1>9, <2>1, <3>1
    <2>2. CASE p - n \in 1..Len(f) /\ o[p] = r[p - n] /\ w[p] = f[p - n]
        <3> HIDE DEF o
        <3>1. r[p - n] \in 1..Len(s.tasks) /\ f[p - n] \in TaskSets(s.tasks[r[p - n]])
            BY <1>8, <2>2
        <3>2. SetsBy(s)[r[p - n]] = TaskSets(s.tasks[r[p - n]])
            BY <1>9, <3>1
        <3> QED
            BY <2>2, <3>1, <3>2
    <2> HIDE DEF o
    <2> QED
        BY <1>10, <2>1, <2>2
<1>14. ASSUME NEW i \in 0..Len(s.tasks), NEW x \in SetsBy(s)[i]
       PROVE  \E p \in DOMAIN w : o[p] = i /\ w[p] = x
    <2>1. CASE i = 0
        <3>1. PICK p \in 1..n : d[p] = x
            BY <1>2, <1>7, <1>9, <2>1 DEF Range
        <3>2. p \in DOMAIN w /\ o[p] = 0 /\ w[p] = x
            BY <1>7, <3>1
        <3> QED
            BY <2>1, <3>2
    <2>2. CASE i # 0
        <3>1. i \in 1..Len(s.tasks)
            BY <1>9, <2>2
        <3> x \in TaskSets(s.tasks[i])
            BY <1>9, <3>1
        <3>2. PICK p \in 1..Len(f) : r[p] = i /\ f[p] = x
            BY <1>8, <3>1
        <3>3. p + n \in DOMAIN w /\ ~(p + n <= n) /\ (p + n) - n = p
            BY <1>7
        <3>4. o[p + n] = i /\ w[p + n] = x
            BY <1>7, <3>2, <3>3
        <3> QED
            BY <3>3, <3>4
    <2> QED
        BY <2>1, <2>2
<1> HIDE DEF o
<1>15. Owned(w, SetsBy(s), o)
    BY <1>9, <1>11, <1>12, <1>13, <1>14 DEF Owned
<1>16. w # <<>>
    <2>1. 1 \in DOMAIN w
        BY <1>7
    <2> QED
        BY <2>1
<1> QED
    BY <1>1, <1>7, <1>9, <1>15, <1>16

PutWrite(t, tab) == [op |-> "put", tab |-> tab, entry |-> Entry(t, tab)]

TaskPuts(t) == {PutWrite(t, tab) : tab \in Tables}

PutsBy(s) == [i \in 1..Len(s.tasks) |-> TaskPuts(s.tasks[i])]

ClearWrite(tab) == [op |-> "clear", tab |-> tab]

AllClears == {ClearWrite(tab) : tab \in Tables}
AllPuts == UNION {TaskPuts(t) : t \in Task}

Clears == [j \in DOMAIN TableOrder |-> [op |-> "clear", tab |-> TableOrder[j]]]

Puts(s) == FlattenSeq([i \in DOMAIN s.tasks |->
    [j \in DOMAIN TableOrder |->
        [op |-> "put", tab |-> TableOrder[j], entry |-> Entry(s.tasks[i], TableOrder[j])]]])

LEMMA ClearsTyped == Clears \in Seq(AllClears) /\ Range(Clears) = AllClears
<1>1. /\ DOMAIN TableOrder = 1..Len(TableOrder) /\ Len(TableOrder) \in Nat
      /\ \A j \in 1..Len(TableOrder) : TableOrder[j] \in Tables
      /\ Tables = {TableOrder[j] : j \in 1..Len(TableOrder)}
    BY FamilyFacts DEF Range
<1>2. /\ DOMAIN Clears = 1..Len(TableOrder)
      /\ \A j \in 1..Len(TableOrder) : Clears[j] = ClearWrite(TableOrder[j])
    BY <1>1 DEF Clears, ClearWrite
<1>3. Clears \in Seq(AllClears)
    <2>1. \A j \in 1..Len(TableOrder) : Clears[j] \in AllClears
        BY <1>1, <1>2 DEF AllClears
    <2>2. Clears = [j \in 1..Len(TableOrder) |-> Clears[j]]
        BY <1>1 DEF Clears
    <2> QED
        BY <1>1, <2>1, <2>2, IsASeq
<1> QED
    BY <1>1, <1>2, <1>3 DEF Range, AllClears

LEMMA PutsOwned ==
    ASSUME NEW s \in DeviceStates
    PROVE  Puts(s) \in Seq(AllPuts) /\ \E o : Owned(Puts(s), PutsBy(s), o)
<1> DEFINE seqs == [i \in DOMAIN s.tasks |->
                      [j \in DOMAIN TableOrder |->
                          [op |-> "put", tab |-> TableOrder[j],
                           entry |-> Entry(s.tasks[i], TableOrder[j])]]]
<1>1. /\ DOMAIN TableOrder = 1..Len(TableOrder) /\ Len(TableOrder) \in Nat
      /\ \A j \in 1..Len(TableOrder) : TableOrder[j] \in Tables
      /\ Tables = {TableOrder[j] : j \in 1..Len(TableOrder)}
    BY FamilyFacts DEF Range
<1>2. DOMAIN seqs = 1..Len(s.tasks) /\ Len(s.tasks) \in Nat
    BY StateFacts
<1>3. ASSUME NEW i \in 1..Len(s.tasks)
      PROVE  seqs[i] \in Seq(AllPuts) /\ Range(seqs[i]) = TaskPuts(s.tasks[i])
    <2>1. /\ DOMAIN seqs[i] = 1..Len(TableOrder)
          /\ \A j \in 1..Len(TableOrder) : seqs[i][j] = PutWrite(s.tasks[i], TableOrder[j])
        BY <1>1, <1>2 DEF PutWrite
    <2>2. \A j \in 1..Len(TableOrder) : PutWrite(s.tasks[i], TableOrder[j]) \in AllPuts
        <3>1. s.tasks[i] \in Task
            BY StateFacts
        <3>2. TaskPuts(s.tasks[i]) \subseteq AllPuts
            BY <3>1 DEF AllPuts
        <3> QED
            BY <1>1, <3>2 DEF TaskPuts
    <2>3. seqs[i] = [j \in 1..Len(TableOrder) |-> seqs[i][j]]
        BY <1>1, <1>2
    <2> HIDE DEF seqs
    <2>4. seqs[i] \in Seq(AllPuts)
        BY <1>1, <2>1, <2>2, <2>3, IsASeq
    <2>5. Range(seqs[i]) = {PutWrite(s.tasks[i], tab) : tab \in Tables}
        BY <1>1, <2>1 DEF Range
    <2> QED
        BY <2>4, <2>5 DEF TaskPuts
<1>4. seqs \in Seq(Seq(AllPuts))
    <2>1. seqs = [i \in 1..Len(s.tasks) |-> seqs[i]]
        BY <1>2
    <2> HIDE DEF seqs
    <2> QED
        BY <1>2, <1>3, <2>1, IsASeq
<1>5. [i \in DOMAIN seqs |-> Range(seqs[i])] = PutsBy(s)
    <2> HIDE DEF seqs
    <2> QED
        BY <1>2, <1>3 DEF PutsBy
<1>6. Puts(s) = FlattenSeq(seqs)
    BY DEF Puts
<1> HIDE DEF seqs
<1>7. /\ FlattenSeq(seqs) \in Seq(AllPuts)
      /\ \E o : Owned(FlattenSeq(seqs), [i \in DOMAIN seqs |-> Range(seqs[i])], o)
    BY <1>4, FlattenOwned
<1> QED
    BY <1>5, <1>6, <1>7

LEMMA KindFacts ==
    /\ \A v \in SetWrite : v.op = "set" /\ v.key \in Key /\ v.value \in Value
    /\ \A v \in AllClears : v.op = "clear" /\ v.tab \in Tables /\ v = ClearWrite(v.tab)
    /\ \A v \in AllPuts : v.op = "put" /\ v.tab \in Tables /\ v.entry \in Entries(v.tab)
<1>1. ASSUME NEW v \in AllPuts
      PROVE  v.op = "put" /\ v.tab \in Tables /\ v.entry \in Entries(v.tab)
    <2>1. PICK t \in Task, tab \in Tables : v = PutWrite(t, tab)
        BY DEF AllPuts, TaskPuts
    <2>2. Entry(t, tab) \in Entries(tab)
        <3>1. CASE tab = "task_state"
            BY <3>1 DEF Entry, Entries, Task
        <3>2. CASE tab # "task_state"
            <4>1. tab \in Range(TaskGauges)
                BY <3>2 DEF Tables
            <4>2. t.gauge[tab] \in Value /\ t.name \in Name
                BY <4>1 DEF Task
            <4> QED
                BY <3>2, <4>2 DEF Entry, Entries
        <3> QED
            BY <3>1, <3>2
    <2> QED
        BY <2>1, <2>2 DEF PutWrite
<1> QED
    BY <1>1 DEF SetWrite, AllClears, ClearWrite

(* The gauges are set first, then the dictionaries emptied, then filled:    *)
(* n writes to gauges and c clears.                                         *)
Parts(s, w, n, c) ==
    /\ n \in Nat /\ n > 0 /\ c \in Nat /\ Len(w) \in Nat /\ n + c <= Len(w)
    /\ DOMAIN w = 1..Len(w) /\ Len(Puts(s)) = Len(w) - (n + c)
    /\ \A p \in 1..n : w[p] = PrometheusWrites[s][p] /\ w[p] \in SetWrite
    /\ \A p \in (n + 1)..(n + c) : w[p] = Clears[p - n] /\ w[p] \in AllClears
    /\ \A p \in (n + c + 1)..Len(w) : w[p] = Puts(s)[p - (n + c)] /\ w[p] \in AllPuts

LEMMA WritesParts ==
    ASSUME NEW s \in DeviceStates
    PROVE  Parts(s, Writes[s], Len(PrometheusWrites[s]), Len(Clears))
<1> DEFINE w == Writes[s]
           n == Len(PrometheusWrites[s])
           c == Len(Clears)
<1> DEFINE P == PrometheusWrites[s]
           Q == Puts(s)
           S == SetWrite \cup AllClears \cup AllPuts
<1>1. P \in Seq(SetWrite) /\ P # <<>>
    BY PrometheusOwned
<1>2. Clears \in Seq(AllClears) /\ Q \in Seq(AllPuts)
    BY ClearsTyped, PutsOwned
<1>3. OtlpWrites[s] = Clears \o Q
    BY DEF OtlpWrites, Clears, Puts
<1>4. w = P \o (Clears \o Q)
    BY <1>3 DEF Writes
<1>lengths. n = Len(P) /\ c = Len(Clears)
    OBVIOUS
<1> HIDE DEF P, Q, S, w, n, c
<1>5. P \in Seq(S) /\ Clears \in Seq(S) /\ Q \in Seq(S)
    BY <1>1, <1>2, SeqMonotonic DEF S
<1> DEFINE R == Clears \o Q
<1>6. /\ R \in Seq(S) /\ Len(R) = Len(Clears) + Len(Q)
      /\ \A p \in 1..Len(Clears) + Len(Q) :
            R[p] = IF p <= Len(Clears) THEN Clears[p] ELSE Q[p - Len(Clears)]
    BY <1>5, ConcatProperties
<1> HIDE DEF R
<1>7. /\ w \in Seq(S) /\ Len(w) = Len(P) + Len(R)
      /\ \A p \in 1..Len(P) + Len(R) : w[p] = IF p <= Len(P) THEN P[p] ELSE R[p - Len(P)]
    <2>1. w = P \o R
        BY <1>4 DEF R
    <2>2. /\ P \o R \in Seq(S) /\ Len(P \o R) = Len(P) + Len(R)
          /\ \A p \in 1..Len(P) + Len(R) :
                (P \o R)[p] = IF p <= Len(P) THEN P[p] ELSE R[p - Len(P)]
        <3>1. P \in Seq(S) /\ R \in Seq(S)
            BY <1>5, <1>6
        <3> QED
            BY <3>1, ConcatProperties
    <2> QED
        BY <2>1, <2>2
<1>8. /\ n = Len(P) /\ n \in Nat /\ n > 0 /\ c \in Nat /\ Len(Q) \in Nat
      /\ Len(w) = n + c + Len(Q) /\ Len(w) \in Nat /\ DOMAIN w = 1..Len(w)
    <2>1. n = Len(P)
        BY <1>lengths
    <2>2. Len(P) \in Nat /\ Len(P) > 0 /\ Len(Q) \in Nat /\ c \in Nat
        BY <1>1, <1>2, <1>lengths
    <2>3. Len(w) = Len(P) + (Len(Clears) + Len(Q))
        BY <1>6, <1>7
    <2>4. DOMAIN w = 1..Len(w)
        BY <1>7
    <2> QED
        BY <1>lengths, <2>1, <2>2, <2>3, <2>4
<1>9. ASSUME NEW p \in 1..n PROVE w[p] = P[p] /\ w[p] \in SetWrite
    <2>1. p \in 1..Len(P) + Len(R) /\ p <= Len(P) /\ p \in 1..Len(P)
        BY <1>6, <1>8, <1>lengths
    <2> QED
        BY <1>1, <1>7, <2>1
<1>10. ASSUME NEW p \in (n + 1)..(n + c) PROVE w[p] = Clears[p - n] /\ w[p] \in AllClears
    <2>1. p \in 1..Len(P) + Len(R) /\ ~(p <= Len(P)) /\ p - Len(P) \in 1..Len(Clears)
        BY <1>6, <1>8, <1>lengths
    <2>2. p - Len(P) \in 1..Len(Clears) + Len(Q) /\ p - Len(P) <= Len(Clears)
        BY <1>6, <1>8, <1>lengths
    <2>3. w[p] = Clears[p - Len(P)]
        BY <1>6, <1>7, <2>1, <2>2
    <2>4. Clears[p - Len(P)] \in AllClears
        BY <1>2, <2>1
    <2> QED
        BY <1>8, <2>3, <2>4
<1>11. ASSUME NEW p \in (n + c + 1)..Len(w) PROVE w[p] = Q[p - (n + c)] /\ w[p] \in AllPuts
    <2>1. p \in 1..Len(P) + Len(R) /\ ~(p <= Len(P)) /\ p - (n + c) \in 1..Len(Q)
        BY <1>6, <1>8, <1>lengths
    <2>2. /\ p - Len(P) \in 1..Len(Clears) + Len(Q) /\ ~(p - Len(P) <= Len(Clears))
          /\ (p - Len(P)) - Len(Clears) = p - (n + c)
        BY <1>6, <1>8, <1>lengths
    <2>3. w[p] = Q[p - (n + c)]
        BY <1>6, <1>7, <2>1, <2>2
    <2>4. Q[p - (n + c)] \in AllPuts
        BY <1>2, <2>1
    <2> QED
        BY <2>3, <2>4
<1>12. n + c <= Len(w) /\ Len(Q) = Len(w) - (n + c)
    BY <1>8
<1> QED
    <2>1. Parts(s, w, n, c)
        BY <1>8, <1>9, <1>10, <1>11, <1>12 DEF P, Q, Parts
    <2> QED
        BY <2>1 DEF w, n, c

LEMMA WriteKinds ==
    ASSUME NEW s \in DeviceStates, NEW w, w = Writes[s],
           NEW n, n = Len(PrometheusWrites[s])
    PROVE  /\ n \in Nat /\ n > 0 /\ Len(w) \in Nat /\ n <= Len(w) /\ DOMAIN w = 1..Len(w)
           /\ DOMAIN PrometheusWrites[s] = 1..n
           /\ \A p \in 1..Len(w) : w[p] \in SetWrite \/ w[p] \in AllClears \/ w[p] \in AllPuts
           /\ \A p \in 1..Len(w) : w[p].op = "set" <=> p <= n
           /\ \A p \in 1..n : w[p] = PrometheusWrites[s][p]
           /\ \A p, q \in 1..Len(w) : p < q /\ w[p].op = "put" => w[q].op = "put"
           /\ \A tab \in Tables : \E p \in 1..Len(w) : w[p] = ClearWrite(tab)
<1>0. PICK c : c = Len(Clears)
    OBVIOUS
<1>1. /\ n \in Nat /\ n > 0 /\ c \in Nat /\ Len(w) \in Nat /\ n + c <= Len(w)
      /\ DOMAIN w = 1..Len(w)
      /\ \A p \in 1..n : w[p] = PrometheusWrites[s][p] /\ w[p] \in SetWrite
      /\ \A p \in (n + 1)..(n + c) : w[p] = Clears[p - n] /\ w[p] \in AllClears
      /\ \A p \in (n + c + 1)..Len(w) : w[p] \in AllPuts
    <2>1. Parts(s, w, n, c)
        BY <1>0, WritesParts
    <2> QED
        BY <2>1 DEF Parts
<1>2. c = Len(Clears) /\ DOMAIN Clears = 1..c
    BY <1>0, ClearsTyped
<1>3. ASSUME NEW p \in 1..Len(w)
      PROVE  p \in 1..n \/ p \in (n + 1)..(n + c) \/ p \in (n + c + 1)..Len(w)
    BY <1>1
<1>4. ASSUME NEW p \in 1..Len(w) PROVE w[p].op = "set" <=> p <= n
    <2>1. CASE p \in 1..n
        BY <1>1, <2>1, KindFacts
    <2>2. CASE p \in (n + 1)..(n + c)
        <3>1. w[p].op = "clear"
            BY <1>1, <2>2, KindFacts
        <3>2. ~(p <= n)
            BY <1>1, <2>2
        <3> QED
            BY <3>1, <3>2
    <2>3. CASE p \in (n + c + 1)..Len(w)
        <3>1. w[p].op = "put"
            BY <1>1, <2>3, KindFacts
        <3>2. ~(p <= n)
            BY <1>1, <2>3
        <3> QED
            BY <3>1, <3>2
    <2> QED
        BY <1>3, <2>1, <2>2, <2>3
<1>5. ASSUME NEW p \in 1..Len(w), NEW q \in 1..Len(w), p < q, w[p].op = "put"
      PROVE  w[q].op = "put"
    <2>1. ~(p \in 1..n) /\ ~(p \in (n + 1)..(n + c))
        BY <1>1, <1>5, KindFacts
    <2>2. p \in (n + c + 1)..Len(w)
        BY <1>3, <2>1
    <2>3. q \in (n + c + 1)..Len(w)
        BY <1>1, <1>5, <2>2
    <2> QED
        BY <1>1, <2>3, KindFacts
<1>6. ASSUME NEW tab \in Tables PROVE \E p \in 1..Len(w) : w[p] = ClearWrite(tab)
    <2>1. ClearWrite(tab) \in Range(Clears)
        BY ClearsTyped DEF AllClears
    <2>2. PICK j \in 1..c : Clears[j] = ClearWrite(tab)
        BY <1>2, <2>1 DEF Range
    <2>3. n + j \in (n + 1)..(n + c) /\ n + j \in 1..Len(w) /\ (n + j) - n = j
        BY <1>1
    <2>4. w[n + j] = Clears[j]
        BY <1>1, <2>3
    <2> QED
        BY <2>2, <2>3, <2>4
<1>7. DOMAIN PrometheusWrites[s] = 1..n
    BY PrometheusOwned
<1>8. n <= Len(w)
    BY <1>1
<1>9. \A p \in 1..Len(w) : w[p] \in SetWrite \/ w[p] \in AllClears \/ w[p] \in AllPuts
    BY <1>1, <1>3
<1> QED
    BY <1>1, <1>4, <1>5, <1>6, <1>7, <1>8, <1>9

-----------------------------------------------------------------------------
(* Which task has the last word. *)

PutsOf(tab, name) == {v \in AllPuts : v.tab = tab /\ v.entry[1] = name}

LEMMA TaskPutFacts ==
    ASSUME NEW t \in Task
    PROVE  /\ \A v \in TaskPuts(t) :
                 /\ v \in AllPuts /\ v.tab \in Tables /\ v.entry[1] = t.name
                 /\ v = PutWrite(t, v.tab)
           /\ \A tab \in Tables :
                 PutWrite(t, tab) \in TaskPuts(t) /\ PutWrite(t, tab) \in PutsOf(tab, t.name)
<1>1. ASSUME NEW tab \in Tables
      PROVE  /\ PutWrite(t, tab) \in TaskPuts(t) /\ PutWrite(t, tab) \in AllPuts
             /\ PutWrite(t, tab).tab = tab /\ PutWrite(t, tab).entry[1] = t.name
    BY DEF TaskPuts, AllPuts, PutWrite, Entry
<1> QED
    BY <1>1 DEF TaskPuts, PutsOf

LEMMA NamedPuts ==
    ASSUME NEW s \in DeviceStates
    PROVE  /\ \A i \in Named(s), tab \in Tables :
                 \E p \in DOMAIN Puts(s) :
                    /\ Puts(s)[p] = PutWrite(s.tasks[i], tab)
                    /\ \A q \in DOMAIN Puts(s) :
                          q > p => Puts(s)[q] \notin PutsOf(tab, s.tasks[i].name)
           /\ \A p \in DOMAIN Puts(s) :
                 (\A q \in DOMAIN Puts(s) :
                     q > p => Puts(s)[q] \notin PutsOf(Puts(s)[p].tab, Puts(s)[p].entry[1]))
                 => \E i \in Named(s) : Puts(s)[p] = PutWrite(s.tasks[i], Puts(s)[p].tab)
<1> DEFINE Q == Puts(s)
           by == PutsBy(s)
<1>1. Q \in Seq(AllPuts)
    BY PutsOwned
<1>2. PICK o : Owned(Q, by, o)
    BY PutsOwned
<1>3. /\ Len(s.tasks) \in Nat /\ DOMAIN s.tasks = 1..Len(s.tasks)
      /\ \A i \in 1..Len(s.tasks) : s.tasks[i] \in Task
    BY StateFacts
<1>4. /\ DOMAIN by = 1..Len(s.tasks) /\ DOMAIN by \subseteq Nat
      /\ \A i \in DOMAIN by : by[i] = TaskPuts(s.tasks[i])
    BY <1>3 DEF PutsBy
<1>5. Named(s) = {i \in 1..Len(s.tasks) : \A k \in 1..Len(s.tasks) :
                    k > i => s.tasks[k].name # s.tasks[i].name}
    BY <1>3 DEF Named
<1> HIDE DEF Q, by
<1>6. ASSUME NEW i \in Named(s), NEW tab \in Tables
      PROVE  \E p \in DOMAIN Q :
                /\ Q[p] = PutWrite(s.tasks[i], tab)
                /\ \A q \in DOMAIN Q : q > p => Q[q] \notin PutsOf(tab, s.tasks[i].name)
    <2> DEFINE K == PutsOf(tab, s.tasks[i].name)
    <2>1. i \in DOMAIN by /\ s.tasks[i] \in Task
        BY <1>3, <1>4, <1>5
    <2>2. PutWrite(s.tasks[i], tab) \in by[i] \cap K
        BY <1>4, <2>1, TaskPutFacts
    <2>3. \A k \in DOMAIN by : k > i => by[k] \cap K = {}
        <3> SUFFICES ASSUME NEW k \in DOMAIN by, k > i, NEW v \in by[k] \cap K
                     PROVE  FALSE
            OBVIOUS
        <3>1. v.entry[1] = s.tasks[k].name
            BY <1>3, <1>4, TaskPutFacts
        <3>2. v.entry[1] = s.tasks[i].name
            BY DEF PutsOf
        <3> QED
            BY <1>4, <1>5, <3>1, <3>2
    <2> HIDE DEF K
    <2>4. PICK p \in DOMAIN Q : /\ o[p] = i /\ Q[p] \in by[i] \cap K
                                /\ \A q \in DOMAIN Q : q > p => Q[q] \notin K
        BY <1>1, <1>2, <1>4, <2>1, <2>2, <2>3, LastOwner
    <2>5. Q[p] = PutWrite(s.tasks[i], tab)
        BY <1>4, <2>1, <2>4, TaskPutFacts DEF K, PutsOf
    <2> QED
        BY <2>4, <2>5 DEF K
<1>7. ASSUME NEW p \in DOMAIN Q,
             \A q \in DOMAIN Q : q > p => Q[q] \notin PutsOf(Q[p].tab, Q[p].entry[1])
      PROVE  \E i \in Named(s) : Q[p] = PutWrite(s.tasks[i], Q[p].tab)
    <2>1. o[p] \in DOMAIN by /\ Q[p] \in by[o[p]]
        BY <1>2 DEF Owned
    <2>2. s.tasks[o[p]] \in Task /\ Q[p] \in TaskPuts(s.tasks[o[p]])
        BY <1>3, <1>4, <2>1
    <2>3. /\ Q[p] = PutWrite(s.tasks[o[p]], Q[p].tab) /\ Q[p].tab \in Tables
          /\ Q[p].entry[1] = s.tasks[o[p]].name
        BY <2>2, TaskPutFacts
    <2>4. ASSUME NEW k \in 1..Len(s.tasks), k > o[p], s.tasks[k].name = s.tasks[o[p]].name
          PROVE  FALSE
        <3>1. s.tasks[k] \in Task
            BY <1>3
        <3>2. PutWrite(s.tasks[k], Q[p].tab) \in by[k]
            BY <1>4, <2>3, <3>1, TaskPutFacts
        <3>3. PICK q \in DOMAIN Q : o[q] = k /\ Q[q] = PutWrite(s.tasks[k], Q[p].tab)
            BY <1>2, <1>4, <3>2 DEF Owned
        <3>4. ~(q <= p)
            <4>1. q <= p => o[q] <= o[p]
                BY <1>2 DEF Owned
            <4> QED
                BY <1>4, <2>1, <2>4, <3>3, <4>1
        <3>5. q > p
            BY <1>1, <3>4
        <3>6. Q[q] \in PutsOf(Q[p].tab, Q[p].entry[1])
            BY <2>3, <2>4, <3>1, <3>3, TaskPutFacts
        <3> QED
            BY <1>7, <3>5, <3>6
    <2>5. o[p] \in Named(s)
        BY <1>4, <1>5, <2>1, <2>4
    <2> QED
        BY <2>3, <2>5
<1> QED
    BY <1>6, <1>7 DEF Q

(* The same among all writes of a push *)
LastIn(w, tab) ==
    {i \in 1..Len(w) :
        /\ w[i].op = "put" /\ w[i].tab = tab
        /\ \A k \in (i + 1)..Len(w) :
              w[k].op = "put" /\ w[k].tab = tab => w[k].entry[1] # w[i].entry[1]}

EntriesOf(w, L) == {w[i].entry : i \in L}

NamedEntries(s, tab) == {Entry(s.tasks[i], tab) : i \in Named(s)}

LEMMA NamedWrites ==
    ASSUME NEW s \in DeviceStates, NEW tab \in Tables
    PROVE  EntriesOf(Writes[s], LastIn(Writes[s], tab)) = NamedEntries(s, tab)
<1>w. PICK w : w = Writes[s]
    OBVIOUS
<1>L. PICK L : L = LastIn(w, tab)
    OBVIOUS
<1>1. PICK n, c : n = Len(PrometheusWrites[s]) /\ c = Len(Clears)
    OBVIOUS
<1>2. Parts(s, w, n, c)
    BY <1>w, <1>1, WritesParts
<1> DEFINE Q == Puts(s)
<1>3. Q \in Seq(AllPuts) /\ DOMAIN Q = 1..Len(Q) /\ Len(Q) \in Nat
    BY PutsOwned
<1>4. /\ n \in Nat /\ c \in Nat /\ Len(w) \in Nat /\ Len(w) = (n + c) + Len(Q)
      /\ \A p \in (n + c + 1)..Len(w) : w[p] = Q[p - (n + c)] /\ w[p] \in AllPuts
    <2>1. n \in Nat /\ c \in Nat /\ Len(w) \in Nat /\ Len(Q) = Len(w) - (n + c)
        BY <1>2 DEF Parts
    <2>2. \A p \in (n + c + 1)..Len(w) : w[p] = Q[p - (n + c)] /\ w[p] \in AllPuts
        BY <1>2 DEF Parts
    <2>3. Len(w) = (n + c) + Len(Q)
        <3> HIDE DEF Q
        <3>1. PICK a \in Nat : a = Len(w)
            BY <2>1
        <3>2. PICK x \in Nat : x = Len(Q)
            BY <1>3
        <3>3. x = a - (n + c)
            BY <2>1, <3>1, <3>2
        <3>4. a = (n + c) + x
            BY <2>1, <3>3
        <3> QED
            BY <3>1, <3>2, <3>4
    <2> QED
        BY <2>1, <2>2, <2>3
<1>5. ASSUME NEW p \in 1..Len(w), w[p].op = "put"
      PROVE  p \in (n + c + 1)..Len(w) /\ p - (n + c) \in DOMAIN Q
    <2>1. ~(p \in 1..n) /\ ~(p \in (n + 1)..(n + c))
        BY <1>2, <1>5, KindFacts DEF Parts
    <2>2. p \in (n + c + 1)..Len(w)
        BY <1>4, <2>1
    <2> HIDE DEF Q
    <2> QED
        BY <1>3, <1>4, <2>2
<1>6. ASSUME NEW p \in DOMAIN Q
      PROVE  /\ p + (n + c) \in (n + c + 1)..Len(w) /\ p + (n + c) \in 1..Len(w)
             /\ w[p + (n + c)] = Q[p] /\ w[p + (n + c)].op = "put"
    <2> HIDE DEF Q
    <2>1. p + (n + c) \in (n + c + 1)..Len(w) /\ (p + (n + c)) - (n + c) = p
        BY <1>3, <1>4
    <2>2. w[p + (n + c)] = Q[p] /\ w[p + (n + c)] \in AllPuts
        BY <1>4, <2>1
    <2>3. p + (n + c) \in 1..Len(w)
        BY <1>4, <2>1
    <2> QED
        BY <2>1, <2>2, <2>3, KindFacts
<1>7. /\ \A i \in Named(s) :
            \E p \in DOMAIN Q :
               /\ Q[p] = PutWrite(s.tasks[i], tab)
               /\ \A q \in DOMAIN Q : q > p => Q[q] \notin PutsOf(tab, s.tasks[i].name)
      /\ \A p \in DOMAIN Q :
            (\A q \in DOMAIN Q : q > p => Q[q] \notin PutsOf(Q[p].tab, Q[p].entry[1]))
            => \E i \in Named(s) : Q[p] = PutWrite(s.tasks[i], Q[p].tab)
    BY NamedPuts
<1> HIDE DEF Q
<1>8. ASSUME NEW i \in L PROVE \E k \in Named(s) : w[i].entry = Entry(s.tasks[k], tab)
    <2>1. /\ i \in 1..Len(w) /\ w[i].op = "put" /\ w[i].tab = tab
          /\ \A k \in (i + 1)..Len(w) :
                w[k].op = "put" /\ w[k].tab = tab => w[k].entry[1] # w[i].entry[1]
        BY <1>L DEF LastIn
    <2>2. PICK p \in DOMAIN Q : p = i - (n + c)
        BY <1>5, <2>1
    <2>3. w[i] = Q[p]
        BY <1>4, <1>5, <2>1, <2>2
    <2>4. ASSUME NEW q \in DOMAIN Q, q > p PROVE Q[q] \notin PutsOf(tab, Q[p].entry[1])
        <3>1. q + (n + c) \in (i + 1)..Len(w)
            BY <1>3, <1>4, <1>6, <2>1, <2>2, <2>4
        <3>2. Q[q].tab = tab => Q[q].entry[1] # Q[p].entry[1]
            BY <1>6, <2>1, <2>3, <3>1
        <3> QED
            BY <3>2 DEF PutsOf
    <2>5. PICK k \in Named(s) : Q[p] = PutWrite(s.tasks[k], tab)
        BY <1>7, <2>1, <2>3, <2>4
    <2> QED
        BY <2>3, <2>5 DEF PutWrite
<1>9. ASSUME NEW i \in Named(s) PROVE \E k \in L : w[k].entry = Entry(s.tasks[i], tab)
    <2>1. PICK p \in DOMAIN Q :
             /\ Q[p] = PutWrite(s.tasks[i], tab)
             /\ \A q \in DOMAIN Q : q > p => Q[q] \notin PutsOf(tab, s.tasks[i].name)
        BY <1>7
    <2>2. PICK k \in 1..Len(w) : k = p + (n + c)
        BY <1>6
    <2>3. w[k] = PutWrite(s.tasks[i], tab) /\ k \in (n + c + 1)..Len(w)
        BY <1>6, <2>1, <2>2
    <2>4. /\ w[k].op = "put" /\ w[k].tab = tab /\ w[k].entry = Entry(s.tasks[i], tab)
          /\ w[k].entry[1] = s.tasks[i].name
        BY <2>3 DEF PutWrite, Entry
    <2>5. ASSUME NEW j \in (k + 1)..Len(w), w[j].op = "put", w[j].tab = tab
          PROVE  w[j].entry[1] # w[k].entry[1]
        <3>1. j \in (n + c + 1)..Len(w)
            BY <1>4, <2>3
        <3>2. j - (n + c) \in DOMAIN Q /\ j - (n + c) > p
            BY <1>3, <1>4, <2>2, <3>1
        <3>3. w[j] = Q[j - (n + c)] /\ w[j] \in AllPuts
            BY <1>4, <3>1
        <3>4. w[j] \notin PutsOf(tab, s.tasks[i].name)
            BY <2>1, <3>2, <3>3
        <3> QED
            BY <2>4, <2>5, <3>3, <3>4 DEF PutsOf
    <2>6. k \in L
        BY <1>L, <2>4, <2>5 DEF LastIn
    <2> QED
        BY <2>4, <2>6
<1>10. {w[i].entry : i \in L} = {Entry(s.tasks[i], tab) : i \in Named(s)}
    BY <1>8, <1>9
<1> QED
    BY <1>w, <1>L, <1>10 DEF EntriesOf, NamedEntries

LEMMA DeviceKeys ==
    ASSUME NEW s \in DeviceStates, NEW v \in DeviceSets(s)
    PROVE  /\ v.key[1] \in Range(DeviceGauges) /\ v = DeviceWrite(s, v.key[1])
BY DEF DeviceSets, DeviceWrite

LEMMA TaskKeys ==
    ASSUME NEW t \in Task, NEW v \in TaskSets(t)
    PROVE  /\ v.key[2] = t.name /\ Len(v.key) # 1
           /\ \/ /\ v.key[1] = "task_state" /\ v.key[3] \in Range(StateNames)
                 /\ v = StateWrite(t, v.key[3])
              \/ v.key[1] \in Range(TaskGauges) /\ v = GaugeWrite(t, v.key[1])
<1>1. CASE \E n \in Range(StateNames) : v = StateWrite(t, n)
    <2>1. PICK n \in Range(StateNames) : v = StateWrite(t, n)
        BY <1>1
    <2>2. v.key = <<"task_state", t.name, n>>
        BY <2>1 DEF StateWrite
    <2>3. /\ v.key[1] = "task_state" /\ v.key[2] = t.name /\ v.key[3] = n /\ Len(v.key) = 3
        BY <2>2
    <2> QED
        BY <2>1, <2>3
<1>2. CASE \E g \in Range(TaskGauges) : v = GaugeWrite(t, g)
    <2>1. PICK g \in Range(TaskGauges) : v = GaugeWrite(t, g)
        BY <1>2
    <2>2. v.key = <<g, t.name>>
        BY <2>1 DEF GaugeWrite
    <2>3. v.key[1] = g /\ v.key[2] = t.name /\ Len(v.key) = 2
        BY <2>2
    <2> QED
        BY <2>1, <2>3
<1> QED
    BY <1>1, <1>2 DEF TaskSets

LEMMA FamiliesApart ==
    /\ "task_state" \notin Range(TaskGauges) /\ "task_state" \notin Range(DeviceGauges)
    /\ \A g \in Range(TaskGauges) : g \notin Range(DeviceGauges)
BY GaugeFacts

(* Every write is the device's or a task's. *)
LEMMA WriterOf ==
    ASSUME NEW s \in DeviceStates, NEW p \in DOMAIN PrometheusWrites[s]
    PROVE  \/ PrometheusWrites[s][p] \in DeviceSets(s)
           \/ \E i \in DOMAIN s.tasks : s.tasks[i] \in Task
                                        /\ PrometheusWrites[s][p] \in TaskSets(s.tasks[i])
<1>1. PICK o : Owned(PrometheusWrites[s], SetsBy(s), o)
    BY PrometheusOwned
<1>2. /\ o[p] \in 0..Len(s.tasks) /\ PrometheusWrites[s][p] \in SetsBy(s)[o[p]]
    BY <1>1, PrometheusOwned DEF Owned
<1> QED
    BY <1>2, StateFacts DEF SetsBy

LEMMA SetsFacts ==
    ASSUME NEW s \in DeviceStates, NEW w, w = PrometheusWrites[s]
    PROVE  /\ \A v \in Sets[s] : \E p \in DOMAIN w :
                 v = w[p] /\ \A q \in DOMAIN w : q > p => w[q].key # w[p].key
           /\ \A p \in DOMAIN w : (\A q \in DOMAIN w : q > p => w[q].key # w[p].key)
                                  => w[p] \in Sets[s]
<1>1. w \in Seq(SetWrite) /\ Len(w) \in Nat /\ DOMAIN w = 1..Len(w)
    BY PrometheusOwned
<1>2. Sets[s] = {w[i] : i \in {i \in DOMAIN w : \A k \in (i + 1)..Len(w) : w[k].key # w[i].key}}
    BY DEF Sets
<1>3. ASSUME NEW v \in Sets[s]
      PROVE  \E p \in DOMAIN w :
                 v = w[p] /\ \A q \in DOMAIN w : q > p => w[q].key # w[p].key
    <2>1. PICK p \in DOMAIN w : v = w[p] /\ \A k \in (p + 1)..Len(w) : w[k].key # w[p].key
        BY <1>2
    <2>2. \A q \in DOMAIN w : q > p => q \in (p + 1)..Len(w)
        BY <1>1
    <2> QED
        BY <2>1, <2>2
<1>4. ASSUME NEW p \in DOMAIN w, \A q \in DOMAIN w : q > p => w[q].key # w[p].key
      PROVE  w[p] \in Sets[s]
    <2>1. \A q \in (p + 1)..Len(w) : q \in DOMAIN w /\ q > p
        BY <1>1
    <2> QED
        BY <1>2, <1>4, <2>1
<1> QED
    BY <1>3, <1>4

(* The last write to a gauge of one task is what all its writes say. *)
LEMMA OneValue ==
    ASSUME NEW s \in DeviceStates, NEW w, w = PrometheusWrites[s],
           NEW p \in DOMAIN w, NEW q \in DOMAIN w,
           w[p].key = w[q].key, OneWriter(s, w[p].key)
    PROVE  w[p] = w[q]
<1>1. CASE w[p] \in DeviceSets(s)
    <2>1. w[p].key[1] \in Range(DeviceGauges) /\ w[p] = DeviceWrite(s, w[p].key[1])
        BY <1>1, DeviceKeys
    <2>2. w[q] \in DeviceSets(s)
        BY <2>1, WriterOf, TaskKeys, FamiliesApart
    <2>3. w[q] = DeviceWrite(s, w[q].key[1])
        BY <2>2, DeviceKeys
    <2> QED
        BY <2>1, <2>3
<1>2. CASE \E i \in DOMAIN s.tasks : s.tasks[i] \in Task /\ w[p] \in TaskSets(s.tasks[i])
    <2>1. PICK i \in DOMAIN s.tasks : s.tasks[i] \in Task /\ w[p] \in TaskSets(s.tasks[i])
        BY <1>2
    <2>2. w[q] \notin DeviceSets(s)
        BY <2>1, TaskKeys, DeviceKeys, FamiliesApart
    <2>3. PICK k \in DOMAIN s.tasks : s.tasks[k] \in Task /\ w[q] \in TaskSets(s.tasks[k])
        BY <2>2, WriterOf
    <2>4. i = k
        BY <2>1, <2>3, TaskKeys DEF OneWriter
    <2>5. /\ \/ w[p].key[1] = "task_state" /\ w[p] = StateWrite(s.tasks[i], w[p].key[3])
             \/ w[p].key[1] \in Range(TaskGauges) /\ w[p] = GaugeWrite(s.tasks[i], w[p].key[1])
          /\ \/ w[q].key[1] = "task_state" /\ w[q] = StateWrite(s.tasks[i], w[q].key[3])
             \/ w[q].key[1] \in Range(TaskGauges) /\ w[q] = GaugeWrite(s.tasks[i], w[q].key[1])
        BY <2>1, <2>3, <2>4, TaskKeys
    <2> QED
        BY <2>5, FamiliesApart
<1> QED
    BY <1>1, <1>2, WriterOf

LEMMA OneWriterSets ==
    ASSUME NEW s \in DeviceStates, NEW p \in DOMAIN PrometheusWrites[s],
           OneWriter(s, PrometheusWrites[s][p].key)
    PROVE  PrometheusWrites[s][p] \in Sets[s]
<1>1. PICK w : w = PrometheusWrites[s]
    OBVIOUS
<1>2. w \in Seq(SetWrite) /\ Len(w) \in Nat /\ DOMAIN w = 1..Len(w)
    BY <1>1, PrometheusOwned
<1> DEFINE T == {q \in 1..Len(w) : w[q].key = w[p].key}
<1>3. T \in SUBSET (1..Len(w)) /\ T # {}
    BY <1>1, <1>2
<1> HIDE DEF T
<1>4. PICK r \in T : \A q \in T : q <= r
    BY <1>2, <1>3, LastPosition
<1>5. r \in DOMAIN w /\ w[r].key = w[p].key
    BY <1>2, <1>4 DEF T
<1>6. ASSUME NEW q \in DOMAIN w, q > r PROVE w[q].key # w[r].key
    <2>1. ~(q <= r)
        BY <1>2, <1>5, <1>6
    <2>2. q \notin T
        BY <1>4, <2>1
    <2> QED
        BY <1>2, <1>5, <2>2 DEF T
<1>7. w[r] \in Sets[s]
    BY <1>1, <1>5, <1>6, SetsFacts
<1>8. w[r] = w[p]
    BY <1>1, <1>5, OneValue
<1> QED
    BY <1>1, <1>7, <1>8

(* What the last task of a name writes of its state is kept. *)
LEMMA NamedSets ==
    ASSUME NEW s \in DeviceStates, NEW i \in Named(s), NEW n \in Range(StateNames)
    PROVE  StateWrite(s.tasks[i], n) \in Sets[s]
<1> DEFINE name == s.tasks[i].name
           K == {v \in SetWrite : v.key = <<"task_state", name, n>>}
           by == SetsBy(s)
<1>1. PICK w : w = PrometheusWrites[s]
    OBVIOUS
<1>2. w \in Seq(SetWrite) /\ DOMAIN by = 0..Len(s.tasks)
    BY <1>1, PrometheusOwned
<1>3. PICK o : Owned(w, by, o)
    BY <1>1, PrometheusOwned
<1>4. /\ Len(s.tasks) \in Nat /\ DOMAIN s.tasks = 1..Len(s.tasks)
      /\ \A k \in 1..Len(s.tasks) : s.tasks[k] \in Task
    BY StateFacts
<1>5. i \in 1..Len(s.tasks) /\ \A k \in 1..Len(s.tasks) : k > i => s.tasks[k].name # name
    BY <1>4 DEF Named
<1>6. \A k \in 1..Len(s.tasks) : by[k] = TaskSets(s.tasks[k])
    BY <1>4 DEF SetsBy
<1>7. StateWrite(s.tasks[i], n) \in by[i] \cap K
    <2>1. StateWrite(s.tasks[i], n) \in TaskSets(s.tasks[i])
        BY DEF TaskSets
    <2>2. StateWrite(s.tasks[i], n) \in SetWrite
        BY <1>4, <1>5, <2>1, TaskSetsTyped
    <2>3. StateWrite(s.tasks[i], n).key = <<"task_state", name, n>>
        BY DEF StateWrite
    <2> QED
        BY <1>5, <1>6, <2>1, <2>2, <2>3
<1>8. ASSUME NEW v \in K PROVE v.key[1] = "task_state" /\ v.key[2] = name /\ v.key[3] = n
    BY <1>8
<1> HIDE DEF name, K, by
<1>9. \A k \in DOMAIN by : k > i => by[k] \cap K = {}
    <2> SUFFICES ASSUME NEW k \in DOMAIN by, k > i, NEW v \in by[k] \cap K
                 PROVE  FALSE
        OBVIOUS
    <2>1. k \in 1..Len(s.tasks)
        BY <1>2, <1>4, <1>5
    <2>2. v.key[2] = s.tasks[k].name
        BY <1>4, <1>6, <2>1, TaskKeys
    <2> QED
        BY <1>5, <1>8, <2>1, <2>2
<1>10. i \in DOMAIN by /\ DOMAIN by \subseteq Nat /\ by[i] \cap K # {}
    BY <1>2, <1>4, <1>5, <1>7
<1>11. PICK p \in DOMAIN w : /\ o[p] = i /\ w[p] \in by[i] \cap K
                             /\ \A q \in DOMAIN w : q > p => w[q] \notin K
    BY <1>2, <1>3, <1>9, <1>10, LastOwner
<1>12. w[p].key = <<"task_state", name, n>> /\ w[p].key[1] = "task_state" /\ w[p].key[3] = n
    BY <1>8, <1>11 DEF K
<1>13. w[p] = StateWrite(s.tasks[i], n)
    BY <1>4, <1>5, <1>6, <1>11, <1>12, TaskKeys, FamiliesApart
<1>14. ASSUME NEW q \in DOMAIN w, q > p PROVE w[q].key # w[p].key
    BY <1>2, <1>11, <1>12, <1>14 DEF K
<1>15. w[p] \in Sets[s]
    BY <1>1, <1>14, SetsFacts
<1> QED
    BY <1>13, <1>15

-----------------------------------------------------------------------------
(* Type correctness. *)

LEMMA KeyFamily == \A k \in Key : k[1] \in Range(Families)
<1>1. ASSUME NEW k \in Key PROVE k[1] \in Range(Families)
    <2>1. CASE k \in {<<g>> : g \in Range(DeviceGauges)}
        BY <2>1, FamilyFacts
    <2>2. CASE k \in Range(TaskGauges) \X Name
        BY <2>2, FamilyFacts
    <2>3. CASE k \in {"task_state"} \X Name \X Range(StateNames)
        BY <2>3, FamilyFacts
    <2> QED
        BY <2>1, <2>2, <2>3 DEF Key
<1> QED
    BY <1>1

(* The write a push has come to *)
LEMMA NextWrite ==
    ASSUME LoopType, ~Pushed
    PROVE  /\ current \in DeviceStates /\ current # None
           /\ written \in Nat /\ written + 1 \in 1..Len(Writes[current])
           /\ Len(Writes[current]) \in Nat
           /\ Write \in SetWrite \/ Write \in AllClears \/ Write \in AllPuts
           /\ Write.op = "set" => Write \in SetWrite
           /\ Write.op = "clear" => Write \in AllClears
           /\ Write.op = "put" => Write \in AllPuts
<1>1. current \in DeviceStates /\ current # None /\ written \in Nat
    BY DEF LoopType, Pushed
<1>2. /\ Len(Writes[current]) \in Nat
      /\ \A p \in 1..Len(Writes[current]) :
            \/ Writes[current][p] \in SetWrite \/ Writes[current][p] \in AllClears
            \/ Writes[current][p] \in AllPuts
    BY <1>1, WriteKinds
<1>3. written <= Len(Writes[current]) /\ written # Len(Writes[current])
    BY <1>1 DEF LoopType, Pushed
<1>4. written + 1 \in 1..Len(Writes[current])
    BY <1>1, <1>2, <1>3
<1>5. Write \in SetWrite \/ Write \in AllClears \/ Write \in AllPuts
    BY <1>2, <1>4 DEF Write
<1> QED
    BY <1>1, <1>2, <1>4, <1>5, KindFacts

LEMMA WrittenType ==
    ASSUME LoopType, ~Pushed, Written
    PROVE  LoopType'
<1>1. /\ current \in DeviceStates /\ current # None /\ written \in Nat
      /\ written + 1 \in 1..Len(Writes[current])
    BY NextWrite
<1>2. written' = written + 1 /\ current' = current /\ shown' \in {current, shown}
    BY DEF Written
<1>3. written' \in Nat /\ written' <= Len(Writes[current])
    BY <1>1, <1>2
<1> QED
    BY <1>1, <1>2, <1>3 DEF LoopType

(* A dictionary after a put *)
LEMMA PutEntryFacts ==
    ASSUME NEW S, NEW d \in Seq(S), NEW e \in S
    PROVE  /\ PutEntry(d, e) \in Seq(S)
           /\ \A x : x \in Range(PutEntry(d, e)) <=> (x \in Range(d) /\ x[1] # e[1]) \/ x = e
           /\ IsInjective([i \in DOMAIN d |-> d[i][1]])
              => IsInjective([i \in DOMAIN PutEntry(d, e) |-> PutEntry(d, e)[i][1]])
<1> DEFINE r == PutEntry(d, e)
<1>0. Len(d) \in Nat /\ DOMAIN d = 1..Len(d)
    OBVIOUS
<1>1. CASE \E i \in DOMAIN d : d[i][1] = e[1]
    <2>1. /\ DOMAIN r = DOMAIN d
          /\ \A i \in DOMAIN d : r[i] = IF d[i][1] = e[1] THEN e ELSE d[i]
        BY <1>1 DEF PutEntry
    <2>2. r \in Seq(S)
        <3>1. r = [i \in 1..Len(d) |-> IF d[i][1] = e[1] THEN e ELSE d[i]]
            BY <1>0, <1>1 DEF PutEntry
        <3>2. \A i \in 1..Len(d) : (IF d[i][1] = e[1] THEN e ELSE d[i]) \in S
            OBVIOUS
        <3> HIDE DEF r
        <3> QED
            BY <1>0, <3>1, <3>2, IsASeq
    <2> HIDE DEF r
    <2>3. Range(r) = {x \in Range(d) : x[1] # e[1]} \cup {e}
        BY <1>1, <2>1 DEF Range
    <2>4. \A i \in DOMAIN d : r[i][1] = d[i][1]
        BY <2>1
    <2>5. [i \in DOMAIN r |-> r[i][1]] = [i \in DOMAIN d |-> d[i][1]]
        BY <2>1, <2>4
    <2> QED
        BY <2>2, <2>3, <2>5 DEF r
<1>2. CASE \A i \in DOMAIN d : d[i][1] # e[1]
    <2>1. r = Append(d, e)
        BY <1>2 DEF PutEntry
    <2>2. /\ r \in Seq(S) /\ DOMAIN r = 1..(Len(d) + 1)
          /\ \A i \in 1..Len(d) : r[i] = d[i]
          /\ r[Len(d) + 1] = e
        BY <2>1
    <2> HIDE DEF r
    <2>3. Range(r) = Range(d) \cup {e}
        <3>1. ASSUME NEW i \in DOMAIN r PROVE r[i] \in Range(d) \cup {e}
            <4>1. i \in 1..Len(d) \/ i = Len(d) + 1
                BY <1>0, <2>2
            <4> QED
                BY <1>0, <2>2, <4>1 DEF Range
        <3>2. ASSUME NEW i \in DOMAIN d PROVE d[i] \in Range(r)
            <4>1. i \in DOMAIN r /\ r[i] = d[i]
                BY <1>0, <2>2
            <4> QED
                BY <4>1 DEF Range
        <3>3. e \in Range(r)
            <4>1. Len(d) + 1 \in DOMAIN r
                BY <1>0, <2>2
            <4> QED
                BY <2>2, <4>1 DEF Range
        <3> QED
            BY <3>1, <3>2, <3>3 DEF Range
    <2>4. \A x \in Range(d) : x[1] # e[1]
        BY <1>2 DEF Range
    <2>5. ASSUME \A a, b \in DOMAIN d : d[a][1] = d[b][1] => a = b
          PROVE  \A a, b \in DOMAIN r : r[a][1] = r[b][1] => a = b
        <3> SUFFICES ASSUME NEW a \in DOMAIN r, NEW b \in DOMAIN r, r[a][1] = r[b][1]
                     PROVE  a = b
            OBVIOUS
        <3>1. a \in DOMAIN d \/ a = Len(d) + 1
            BY <1>0, <2>2
        <3>2. b \in DOMAIN d \/ b = Len(d) + 1
            BY <1>0, <2>2
        <3> QED
            BY <1>0, <1>2, <2>2, <2>5, <3>1, <3>2
    <2>6. IsInjective([i \in DOMAIN d |-> d[i][1]]) => IsInjective([i \in DOMAIN r |-> r[i][1]])
        BY <2>5 DEF IsInjective
    <2> QED
        BY <2>2, <2>3, <2>4, <2>6 DEF r
<1> QED
    BY <1>1, <1>2

LEMMA InitType == Init => TypeInv
<1> SUFFICES ASSUME Init PROVE TypeInv
    OBVIOUS
<1>1. LoopType
    BY DEF Init, LoopType
<1>2. PromType
    <2>1. /\ DOMAIN gauge = {} /\ gauge \in [{} -> Value]
        BY DEF Init
    <2>2. children \in [Range(Families) -> Seq(Key)]
        BY DEF Init
    <2>3. ASSUME NEW f \in Range(Families)
          PROVE  Range(children[f]) = {} /\ Len(children[f]) = 0
        <3>1. children[f] = <<>>
            BY DEF Init
        <3> QED
            BY <3>1 DEF Range
    <2> QED
        BY <2>1, <2>2, <2>3, FS_EmptySet DEF PromType
<1>3. ScrapeType
    <2>1. Range(<<>>) = {}
        BY DEF Range
    <2>2. 1 \in 1..(Len(Families) + 1)
        BY FamilyFacts
    <2> QED
        BY <2>1, <2>2 DEF Init, ScrapeType
<1>4. TableType
    <2>1. \A tab \in Tables : table[tab] = <<>>
        BY DEF Init
    <2> QED
        BY <2>1 DEF Init, TableType, IsInjective
<1>5. ExportType
    <2>1. "task_state" \in Tables
        BY GaugeFacts
    <2> QED
        BY <2>1 DEF Init, ExportType, NoExport
<1> QED
    BY <1>1, <1>2, <1>3, <1>4, <1>5 DEF TypeInv

LEMMA PushType ==
    ASSUME TypeInv, Push
    PROVE  TypeInv'
<1>1. PICK s \in DeviceStates :
         /\ current' = s
         /\ scrape' = [scrape EXCEPT !.seen = IF scrape.active THEN @ \cup {s} ELSE @]
    BY DEF Push
<1>2. written' = 0 /\ UNCHANGED <<shown, gauge, children, table, export>>
    BY DEF Push, promVars
<1>3. LoopType'
    <2>1. Len(Writes[s]) \in Nat
        BY WriteKinds
    <2> QED
        BY <1>1, <1>2, <2>1 DEF TypeInv, LoopType
<1>4. ScrapeType'
    BY <1>1, <1>2 DEF TypeInv, ScrapeType
<1>5. PromType' /\ TableType' /\ ExportType'
    BY <1>2 DEF TypeInv, PromType, TableType, ExportType
<1> QED
    BY <1>3, <1>4, <1>5 DEF TypeInv

LEMMA LabelsType ==
    ASSUME TypeInv, Labels
    PROVE  TypeInv'
<1> DEFINE k == Write.key
<1>1. /\ ~Pushed /\ Write.op = "set" /\ k \notin DOMAIN gauge
      /\ gauge' = [x \in DOMAIN gauge \cup {k} |-> IF x = k THEN 0 ELSE gauge[x]]
      /\ children' = [children EXCEPT ![k[1]] = Append(@, k)]
      /\ UNCHANGED <<current, shown, written, scrape, table, export>>
    BY DEF Labels, loopVars
<1>2. k \in Key
    BY <1>1, NextWrite, KindFacts DEF TypeInv
<1> HIDE DEF k
<1>3. /\ gauge \in [DOMAIN gauge -> Value] /\ DOMAIN gauge \subseteq Key
      /\ children \in [Range(Families) -> Seq(Key)]
      /\ \A f \in Range(Families) :
            /\ Range(children[f]) = {x \in DOMAIN gauge : x[1] = f}
            /\ IsFiniteSet(Range(children[f]))
            /\ Cardinality(Range(children[f])) = Len(children[f])
    BY DEF TypeInv, PromType
<1>4. DOMAIN gauge' = DOMAIN gauge \cup {k} /\ gauge' \in [DOMAIN gauge' -> Value]
    BY <1>1, <1>3, ExporterAssumption
<1>5. k[1] \in Range(Families)
    BY <1>2, KeyFamily
<1>6. children' \in [Range(Families) -> Seq(Key)]
    BY <1>1, <1>2, <1>3, <1>5
<1>7. ASSUME NEW f \in Range(Families)
      PROVE  /\ Range(children'[f]) = {x \in DOMAIN gauge' : x[1] = f}
             /\ IsFiniteSet(Range(children'[f]))
             /\ Cardinality(Range(children'[f])) = Len(children'[f])
    <2>1. CASE f = k[1]
        <3>1. children'[f] = Append(children[f], k) /\ children[f] \in Seq(Key)
            BY <1>1, <1>3, <1>5, <2>1
        <3>2. /\ Range(children'[f]) = Range(children[f]) \cup {k}
              /\ Len(children'[f]) = Len(children[f]) + 1
            <4>1. /\ Len(children'[f]) = Len(children[f]) + 1 /\ Len(children[f]) \in Nat
                  /\ DOMAIN children[f] = 1..Len(children[f])
                  /\ DOMAIN children'[f] = 1..(Len(children[f]) + 1)
                  /\ children'[f][Len(children[f]) + 1] = k
                  /\ \A i \in 1..Len(children[f]) : children'[f][i] = children[f][i]
                BY <1>2, <3>1
            <4> QED
                BY <4>1 DEF Range
        <3>3. k \notin Range(children[f])
            BY <1>1, <1>3
        <3>4. /\ IsFiniteSet(Range(children[f]) \cup {k})
              /\ Cardinality(Range(children[f]) \cup {k}) = Cardinality(Range(children[f])) + 1
            BY <1>3, <3>3, FS_AddElement
        <3>5. Range(children[f]) \cup {k} = {x \in DOMAIN gauge' : x[1] = f}
            BY <1>3, <1>4, <2>1
        <3> QED
            BY <1>3, <3>2, <3>4, <3>5
    <2>2. CASE f # k[1]
        <3>1. children'[f] = children[f]
            BY <1>1, <1>3, <2>2
        <3>2. {x \in DOMAIN gauge : x[1] = f} = {x \in DOMAIN gauge' : x[1] = f}
            BY <1>4, <2>2
        <3> QED
            BY <1>3, <3>1, <3>2
    <2> QED
        BY <2>1, <2>2
<1>8. PromType'
    BY <1>2, <1>3, <1>4, <1>6, <1>7 DEF PromType
<1>9. ScrapeType'
    BY <1>1, <1>4 DEF TypeInv, ScrapeType
<1>10. LoopType' /\ TableType' /\ ExportType'
    BY <1>1 DEF TypeInv, LoopType, TableType, ExportType
<1> QED
    BY <1>8, <1>9, <1>10 DEF TypeInv

LEMMA SetType ==
    ASSUME TypeInv, Set
    PROVE  TypeInv'
<1> DEFINE k == Write.key
           v == Write.value
<1>1. /\ ~Pushed /\ Write.op = "set" /\ k \in DOMAIN gauge /\ Written
      /\ gauge' = [gauge EXCEPT ![k] = v]
      /\ UNCHANGED <<children, scrape, table, export>>
    BY DEF Set
<1>2. v \in Value
    BY <1>1, NextWrite, KindFacts DEF TypeInv
<1> HIDE DEF k, v
<1>3. gauge \in [DOMAIN gauge -> Value]
    BY DEF TypeInv, PromType
<1>4. DOMAIN gauge' = DOMAIN gauge /\ gauge' \in [DOMAIN gauge' -> Value]
    BY <1>1, <1>2, <1>3
<1>5. PromType'
    BY <1>1, <1>4 DEF TypeInv, PromType
<1>6. ScrapeType'
    BY <1>1, <1>4 DEF TypeInv, ScrapeType
<1>7. LoopType'
    BY <1>1, WrittenType DEF TypeInv
<1>8. TableType' /\ ExportType'
    BY <1>1 DEF TypeInv, TableType, ExportType
<1> QED
    BY <1>5, <1>6, <1>7, <1>8 DEF TypeInv

LEMMA ClearType ==
    ASSUME TypeInv, Clear
    PROVE  TypeInv'
<1> DEFINE tab == Write.tab
<1>1. /\ ~Pushed /\ Write.op = "clear" /\ Written
      /\ table' = [table EXCEPT ![tab] = <<>>]
      /\ export' = IF export.live /\ export.tab = tab
                   THEN [export EXCEPT !.live = FALSE, !.items = table[tab]]
                   ELSE export
      /\ UNCHANGED <<gauge, children, scrape>>
    BY DEF Clear, promVars
<1>2. tab \in Tables
    BY <1>1, NextWrite, KindFacts DEF TypeInv
<1> HIDE DEF tab
<1>3. /\ DOMAIN table = Tables
      /\ \A u \in Tables : /\ table[u] \in Seq(Entries(u))
                           /\ IsInjective([i \in DOMAIN table[u] |-> table[u][i][1]])
    BY DEF TypeInv, TableType
<1>4. TableType'
    <2>1. DOMAIN table' = Tables
        BY <1>1, <1>3
    <2>2. ASSUME NEW u \in Tables
          PROVE  /\ table'[u] \in Seq(Entries(u))
                 /\ IsInjective([i \in DOMAIN table'[u] |-> table'[u][i][1]])
        <3>1. CASE u = tab
            <4>1. table'[u] = <<>>
                BY <1>1, <1>3, <3>1
            <4> QED
                BY <4>1 DEF IsInjective
        <3>2. CASE u # tab
            <4>1. table'[u] = table[u]
                BY <1>1, <1>3, <3>2
            <4> QED
                BY <1>3, <4>1
        <3> QED
            BY <3>1, <3>2
    <2> QED
        BY <2>1, <2>2 DEF TableType
<1>5. ExportType'
    <2>1. CASE export.live /\ export.tab = tab
        <3>1. export' = [export EXCEPT !.live = FALSE, !.items = table[tab]]
            BY <1>1, <2>1
        <3>2. table[tab] \in Seq(Entries(export.tab))
            BY <1>2, <1>3, <2>1
        <3>3. export'.tab = export.tab /\ export'.size = export.size /\ export'.out = export.out
            BY <3>1 DEF TypeInv, ExportType
        <3> QED
            BY <3>1, <3>2, <3>3 DEF TypeInv, ExportType
    <2>2. CASE ~(export.live /\ export.tab = tab)
        BY <1>1, <2>2 DEF TypeInv, ExportType
    <2> QED
        BY <2>1, <2>2
<1>6. LoopType'
    BY <1>1, WrittenType DEF TypeInv
<1>7. PromType' /\ ScrapeType'
    BY <1>1 DEF TypeInv, PromType, ScrapeType
<1> QED
    BY <1>4, <1>5, <1>6, <1>7 DEF TypeInv

LEMMA PutType ==
    ASSUME TypeInv, Put
    PROVE  TypeInv'
<1> DEFINE tab == Write.tab
           e == Write.entry
<1>1. /\ ~Pushed /\ Write.op = "put" /\ Written
      /\ table' = [table EXCEPT ![tab] = PutEntry(@, e)]
      /\ UNCHANGED <<gauge, children, scrape, export>>
    BY DEF Put, promVars
<1>2. tab \in Tables /\ e \in Entries(tab)
    BY <1>1, NextWrite, KindFacts DEF TypeInv
<1> HIDE DEF tab, e
<1>3. /\ DOMAIN table = Tables
      /\ \A u \in Tables : /\ table[u] \in Seq(Entries(u))
                           /\ IsInjective([i \in DOMAIN table[u] |-> table[u][i][1]])
    BY DEF TypeInv, TableType
<1>4. TableType'
    <2>1. DOMAIN table' = Tables
        BY <1>1, <1>3
    <2>2. ASSUME NEW u \in Tables
          PROVE  /\ table'[u] \in Seq(Entries(u))
                 /\ IsInjective([i \in DOMAIN table'[u] |-> table'[u][i][1]])
        <3>1. CASE u = tab
            <4>1. table'[u] = PutEntry(table[u], e)
                BY <1>1, <1>3, <3>1
            <4>2. /\ table[u] \in Seq(Entries(u)) /\ e \in Entries(u)
                  /\ IsInjective([i \in DOMAIN table[u] |-> table[u][i][1]])
                BY <1>2, <1>3, <3>1
            <4>3. PICK d : d = table[u]
                OBVIOUS
            <4>4. /\ PutEntry(d, e) \in Seq(Entries(u))
                  /\ IsInjective([i \in DOMAIN PutEntry(d, e) |-> PutEntry(d, e)[i][1]])
                BY <4>2, <4>3, PutEntryFacts
            <4> QED
                BY <4>1, <4>3, <4>4
        <3>2. CASE u # tab
            <4>1. table'[u] = table[u]
                BY <1>1, <1>3, <3>2
            <4> QED
                BY <1>3, <4>1
        <3> QED
            BY <3>1, <3>2
    <2> QED
        BY <2>1, <2>2 DEF TableType
<1>5. LoopType'
    BY <1>1, WrittenType DEF TypeInv
<1>6. PromType' /\ ScrapeType' /\ ExportType'
    BY <1>1 DEF TypeInv, PromType, ScrapeType, ExportType
<1> QED
    BY <1>4, <1>5, <1>6 DEF TypeInv

LEMMA ScrapeTypeStep ==
    ASSUME TypeInv, Scrape
    PROVE  TypeInv'
<1>1. UNCHANGED <<current, shown, written, gauge, children, table, export>>
    BY DEF Scrape, loopVars, promVars
<1>2. LoopType' /\ PromType' /\ TableType' /\ ExportType'
    BY <1>1 DEF TypeInv, LoopType, PromType, TableType, ExportType
<1> USE DEF TypeInv, ScrapeType
<1>3. Len(Families) \in Nat
    BY FamilyFacts
<1>4. Range(<<>>) = {}
    BY DEF Range
<1>5. CASE ScrapeBegin
    <2>1. {shown, current} \ {None} \subseteq DeviceStates
        BY DEF LoopType
    <2>2. shown \in DeviceStates \cup {None}
        BY DEF LoopType
    <2>3. scrape' = [active |-> TRUE, family |-> 1, keys |-> <<>>, base |-> shown,
                     seen |-> {shown, current} \ {None}, sample |-> <<>>]
        BY <1>5 DEF ScrapeBegin
    <2>4. 1 \in 1..(Len(Families) + 1) /\ <<>> \in Seq(Key)
        BY <1>3
    <2>5. ScrapeType'
        BY <1>1, <1>4, <2>1, <2>2, <2>3, <2>4
    <2> QED
        BY <1>2, <2>5
<1>6. CASE ScrapeFamily
    <2> DEFINE f == Families[scrape.family]
    <2>1. /\ scrape.family <= Len(Families)
          /\ scrape' = [scrape EXCEPT !.keys = children[f], !.family = @ + 1]
        BY <1>6 DEF ScrapeFamily
    <2>2. scrape.family \in 1..Len(Families) /\ scrape.family + 1 \in 1..(Len(Families) + 1)
        BY <1>3, <2>1
    <2>3. f \in Range(Families)
        BY <2>2, FamilyFacts DEF Range
    <2> HIDE DEF f
    <2>4. children[f] \in Seq(Key) /\ Range(children[f]) \subseteq DOMAIN gauge
        BY <2>3 DEF PromType
    <2>5. ScrapeType'
        BY <1>1, <2>1, <2>2, <2>4
    <2> QED
        BY <1>2, <2>5
<1>7. CASE ScrapeGauge
    <2> DEFINE k == Head(scrape.keys)
    <2>1. /\ scrape.keys # <<>>
          /\ scrape' = [scrape EXCEPT !.sample = <<k, gauge[k]>>, !.keys = Tail(@)]
        BY <1>7 DEF ScrapeGauge
    <2>2. scrape.keys \in Seq(Key)
        OBVIOUS
    <2>3. k \in Range(scrape.keys) /\ k \in Key
        BY <2>1, <2>2 DEF Range
    <2>4. Tail(scrape.keys) \in Seq(Key) /\ Range(Tail(scrape.keys)) \subseteq Range(scrape.keys)
        <3>1. /\ Tail(scrape.keys) \in Seq(Key)
              /\ DOMAIN Tail(scrape.keys) = 1..(Len(scrape.keys) - 1)
              /\ \A i \in 1..(Len(scrape.keys) - 1) : Tail(scrape.keys)[i] = scrape.keys[i + 1]
            BY <2>1, <2>2
        <3>2. \A i \in 1..(Len(scrape.keys) - 1) : i + 1 \in DOMAIN scrape.keys
            BY <2>2
        <3> QED
            BY <3>1, <3>2 DEF Range
    <2> HIDE DEF k
    <2>5. k \in DOMAIN gauge /\ gauge[k] \in Value
        BY <2>3 DEF PromType
    <2>6. <<k, gauge[k]>> \in Key \X Value
        BY <2>3, <2>5
    <2>7. ScrapeType'
        BY <1>1, <2>1, <2>4, <2>6
    <2> QED
        BY <1>2, <2>7
<1>8. CASE ScrapeEnd
    <2>1. scrape' = [scrape EXCEPT !.active = FALSE, !.family = 1, !.base = None,
                                   !.seen = {}, !.sample = <<>>]
        BY <1>8 DEF ScrapeEnd
    <2>2. 1 \in 1..(Len(Families) + 1)
        BY <1>3
    <2>3. ScrapeType'
        BY <1>1, <2>1, <2>2
    <2> QED
        BY <1>2, <2>3
<1> QED
    BY <1>5, <1>6, <1>7, <1>8 DEF Scrape

LEMMA IteratedTyped ==
    ASSUME TypeInv
    PROVE  Iterated \in Seq(Entries(export.tab))
BY DEF TypeInv, TableType, ExportType, Iterated

LEMMA ExportTypeStep ==
    ASSUME TypeInv, Export
    PROVE  TypeInv'
<1>1. UNCHANGED <<current, shown, written, gauge, children, scrape, table>>
    BY DEF Export, loopVars, promVars
<1>2. LoopType' /\ PromType' /\ ScrapeType' /\ TableType'
    BY <1>1 DEF TypeInv, LoopType, PromType, ScrapeType, TableType
<1>3. ExportType
    BY DEF TypeInv
<1>4. CASE ExportBegin
    <2>1. PICK tab \in Tables :
             export' = [active |-> TRUE, tab |-> tab, taken |-> table[tab],
                        whole |-> ~Filling(tab), live |-> TRUE, items |-> <<>>,
                        size |-> Len(table[tab]), out |-> <<>>, result |-> "none"]
        BY <1>4 DEF ExportBegin
    <2>2. table[tab] \in Seq(Entries(tab)) /\ Len(table[tab]) \in Nat
        <3>1. table[tab] \in Seq(Entries(tab))
            BY DEF TypeInv, TableType
        <3> QED
            BY <3>1
    <2>3. PICK b \in {TRUE, FALSE} : b = ~Filling(tab)
        <3>1. CASE Filling(tab)
            <4>1. FALSE = ~Filling(tab)
                BY <3>1, Zenon
            <4> QED
                BY <4>1, Zenon
        <3>2. CASE ~Filling(tab)
            <4>1. TRUE = ~Filling(tab)
                BY <3>2, Zenon
            <4> QED
                BY <4>1, Zenon
        <3> QED
            BY <3>1, <3>2
    <2>4. b \in BOOLEAN
        OBVIOUS
    <2>5. ExportType'
        BY <2>1, <2>2, <2>3, <2>4 DEF ExportType
    <2> QED
        BY <1>2, <2>5 DEF TypeInv
<1>5. CASE ExportEntry
    <2>1. /\ Len(Iterated) = export.size /\ Len(export.out) < export.size
          /\ export' = [export EXCEPT !.out = Append(@, Iterated[Len(@) + 1])]
        BY <1>5 DEF ExportEntry
    <2>2. Iterated \in Seq(Entries(export.tab))
        BY IteratedTyped
    <2>3. export.out \in Seq(Entries(export.tab)) /\ export.size \in Nat
        BY <1>3 DEF ExportType
    <2>4. Iterated[Len(export.out) + 1] \in Entries(export.tab)
        <3>1. Len(export.out) + 1 \in 1..Len(Iterated)
            BY <2>1, <2>3
        <3> QED
            BY <2>2, <3>1
    <2> DEFINE out == Append(export.out, Iterated[Len(export.out) + 1])
    <2>5. out \in Seq(Entries(export.tab)) /\ Len(out) <= export.size
        BY <2>1, <2>3, <2>4
    <2>6. export' = [export EXCEPT !.out = out]
        BY <2>1
    <2> HIDE DEF out
    <2>7. export'.tab = export.tab /\ export'.out = out /\ export'.size = export.size
        BY <1>3, <2>6 DEF ExportType
    <2>8. ExportType'
        BY <1>3, <2>5, <2>6, <2>7 DEF ExportType
    <2> QED
        BY <1>2, <2>8 DEF TypeInv
<1>6. CASE ExportEnd
    <2>1. PICK r \in {"error", "all", "some"} :
             export' = [NoExport EXCEPT !.whole = export.whole, !.result = r]
        BY <1>6 DEF ExportEnd
    <2>2. "task_state" \in Tables
        BY GaugeFacts
    <2>3. ExportType'
        <3>1. export' = [active |-> FALSE, tab |-> "task_state", taken |-> <<>>,
                         whole |-> export.whole, live |-> FALSE, items |-> <<>>, size |-> 0,
                         out |-> <<>>, result |-> r]
            BY <2>1 DEF NoExport
        <3>2. export.whole \in BOOLEAN
            BY <1>3 DEF ExportType
        <3> QED
            BY <2>2, <3>1, <3>2 DEF ExportType
    <2> QED
        BY <1>2, <2>3 DEF TypeInv
<1> QED
    BY <1>4, <1>5, <1>6 DEF Export

LEMMA TypeStep ==
    ASSUME TypeInv, [Next]_vars
    PROVE  TypeInv'
<1>1. CASE UNCHANGED vars
    BY <1>1 DEF vars, loopVars, promVars, TypeInv, LoopType, PromType, ScrapeType, TableType,
                ExportType
<1> QED
    BY <1>1, PushType, LabelsType, SetType, ClearType, PutType, ScrapeTypeStep, ExportTypeStep
    DEF Next, Loop

LEMMA TypeInvariant == Spec => []TypeInv
<1>1. TypeInv /\ [Next]_vars => TypeInv'
    BY TypeStep
<1> QED
    BY <1>1, InitType, PTL DEF Spec

LEMMA TypeInvOK == TypeInv => TypeOK
<1> SUFFICES ASSUME TypeInv PROVE TypeOK
    OBVIOUS
<1>1. current \in DeviceStates \cup {None} /\ shown \in DeviceStates \cup {None}
    BY DEF TypeInv, LoopType
<1>2. \A k \in DOMAIN gauge : k \in Key /\ gauge[k] \in Value
    BY DEF TypeInv, PromType
<1>3. \A f \in Range(Families) :
         /\ Range(children[f]) = {k \in DOMAIN gauge : k[1] = f}
         /\ Cardinality(Range(children[f])) = Len(children[f])
    BY DEF TypeInv, PromType
<1>4. \A tab \in Tables : IsInjective([i \in DOMAIN table[tab] |-> table[tab][i][1]])
    BY DEF TypeInv, TableType
<1>5. Len(export.out) <= export.size
    BY DEF TypeInv, ExportType
<1> QED
    BY <1>1, <1>2, <1>3, <1>4, <1>5 DEF TypeOK

(* Every labelled gauge is listed by its family, once, every dictionary has *)
(* each name once, and no callback goes past the end, for any tasks, names  *)
(* and values (prometheus_exporter.py:32-84, otlp_exporter.py:76-85).       *)
THEOREM TypeCorrect == Spec => []TypeOK
BY TypeInvariant, TypeInvOK, PTL

-----------------------------------------------------------------------------
(* What is written stays until it is written again. *)

(* The next write as one of update_metrics *)
LEMMA NextSet ==
    ASSUME LoopType, ~Pushed, NEW w, w = PrometheusWrites[current]
    PROVE  /\ DOMAIN w \subseteq Nat
           /\ IF Write.op = "set"
              THEN written + 1 \in DOMAIN w /\ Write = w[written + 1]
              ELSE \A i \in DOMAIN w : i <= written
<1>1. /\ current \in DeviceStates /\ written \in Nat
      /\ written + 1 \in 1..Len(Writes[current])
    BY NextWrite
<1>2. PICK n : n = Len(PrometheusWrites[current])
    OBVIOUS
<1>3. /\ n \in Nat /\ DOMAIN w = 1..n
      /\ \A p \in 1..Len(Writes[current]) : Writes[current][p].op = "set" <=> p <= n
      /\ \A p \in 1..n : Writes[current][p] = w[p]
    BY <1>1, <1>2, WriteKinds
<1>4. Write.op = "set" <=> written + 1 <= n
    BY <1>1, <1>3 DEF Write
<1>5. CASE Write.op = "set"
    <2>1. written + 1 \in 1..n
        BY <1>1, <1>3, <1>4, <1>5
    <2> QED
        BY <1>3, <1>5, <2>1 DEF Write
<1>6. CASE Write.op # "set"
    <2>1. n <= written
        BY <1>1, <1>3, <1>4, <1>6
    <2> QED
        BY <1>1, <1>3, <1>6, <2>1
<1> QED
    BY <1>5, <1>6

LEMMA GaugeStep ==
    ASSUME TypeInv, GaugeInv, [Next]_vars
    PROVE  GaugeInv'
<1>1. ASSUME gauge' = gauge, current' = current, written' = written PROVE GaugeInv'
    BY <1>1 DEF GaugeInv
<1>2. CASE Push
    <2>1. current' \in DeviceStates /\ written' = 0
        BY <1>2 DEF Push
    <2>2. PICK w : w = PrometheusWrites[current']
        OBVIOUS
    <2>3. DOMAIN w = 1..Len(w)
        BY <2>1, <2>2, PrometheusOwned
    <2>4. {i \in DOMAIN w : i <= written'} = {}
        BY <2>1, <2>3
    <2> QED
        BY <2>2, <2>4 DEF GaugeInv
<1>3. CASE Labels
    <2>1. PICK k : /\ k \notin DOMAIN gauge
                   /\ gauge' = [x \in DOMAIN gauge \cup {k} |-> IF x = k THEN 0 ELSE gauge[x]]
        BY <1>3 DEF Labels
    <2>2. UNCHANGED <<current, written>>
        BY <1>3 DEF Labels, loopVars
    <2>3. \A x \in DOMAIN gauge : x \in DOMAIN gauge' /\ gauge'[x] = gauge[x]
        BY <2>1
    <2> QED
        BY <2>2, <2>3 DEF GaugeInv
<1>4. CASE Set
    <2>1. /\ ~Pushed /\ Write.op = "set" /\ Write.key \in DOMAIN gauge
          /\ gauge' = [gauge EXCEPT ![Write.key] = Write.value]
          /\ written' = written + 1 /\ current' = current
        BY <1>4 DEF Set, Written
    <2>2. PICK w : w = PrometheusWrites[current]
        OBVIOUS
    <2>3. /\ current # None /\ written \in Nat /\ DOMAIN w \subseteq Nat
          /\ written + 1 \in DOMAIN w /\ Write = w[written + 1]
        BY <2>1, <2>2, NextWrite, NextSet DEF TypeInv
    <2>4. /\ DOMAIN gauge' = DOMAIN gauge /\ gauge'[Write.key] = Write.value
          /\ \A x \in DOMAIN gauge : x # Write.key => gauge'[x] = gauge[x]
        BY <2>1
    <2>5. ASSUME NEW i \in DOMAIN w, i <= written + 1
          PROVE  /\ w[i].key \in DOMAIN gauge'
                 /\ \/ gauge'[w[i].key] = w[i].value
                    \/ \E k \in DOMAIN w : k <= written + 1 /\ k > i /\ w[k].key = w[i].key
        <3>1. CASE i = written + 1
            BY <2>1, <2>3, <2>4, <3>1
        <3>2. CASE i # written + 1
            <4>1. i \in Nat /\ i <= written /\ written + 1 > i
                BY <2>3, <2>5, <3>2
            <4>2. /\ w[i].key \in DOMAIN gauge
                  /\ \/ gauge[w[i].key] = w[i].value
                     \/ \E k \in DOMAIN w : k <= written /\ k > i /\ w[k].key = w[i].key
                BY <2>2, <2>3, <4>1 DEF GaugeInv
            <4>3. CASE w[i].key = Write.key
                BY <2>3, <2>4, <4>1, <4>2, <4>3
            <4>4. CASE w[i].key # Write.key
                <5>1. w[i].key \in DOMAIN gauge' /\ gauge'[w[i].key] = gauge[w[i].key]
                    BY <2>4, <4>2, <4>4
                <5>2. \A k \in DOMAIN w : k <= written => k <= written + 1
                    BY <2>3
                <5> QED
                    BY <4>2, <5>1, <5>2
            <4> QED
                BY <4>3, <4>4
        <3> QED
            BY <3>1, <3>2
    <2> QED
        BY <2>1, <2>2, <2>5 DEF GaugeInv
<1>5. CASE Clear \/ Put
    <2>1. /\ ~Pushed /\ Write.op # "set" /\ gauge' = gauge
          /\ written' = written + 1 /\ current' = current
        BY <1>5 DEF Clear, Put, Written, promVars
    <2>2. PICK w : w = PrometheusWrites[current]
        OBVIOUS
    <2>3. /\ written \in Nat /\ DOMAIN w \subseteq Nat /\ \A i \in DOMAIN w : i <= written
        BY <2>1, <2>2, NextWrite, NextSet DEF TypeInv
    <2>4. {i \in DOMAIN w : i <= written'} = {i \in DOMAIN w : i <= written}
        BY <2>1, <2>3
    <2> QED
        BY <2>1, <2>2, <2>4 DEF GaugeInv
<1>6. CASE Scrape \/ Export \/ UNCHANGED vars
    BY <1>1, <1>6 DEF Scrape, Export, vars, loopVars, promVars
<1> QED
    BY <1>2, <1>3, <1>4, <1>5, <1>6 DEF Next, Loop

(* LastPuts after a write *)
LEMMA LastPutsStep ==
    ASSUME LoopType, ~Pushed, Written, NEW tab
    PROVE  /\ ~PutIn(tab, written + 1) => LastPuts(tab)' = LastPuts(tab)
           /\ PutIn(tab, written + 1) =>
                 LastPuts(tab)' = {i \in LastPuts(tab) :
                                     Writes[current][i].entry[1] # Write.entry[1]}
                                  \cup {written + 1}
<1>1. written \in Nat /\ written' = written + 1 /\ current' = current
    BY NextWrite DEF Written
<1> DEFINE m == written + 1
           In(i) == PutIn(tab, i)
           name(i) == Writes[current][i].entry[1]
<1>2. LastPuts(tab) = {i \in 1..written : In(i) /\ \A k \in (i + 1)..written : In(k) => name(k) # name(i)}
    BY DEF LastPuts
<1>3. LastPuts(tab)' = {i \in 1..m : In(i) /\ \A k \in (i + 1)..m : In(k) => name(k) # name(i)}
    BY <1>1 DEF LastPuts, PutIn
<1>4. name(m) = Write.entry[1]
    BY DEF Write
<1>5. /\ 1..m = 1..written \cup {m} /\ m \notin 1..written
      /\ (m + 1)..m = {}
      /\ \A i \in 1..written : (i + 1)..m = (i + 1)..written \cup {m}
    BY <1>1
<1> HIDE DEF m, In, name
<1>6. CASE ~In(m)
    BY <1>2, <1>3, <1>5, <1>6 DEF m, In
<1>7. CASE In(m)
    <2>1. m \in LastPuts(tab)'
        BY <1>3, <1>5, <1>7
    <2>2. ASSUME NEW i \in LastPuts(tab)', i # m PROVE i \in LastPuts(tab) /\ name(i) # name(m)
        BY <1>2, <1>3, <1>5, <1>7, <2>2
    <2>3. ASSUME NEW i \in LastPuts(tab), name(i) # name(m) PROVE i \in LastPuts(tab)'
        BY <1>2, <1>3, <1>5, <2>3
    <2>4. LastPuts(tab)' = {i \in LastPuts(tab) : name(i) # name(m)} \cup {m}
        BY <2>1, <2>2, <2>3
    <2> QED
        BY <1>4, <1>7, <2>4 DEF m, In, name
<1> QED
    BY <1>6, <1>7

(* All clears of tab in the push are done. *)
Cleared(tab) ==
    \A i \in (written + 1)..Len(Writes[current]) : Writes[current][i] # ClearWrite(tab)

LEMMA TableInvIs ==
    TableInv <=> (current # None =>
        \A tab \in Tables :
            Cleared(tab) => Range(table[tab]) = {Writes[current][i].entry : i \in LastPuts(tab)})
BY DEF TableInv, Cleared, ClearWrite

LEMMA ClearedStep ==
    ASSUME LoopType, ~Pushed, Written, NEW tab, Cleared(tab)'
    PROVE  Write # ClearWrite(tab) => Cleared(tab)
<1>1. /\ written \in Nat /\ written' = written + 1 /\ current' = current
      /\ written + 1 \in 1..Len(Writes[current]) /\ Len(Writes[current]) \in Nat
    BY NextWrite DEF Written
<1>2. (written + 1)..Len(Writes[current])
        = {written + 1} \cup ((written + 1) + 1)..Len(Writes[current])
    BY <1>1
<1>3. \A i \in ((written + 1) + 1)..Len(Writes[current]) : Writes[current][i] # ClearWrite(tab)
    BY <1>1 DEF Cleared
<1> QED
    BY <1>2, <1>3 DEF Cleared, Write

(* A push replaces every dictionary, and after the first entry it puts only *)
(* entries.                                                                 *)
LEMMA ClearsEvery ==
    ASSUME NEW s \in DeviceStates, NEW tab \in Tables
    PROVE  \E p \in 1..Len(Writes[s]) : Writes[s][p] = ClearWrite(tab)
<1>1. PICK w, n : w = Writes[s] /\ n = Len(PrometheusWrites[s])
    OBVIOUS
<1>2. \E p \in 1..Len(w) : w[p] = ClearWrite(tab)
    BY <1>1, WriteKinds
<1> QED
    BY <1>1, <1>2

LEMMA PutsFollow ==
    ASSUME NEW s \in DeviceStates, NEW p \in 1..Len(Writes[s]), NEW q \in 1..Len(Writes[s]),
           p < q, Writes[s][p].op = "put"
    PROVE  Writes[s][q].op = "put"
<1>1. PICK w, n : w = Writes[s] /\ n = Len(PrometheusWrites[s])
    OBVIOUS
<1>2. \A i, k \in 1..Len(w) : i < k /\ w[i].op = "put" => w[k].op = "put"
    BY <1>1, WriteKinds
<1> QED
    BY <1>1, <1>2

LEMMA TableStep ==
    ASSUME TypeInv, TableInv, [Next]_vars
    PROVE  TableInv'
<1>1. ASSUME UNCHANGED <<table, current, written>> PROVE TableInv'
    BY <1>1 DEF TableInv, LastPuts, PutIn
<1>2. CASE Push
    <2>1. current' \in DeviceStates /\ written' = 0
        BY <1>2 DEF Push
    <2>2. ASSUME NEW tab \in Tables PROVE ~Cleared(tab)'
        <3>1. \E p \in 1..Len(Writes[current']) : Writes[current'][p] = ClearWrite(tab)
            BY <2>1, ClearsEvery
        <3> QED
            BY <2>1, <3>1 DEF Cleared
    <2> QED
        BY <2>2 DEF TableInv, Cleared, ClearWrite
<1>3. CASE Labels
    BY <1>1, <1>3 DEF Labels, loopVars
<1>4. ASSUME NEW tab \in Tables, ~Pushed, Written, Cleared(tab)', table'[tab] = table[tab],
             ~PutIn(tab, written + 1), Write # ClearWrite(tab)
      PROVE  Range(table'[tab]) = {Writes[current'][i].entry : i \in LastPuts(tab)'}
    <2>1. LoopType
        BY DEF TypeInv
    <2>2. Cleared(tab) /\ LastPuts(tab)' = LastPuts(tab) /\ current' = current /\ current # None
        BY <1>4, <2>1, ClearedStep, LastPutsStep, NextWrite DEF Written
    <2> QED
        BY <1>4, <2>2, TableInvIs
<1>5. CASE Set
    <2>1. ~Pushed /\ Written /\ Write.op = "set" /\ table' = table
        BY <1>5 DEF Set
    <2>2. ASSUME NEW tab \in Tables
          PROVE  ~PutIn(tab, written + 1) /\ Write # ClearWrite(tab)
        BY <2>1 DEF PutIn, Write, ClearWrite
    <2>3. \A tab \in Tables : Cleared(tab)' =>
             Range(table'[tab]) = {Writes[current'][i].entry : i \in LastPuts(tab)'}
        BY <1>4, <2>1, <2>2
    <2> QED
        BY <2>3 DEF TableInv, Cleared, ClearWrite
<1>6. CASE Clear
    <2>1. /\ ~Pushed /\ Written /\ Write.op = "clear"
          /\ table' = [table EXCEPT ![Write.tab] = <<>>]
        BY <1>6 DEF Clear
    <2>2. /\ Write = ClearWrite(Write.tab) /\ Write.tab \in Tables /\ DOMAIN table = Tables
          /\ current \in DeviceStates
        BY <2>1, NextWrite, KindFacts DEF TypeInv, TableType
    <2>3. ASSUME NEW tab \in Tables, Cleared(tab)'
          PROVE  Range(table'[tab]) = {Writes[current'][i].entry : i \in LastPuts(tab)'}
        <3>1. ~PutIn(tab, written + 1)
            BY <2>1 DEF PutIn, Write
        <3>2. CASE tab = Write.tab
            <4>1. table'[tab] = <<>> /\ Range(<<>>) = {}
                BY <2>1, <2>2, <3>2 DEF Range
            <4>2. /\ LastPuts(tab)' = LastPuts(tab)
                  /\ written \in Nat /\ written + 1 \in 1..Len(Writes[current])
                BY <2>1, <3>1, LastPutsStep, NextWrite DEF TypeInv
            <4>3. ASSUME NEW i \in LastPuts(tab) PROVE FALSE
                <5>1. i \in 1..Len(Writes[current]) /\ i < written + 1
                    BY <4>2 DEF LastPuts
                <5>2. Writes[current][i].op = "put"
                    BY DEF LastPuts, PutIn
                <5>3. Writes[current][written + 1].op = "put"
                    BY <2>2, <4>2, <5>1, <5>2, PutsFollow
                <5> QED
                    BY <2>1, <5>3 DEF Write
            <4> QED
                BY <4>1, <4>2, <4>3
        <3>3. CASE tab # Write.tab
            <4>1. table'[tab] = table[tab]
                BY <2>1, <2>2, <3>3
            <4>2. Write # ClearWrite(tab)
                BY <3>3 DEF ClearWrite
            <4> QED
                BY <1>4, <2>1, <2>3, <3>1, <4>1, <4>2
        <3> QED
            BY <3>2, <3>3
    <2> QED
        BY <2>3 DEF TableInv, Cleared, ClearWrite
<1>7. CASE Put
    <2> DEFINE e == Write.entry
    <2>1. /\ ~Pushed /\ Written /\ Write.op = "put"
          /\ table' = [table EXCEPT ![Write.tab] = PutEntry(@, e)]
        BY <1>7 DEF Put
    <2>2. Write.tab \in Tables /\ e \in Entries(Write.tab) /\ DOMAIN table = Tables
        BY <2>1, NextWrite, KindFacts DEF TypeInv, TableType
    <2> HIDE DEF e
    <2>3. ASSUME NEW tab \in Tables, Cleared(tab)'
          PROVE  Range(table'[tab]) = {Writes[current'][i].entry : i \in LastPuts(tab)'}
        <3>1. Write # ClearWrite(tab)
            BY <2>1 DEF ClearWrite
        <3>2. CASE tab = Write.tab
            <4>1. PICK d : d = table[tab]
                OBVIOUS
            <4>2. table'[tab] = PutEntry(d, e) /\ d \in Seq(Entries(tab)) /\ e \in Entries(tab)
                BY <2>1, <2>2, <3>2, <4>1 DEF TypeInv, TableType
            <4>3. Range(table'[tab]) = {x \in Range(d) : x[1] # e[1]} \cup {e}
                <5>0. PICK E, y : d \in Seq(E) /\ y \in E /\ y = e
                    BY <4>2
                <5>1. \A x : x \in Range(PutEntry(d, y))
                               <=> (x \in Range(d) /\ x[1] # y[1]) \/ x = y
                    BY <5>0, PutEntryFacts
                <5> QED
                    BY <4>2, <5>0, <5>1
            <4>4. PutIn(tab, written + 1)
                BY <2>1, <3>2 DEF PutIn, Write
            <4>5. /\ LastPuts(tab)' = {i \in LastPuts(tab) : Writes[current][i].entry[1] # e[1]}
                                      \cup {written + 1}
                  /\ Cleared(tab) /\ current' = current /\ current # None
                BY <2>1, <2>3, <3>1, <4>4, LastPutsStep, ClearedStep, NextWrite
                DEF TypeInv, Written, e
            <4>6. Range(d) = {Writes[current][i].entry : i \in LastPuts(tab)}
                BY <4>1, <4>5, TableInvIs
            <4>7. Writes[current][written + 1].entry = e
                BY DEF e, Write
            <4> QED
                BY <4>3, <4>5, <4>6, <4>7
        <3>3. CASE tab # Write.tab
            <4>1. table'[tab] = table[tab]
                BY <2>1, <2>2, <3>3
            <4>2. ~PutIn(tab, written + 1)
                BY <3>3 DEF PutIn, Write
            <4> QED
                BY <1>4, <2>1, <2>3, <3>1, <4>1, <4>2
        <3> QED
            BY <3>2, <3>3
    <2> QED
        BY <2>3 DEF TableInv, Cleared, ClearWrite
<1>8. CASE Scrape \/ Export \/ UNCHANGED vars
    BY <1>1, <1>8 DEF Scrape, Export, vars, loopVars
<1> QED
    BY <1>2, <1>3, <1>5, <1>6, <1>7, <1>8 DEF Next, Loop

LEMMA InitWritten == Init => GaugeInv /\ TableInv
BY DEF Init, GaugeInv, TableInv

LEMMA WrittenInvariant == Spec => [](TypeInv /\ GaugeInv /\ TableInv)
<1>1. Init => TypeInv /\ GaugeInv /\ TableInv
    BY InitType, InitWritten
<1>2. TypeInv /\ GaugeInv /\ TableInv /\ [Next]_vars => (TypeInv /\ GaugeInv /\ TableInv)'
    BY TypeStep, GaugeStep, TableStep
<1> QED
    BY <1>1, <1>2, PTL DEF Spec

(* Between two pushes every gauge has what the last push left. *)
LEMMA PushedGauges ==
    ASSUME TypeInv, GaugeInv, Pushed, current # None, NEW v \in Sets[current]
    PROVE  v.key \in DOMAIN gauge /\ gauge[v.key] = v.value
<1>1. current \in DeviceStates
    BY DEF TypeInv, LoopType
<1>2. PICK w : w = PrometheusWrites[current]
    OBVIOUS
<1>3. PICK p \in DOMAIN w : v = w[p] /\ \A q \in DOMAIN w : q > p => w[q].key # w[p].key
    BY <1>1, <1>2, SetsFacts
<1>4. PICK n : n = Len(PrometheusWrites[current])
    OBVIOUS
<1>5. DOMAIN w = 1..n /\ n \in Nat /\ Len(Writes[current]) \in Nat /\ n <= Len(Writes[current])
    BY <1>1, <1>2, <1>4, WriteKinds
<1>6. p <= written
    BY <1>5 DEF Pushed
<1> QED
    BY <1>2, <1>3, <1>6 DEF GaugeInv

LEMMA Agree ==
    ASSUME TypeInv, GaugeInv, TableInv
    PROVE  ExportersAgree
<1> SUFFICES ASSUME Pushed, current # None
             PROVE  /\ \A w \in Sets[current] : gauge[w.key] = w.value
                    /\ \A i \in Named(current) :
                          {k \in DOMAIN gauge :
                              k[1] = "task_state" /\ k[2] = current.tasks[i].name /\ gauge[k] = 1}
                            = {<<"task_state", current.tasks[i].name, current.tasks[i].state>>}
                    /\ \A tab \in Tables :
                          Range(table[tab]) = {Entry(current.tasks[i], tab) : i \in Named(current)}
    BY DEF ExportersAgree
<1>1. current \in DeviceStates /\ written = Len(Writes[current]) /\ written \in Nat
    BY DEF TypeInv, LoopType, Pushed
<1>2. \A w \in Sets[current] : gauge[w.key] = w.value
    BY PushedGauges
<1>3. ASSUME NEW i \in Named(current)
      PROVE  {k \in DOMAIN gauge :
                 k[1] = "task_state" /\ k[2] = current.tasks[i].name /\ gauge[k] = 1}
               = {<<"task_state", current.tasks[i].name, current.tasks[i].state>>}
    <2> DEFINE t == current.tasks[i]
               key(n) == <<"task_state", t.name, n>>
    <2>1. t \in Task
        BY <1>1, StateFacts DEF Named
    <2>2. ASSUME NEW n \in Range(StateNames)
          PROVE  /\ key(n) \in DOMAIN gauge
                 /\ gauge[key(n)] = IF t.state = n THEN 1 ELSE 0
        <3>1. StateWrite(t, n) \in Sets[current]
            BY <1>1, NamedSets
        <3>2. /\ StateWrite(t, n).key = key(n)
              /\ StateWrite(t, n).value = IF t.state = n THEN 1 ELSE 0
            BY DEF StateWrite
        <3> HIDE DEF key
        <3> QED
            BY <3>1, <3>2, PushedGauges
    <2>3. t.state \in Range(StateNames)
        BY <2>1 DEF Task
    <2>4. /\ key(t.state) \in DOMAIN gauge /\ gauge[key(t.state)] = 1
          /\ key(t.state)[1] = "task_state" /\ key(t.state)[2] = t.name
        BY <2>2, <2>3
    <2>5. ASSUME NEW k \in DOMAIN gauge, k[1] = "task_state", k[2] = t.name, gauge[k] = 1
          PROVE  k = key(t.state)
        <3>1. k \in Key
            BY DEF TypeInv, PromType
        <3>2. PICK n \in Range(StateNames) : k = key(n)
            <4>1. k \notin {<<g>> : g \in Range(DeviceGauges)}
                BY <2>5, FamiliesApart
            <4>2. k \notin Range(TaskGauges) \X Name
                BY <2>5, FamiliesApart
            <4>3. k \in {"task_state"} \X Name \X Range(StateNames)
                BY <3>1, <4>1, <4>2 DEF Key
            <4> QED
                BY <2>5, <4>3
        <3>3. gauge[key(n)] = IF t.state = n THEN 1 ELSE 0
            BY <2>2
        <3> HIDE DEF key
        <3> QED
            BY <2>5, <3>2, <3>3
    <2> HIDE DEF key
    <2>6. {k \in DOMAIN gauge : k[1] = "task_state" /\ k[2] = t.name /\ gauge[k] = 1}
            = {key(t.state)}
        BY <2>4, <2>5
    <2> QED
        BY <2>6 DEF key
<1>4. ASSUME NEW tab \in Tables
      PROVE  Range(table[tab]) = {Entry(current.tasks[i], tab) : i \in Named(current)}
    <2>1. LastPuts(tab) = LastIn(Writes[current], tab)
        BY <1>1 DEF LastPuts, PutIn, LastIn
    <2>2. Cleared(tab)
        BY <1>1 DEF Cleared
    <2>3. Range(table[tab]) = EntriesOf(Writes[current], LastIn(Writes[current], tab))
        BY <2>1, <2>2, TableInvIs DEF EntriesOf
    <2>4. EntriesOf(Writes[current], LastIn(Writes[current], tab)) = NamedEntries(current, tab)
        BY <1>1, NamedWrites
    <2> QED
        BY <2>3, <2>4 DEF NamedEntries
<1> QED
    BY <1>2, <1>3, <1>4

(* Between two packets both exporters show the last state, whatever tasks   *)
(* come, go, change their order or share a name (main.py:91-93).            *)
THEOREM ExportersAlwaysAgree == Spec => []ExportersAgree
BY WrittenInvariant, Agree, PTL

-----------------------------------------------------------------------------
(* What a scrape reads. *)

(* StillFrom for the gauge with the given key *)
KeyFrom(key, states) ==
    /\ key \in DOMAIN gauge
    /\ (\A s \in states : OneWriter(s, key)) =>
          \E s \in states : \E v \in Sets[s] : v.key = key /\ v.value = gauge[key]

LEMMA StillKey == \A w, states : StillFrom(w, states) <=> KeyFrom(w.key, states)
BY DEF StillFrom, KeyFrom

LEMMA KeyFromMore ==
    ASSUME NEW key, NEW A, NEW B, A \subseteq B, KeyFrom(key, A)
    PROVE  KeyFrom(key, B)
BY DEF KeyFrom

(* What a push does to the gauges gives them values of the pushed state. *)
LEMMA KeyFromStep ==
    ASSUME TypeInv, Labels \/ Set \/ gauge' = gauge, NEW key, NEW states,
           current \in states, KeyFrom(key, states)
    PROVE  KeyFrom(key, states)'
<1>1. CASE gauge' = gauge
    BY <1>1 DEF KeyFrom
<1>2. CASE Labels
    <2>1. PICK k : k = Write.key
        OBVIOUS
    <2>2. /\ k \notin DOMAIN gauge
          /\ gauge' = [x \in DOMAIN gauge \cup {k} |-> IF x = k THEN 0 ELSE gauge[x]]
        BY <1>2, <2>1 DEF Labels
    <2>3. key \in DOMAIN gauge' /\ gauge'[key] = gauge[key]
        BY <2>2 DEF KeyFrom
    <2> QED
        BY <2>3 DEF KeyFrom
<1>3. CASE Set
    <2>1. /\ ~Pushed /\ Write.op = "set"
          /\ gauge' = [gauge EXCEPT ![Write.key] = Write.value]
        BY <1>3 DEF Set
    <2>2. DOMAIN gauge' = DOMAIN gauge
        BY <2>1
    <2>3. CASE key # Write.key
        <3>1. key \in DOMAIN gauge' /\ gauge'[key] = gauge[key]
            BY <2>1, <2>3 DEF KeyFrom
        <3> QED
            BY <3>1 DEF KeyFrom
    <2>4. CASE key = Write.key
        <3>1. key \in DOMAIN gauge' /\ gauge'[key] = Write.value
            BY <2>1, <2>4 DEF KeyFrom
        <3>2. ASSUME OneWriter(current, key) PROVE Write \in Sets[current]
            <4>1. LoopType /\ current \in DeviceStates
                BY <2>1, NextWrite DEF TypeInv
            <4>2. PICK w : w = PrometheusWrites[current]
                OBVIOUS
            <4>3. written + 1 \in DOMAIN w /\ Write = w[written + 1]
                BY <2>1, <4>1, <4>2, NextSet
            <4>4. PICK p : p = written + 1
                OBVIOUS
            <4>5. p \in DOMAIN PrometheusWrites[current] /\ PrometheusWrites[current][p] = Write
                BY <4>2, <4>3, <4>4
            <4>6. OneWriter(current, PrometheusWrites[current][p].key)
                BY <2>4, <3>2, <4>5
            <4>7. PrometheusWrites[current][p] \in Sets[current]
                BY <4>1, <4>5, <4>6, OneWriterSets
            <4> QED
                BY <4>5, <4>7
        <3> QED
            BY <2>4, <3>1, <3>2 DEF KeyFrom
    <2> QED
        BY <2>3, <2>4
<1> QED
    BY <1>1, <1>2, <1>3

LEMMA DoneGauges ==
    TypeInv /\ GaugeInv /\ Pushed /\ current # None =>
        \A v \in Sets[current] : v.key \in DOMAIN gauge /\ gauge[v.key] = v.value
BY PushedGauges

(* The states shown and being pushed *)
ShownFrom ==
    shown # None =>
        /\ current # None
        /\ \A w \in Sets[shown] : KeyFrom(w.key, {shown, current})

(* The states the scrape saw *)
SeenFrom ==
    scrape.active /\ scrape.base # None =>
        /\ current \in scrape.seen
        /\ \A w \in Sets[scrape.base] : KeyFrom(w.key, scrape.seen)

NoSample == ~scrape.active => scrape.sample = <<>>

LEMMA FreshInvIs ==
    FreshInv <=> (Pushed => shown = current) /\ ShownFrom /\ SeenFrom /\ NoSample
BY StillKey DEF FreshInv, ShownFrom, SeenFrom, NoSample

LEMMA InitFresh == Init => FreshInv /\ ScrapeFresh
BY DEF Init, FreshInv, ScrapeFresh, Pushed

LEMMA PushFresh ==
    ASSUME TypeInv, GaugeInv, FreshInv, Push
    PROVE  FreshInv'
<1>0. Pushed /\ shown = current /\ ShownFrom /\ SeenFrom /\ NoSample
    BY FreshInvIs DEF Push
<1>1. PICK s \in DeviceStates :
         /\ current' = s
         /\ scrape' = [scrape EXCEPT !.seen = IF scrape.active THEN @ \cup {s} ELSE @]
    BY DEF Push
<1>2. written' = 0 /\ shown' = shown /\ gauge' = gauge
    BY DEF Push, promVars
<1>3. s # None
    BY ExporterAssumption
<1>4. ~Pushed'
    <2>1. PICK w, n : w = Writes[s] /\ n = Len(PrometheusWrites[s])
        OBVIOUS
    <2>2. n \in Nat /\ n > 0 /\ Len(w) \in Nat /\ n <= Len(w)
        BY <2>1, WriteKinds
    <2>3. Len(Writes[s]) # 0
        BY <2>1, <2>2
    <2> QED
        BY <1>1, <1>2, <1>3, <2>3 DEF Pushed
<1>5. ShownFrom'
    <2> SUFFICES ASSUME shown # None, NEW w \in Sets[shown]
                 PROVE  KeyFrom(w.key, {shown, s})'
        BY <1>1, <1>2, <1>3 DEF ShownFrom
    <2>1. w.key \in DOMAIN gauge /\ gauge[w.key] = w.value
        BY <1>0, PushedGauges
    <2> QED
        BY <1>2, <2>1 DEF KeyFrom
<1>6. scrape'.active = scrape.active /\ scrape'.base = scrape.base /\ scrape'.sample = scrape.sample
    BY <1>1 DEF TypeInv, ScrapeType
<1>7. SeenFrom'
    <2> SUFFICES ASSUME scrape.active, scrape.base # None
                 PROVE  /\ s \in scrape'.seen
                        /\ \A w \in Sets[scrape.base] : KeyFrom(w.key, scrape.seen)'
        BY <1>1, <1>6 DEF SeenFrom
    <2>1. PICK A, B : A = scrape.seen /\ B = A \cup {s}
        OBVIOUS
    <2>2. scrape'.seen = B
        BY <1>1, <2>1 DEF TypeInv, ScrapeType
    <2>3. ASSUME NEW w \in Sets[scrape.base] PROVE KeyFrom(w.key, B)'
        <3>1. KeyFrom(w.key, A)
            BY <1>0, <2>1 DEF SeenFrom
        <3>2. KeyFrom(w.key, B)
            BY <2>1, <3>1, KeyFromMore
        <3> QED
            BY <1>2, <3>2 DEF KeyFrom
    <2> QED
        BY <2>1, <2>2, <2>3
<1> QED
    BY <1>0, <1>4, <1>5, <1>6, <1>7, FreshInvIs DEF NoSample, FreshInv, StillFrom, ShownFrom, SeenFrom, KeyFrom

(* A write, and the making of a gauge, which is none *)
LEMMA WriteFresh ==
    ASSUME TypeInv, (TypeInv /\ GaugeInv)', FreshInv,
           ~Pushed, scrape' = scrape, Labels \/ Set \/ gauge' = gauge,
           Written \/ UNCHANGED loopVars
    PROVE  FreshInv'
<1>0. ShownFrom /\ SeenFrom /\ NoSample
    BY FreshInvIs
<1>1. current' = current /\ current # None /\ current \in DeviceStates
    BY NextWrite DEF Written, loopVars, TypeInv
<1>2. Pushed' => shown' = current'
    <2>1. CASE Written
        BY <1>1, <2>1 DEF Pushed, Written
    <2>2. CASE UNCHANGED loopVars
        BY <2>2 DEF Pushed, loopVars
    <2> QED
        BY <2>1, <2>2
<1>3. shown' = shown \/ (shown' = current /\ Pushed')
    BY <1>1 DEF Pushed, Written, loopVars
<1>4. ASSUME NEW key, NEW states, current \in states, KeyFrom(key, states)
      PROVE  KeyFrom(key, states)'
    BY <1>4, KeyFromStep
<1>5. ShownFrom'
    <2>1. CASE shown' = shown
        <3>1. PICK A : A = {shown, current}
            OBVIOUS
        <3>2. A = {shown', current'}
            BY <1>1, <2>1, <3>1
        <3>3. ASSUME shown # None, NEW w \in Sets[shown] PROVE KeyFrom(w.key, A)'
            <4>1. KeyFrom(w.key, A) /\ current \in A
                BY <1>0, <3>1, <3>3 DEF ShownFrom
            <4> QED
                BY <1>4, <4>1
        <3> QED
            BY <1>1, <2>1, <3>2, <3>3 DEF ShownFrom
    <2>2. CASE shown' = current /\ Pushed'
        <3>1. \A v \in Sets[current'] : v.key \in DOMAIN gauge' /\ gauge'[v.key] = v.value
            <4>1. (TypeInv /\ GaugeInv /\ Pushed /\ current # None)'
                BY <1>1, <2>2
            <4>2. (TypeInv /\ GaugeInv /\ Pushed /\ current # None =>
                     \A v \in Sets[current] : v.key \in DOMAIN gauge /\ gauge[v.key] = v.value)'
                BY DoneGauges, PTL
            <4> QED
                BY <4>1, <4>2
        <3> QED
            BY <1>1, <2>2, <3>1 DEF ShownFrom, KeyFrom
    <2> QED
        BY <1>3, <2>1, <2>2
<1>6. SeenFrom'
    <2> SUFFICES ASSUME scrape.active, scrape.base # None
                 PROVE  /\ current \in scrape.seen
                        /\ \A w \in Sets[scrape.base] : KeyFrom(w.key, scrape.seen)'
        BY <1>1 DEF SeenFrom
    <2>1. PICK A : A = scrape.seen
        OBVIOUS
    <2>2. current \in A /\ \A w \in Sets[scrape.base] : KeyFrom(w.key, A)
        BY <1>0, <2>1 DEF SeenFrom
    <2>3. \A w \in Sets[scrape.base] : KeyFrom(w.key, A)'
        BY <1>4, <2>2
    <2> QED
        BY <2>1, <2>2, <2>3
<1> QED
    BY <1>0, <1>2, <1>5, <1>6, FreshInvIs DEF NoSample, FreshInv, StillFrom, ShownFrom, SeenFrom, KeyFrom

LEMMA ScrapeStepFresh ==
    ASSUME TypeInv, FreshInv, Scrape
    PROVE  FreshInv'
<1>0. (Pushed => shown = current) /\ ShownFrom /\ SeenFrom /\ NoSample
    BY FreshInvIs
<1>1. current' = current /\ shown' = shown /\ written' = written /\ gauge' = gauge
    BY DEF Scrape, loopVars, promVars
<1>2. ShownFrom' /\ (Pushed => shown = current)'
    BY <1>0, <1>1 DEF ShownFrom, KeyFrom, Pushed
<1>3. CASE ScrapeBegin
    <2>1. /\ scrape'.active /\ scrape'.base = shown /\ scrape'.seen = {shown, current} \ {None}
        BY <1>3 DEF ScrapeBegin
    <2>2. ASSUME shown # None PROVE scrape'.seen = {shown, current} /\ current # None
        BY <1>0, <2>1, <2>2 DEF ShownFrom
    <2>3. ASSUME shown # None, NEW w \in Sets[shown] PROVE KeyFrom(w.key, {shown, current})'
        BY <1>0, <1>1, <2>3 DEF ShownFrom, KeyFrom
    <2>4. SeenFrom'
        BY <1>1, <2>1, <2>2, <2>3 DEF SeenFrom, KeyFrom
    <2>5. NoSample'
        BY <2>1 DEF NoSample
    <2> QED
        BY <1>2, <2>4, <2>5, FreshInvIs DEF NoSample, FreshInv, StillFrom, ShownFrom, SeenFrom, KeyFrom
<1>4. CASE ScrapeFamily \/ ScrapeGauge
    <2>1. /\ scrape.active /\ scrape'.active /\ scrape'.base = scrape.base
          /\ scrape'.seen = scrape.seen
        BY <1>4 DEF ScrapeFamily, ScrapeGauge, TypeInv, ScrapeType
    <2>2. SeenFrom' /\ NoSample'
        BY <1>0, <1>1, <2>1 DEF SeenFrom, KeyFrom, NoSample
    <2> QED
        BY <1>2, <2>2, FreshInvIs DEF NoSample, FreshInv, StillFrom, ShownFrom, SeenFrom, KeyFrom
<1>5. CASE ScrapeEnd
    <2>1. ~scrape'.active /\ scrape'.sample = <<>>
        BY <1>5 DEF ScrapeEnd, TypeInv, ScrapeType
    <2>2. SeenFrom' /\ NoSample'
        BY <2>1 DEF SeenFrom, NoSample
    <2> QED
        BY <1>2, <2>2, FreshInvIs DEF NoSample, FreshInv, StillFrom, ShownFrom, SeenFrom, KeyFrom
<1> QED
    BY <1>3, <1>4, <1>5 DEF Scrape

LEMMA FreshStep ==
    ASSUME TypeInv, GaugeInv, (TypeInv /\ GaugeInv)', FreshInv, [Next]_vars
    PROVE  FreshInv'
<1>1. CASE Push
    BY <1>1, PushFresh
<1>2. CASE Labels \/ Set \/ Clear \/ Put
    <2>1. /\ ~Pushed /\ scrape' = scrape /\ (Labels \/ Set \/ gauge' = gauge)
          /\ (Written \/ UNCHANGED loopVars)
        BY <1>2 DEF Labels, Set, Clear, Put, promVars
    <2> QED
        BY <2>1, WriteFresh
<1>3. CASE Scrape
    BY <1>3, ScrapeStepFresh
<1>4. CASE Export \/ UNCHANGED vars
    BY <1>4 DEF Export, vars, loopVars, promVars, FreshInv, StillFrom, Pushed
<1> QED
    BY <1>1, <1>2, <1>3, <1>4 DEF Next, Loop

(* ScrapeFresh for a sample of a scrape that began at base and saw states *)
FreshSample(base, states, sample) ==
    sample # <<>> /\ base # None /\ (\A s \in states : OneWriter(s, sample[1])) =>
        ((\E w \in Sets[base] : w.key = sample[1]) =>
            \E s \in states : \E w \in Sets[s] : w.key = sample[1] /\ w.value = sample[2])

LEMMA FreshSampleIs == ScrapeFresh <=> FreshSample(scrape.base, scrape.seen, scrape.sample)
BY DEF ScrapeFresh, FreshSample

LEMMA FreshSampleMore ==
    ASSUME NEW base, NEW sample, NEW A, NEW B, A \subseteq B, FreshSample(base, A, sample)
    PROVE  FreshSample(base, B, sample)
BY DEF FreshSample

LEMMA SampleStep ==
    ASSUME TypeInv, FreshInv, ScrapeFresh, [Next]_vars
    PROVE  ScrapeFresh'
<1>0. FreshSample(scrape.base, scrape.seen, scrape.sample)
    BY FreshSampleIs
<1>1. CASE Push
    <2>1. PICK s \in DeviceStates :
             scrape' = [scrape EXCEPT !.seen = IF scrape.active THEN @ \cup {s} ELSE @]
        BY <1>1 DEF Push
    <2>2. /\ scrape'.base = scrape.base /\ scrape'.sample = scrape.sample
          /\ scrape.seen \subseteq scrape'.seen
        BY <2>1 DEF TypeInv, ScrapeType
    <2>3. PICK b, x, A, B : b = scrape.base /\ x = scrape.sample /\ A = scrape.seen /\ B = scrape'.seen
        OBVIOUS
    <2>4. FreshSample(b, B, x)
        BY <1>0, <2>2, <2>3, FreshSampleMore
    <2> QED
        BY <2>2, <2>3, <2>4 DEF ScrapeFresh, FreshSample
<1>2. CASE ScrapeGauge
    <2>1. PICK k : k = Head(scrape.keys)
        OBVIOUS
    <2>2. /\ scrape.active /\ scrape'.sample = <<k, gauge[k]>>
          /\ scrape'.base = scrape.base /\ scrape'.seen = scrape.seen
        BY <1>2, <2>1 DEF ScrapeGauge, TypeInv, ScrapeType
    <2>3. SeenFrom
        BY FreshInvIs
    <2>4. ASSUME scrape.base # None, NEW w \in Sets[scrape.base], w.key = k,
                 \A s \in scrape.seen : OneWriter(s, k)
          PROVE  \E s \in scrape.seen : \E v \in Sets[s] : v.key = k /\ v.value = gauge[k]
        <3>1. KeyFrom(k, scrape.seen)
            BY <2>2, <2>3, <2>4 DEF SeenFrom
        <3> QED
            BY <2>4, <3>1 DEF KeyFrom
    <2>5. scrape'.sample[1] = k /\ scrape'.sample[2] = gauge[k]
        BY <2>2
    <2>6. FreshSample(scrape.base, scrape.seen, scrape'.sample)
        BY <2>4, <2>5 DEF FreshSample
    <2> QED
        BY <2>2, <2>6 DEF ScrapeFresh, FreshSample
<1>3. CASE ScrapeBegin \/ ScrapeEnd
    <2>1. scrape'.sample = <<>>
        <3>1. CASE ScrapeBegin
            BY <3>1 DEF ScrapeBegin
        <3>2. CASE ScrapeEnd
            BY <3>2 DEF ScrapeEnd, TypeInv, ScrapeType
        <3> QED
            BY <1>3, <3>1, <3>2
    <2> QED
        BY <2>1 DEF ScrapeFresh
<1>4. CASE ScrapeFamily
    <2>1. /\ scrape'.sample = scrape.sample /\ scrape'.base = scrape.base
          /\ scrape'.seen = scrape.seen
        BY <1>4 DEF ScrapeFamily, TypeInv, ScrapeType
    <2> QED
        BY <1>0, <2>1 DEF ScrapeFresh, FreshSample
<1>5. CASE scrape' = scrape
    BY <1>5 DEF ScrapeFresh
<1> QED
    BY <1>1, <1>2, <1>3, <1>4, <1>5
    DEF Next, Loop, Scrape, Export, Labels, Set, Clear, Put, vars

(* Every scrape is fresh, however the threads are scheduled: a gauge that   *)
(* was complete when the scrape began is read with a value of that state or *)
(* of one pushed since (prometheus_exporter.py:98-139).                     *)
THEOREM ScrapesAreFresh == Spec => []ScrapeFresh
<1> DEFINE Inv == TypeInv /\ GaugeInv /\ FreshInv /\ ScrapeFresh
<1>1. Init => Inv
    BY InitType, InitWritten, InitFresh
<1>2. Inv /\ [Next]_vars => Inv'
    <2>1. ASSUME Inv, [Next]_vars PROVE (TypeInv /\ GaugeInv)'
        BY <2>1, TypeStep, GaugeStep
    <2>2. ASSUME Inv, [Next]_vars PROVE FreshInv'
        BY <2>1, <2>2, FreshStep
    <2>3. ASSUME Inv, [Next]_vars PROVE ScrapeFresh'
        BY <2>3, SampleStep
    <2> QED
        BY <2>1, <2>2, <2>3
<1> QED
    BY <1>1, <1>2, PTL DEF Spec

-----------------------------------------------------------------------------
(* What a callback yields. *)

(* The writes to the dictionary that are ahead *)
Left(tab) ==
    {i \in (written + 1)..Len(Writes[current]) :
        Writes[current][i].op \in {"clear", "put"} /\ Writes[current][i].tab = tab}

LEMMA FillingIs ==
    \A tab : Filling(tab) <=> ~Pushed /\ Left(tab) # {}
                              /\ \A i \in Left(tab) : Writes[current][i].op = "put"
BY DEF Filling, Left

(* A new push begins with no dictionary half filled. *)
LEMMA PushNotFilling ==
    ASSUME TypeInv, Push, NEW tab \in Tables
    PROVE  ~Filling(tab)'
<1>1. PICK s \in DeviceStates : current' = s
    BY DEF Push
<1>2. written' = 0
    BY DEF Push
<1>3. PICK p \in 1..Len(Writes[s]) : Writes[s][p] = ClearWrite(tab)
    BY ClearsEvery
<1>4. Writes[s][p].op = "clear" /\ Writes[s][p].tab = tab
    BY <1>3 DEF ClearWrite
<1>5. p \in Left(tab)' /\ Writes[current'][p].op # "put"
    BY <1>1, <1>2, <1>4 DEF Left
<1> QED
    BY <1>5 DEF Filling, Left

(* A dictionary that is not being filled is cleared before it is put to. *)
LEMMA NotFillingStep ==
    ASSUME TypeInv, ~Pushed, Written, NEW tab \in Tables, ~Filling(tab),
           ~(Write.op = "clear" /\ Write.tab = tab)
    PROVE  ~Filling(tab)' /\ ~(Write.op = "put" /\ Write.tab = tab)
<1>1. /\ current \in DeviceStates /\ written \in Nat
      /\ written + 1 \in 1..Len(Writes[current]) /\ Len(Writes[current]) \in Nat
    BY NextWrite DEF TypeInv
<1>2. current' = current /\ written' = written + 1
    BY DEF Written
<1>3. ASSUME Write.op = "put", Write.tab = tab PROVE FALSE
    <2>1. PICK p : p = written + 1
        OBVIOUS
    <2>2. p \in Left(tab) /\ Writes[current][p].op = "put"
        BY <1>1, <1>3, <2>1 DEF Left, Write
    <2>3. PICK q \in Left(tab) : Writes[current][q].op # "put"
        BY <2>2, FillingIs
    <2>4. p \in 1..Len(Writes[current]) /\ q \in 1..Len(Writes[current]) /\ p < q
        <3>1. q \in (written + 1)..Len(Writes[current]) /\ q # p
            BY <2>2, <2>3 DEF Left
        <3> QED
            BY <1>1, <2>1, <3>1
    <2> QED
        BY <1>1, <2>2, <2>3, <2>4, PutsFollow
<1>4. ASSUME NEW i \in Left(tab) PROVE i \in Left(tab)'
    <2>1. i \in (written + 1)..Len(Writes[current])
        BY DEF Left
    <2>2. i # written + 1
        BY <1>3 DEF Left, Write
    <2>3. i \in ((written + 1) + 1)..Len(Writes[current])
        BY <1>1, <2>1, <2>2
    <2> QED
        BY <1>2, <2>3 DEF Left
<1>5. ASSUME NEW i \in Left(tab)' PROVE i \in Left(tab)
    <2>1. i \in ((written + 1) + 1)..Len(Writes[current])
        BY <1>2 DEF Left
    <2>2. i \in (written + 1)..Len(Writes[current])
        BY <1>1, <2>1
    <2> QED
        BY <1>2, <2>2 DEF Left
<1>6. Left(tab)' = Left(tab)
    BY <1>4, <1>5
<1>7. ~Filling(tab)'
    <2>1. Left(tab) = {} \/ \E i \in Left(tab) : Writes[current][i].op # "put"
        BY FillingIs
    <2>2. (Filling(tab) => Left(tab) # {} /\ \A i \in Left(tab) : Writes[current][i].op = "put")'
        BY DEF Filling, Left
    <2> QED
        BY <1>2, <1>6, <2>1, <2>2
<1> QED
    BY <1>3, <1>7

LEMMA InitExport == Init => ExportInv /\ TakenTableWhole
BY DEF Init, NoExport, ExportInv, TakenTableWhole

(* The callback goes on where it was. *)
LEMMA SameExport ==
    ASSUME ExportInv, export' = export,
           export.active /\ export.whole /\ export.live =>
               table'[export.tab] = table[export.tab] /\ ~Filling(export.tab)'
    PROVE  ExportInv'
<1>1. export.active /\ export.whole => Iterated' = Iterated
    BY DEF Iterated
<1> QED
    BY <1>1 DEF ExportInv

LEMMA LoopExport ==
    ASSUME TypeInv, ExportInv, Loop
    PROVE  ExportInv'
<1>1. PICK t : t = export.tab
    OBVIOUS
<1>2. t \in Tables /\ DOMAIN table = Tables
    BY <1>1 DEF TypeInv, ExportType, TableType
<1>3. export.active /\ export.whole /\ export.live => ~Filling(t)
    BY <1>1 DEF ExportInv
<1>4. ASSUME export' = export,
             export.active /\ export.whole /\ export.live =>
                 table'[t] = table[t] /\ ~Filling(t)'
      PROVE  ExportInv'
    BY <1>1, <1>4, SameExport
<1>5. CASE Push
    <2>1. export' = export /\ table' = table
        BY <1>5 DEF Push
    <2> QED
        BY <1>2, <1>4, <1>5, <2>1, PushNotFilling
<1>6. CASE Labels
    <2>1. export' = export /\ table' = table /\ written' = written /\ current' = current
        BY <1>6 DEF Labels, loopVars
    <2>2. Filling(t)' <=> Filling(t)
        BY <2>1 DEF Filling, Pushed
    <2> QED
        BY <1>3, <1>4, <2>1, <2>2
<1>7. CASE Set
    <2>1. export' = export /\ table' = table /\ ~Pushed /\ Written /\ Write.op = "set"
        BY <1>7 DEF Set
    <2> QED
        BY <1>2, <1>3, <1>4, <2>1, NotFillingStep
<1>8. CASE Clear
    <2>1. PICK tab : tab = Write.tab
        OBVIOUS
    <2>2. /\ ~Pushed /\ Written /\ Write.op = "clear"
          /\ table' = [table EXCEPT ![tab] = <<>>]
          /\ export' = IF export.live /\ t = tab
                       THEN [export EXCEPT !.live = FALSE, !.items = table[tab]]
                       ELSE export
        BY <1>1, <1>8, <2>1 DEF Clear
    <2>3. CASE export.live /\ t = tab
        <3>1. /\ ~export'.live /\ export'.items = table[t] /\ export'.active = export.active
              /\ export'.whole = export.whole /\ export'.taken = export.taken
              /\ export'.out = export.out /\ export'.size = export.size
              /\ export'.result = export.result
            BY <2>2, <2>3 DEF TypeInv, ExportType
        <3>2. Iterated' = Iterated
            BY <1>1, <2>3, <3>1 DEF Iterated
        <3> QED
            BY <3>1, <3>2 DEF ExportInv
    <2>4. CASE ~(export.live /\ t = tab)
        <3>1. export' = export
            BY <2>2, <2>4
        <3>2. ASSUME export.active, export.whole, export.live
              PROVE  table'[t] = table[t] /\ ~Filling(t)'
            <4>1. t # tab
                BY <2>4, <3>2
            <4>2. table'[t] = table[t]
                BY <2>2, <4>1
            <4>3. ~Filling(t)'
                BY <1>2, <1>3, <2>1, <2>2, <3>2, <4>1, NotFillingStep
            <4> QED
                BY <4>2, <4>3
        <3> QED
            BY <1>4, <3>1, <3>2
    <2> QED
        BY <2>3, <2>4
<1>9. CASE Put
    <2>1. PICK tab : tab = Write.tab
        OBVIOUS
    <2>2. /\ ~Pushed /\ Written /\ Write.op = "put" /\ export' = export
          /\ table' = [table EXCEPT ![tab] = PutEntry(@, Write.entry)]
        BY <1>9, <2>1 DEF Put
    <2>3. ASSUME export.active, export.whole, export.live
          PROVE  table'[t] = table[t] /\ ~Filling(t)'
        <3>1. ~Filling(t)' /\ t # tab
            BY <1>2, <1>3, <2>1, <2>2, <2>3, NotFillingStep
        <3>2. table'[t] = table[t]
            BY <2>2, <3>1
        <3> QED
            BY <3>1, <3>2
    <2> QED
        BY <1>4, <2>2, <2>3
<1> QED
    BY <1>5, <1>6, <1>7, <1>8, <1>9 DEF Loop

LEMMA CallbackStep ==
    ASSUME TypeInv, ExportInv, Export
    PROVE  ExportInv'
<1>1. table' = table /\ written' = written /\ current' = current
    BY DEF Export, loopVars
<1>2. ASSUME NEW tab PROVE Filling(tab)' <=> Filling(tab)
    BY <1>1 DEF Filling, Pushed
<1>3. CASE ExportBegin
    <2>1. PICK tab \in Tables :
             export' = [active |-> TRUE, tab |-> tab, taken |-> table[tab],
                        whole |-> ~Filling(tab), live |-> TRUE, items |-> <<>>,
                        size |-> Len(table[tab]), out |-> <<>>, result |-> "none"]
        BY <1>3 DEF ExportBegin
    <2>2. Iterated' = table[tab]
        BY <1>1, <2>1 DEF Iterated
    <2>3. export'.whole => ~Filling(tab)'
        BY <1>2, <2>1
    <2>4. /\ export'.tab = tab /\ export'.result = "none" /\ export'.taken = table[tab]
          /\ export'.size = Len(table[tab]) /\ DOMAIN export'.out = {}
        BY <2>1
    <2> QED
        BY <2>2, <2>3, <2>4 DEF ExportInv
<1>4. CASE ExportEntry
    <2>1. PICK x : x = Iterated[Len(export.out) + 1]
        OBVIOUS
    <2>2. /\ export.active /\ Len(export.out) < export.size
          /\ export' = [export EXCEPT !.out = Append(@, x)]
        BY <1>4, <2>1 DEF ExportEntry
    <2>3. /\ export'.active = export.active /\ export'.tab = export.tab
          /\ export'.taken = export.taken /\ export'.whole = export.whole
          /\ export'.live = export.live /\ export'.items = export.items
          /\ export'.size = export.size /\ export'.result = export.result
          /\ export'.out = Append(export.out, x)
        BY <2>2 DEF TypeInv, ExportType
    <2>4. Iterated' = Iterated
        BY <1>1, <2>3 DEF Iterated
    <2>5. export.out \in Seq(Entries(export.tab))
        BY DEF TypeInv, ExportType
    <2>6. PICK o, a : o = export.out /\ a = export.taken
        OBVIOUS
    <2>7. ASSUME export.whole, NEW i \in DOMAIN export'.out
          PROVE  export'.out[i] = export.taken[i]
        <3>1. x = a[Len(o) + 1] /\ \A k \in DOMAIN o : o[k] = a[k]
            BY <2>1, <2>2, <2>6, <2>7 DEF ExportInv
        <3>2. i \in DOMAIN Append(o, x) /\ export'.out[i] = Append(o, x)[i]
            BY <2>3, <2>6, <2>7
        <3>3. PICK E : o \in Seq(E)
            BY <2>5, <2>6
        <3>4. CASE i = Len(o) + 1
            BY <2>6, <3>1, <3>2, <3>3, <3>4
        <3>5. CASE i # Len(o) + 1
            <4>1. i \in DOMAIN o /\ Append(o, x)[i] = o[i]
                BY <3>2, <3>3, <3>5
            <4> QED
                BY <2>6, <3>1, <3>2, <4>1
        <3> QED
            BY <3>4, <3>5
    <2>8. Filling(export.tab)' <=> Filling(export.tab)
        <3>1. PICK t : t = export.tab
            OBVIOUS
        <3>2. Filling(t)' <=> Filling(t)
            BY <1>2
        <3> QED
            BY <2>3, <3>1, <3>2
    <2>9. export.active
        BY <2>2
    <2> QED
        BY <2>3, <2>4, <2>7, <2>8, <2>9 DEF ExportInv
<1>5. CASE ExportEnd
    BY <1>5 DEF ExportEnd, NoExport, ExportInv
<1> QED
    BY <1>3, <1>4, <1>5 DEF Export

LEMMA ExportStep ==
    ASSUME TypeInv, ExportInv, [Next]_vars
    PROVE  ExportInv'
<1>1. CASE Scrape \/ UNCHANGED vars
    BY <1>1 DEF Scrape, vars, loopVars, ExportInv, Iterated, Filling, Pushed
<1> QED
    BY <1>1, LoopExport, CallbackStep DEF Next

LEMMA WholeStep ==
    ASSUME TypeInv, ExportInv, TakenTableWhole, [Next]_vars
    PROVE  TakenTableWhole'
<1>1. CASE Clear
    <2>1. export'.whole = export.whole /\ export'.result = export.result
        BY <1>1 DEF Clear, TypeInv, ExportType
    <2> QED
        BY <2>1 DEF TakenTableWhole
<1>2. CASE ExportBegin
    BY <1>2 DEF ExportBegin, TakenTableWhole
<1>3. CASE ExportEntry
    <2>1. export'.whole = export.whole /\ export'.result = export.result
        BY <1>3 DEF ExportEntry, TypeInv, ExportType
    <2> QED
        BY <2>1 DEF TakenTableWhole
<1>4. CASE ExportEnd
    <2>1. export.active
        BY <1>4 DEF ExportEnd
    <2>2. /\ export'.whole = export.whole
          /\ export'.result = IF Len(Iterated) # export.size THEN "error"
                              ELSE IF export.out = export.taken THEN "all" ELSE "some"
        BY <1>4 DEF ExportEnd, NoExport
    <2>3. ASSUME export.whole PROVE export'.result = "all"
        <3>1. /\ Iterated = export.taken /\ export.size = Len(export.taken)
              /\ \A i \in DOMAIN export.out : export.out[i] = export.taken[i]
            BY <2>1, <2>3 DEF ExportInv
        <3>2. Len(Iterated) = export.size
            BY <3>1
        <3>3. Len(export.out) = Len(export.taken)
            BY <1>4, <3>1, <3>2 DEF ExportEnd
        <3>4. PICK E : export.out \in Seq(E) /\ export.taken \in Seq(E)
            BY DEF TypeInv, ExportType
        <3>5. PICK o, a : o = export.out /\ a = export.taken
            OBVIOUS
        <3>6. /\ o \in Seq(E) /\ a \in Seq(E) /\ Len(o) = Len(a)
              /\ \A i \in DOMAIN o : o[i] = a[i]
            BY <3>1, <3>3, <3>4, <3>5
        <3>7. \A i \in 1..Len(o) : o[i] = a[i]
            BY <3>6
        <3>8. o = a
            BY <3>6, <3>7, SeqEqual
        <3> QED
            BY <2>2, <3>2, <3>5, <3>8
    <2> QED
        BY <2>2, <2>3 DEF TakenTableWhole
<1>5. CASE export' = export
    BY <1>5 DEF TakenTableWhole
<1> QED
    BY <1>1, <1>2, <1>3, <1>4, <1>5
    DEF Next, Loop, Scrape, Export, Push, Labels, Set, Put, vars

(* A callback that took a dictionary between two packets yields all of it,  *)
(* for tables of every length and whatever is pushed while it iterates:     *)
(* the next packet replaces the dictionary before it puts an entry          *)
(* (otlp_exporter.py:166-174, 200-219).                                     *)
THEOREM TakenTablesWhole == Spec => []TakenTableWhole
<1> DEFINE Inv == TypeInv /\ ExportInv /\ TakenTableWhole
<1>1. Init => Inv
    BY InitType, InitExport
<1>2. Inv /\ [Next]_vars => Inv'
    BY TypeStep, ExportStep, WholeStep
<1> QED
    BY <1>1, <1>2, PTL DEF Spec
=============================================================================
