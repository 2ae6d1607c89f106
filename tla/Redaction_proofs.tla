------------------------- MODULE Redaction_proofs --------------------------
(***************************************************************************)
(* Proofs about Redaction, for any keys and however deep details are       *)
(* nested.  redact_mapping recurses over its data: the proofs go by        *)
(* induction over the depth, with sets of numbers in place of predicates,  *)
(* and show first that each recursive function is well defined.            *)
(***************************************************************************)
EXTENDS Redaction, WellFoundedInduction, SequenceTheorems, TLAPS

-----------------------------------------------------------------------------
(* Induction over the natural numbers.                                      *)

LEMMA NatOrder ==
    \E R : IsWellFoundedOn(R, Nat) /\ \A m, n \in Nat : <<m, n>> \in R <=> m < n
<1>1. IsWellFoundedOn(OpToRel(<, Nat), Nat)
  BY NatLessThanWellFounded, Zenon
<1>2. \A m, n \in Nat : <<m, n>> \in OpToRel(<, Nat) <=> m < n
  BY Zenon DEF OpToRel
<1> QED
  BY <1>1, <1>2, Zenon

LEMMA LeastNumber ==
    ASSUME NEW T, T \subseteq Nat, T # {}
    PROVE  \E n \in T : \A m \in T : n <= m
<1>1. PICK R : IsWellFoundedOn(R, Nat) /\ \A m, n \in Nat : <<m, n>> \in R <=> m < n
  BY NatOrder
<1>2. IsWellFoundedOn(R, Nat)
  BY <1>1
<1>3. PICK n \in T : \A m \in T : ~(<<m, n>> \in R)
  BY <1>2, WFMin, Zenon
<1>4. ASSUME NEW m \in T PROVE n <= m
  <2>1. ~(m < n)
    BY <1>1, <1>3
  <2> QED
    BY <2>1
<1> QED
  BY <1>3, <1>4

\* A set of numbers that holds zero and every successor holds them all.
LEMMA NumbersInSet ==
    ASSUME NEW S \in SUBSET Nat, 0 \in S, \A n \in S : n + 1 \in S
    PROVE  S = Nat
<1> SUFFICES ASSUME Nat \ S # {} PROVE FALSE
  OBVIOUS
<1>1. PICK n \in Nat \ S : \A m \in Nat \ S : n <= m
  BY LeastNumber
<1>2. n # 0 /\ n - 1 \in Nat
  BY <1>1
<1>3. n - 1 \in S
  BY <1>1, <1>2
<1> QED
  BY <1>1, <1>3

-----------------------------------------------------------------------------
(* The values nested at most n deep.                                        *)

ValuesTo(V, n) == V = [i \in 0..n |-> IF i = 0 THEN Scalars ELSE Deeper(V[i - 1])]

LEMMA ValuesExtend ==
    ASSUME NEW n \in Nat, NEW V, ValuesTo(V, n)
    PROVE  \E W : ValuesTo(W, n + 1)
<1> DEFINE W == [i \in 0..(n + 1) |-> IF i <= n THEN V[i] ELSE Deeper(V[n])]
<1>1. (\A i \in 0..n : W[i] = V[i]) /\ W[n + 1] = Deeper(V[n])
  OBVIOUS
<1>2. \A i \in 0..n : V[i] = IF i = 0 THEN Scalars ELSE Deeper(V[i - 1])
  BY DEF ValuesTo
<1>3. W = [i \in 0..(n + 1) |-> W[i]]
  OBVIOUS
<1> HIDE DEF W
<1>4. ASSUME NEW i \in 0..(n + 1)
      PROVE  W[i] = IF i = 0 THEN Scalars ELSE Deeper(W[i - 1])
  <2>1. CASE i \in 0..n
    BY <1>1, <1>2, <2>1
  <2>2. CASE i = n + 1
    <3>1. W[i - 1] = V[n]
      BY <1>1, <2>2
    <3> QED
      BY <1>1, <2>2, <3>1
  <2> QED
    BY <2>1, <2>2
<1>5. ValuesTo(W, n + 1)
  BY <1>3, <1>4 DEF ValuesTo
<1> QED
  BY <1>5

LEMMA ValuesDefined == ValuesTo(Values, MaxDepth)
<1> DEFINE S == {n \in Nat : \E V : ValuesTo(V, n)}
<1>1. 0 \in S
  <2>1. ValuesTo([i \in 0..0 |-> Scalars], 0)
    BY DEF ValuesTo
  <2> QED
    BY <2>1
<1>2. \A n \in S : n + 1 \in S
  BY ValuesExtend
<1>3. S = Nat
  <2> HIDE DEF S
  <2>1. S \in SUBSET Nat
    BY DEF S
  <2> QED
    BY <1>1, <1>2, <2>1, NumbersInSet
<1>4. \E V : ValuesTo(V, MaxDepth)
  BY <1>3, MaxDepthAssumption
<1> QED
  BY <1>4, Zenon DEF ValuesTo, Values

LEMMA ValuesAre ==
    Values[0] = Scalars /\ \A n \in 1..MaxDepth : Values[n] = Deeper(Values[n - 1])
BY ValuesDefined, MaxDepthAssumption DEF ValuesTo

LEMMA SeqParts ==
    ASSUME NEW S, NEW s \in Seq(S)
    PROVE  \A i \in DOMAIN s : s[i] \in S
OBVIOUS

LEMMA SeqGrows ==
    ASSUME NEW S, NEW T, S \subseteq T
    PROVE  Seq(S) \subseteq Seq(T)
OBVIOUS

LEMMA DeeperGrows ==
    ASSUME NEW V, NEW W, V \subseteq W
    PROVE  Deeper(V) \subseteq Deeper(W)
<1>1. [key : Keys, value : V] \subseteq [key : Keys, value : W]
  OBVIOUS
<1>2. /\ Seq([key : Keys, value : V]) \subseteq Seq([key : Keys, value : W])
      /\ Seq(V) \subseteq Seq(W)
  BY <1>1, SeqGrows
<1>3. Dicts(V) \subseteq Dicts(W) /\ Lists(V) \subseteq Lists(W)
  BY <1>2 DEF Dicts, Lists
<1> QED
  BY <1>3 DEF Deeper

LEMMA ValuesGrow == \A n \in 1..MaxDepth : Values[n - 1] \subseteq Values[n]
<1> DEFINE S == {n \in Nat : n + 1 <= MaxDepth => Values[n] \subseteq Values[n + 1]}
<1>1. 0 \in S
  BY ValuesAre, MaxDepthAssumption DEF Deeper
<1>2. ASSUME NEW n \in S PROVE n + 1 \in S
  <2> SUFFICES ASSUME n + 2 <= MaxDepth PROVE Values[n + 1] \subseteq Values[n + 2]
    BY MaxDepthAssumption
  <2>1. Values[n] \subseteq Values[n + 1]
    BY <1>2, MaxDepthAssumption
  <2>2. Values[n + 1] = Deeper(Values[n]) /\ Values[n + 2] = Deeper(Values[n + 1])
    BY ValuesAre, MaxDepthAssumption
  <2> QED
    BY <2>1, <2>2, DeeperGrows
<1>3. S = Nat
  <2> HIDE DEF S
  <2>1. S \in SUBSET Nat
    BY DEF S
  <2> QED
    BY <1>1, <1>2, <2>1, NumbersInSet
<1> QED
  <2> SUFFICES ASSUME NEW n \in 1..MaxDepth PROVE Values[n - 1] \subseteq Values[n]
    OBVIOUS
  <2>1. n - 1 \in S /\ n = (n - 1) + 1
    BY <1>3, MaxDepthAssumption
  <2> QED
    BY <2>1, MaxDepthAssumption

LEMMA ValuesInDetails == \A n \in 0..MaxDepth : Values[n] \subseteq Details
<1> DEFINE S == {k \in Nat : k <= MaxDepth => Values[MaxDepth - k] \subseteq Details}
<1>1. 0 \in S
  BY MaxDepthAssumption DEF Details
<1>2. ASSUME NEW k \in S PROVE k + 1 \in S
  <2> SUFFICES ASSUME k + 1 <= MaxDepth PROVE Values[MaxDepth - (k + 1)] \subseteq Details
    BY MaxDepthAssumption
  <2>1. Values[MaxDepth - k] \subseteq Details
    BY <1>2, MaxDepthAssumption
  <2>2. Values[(MaxDepth - k) - 1] \subseteq Values[MaxDepth - k]
    BY ValuesGrow, MaxDepthAssumption
  <2>3. (MaxDepth - k) - 1 = MaxDepth - (k + 1)
    BY MaxDepthAssumption
  <2> QED
    BY <2>1, <2>2, <2>3
<1>3. S = Nat
  <2> HIDE DEF S
  <2>1. S \in SUBSET Nat
    BY DEF S
  <2> QED
    BY <1>1, <1>2, <2>1, NumbersInSet
<1> QED
  <2> SUFFICES ASSUME NEW n \in 0..MaxDepth PROVE Values[n] \subseteq Details
    OBVIOUS
  <2>1. MaxDepth - n \in Nat /\ MaxDepth - n <= MaxDepth /\ MaxDepth - (MaxDepth - n) = n
    BY MaxDepthAssumption
  <2>2. MaxDepth - n \in S
    BY <1>3, <2>1
  <2> QED
    BY <2>1, <2>2

LEMMA ScalarKinds == \A v \in Scalars : v.kind \notin {"dict", "list"}
BY DEF Scalars, Number, Mask

\* A value is a scalar, or its parts are less deep.
LEMMA ValueCases ==
    ASSUME NEW n \in 0..MaxDepth, NEW v \in Values[n]
    PROVE  \/ v \in Scalars
           \/ n > 0 /\ v.kind = "dict" /\ v \in Dicts(Values[n - 1])
           \/ n > 0 /\ v.kind = "list" /\ v \in Lists(Values[n - 1])
<1>1. CASE n = 0
  BY <1>1, ValuesAre
<1>2. CASE n \in 1..MaxDepth
  <2>1. v \in Deeper(Values[n - 1])
    BY <1>2, ValuesAre
  <2> QED
    BY <1>2, <2>1 DEF Deeper, Dicts, Lists
<1> QED
  BY <1>1, <1>2

LEMMA DictParts ==
    ASSUME NEW V, NEW v \in Dicts(V)
    PROVE  /\ v = Dict(v.items) /\ v.items \in Seq([key : Keys, value : V])
           /\ \A i \in DOMAIN v.items :
                 /\ v.items[i] = Item(v.items[i].key, v.items[i].value)
                 /\ v.items[i].key \in Keys
                 /\ v.items[i].value \in V
                 /\ Part(v, i) = v.items[i].value
<1>1. /\ v = [kind |-> "dict", items |-> v.items] /\ v.kind = "dict"
      /\ v.items \in Seq([key : Keys, value : V])
  BY DEF Dicts
<1>2. \A i \in DOMAIN v.items : v.items[i] \in [key : Keys, value : V]
  BY <1>1, SeqParts, Zenon
<1>3. \A x \in [key : Keys, value : V] :
         x = Item(x.key, x.value) /\ x.key \in Keys /\ x.value \in V
  BY DEF Item
<1>4. \A i \in DOMAIN v.items : Part(v, i) = v.items[i].value
  BY <1>1 DEF Part
<1> QED
  BY <1>1, <1>2, <1>3, <1>4 DEF Dict

LEMMA ListParts ==
    ASSUME NEW V, NEW v \in Lists(V)
    PROVE  /\ v = List(v.items) /\ v.items \in Seq(V)
           /\ \A i \in DOMAIN v.items : v.items[i] \in V /\ Part(v, i) = v.items[i]
BY DEF Lists, List, Part

LEMMA PartsWithin ==
    ASSUME NEW V, NEW v \in Dicts(V) \union Lists(V)
    PROVE  \A i \in DOMAIN v.items : Part(v, i) \in V
<1>1. CASE v \in Dicts(V)
  <2> SUFFICES ASSUME NEW i \in DOMAIN v.items PROVE Part(v, i) \in V
    OBVIOUS
  <2>1. v.items[i].value \in V /\ Part(v, i) = v.items[i].value
    BY <1>1, DictParts, Zenon
  <2> QED
    BY <2>1
<1>2. CASE v \in Lists(V)
  <2> SUFFICES ASSUME NEW i \in DOMAIN v.items PROVE Part(v, i) \in V
    OBVIOUS
  <2>1. v.items[i] \in V /\ Part(v, i) = v.items[i]
    BY <1>2, ListParts, Zenon
  <2> QED
    BY <2>1
<1> QED
  BY <1>1, <1>2

LEMMA PartsLessDeep ==
    ASSUME NEW n \in 0..MaxDepth, NEW v \in Values[n], v.kind \in {"dict", "list"}
    PROVE  n > 0 /\ \A i \in DOMAIN v.items : Part(v, i) \in Values[n - 1]
<1>1. n > 0 /\ v \in Dicts(Values[n - 1]) \union Lists(Values[n - 1])
  BY ValueCases, ScalarKinds
<1> QED
  BY <1>1, PartsWithin

\* What holds of a value if it holds of its parts holds of all.
LEMMA DetailsInduction ==
    ASSUME NEW S,
           \A v \in Details :
              (v.kind \in {"dict", "list"} => \A i \in DOMAIN v.items : Part(v, i) \in S)
                => v \in S
    PROVE  Details \subseteq S
<1> DEFINE T == {n \in Nat : n <= MaxDepth => Values[n] \subseteq S}
<1>1. 0 \in T
  <2> SUFFICES ASSUME NEW v \in Values[0] PROVE v \in S
    OBVIOUS
  <2>1. v \in Scalars /\ v \in Details
    BY ValuesAre, ValuesInDetails, MaxDepthAssumption
  <2> QED
    BY <2>1, ScalarKinds
<1>2. ASSUME NEW n \in T PROVE n + 1 \in T
  <2> SUFFICES ASSUME n + 1 <= MaxDepth, NEW v \in Values[n + 1] PROVE v \in S
    OBVIOUS
  <2>1. Values[n] \subseteq S /\ (n + 1) - 1 = n /\ n + 1 \in 0..MaxDepth
    BY <1>2, MaxDepthAssumption
  <2>2. v \in Details
    BY <2>1, ValuesInDetails
  <2>3. v.kind \in {"dict", "list"} => \A i \in DOMAIN v.items : Part(v, i) \in Values[n]
    BY <2>1, PartsLessDeep
  <2> QED
    BY <2>1, <2>2, <2>3
<1>3. T = Nat
  <2> HIDE DEF T
  <2>1. T \in SUBSET Nat
    BY DEF T
  <2> QED
    BY <1>1, <1>2, <2>1, NumbersInSet
<1> QED
  BY <1>3, MaxDepthAssumption DEF Details

-----------------------------------------------------------------------------
(* redact_mapping is well defined: it calls itself on parts only.           *)

DictsTo(n) == {v \in Values[n] : v.kind = "dict"}

RedactsAt(redact, dict) ==
    [more \in ExtraKeys |->
        Dict([i \in DOMAIN dict.items |-> RedactItem(redact, dict.items[i], more)])]

RedactsTo(redact, n) == redact = [dict \in DictsTo(n) |-> RedactsAt(redact, dict)]

LEMMA MemberAgrees ==
    ASSUME NEW n \in 0..MaxDepth, NEW g, NEW h, \A w \in DictsTo(n) : g[w] = h[w],
           NEW w \in Values[n], NEW more
    PROVE  RedactMember(g, w, more) = RedactMember(h, w, more)
BY DEF RedactMember, DictsTo

LEMMA RedactAgrees ==
    ASSUME NEW n \in 1..MaxDepth, NEW g, NEW h, \A w \in DictsTo(n - 1) : g[w] = h[w],
           NEW v \in DictsTo(n)
    PROVE  RedactsAt(g, v) = RedactsAt(h, v)
<1>1. n - 1 \in 0..MaxDepth
  BY MaxDepthAssumption
<1>2. \A i \in DOMAIN v.items : v.items[i].value \in Values[n - 1]
  BY PartsLessDeep DEF DictsTo, Part
<1>3. ASSUME NEW i \in DOMAIN v.items, NEW more
      PROVE  RedactItem(g, v.items[i], more) = RedactItem(h, v.items[i], more)
  <2> DEFINE w == v.items[i].value
             k == v.items[i].key
  <2>1. w \in Values[n - 1]
    BY <1>2
  <2>2. RedactMember(g, w, more) = RedactMember(h, w, more)
    BY <1>1, <2>1, MemberAgrees
  <2>3. ASSUME w.kind = "list", NEW j \in DOMAIN w.items
        PROVE  RedactMember(g, w.items[j], more) = RedactMember(h, w.items[j], more)
    <3>1. n - 1 > 0 /\ Part(w, j) \in Values[(n - 1) - 1] /\ Part(w, j) = w.items[j]
      BY <1>1, <2>1, <2>3, PartsLessDeep DEF Part
    <3>2. w.items[j] \in Values[n - 1]
      <4>1. n - 1 \in 1..MaxDepth
        BY <3>1, MaxDepthAssumption
      <4>2. Values[(n - 1) - 1] \subseteq Values[n - 1]
        BY <4>1, ValuesGrow
      <4> QED
        BY <3>1, <4>2
    <3> QED
      BY <1>1, <3>2, MemberAgrees
  <2>4. RedactValue(g, k, w, more) = RedactValue(h, k, w, more)
    BY <2>2, <2>3 DEF RedactValue, List
  <2> QED
    BY <2>4 DEF RedactItem
<1> QED
  BY <1>3 DEF RedactsAt

LEMMA RedactExtends ==
    ASSUME NEW n \in 0..MaxDepth, n + 1 \in 0..MaxDepth, NEW redact, RedactsTo(redact, n)
    PROVE  \E r : RedactsTo(r, n + 1)
<1> DEFINE r == [dict \in DictsTo(n + 1) |-> RedactsAt(redact, dict)]
<1>1. \A dict \in DictsTo(n + 1) : r[dict] = RedactsAt(redact, dict)
  OBVIOUS
<1>2. \A dict \in DictsTo(n) : redact[dict] = RedactsAt(redact, dict)
  BY DEF RedactsTo
<1>3. DictsTo(n) \subseteq DictsTo(n + 1)
  <2>1. Values[(n + 1) - 1] \subseteq Values[n + 1] /\ (n + 1) - 1 = n
    BY ValuesGrow
  <2> QED
    BY <2>1 DEF DictsTo
<1>4. r = [dict \in DictsTo(n + 1) |-> r[dict]]
  OBVIOUS
<1> HIDE DEF r
<1>5. ASSUME NEW dict \in DictsTo(n + 1) PROVE r[dict] = RedactsAt(r, dict)
  <2>1. \A w \in DictsTo((n + 1) - 1) : redact[w] = r[w]
    BY <1>1, <1>2, <1>3
  <2>2. RedactsAt(redact, dict) = RedactsAt(r, dict)
    BY <2>1, RedactAgrees
  <2> QED
    BY <1>1, <2>2
<1>6. RedactsTo(r, n + 1)
  BY <1>4, <1>5 DEF RedactsTo
<1> QED
  BY <1>6

LEMMA RedactMappingDefined == RedactsTo(RedactMapping, MaxDepth)
<1> DEFINE S == {n \in Nat : n <= MaxDepth => \E r : RedactsTo(r, n)}
<1>1. 0 \in S
  <2>1. DictsTo(0) = {}
    BY ValuesAre, ScalarKinds DEF DictsTo
  <2>2. RedactsTo([dict \in {} |-> 0], 0)
    BY <2>1 DEF RedactsTo
  <2> QED
    BY <2>2
<1>2. ASSUME NEW n \in S PROVE n + 1 \in S
  BY <1>2, RedactExtends, MaxDepthAssumption
<1>3. S = Nat
  <2> HIDE DEF S
  <2>1. S \in SUBSET Nat
    BY DEF S
  <2> QED
    BY <1>1, <1>2, <2>1, NumbersInSet
<1>4. \E r : RedactsTo(r, MaxDepth)
  BY <1>3, MaxDepthAssumption
<1> QED
  BY <1>4, Zenon DEF RedactsTo, RedactsAt, DictsTo, RedactMapping, Mappings, Details

LEMMA RedactMappingIs ==
    ASSUME NEW dict \in Mappings, NEW more \in ExtraKeys
    PROVE  RedactMapping[dict][more] =
             Dict([i \in DOMAIN dict.items |-> RedactItem(RedactMapping, dict.items[i], more)])
<1>1. RedactMapping[dict] = RedactsAt(RedactMapping, dict)
  BY RedactMappingDefined DEF RedactsTo, DictsTo, Mappings, Details
<1> QED
  BY <1>1 DEF RedactsAt

-----------------------------------------------------------------------------
(* The leaves of a value are well defined: they are those of its parts.     *)

LeavesAt(leaves, v) ==
    IF IsNested(v)
    THEN UNION {{Under(v, i, leaf) : leaf \in leaves[Part(v, i)]} : i \in DOMAIN v.items}
    ELSE {[path |-> <<>>, value |-> v]}

LeavesTo(leaves, n) == leaves = [v \in Values[n] |-> LeavesAt(leaves, v)]

LEMMA LeavesAgree ==
    ASSUME NEW n \in 0..MaxDepth, NEW v \in Values[n], NEW g, NEW h,
           n > 0 => \A w \in Values[n - 1] : g[w] = h[w]
    PROVE  LeavesAt(g, v) = LeavesAt(h, v)
<1>1. CASE IsNested(v)
  <2>1. \A i \in DOMAIN v.items : g[Part(v, i)] = h[Part(v, i)]
    BY <1>1, PartsLessDeep DEF IsNested
  <2> DEFINE A(i) == {Under(v, i, leaf) : leaf \in g[Part(v, i)]}
             B(i) == {Under(v, i, leaf) : leaf \in h[Part(v, i)]}
  <2>2. \A i \in DOMAIN v.items : A(i) = B(i)
    BY <2>1, Zenon
  <2>3. /\ LeavesAt(g, v) = UNION {A(i) : i \in DOMAIN v.items}
        /\ LeavesAt(h, v) = UNION {B(i) : i \in DOMAIN v.items}
    BY <1>1, Zenon DEF LeavesAt
  <2> HIDE DEF A, B
  <2>4. {A(i) : i \in DOMAIN v.items} = {B(i) : i \in DOMAIN v.items}
    BY <2>2
  <2> QED
    BY <2>3, <2>4
<1> QED
  BY <1>1 DEF LeavesAt

LEMMA LeavesExtend ==
    ASSUME NEW n \in 0..MaxDepth, n + 1 \in 0..MaxDepth, NEW leaves, LeavesTo(leaves, n)
    PROVE  \E l : LeavesTo(l, n + 1)
<1> DEFINE l == [v \in Values[n + 1] |-> LeavesAt(leaves, v)]
<1>1. \A v \in Values[n + 1] : l[v] = LeavesAt(leaves, v)
  OBVIOUS
<1>2. \A v \in Values[n] : leaves[v] = LeavesAt(leaves, v)
  BY DEF LeavesTo
<1>3. Values[n] \subseteq Values[n + 1] /\ (n + 1) - 1 = n
  <2>1. Values[(n + 1) - 1] \subseteq Values[n + 1] /\ (n + 1) - 1 = n
    BY ValuesGrow
  <2> QED
    BY <2>1
<1>4. l = [v \in Values[n + 1] |-> l[v]]
  OBVIOUS
<1> HIDE DEF l
<1>5. ASSUME NEW v \in Values[n + 1] PROVE l[v] = LeavesAt(l, v)
  <2>1. \A w \in Values[(n + 1) - 1] : leaves[w] = l[w]
    BY <1>1, <1>2, <1>3
  <2>2. LeavesAt(leaves, v) = LeavesAt(l, v)
    BY <2>1, LeavesAgree
  <2> QED
    BY <1>1, <2>2
<1>6. LeavesTo(l, n + 1)
  BY <1>4, <1>5 DEF LeavesTo
<1> QED
  BY <1>6

LEMMA LeavesDefined == LeavesTo(Leaves, MaxDepth)
<1> DEFINE S == {n \in Nat : n <= MaxDepth => \E l : LeavesTo(l, n)}
<1>1. 0 \in S
  <2> DEFINE l == [v \in Values[0] |-> LeavesAt(<<>>, v)]
  <2>1. ASSUME NEW v \in Values[0] PROVE LeavesAt(<<>>, v) = LeavesAt(l, v)
    <3>1. 0 \in 0..MaxDepth
      BY MaxDepthAssumption
    <3> HIDE DEF l
    <3> QED
      BY <3>1, LeavesAgree, 0 > 0 <=> FALSE
  <2>2. LeavesTo(l, 0)
    BY <2>1 DEF LeavesTo
  <2> QED
    BY <2>2
<1>2. ASSUME NEW n \in S PROVE n + 1 \in S
  BY <1>2, LeavesExtend, MaxDepthAssumption
<1>3. S = Nat
  <2> HIDE DEF S
  <2>1. S \in SUBSET Nat
    BY DEF S
  <2> QED
    BY <1>1, <1>2, <2>1, NumbersInSet
<1>4. \E l : LeavesTo(l, MaxDepth)
  BY <1>3, MaxDepthAssumption
<1> QED
  BY <1>4, Zenon DEF LeavesTo, LeavesAt, Leaves, Details

LEMMA LeavesAre == \A v \in Details : Leaves[v] = LeavesAt(Leaves, v)
BY LeavesDefined DEF LeavesTo, Details

LEMMA NestedLeaf ==
    ASSUME NEW v \in Details, IsNested(v), NEW x
    PROVE  x \in Leaves[v] <=>
             \E i \in DOMAIN v.items : \E leaf \in Leaves[Part(v, i)] : x = Under(v, i, leaf)
<1> DEFINE A(i) == {Under(v, i, leaf) : leaf \in Leaves[Part(v, i)]}
<1>1. Leaves[v] = UNION {A(i) : i \in DOMAIN v.items}
  BY LeavesAre, Zenon DEF LeavesAt
<1>2. \A i \in DOMAIN v.items :
         x \in A(i) <=> \E leaf \in Leaves[Part(v, i)] : x = Under(v, i, leaf)
  OBVIOUS
<1> HIDE DEF A
<1>3. x \in UNION {A(i) : i \in DOMAIN v.items} <=> \E i \in DOMAIN v.items : x \in A(i)
  OBVIOUS
<1> QED
  BY <1>1, <1>2, <1>3

LEMMA PlainLeaf ==
    ASSUME NEW v \in Details, ~IsNested(v)
    PROVE  Leaves[v] = {[path |-> <<>>, value |-> v]}
BY LeavesAre DEF LeavesAt

LEMMA DetailsParts ==
    ASSUME NEW v \in Details, IsNested(v), NEW i \in DOMAIN v.items
    PROVE  Part(v, i) \in Details
<1>1. MaxDepth \in 0..MaxDepth /\ v \in Values[MaxDepth] /\ v.kind \in {"dict", "list"}
  BY MaxDepthAssumption DEF Details, IsNested
<1>2. MaxDepth > 0 /\ Part(v, i) \in Values[MaxDepth - 1]
  BY <1>1, PartsLessDeep
<1> QED
  BY <1>2, ValuesInDetails, MaxDepthAssumption

\* A dict or a list of details, and its parts.
LEMMA DetailsKinds ==
    ASSUME NEW v \in Details
    PROVE  /\ v.kind = "dict" => MaxDepth > 0 /\ v \in Dicts(Values[MaxDepth - 1])
           /\ v.kind = "list" => MaxDepth > 0 /\ v \in Lists(Values[MaxDepth - 1])
           /\ v.kind \notin {"dict", "list"} => v \in Scalars
BY ValueCases, ScalarKinds, MaxDepthAssumption DEF Details

LEMMA EmptyItems ==
    ASSUME NEW v \in Details, v.kind \in {"dict", "list"}
    PROVE  v.items = <<>> <=> DOMAIN v.items = {}
<1>1. ASSUME NEW V, v.items \in Seq(V) PROVE v.items = <<>> <=> DOMAIN v.items = {}
  <2>1. Len(v.items) \in Nat /\ DOMAIN v.items = 1..Len(v.items)
    BY <1>1
  <2>2. CASE Len(v.items) = 0
    BY <1>1, <2>1, <2>2
  <2>3. CASE Len(v.items) # 0
    <3>1. 1 \in DOMAIN v.items
      BY <2>1, <2>3
    <3> QED
      BY <3>1
  <2> QED
    BY <2>2, <2>3
<1>2. CASE v.kind = "dict"
  BY <1>1, <1>2, DetailsKinds, DictParts
<1>3. CASE v.kind = "list"
  BY <1>1, <1>3, DetailsKinds, ListParts
<1> QED
  BY <1>2, <1>3

-----------------------------------------------------------------------------
(* What redaction makes of a value that it reaches.                         *)

Reached(v, more) ==
    IF v.kind = "list"
    THEN List([i \in DOMAIN v.items |-> RedactMember(RedactMapping, v.items[i], more)])
    ELSE RedactMember(RedactMapping, v, more)

\* What it makes of the i-th part.
ReachedPart(v, i, more) ==
    IF v.kind = "list" THEN RedactMember(RedactMapping, v.items[i], more)
    ELSE IF IsSensitive(v.items[i].key, more) THEN Mask ELSE Reached(v.items[i].value, more)

LEMMA ScalarReached ==
    ASSUME NEW v \in Scalars, NEW more
    PROVE  /\ v.kind = "text" => Reached(v, more) = Text(0)
           /\ v.kind # "text" => Reached(v, more) = v
           /\ Reached(v, more) \in Scalars
<1>1. Text(0) \in Scalars
  BY DEF Scalars, Text
<1> QED
  BY <1>1, ScalarKinds DEF Reached, RedactMember, RedactText

LEMMA DictReached ==
    ASSUME NEW v \in Details, v.kind = "dict", NEW more \in ExtraKeys
    PROVE  Reached(v, more)
             = Dict([i \in DOMAIN v.items |-> Item(v.items[i].key, ReachedPart(v, i, more))])
<1>1. Reached(v, more) = RedactMapping[v][more]
  BY DEF Reached, RedactMember
<1>2. Reached(v, more)
        = Dict([i \in DOMAIN v.items |-> RedactItem(RedactMapping, v.items[i], more)])
  BY <1>1, RedactMappingIs DEF Mappings
<1>3. \A i \in DOMAIN v.items :
         RedactItem(RedactMapping, v.items[i], more) = Item(v.items[i].key, ReachedPart(v, i, more))
  BY DEF RedactItem, RedactValue, ReachedPart, Reached
<1> QED
  BY <1>2, <1>3

LEMMA ListReached ==
    ASSUME NEW v, v.kind = "list", NEW more
    PROVE  Reached(v, more) = List([i \in DOMAIN v.items |-> ReachedPart(v, i, more)])
BY DEF Reached, ReachedPart

LEMMA SeqMapped ==
    ASSUME NEW S, NEW T, NEW s \in Seq(S), NEW f, f = [i \in DOMAIN s |-> f[i]],
           \A i \in DOMAIN s : f[i] \in T
    PROVE  f \in Seq(T) /\ DOMAIN f = DOMAIN s
<1>1. Len(s) \in Nat /\ DOMAIN s = 1..Len(s)
  OBVIOUS
<1>2. f \in [1..Len(s) -> T]
  BY <1>1
<1> QED
  BY <1>1, <1>2

\* Redaction makes nothing deeper.
LEMMA ReachedValues ==
    ASSUME NEW more \in ExtraKeys
    PROVE  \A n \in 0..MaxDepth : \A v \in Values[n] : Reached(v, more) \in Values[n]
<1> DEFINE T == {n \in Nat : n <= MaxDepth => \A v \in Values[n] : Reached(v, more) \in Values[n]}
<1>1. 0 \in T
  BY ValuesAre, ScalarReached
<1>2. ASSUME NEW n \in T PROVE n + 1 \in T
  <2> SUFFICES ASSUME n + 1 <= MaxDepth, NEW v \in Values[n + 1]
               PROVE  Reached(v, more) \in Values[n + 1]
    OBVIOUS
  <2>1. /\ \A w \in Values[n] : Reached(w, more) \in Values[n]
        /\ n \in 0..MaxDepth /\ (n + 1) - 1 = n /\ n + 1 \in 1..MaxDepth
        /\ n + 1 \in 0..MaxDepth
    BY <1>2, MaxDepthAssumption
  <2>2. Values[n + 1] = Deeper(Values[n])
    BY <2>1, ValuesAre
  <2>3. Scalars \subseteq Values[n]
    <3>1. CASE n = 0
      BY <3>1, ValuesAre
    <3>2. CASE n # 0
      <4>1. n \in 1..MaxDepth
        BY <2>1, <3>2
      <4> QED
        BY <4>1, ValuesAre DEF Deeper
    <3> QED
      BY <3>1, <3>2
  <2>4. v \in Details
    BY <2>1, ValuesInDetails
  <2>5. CASE v \in Scalars
    BY <2>2, <2>5, ScalarReached DEF Deeper
  <2>6. CASE v.kind = "dict" /\ v \in Dicts(Values[n])
    <3> DEFINE f == [i \in DOMAIN v.items |-> Item(v.items[i].key, ReachedPart(v, i, more))]
    <3>1. ASSUME NEW i \in DOMAIN v.items PROVE f[i] \in [key : Keys, value : Values[n]]
      <4>1. v.items[i].key \in Keys /\ v.items[i].value \in Values[n]
        BY <2>6, DictParts, Zenon
      <4>2. Mask \in Values[n]
        BY <2>3 DEF Scalars
      <4>3. ReachedPart(v, i, more) \in Values[n]
        BY <2>1, <2>6, <4>1, <4>2 DEF ReachedPart
      <4> QED
        BY <4>1, <4>3 DEF Item
    <3>2. v.items \in Seq([key : Keys, value : Values[n]])
      BY <2>6, DictParts
    <3>3. f \in Seq([key : Keys, value : Values[n]])
      <4> DEFINE I == [key : Keys, value : Values[n]]
      <4>1. f = [i \in DOMAIN v.items |-> f[i]] /\ v.items \in Seq(I)
        BY <3>2
      <4>2. \A i \in DOMAIN v.items : f[i] \in I
        BY <3>1
      <4> HIDE DEF f, I
      <4>3. f \in Seq(I)
        BY <4>1, <4>2, SeqMapped
      <4> QED
        BY <4>3 DEF I
    <3>4. Reached(v, more) = Dict(f)
      BY <2>4, <2>6, DictReached
    <3> HIDE DEF f
    <3> QED
      BY <2>2, <3>3, <3>4 DEF Deeper, Dicts, Dict
  <2>7. CASE v.kind = "list" /\ v \in Lists(Values[n])
    <3> DEFINE f == [i \in DOMAIN v.items |-> ReachedPart(v, i, more)]
    <3>1. ASSUME NEW i \in DOMAIN v.items PROVE f[i] \in Values[n]
      <4>1. v.items[i] \in Values[n]
        BY <2>7, ListParts, Zenon
      <4>2. v.items[i].kind = "dict" => Reached(v.items[i], more) = f[i]
        BY <2>7 DEF ReachedPart, Reached
      <4>3. Text(0) \in Values[n]
        BY <2>3 DEF Scalars, Text
      <4>4. f[i] = RedactMember(RedactMapping, v.items[i], more)
        BY <2>7 DEF ReachedPart
      <4> HIDE DEF f
      <4>5. CASE v.items[i].kind = "dict"
        BY <2>1, <4>1, <4>2, <4>5
      <4>6. CASE v.items[i].kind # "dict"
        BY <4>1, <4>3, <4>4, <4>6 DEF RedactMember, RedactText
      <4> QED
        BY <4>5, <4>6
    <3>2. v.items \in Seq(Values[n])
      BY <2>7, ListParts
    <3>3. f \in Seq(Values[n])
      <4>1. f = [i \in DOMAIN v.items |-> f[i]]
        OBVIOUS
      <4> HIDE DEF f
      <4> QED
        BY <3>1, <3>2, <4>1, SeqMapped
    <3>4. Reached(v, more) = List(f)
      BY <2>7, ListReached
    <3> HIDE DEF f
    <3> QED
      BY <2>2, <3>3, <3>4 DEF Deeper, Lists, List
  <2> QED
    BY <2>1, <2>5, <2>6, <2>7, ValueCases
<1>3. T = Nat
  <2> HIDE DEF T
  <2>1. T \in SUBSET Nat
    BY DEF T
  <2> QED
    BY <1>1, <1>2, <2>1, NumbersInSet
<1> QED
  BY <1>3

LEMMA ReachedDetails ==
    ASSUME NEW more \in ExtraKeys, NEW v \in Details
    PROVE  Reached(v, more) \in Details
BY ReachedValues, MaxDepthAssumption DEF Details

LEMMA ReachedKinds ==
    ASSUME NEW v \in Details, NEW more \in ExtraKeys
    PROVE  /\ v.kind = "dict" <=> Reached(v, more).kind = "dict"
           /\ v.kind = "list" <=> Reached(v, more).kind = "list"
           /\ v.kind \in {"dict", "list"} => DOMAIN Reached(v, more).items = DOMAIN v.items
<1>1. CASE v.kind = "dict"
  BY <1>1, DictReached DEF Dict
<1>2. CASE v.kind = "list"
  BY <1>2, ListReached DEF List
<1>3. CASE v.kind \notin {"dict", "list"}
  <2>1. Reached(v, more) \in Scalars
    BY <1>3, DetailsKinds, ScalarReached
  <2> QED
    BY <1>3, <2>1, ScalarKinds
<1> QED
  BY <1>1, <1>2, <1>3

-----------------------------------------------------------------------------
(* The payloads.                                                            *)

TypeOK == payload \in Details /\ extra \in ExtraKeys

THEOREM TypeCorrect == Spec => []TypeOK
<1>1. Init => TypeOK
  <2> SUFFICES ASSUME Init PROVE payload \in Details
    BY DEF Init, TypeOK
  <2>1. Details = Deeper(Values[MaxDepth - 1])
    BY ValuesAre, MaxDepthAssumption DEF Details
  <2>2. \A V : <<>> \in Seq(V)
    OBVIOUS
  <2>3. \A V : Dict(<<>>) \in Dicts(V) /\ List(<<>>) \in Lists(V)
    BY <2>2 DEF Dicts, Lists, Dict, List
  <2>4. Number \in Scalars /\ Text(2) \in Scalars
    BY DEF Scalars, Text
  <2> QED
    BY <2>1, <2>3, <2>4 DEF Init, Deeper
<1>2. TypeOK /\ [Next]_vars => TypeOK'
  BY DEF TypeOK, Next, vars
<1> QED
  BY <1>1, <1>2, PTL DEF Spec

\* The mapping of a payload is what redaction makes of it.
LEMMA PayloadReached ==
    ASSUME NEW v \in Details, v.kind = "dict", NEW more
    PROVE  v \in Mappings /\ RedactMapping[v][more] = Reached(v, more)
BY DEF Mappings, Reached, RedactMember

-----------------------------------------------------------------------------
(* Paths, one step longer.                                                  *)

Steps == [key : Keys \union {"member"}, at : Nat]

Cons(step, leaf) == [path |-> <<step>> \o leaf.path, value |-> leaf.value]

LEMMA LongerPath ==
    ASSUME NEW s \in Steps, NEW p \in Seq(Steps)
    PROVE  /\ <<s>> \o p \in Seq(Steps)
           /\ Len(<<s>> \o p) = Len(p) + 1
           /\ (<<s>> \o p)[1] = s
           /\ \A i \in 1..Len(p) : (<<s>> \o p)[i + 1] = p[i]
OBVIOUS

LEMMA FirstSteps ==
    ASSUME NEW s \in Steps, NEW p \in Seq(Steps), NEW k \in 0..Len(p)
    PROVE  SubSeq(<<s>> \o p, 1, k + 1) = <<s>> \o SubSeq(p, 1, k)
OBVIOUS

LEMMA ReachShifts ==
    ASSUME NEW s \in Steps, NEW p \in Seq(Steps), NEW i \in 0..Len(p)
    PROVE  OutOfReach(<<s>> \o p, i + 1) <=>
             \/ i > 0 /\ s.at > 0 /\ p[1].at > 0
             \/ OutOfReach(p, i)
<1> DEFINE q == <<s>> \o p
<1>1. q[1] = s /\ \A j \in 1..Len(p) : q[j + 1] = p[j]
  BY LongerPath
<1>2. Len(p) \in Nat
  OBVIOUS
<1> HIDE DEF q
<1>3. ASSUME OutOfReach(q, i + 1)
      PROVE  (i > 0 /\ s.at > 0 /\ p[1].at > 0) \/ OutOfReach(p, i)
  <2>1. PICK j \in 2..(i + 1) : q[j].at > 0 /\ q[j - 1].at > 0
    BY <1>3 DEF OutOfReach, InList
  <2>2. CASE j = 2
    <3>1. q[2] = p[1]
      BY <1>1, <1>2, <2>2, 1 + 1 = 2
    <3> QED
      BY <1>1, <2>1, <2>2, <3>1
  <2>3. CASE j # 2
    <3>1. j - 1 \in 2..i /\ j - 1 \in 1..Len(p) /\ j - 2 \in 1..Len(p)
      BY <1>2, <2>3
    <3>2. q[(j - 1) + 1] = p[j - 1] /\ q[(j - 2) + 1] = p[j - 2]
      BY <1>1, <3>1
    <3>3. p[j - 1].at > 0 /\ p[(j - 1) - 1].at > 0
      BY <2>1, <3>1, <3>2
    <3> QED
      BY <3>1, <3>3 DEF OutOfReach, InList
  <2> QED
    BY <2>2, <2>3
<1>4. ASSUME i > 0, s.at > 0, p[1].at > 0 PROVE OutOfReach(q, i + 1)
  <2>1. q[2] = p[1] /\ 2 \in 2..(i + 1)
    BY <1>1, <1>2, <1>4, 1 + 1 = 2
  <2> QED
    BY <1>1, <1>4, <2>1, 2 - 1 = 1 DEF OutOfReach, InList
<1>5. ASSUME OutOfReach(p, i) PROVE OutOfReach(q, i + 1)
  <2>1. PICK j \in 2..i : p[j].at > 0 /\ p[j - 1].at > 0
    BY <1>5 DEF OutOfReach, InList
  <2>2. q[j + 1] = p[j] /\ q[(j - 1) + 1] = p[j - 1]
    BY <1>1, <1>2
  <2>3. j + 1 \in 2..(i + 1) /\ (j + 1) - 1 = (j - 1) + 1
    OBVIOUS
  <2>4. q[j + 1].at > 0 /\ q[(j + 1) - 1].at > 0
    BY <2>1, <2>2, <2>3
  <2> QED
    BY <2>3, <2>4 DEF OutOfReach, InList
<1> QED
  BY <1>3, <1>4, <1>5 DEF q

-----------------------------------------------------------------------------
(* What becomes of a leaf, by the first step of its path.                   *)

Masks(path, more) == {i \in 1..Len(path) : MaskedAt(path, i, more)}

LEMMA LeafMasked ==
    ASSUME NEW leaf, leaf.path \in Seq(Steps), NEW more, NEW k \in Masks(leaf.path, more),
           \A j \in Masks(leaf.path, more) : k <= j
    PROVE  Redacted(leaf, more) = [path |-> SubSeq(leaf.path, 1, k), value |-> Mask]
<1> DEFINE M == Masks(leaf.path, more)
           first == CHOOSE i \in M : \A j \in M : i <= j
<1>1. M \subseteq Nat
  BY DEF Masks
<1>2. first \in M /\ \A j \in M : first <= j
  OBVIOUS
<1> HIDE DEF first
<1>3. first = k
  BY <1>1, <1>2
<1>4. M # {} => Redacted(leaf, more) = [path |-> SubSeq(leaf.path, 1, first), value |-> Mask]
  BY Zenon DEF Redacted, Masks, first
<1> QED
  BY <1>3, <1>4

LEMMA LeafKept ==
    ASSUME NEW leaf, NEW more, Masks(leaf.path, more) = {}
    PROVE  Redacted(leaf, more) =
             IF leaf.value.kind = "text" /\ ~OutOfReach(leaf.path, Len(leaf.path))
             THEN [path |-> leaf.path, value |-> Text(0)] ELSE leaf
BY Zenon DEF Redacted, Masks

\* Nothing is out of reach of a step or two, and the mask of a first step is its own.
LEMMA FirstMasked ==
    ASSUME NEW s \in Steps, NEW p \in Seq(Steps), NEW more
    PROVE  MaskedAt(<<s>> \o p, 1, more) <=> s.at = 0 /\ IsSensitive(s.key, more)
<1>1. (<<s>> \o p)[1] = s /\ ~OutOfReach(<<s>> \o p, 1)
  BY LongerPath DEF OutOfReach
<1>2. s.at \in Nat
  <2>1. \A K : \A x \in [key : K, at : Nat] : x.at \in Nat
    OBVIOUS
  <2> QED
    BY <2>1, Zenon DEF Steps
<1> QED
  BY <1>1, <1>2 DEF MaskedAt, InList

\* Under a sensitive key.
LEMMA UnderSensitive ==
    ASSUME NEW s \in Steps, NEW leaf, leaf.path \in Seq(Steps), NEW more,
           s.at = 0, IsSensitive(s.key, more)
    PROVE  Redacted(Cons(s, leaf), more) = [path |-> <<s>>, value |-> Mask]
<1> DEFINE q == <<s>> \o leaf.path
<1>1. Cons(s, leaf).path = q /\ q \in Seq(Steps) /\ Len(q) = Len(leaf.path) + 1
  BY LongerPath DEF Cons
<1>2. MaskedAt(q, 1, more)
  BY FirstMasked
<1>3. Len(leaf.path) \in Nat
  OBVIOUS
<1>4. 1 \in Masks(q, more) /\ \A j \in Masks(q, more) : 1 <= j
  BY <1>1, <1>2, <1>3 DEF Masks
<1>5. SubSeq(q, 1, 1) = <<s>>
  <2>1. SubSeq(q, 1, 0 + 1) = <<s>> \o SubSeq(leaf.path, 1, 0)
    BY <1>3, FirstSteps
  <2>2. SubSeq(leaf.path, 1, 0) = <<>>
    OBVIOUS
  <2>3. <<s>> \o <<>> = <<s>>
    OBVIOUS
  <2> HIDE DEF q
  <2> QED
    BY <2>1, <2>2, <2>3, 0 + 1 = 1
<1> HIDE DEF q
<1> QED
  BY <1>1, <1>4, <1>5, LeafMasked

\* In a list in a list.
LEMMA UnderLists ==
    ASSUME NEW s \in Steps, NEW leaf, leaf.path \in Seq(Steps), NEW more,
           s.at > 0, leaf.path # <<>>, leaf.path[1].at > 0
    PROVE  Redacted(Cons(s, leaf), more) = Cons(s, leaf)
<1> DEFINE p == leaf.path
           q == <<s>> \o leaf.path
<1>1. Cons(s, leaf).path = q /\ Len(q) = Len(p) + 1 /\ Len(p) \in Nat /\ Len(p) > 0
  BY LongerPath DEF Cons
<1>2. \A i \in 1..Len(p) : OutOfReach(q, i + 1)
  BY ReachShifts
<1>3. ~MaskedAt(q, 1, more)
  BY FirstMasked
<1> HIDE DEF p, q
<1>4. \A i \in 1..Len(q) : i # 1 => OutOfReach(q, i)
  <2> SUFFICES ASSUME NEW i \in 1..Len(q), i # 1 PROVE OutOfReach(q, i)
    OBVIOUS
  <2>1. i - 1 \in 1..Len(p) /\ (i - 1) + 1 = i
    BY <1>1
  <2> QED
    BY <1>2, <2>1
<1>5. Masks(q, more) = {} /\ OutOfReach(q, Len(q))
  BY <1>1, <1>3, <1>4 DEF Masks, MaskedAt
<1> QED
  BY <1>1, <1>5, LeafKept

\* Anywhere else.
LEMMA UnderOther ==
    ASSUME NEW s \in Steps, NEW leaf, leaf.path \in Seq(Steps), NEW more,
           s.at = 0 => ~IsSensitive(s.key, more),
           s.at > 0 /\ leaf.path # <<>> => ~(leaf.path[1].at > 0),
           leaf = [path |-> leaf.path, value |-> leaf.value]
    PROVE  Redacted(Cons(s, leaf), more) = Cons(s, Redacted(leaf, more))
<1> DEFINE p == leaf.path
           q == <<s>> \o leaf.path
<1>1. /\ Cons(s, leaf).path = q /\ Cons(s, leaf).value = leaf.value
      /\ Len(q) = Len(p) + 1 /\ Len(p) \in Nat /\ q \in Seq(Steps)
  BY LongerPath DEF Cons
<1>2. \A i \in 0..Len(p) : OutOfReach(q, i + 1) <=> OutOfReach(p, i)
  BY ReachShifts
<1>3. ~MaskedAt(q, 1, more)
  BY FirstMasked
<1>4. \A i \in 1..Len(p) : q[i + 1] = p[i]
  BY LongerPath
<1>5. \A k \in 0..Len(p) : SubSeq(q, 1, k + 1) = <<s>> \o SubSeq(p, 1, k)
  BY FirstSteps
<1>6. p \in Seq(Steps)
  OBVIOUS
<1> HIDE DEF p, q
<1>7. \A i \in 1..Len(p) : MaskedAt(q, i + 1, more) <=> MaskedAt(p, i, more)
  BY <1>1, <1>2, <1>4 DEF MaskedAt, InList
<1>8. \A i : i \in Masks(q, more) <=> i - 1 \in Masks(p, more) /\ i \in Nat
  <2>1. ASSUME NEW i \in Masks(q, more) PROVE i \in Nat /\ i - 1 \in Masks(p, more)
    <3>1. i \in 1..Len(q) /\ MaskedAt(q, i, more) /\ i # 1
      BY <1>3, <2>1 DEF Masks
    <3>2. i - 1 \in 1..Len(p) /\ (i - 1) + 1 = i
      BY <1>1, <3>1
    <3> QED
      BY <1>7, <3>1, <3>2 DEF Masks
  <2>2. ASSUME NEW i \in Nat, i - 1 \in Masks(p, more) PROVE i \in Masks(q, more)
    <3>1. i - 1 \in 1..Len(p) /\ MaskedAt(p, i - 1, more) /\ (i - 1) + 1 = i
      BY <2>2 DEF Masks
    <3>2. i \in 1..Len(q)
      BY <1>1, <3>1
    <3> QED
      BY <1>7, <3>1, <3>2 DEF Masks
  <2> QED
    BY <2>1, <2>2
<1>9. CASE Masks(p, more) = {}
  <2>1. Masks(q, more) = {}
    BY <1>8, <1>9
  <2>2. OutOfReach(q, Len(q)) <=> OutOfReach(p, Len(p))
    BY <1>1, <1>2
  <2>3. Redacted(leaf, more)
          = IF leaf.value.kind = "text" /\ ~OutOfReach(p, Len(p))
            THEN [path |-> p, value |-> Text(0)] ELSE leaf
    BY <1>9, LeafKept DEF p
  <2>4. Redacted(Cons(s, leaf), more)
          = IF leaf.value.kind = "text" /\ ~OutOfReach(q, Len(q))
            THEN [path |-> q, value |-> Text(0)] ELSE Cons(s, leaf)
    BY <1>1, <2>1, LeafKept
  <2>5. CASE leaf.value.kind = "text" /\ ~OutOfReach(p, Len(p))
    <3>1. Redacted(leaf, more) = [path |-> p, value |-> Text(0)]
      BY <2>3, <2>5
    <3>2. Redacted(Cons(s, leaf), more) = [path |-> q, value |-> Text(0)]
      BY <2>2, <2>4, <2>5
    <3> QED
      BY <3>1, <3>2 DEF Cons, p, q
  <2>6. CASE ~(leaf.value.kind = "text" /\ ~OutOfReach(p, Len(p)))
    BY <2>2, <2>3, <2>4, <2>6
  <2> QED
    BY <2>5, <2>6
<1>10. CASE Masks(p, more) # {}
  <2>1. Masks(p, more) \subseteq Nat
    BY DEF Masks
  <2>2. PICK k \in Masks(p, more) : \A j \in Masks(p, more) : k <= j
    BY <1>10, <2>1, LeastNumber
  <2>3. k \in 1..Len(p) /\ (k + 1) - 1 = k /\ k + 1 \in Nat
    BY <2>2 DEF Masks
  <2>4. k + 1 \in Masks(q, more)
    BY <1>8, <2>3
  <2>5. ASSUME NEW j \in Masks(q, more) PROVE k + 1 <= j
    <3>1. j - 1 \in Masks(p, more) /\ j \in Nat
      BY <1>8
    <3> QED
      BY <2>2, <2>3, <3>1
  <2>6. Redacted(leaf, more) = [path |-> SubSeq(p, 1, k), value |-> Mask]
    BY <1>6, <2>2, LeafMasked DEF p
  <2>7. Redacted(Cons(s, leaf), more) = [path |-> SubSeq(q, 1, k + 1), value |-> Mask]
    BY <1>1, <2>4, <2>5, LeafMasked
  <2>8. SubSeq(q, 1, k + 1) = <<s>> \o SubSeq(p, 1, k)
    <3>1. k \in 0..Len(p)
      BY <1>1, <2>3
    <3> QED
      BY <1>5, <3>1
  <2>9. \A x : [path |-> x, value |-> Mask].path = x /\ [path |-> x, value |-> Mask].value = Mask
    OBVIOUS
  <2> QED
    BY <2>6, <2>7, <2>8, <2>9, Zenon DEF Cons
<1> QED
  BY <1>9, <1>10

-----------------------------------------------------------------------------
(* The leaves of details.                                                   *)

LEMMA StepInto ==
    ASSUME NEW v \in Details, IsNested(v), NEW i \in DOMAIN v.items
    PROVE  /\ Into(v, i) \in Steps
           /\ v.kind = "dict" => Into(v, i).at = 0 /\ Into(v, i).key = v.items[i].key
           /\ v.kind = "list" => Into(v, i).at > 0
<1>1. CASE v.kind = "dict"
  <2>1. v.items[i].key \in Keys
    BY <1>1, DetailsKinds, DictParts, Zenon
  <2> QED
    BY <1>1, <2>1 DEF Into, Steps
<1>2. CASE v.kind = "list"
  <2>1. v.items \in Seq(Values[MaxDepth - 1])
    BY <1>2, DetailsKinds, ListParts
  <2>2. i \in Nat /\ i > 0
    BY <2>1
  <2> QED
    BY <1>2, <2>2 DEF Into, Steps
<1> QED
  BY <1>1, <1>2 DEF IsNested

\* A leaf has a path, and every value has one.
LEMMA LeafPaths ==
    \A v \in Details :
       /\ Leaves[v] # {}
       /\ \A leaf \in Leaves[v] :
             leaf.path \in Seq(Steps) /\ leaf = [path |-> leaf.path, value |-> leaf.value]
<1> DEFINE IsLeaf(leaf) ==
             leaf.path \in Seq(Steps) /\ leaf = [path |-> leaf.path, value |-> leaf.value]
           S == {v \in Details : Leaves[v] # {} /\ \A leaf \in Leaves[v] : IsLeaf(leaf)}
<1>1. ASSUME NEW v \in Details,
             v.kind \in {"dict", "list"} => \A i \in DOMAIN v.items : Part(v, i) \in S
      PROVE  v \in S
  <2>1. CASE ~IsNested(v)
    <3>1. Leaves[v] = {[path |-> <<>>, value |-> v]}
      BY <2>1, PlainLeaf
    <3>2. <<>> \in Seq(Steps) /\ IsLeaf([path |-> <<>>, value |-> v])
      OBVIOUS
    <3> HIDE DEF IsLeaf
    <3> QED
      BY <3>1, <3>2
  <2>2. CASE IsNested(v)
    <3>1. \A i \in DOMAIN v.items : Part(v, i) \in S
      BY <1>1, <2>2 DEF IsNested
    <3>2. \E i : i \in DOMAIN v.items
      BY <2>2, EmptyItems DEF IsNested
    <3>3. Leaves[v] # {}
      <4>1. PICK i \in DOMAIN v.items : TRUE
        BY <3>2
      <4>2. PICK leaf \in Leaves[Part(v, i)] : TRUE
        BY <3>1
      <4>3. Under(v, i, leaf) \in Leaves[v]
        BY <2>2, NestedLeaf
      <4> QED
        BY <4>3
    <3>4. ASSUME NEW x \in Leaves[v] PROVE IsLeaf(x)
      <4>1. PICK i \in DOMAIN v.items : \E leaf \in Leaves[Part(v, i)] : x = Under(v, i, leaf)
        BY <2>2, NestedLeaf
      <4>2. PICK leaf \in Leaves[Part(v, i)] : x = Under(v, i, leaf)
        BY <4>1
      <4>3. leaf.path \in Seq(Steps) /\ Into(v, i) \in Steps
        BY <2>2, <3>1, StepInto
      <4>4. <<Into(v, i)>> \o leaf.path \in Seq(Steps)
        BY <4>3, LongerPath
      <4> QED
        BY <4>2, <4>4 DEF Under
    <3> QED
      BY <3>3, <3>4
  <2> QED
    BY <2>1, <2>2
<1>2. Details \subseteq S
  <2> HIDE DEF S
  <2> QED
    BY <1>1, DetailsInduction
<1> QED
  BY <1>2

LEMMA FirstOfLeaf ==
    ASSUME NEW v \in Details, NEW leaf \in Leaves[v]
    PROVE  /\ ~IsNested(v) => leaf.path = <<>>
           /\ IsNested(v) => leaf.path # <<>> /\ (leaf.path[1].at > 0 <=> v.kind = "list")
<1>1. CASE ~IsNested(v)
  BY <1>1, PlainLeaf
<1>2. CASE IsNested(v)
  <2>1. PICK i \in DOMAIN v.items : \E l \in Leaves[Part(v, i)] : leaf = Under(v, i, l)
    BY <1>2, NestedLeaf
  <2>2. PICK l \in Leaves[Part(v, i)] : leaf = Under(v, i, l)
    BY <2>1
  <2>3. l.path \in Seq(Steps)
    BY <1>2, DetailsParts, LeafPaths
  <2>4. /\ Into(v, i) \in Steps
        /\ v.kind = "dict" => Into(v, i).at = 0
        /\ v.kind = "list" => Into(v, i).at > 0
    BY <1>2, StepInto
  <2>5. leaf.path = <<Into(v, i)>> \o l.path
    BY <2>2 DEF Under
  <2>6. leaf.path[1] = Into(v, i) /\ Len(leaf.path) = Len(l.path) + 1 /\ Len(l.path) \in Nat
    BY <2>3, <2>4, <2>5, LongerPath
  <2> QED
    BY <1>2, <2>4, <2>6 DEF IsNested
<1> QED
  BY <1>1, <1>2

-----------------------------------------------------------------------------
(* What redaction hides.                                                    *)

HidesIn(v, more) == Leaves[Reached(v, more)] = {Redacted(leaf, more) : leaf \in Leaves[v]}

\* Where redaction reaches nothing to go into.
LEMMA PlainHides ==
    ASSUME NEW v \in Details, ~IsNested(v), NEW more \in ExtraKeys
    PROVE  /\ HidesIn(v, more)
           /\ v.kind # "text" =>
                Reached(v, more) = v /\ \A leaf \in Leaves[v] : Redacted(leaf, more) = leaf
<1> DEFINE leaf == [path |-> <<>>, value |-> v]
           r    == Reached(v, more)
<1>1. Leaves[v] = {leaf}
  BY PlainLeaf
<1>2. Masks(leaf.path, more) = {} /\ ~OutOfReach(leaf.path, Len(leaf.path))
  BY DEF Masks, OutOfReach
<1>3. Redacted(leaf, more) = IF v.kind = "text" THEN [path |-> <<>>, value |-> Text(0)] ELSE leaf
  <2>1. leaf.path = <<>> /\ leaf.value = v
    OBVIOUS
  <2> HIDE DEF leaf
  <2> QED
    BY <1>2, <2>1, LeafKept
<1>4. CASE v.kind \in {"dict", "list"}
  <2>1. v.items = <<>>
    BY <1>4 DEF IsNested
  <2>2. v = [kind |-> v.kind, items |-> <<>>]
    BY <1>4, <2>1, DetailsKinds, DictParts, ListParts DEF Dict, List
  <2>3. r.kind = v.kind /\ DOMAIN r.items = DOMAIN v.items /\ r \in Details
    BY <1>4, ReachedKinds, ReachedDetails
  <2> HIDE DEF r
  <2>4. r.items = <<>>
    BY <1>4, <2>1, <2>3, EmptyItems
  <2>5. r = [kind |-> r.kind, items |-> r.items]
    BY <1>4, <2>3, DetailsKinds, DictParts, ListParts DEF Dict, List
  <2>6. r = v
    BY <2>2, <2>3, <2>4, <2>5
  <2> QED
    BY <1>1, <1>3, <1>4, <2>6 DEF HidesIn, r
<1>5. CASE v.kind \notin {"dict", "list"}
  <2>1. v \in Scalars
    BY <1>5, DetailsKinds
  <2>2. r = (IF v.kind = "text" THEN Text(0) ELSE v) /\ r \in Scalars
    BY <2>1, ScalarReached
  <2>3. r \in Details /\ ~IsNested(r)
    BY <2>2, ReachedDetails, ScalarKinds DEF IsNested
  <2>4. Leaves[r] = {[path |-> <<>>, value |-> r]}
    <3> HIDE DEF r
    <3> QED
      BY <2>3, PlainLeaf
  <2> QED
    BY <1>1, <1>3, <2>2, <2>4 DEF HidesIn
<1> QED
  BY <1>4, <1>5

\* What becomes of the leaves of a part, in what redaction makes of it.
LEMMA PartHides ==
    ASSUME NEW v \in Details, IsNested(v), NEW more \in ExtraKeys, NEW i \in DOMAIN v.items,
           HidesIn(Part(v, i), more)
    PROVE  \A x :
             (\E leaf \in Leaves[ReachedPart(v, i, more)] : x = Cons(Into(v, i), leaf)) <=>
             (\E leaf \in Leaves[Part(v, i)] : x = Redacted(Cons(Into(v, i), leaf), more))
<1> DEFINE w == Part(v, i)
           s == Into(v, i)
<1>1. w \in Details /\ HidesIn(w, more)
  BY DetailsParts
<1>2. /\ s \in Steps
      /\ v.kind = "dict" => s.at = 0 /\ s.key = v.items[i].key
      /\ v.kind = "list" => s.at > 0
  BY StepInto
<1>3. /\ Leaves[w] # {}
      /\ \A leaf \in Leaves[w] :
            leaf.path \in Seq(Steps) /\ leaf = [path |-> leaf.path, value |-> leaf.value]
  BY <1>1, LeafPaths
<1>4. /\ v.kind = "dict" => w = v.items[i].value
      /\ v.kind = "list" => w = v.items[i]
  BY DEF Part
<1>5. s.at \in Nat
  BY <1>2 DEF Steps
<1> HIDE DEF w, s
<1>6. CASE v.kind = "dict" /\ IsSensitive(v.items[i].key, more)
  <2>1. ReachedPart(v, i, more) = Mask
    BY <1>6 DEF ReachedPart
  <2>2. Leaves[Mask] = {[path |-> <<>>, value |-> Mask]}
    <3>1. Mask \in Scalars /\ ~IsNested(Mask)
      BY DEF Scalars, Mask, IsNested
    <3>2. Mask \in Details
      BY <3>1, ValuesAre, ValuesInDetails, MaxDepthAssumption
    <3> QED
      BY <3>1, <3>2, PlainLeaf
  <2>3. Cons(s, [path |-> <<>>, value |-> Mask]) = [path |-> <<s>>, value |-> Mask]
    <3>1. <<s>> \o <<>> = <<s>>
      OBVIOUS
    <3> QED
      BY <3>1 DEF Cons
  <2>4. \A leaf \in Leaves[w] : Redacted(Cons(s, leaf), more) = [path |-> <<s>>, value |-> Mask]
    BY <1>2, <1>3, <1>6, UnderSensitive
  <2> QED
    BY <1>3, <2>1, <2>2, <2>3, <2>4, Zenon DEF w, s
<1>7. CASE v.kind = "list" /\ w.kind = "list" /\ IsNested(w)
  <2>1. ReachedPart(v, i, more) = w
    BY <1>4, <1>7 DEF ReachedPart, RedactMember
  <2>2. \A leaf \in Leaves[w] : leaf.path # <<>> /\ leaf.path[1].at > 0
    BY <1>1, <1>7, FirstOfLeaf
  <2>3. \A leaf \in Leaves[w] : Redacted(Cons(s, leaf), more) = Cons(s, leaf)
    BY <1>2, <1>3, <1>7, <2>2, UnderLists
  <2> QED
    BY <2>1, <2>3 DEF w, s
<1>8. CASE ~(v.kind = "dict" /\ IsSensitive(v.items[i].key, more))
           /\ ~(v.kind = "list" /\ w.kind = "list" /\ IsNested(w))
  <2>1. ReachedPart(v, i, more) = Reached(w, more)
    <3>1. CASE v.kind = "dict"
      BY <1>4, <1>8, <3>1 DEF ReachedPart
    <3>2. CASE v.kind = "list" /\ w.kind # "list"
      BY <1>4, <3>2 DEF ReachedPart, Reached
    <3>3. CASE v.kind = "list" /\ w.kind = "list"
      <4>1. ~IsNested(w) /\ w.kind # "text"
        BY <1>8, <3>3
      <4>2. Reached(w, more) = w
        BY <1>1, <4>1, PlainHides
      <4> QED
        BY <1>4, <3>3, <4>2 DEF ReachedPart, RedactMember
    <3> QED
      BY <3>1, <3>2, <3>3 DEF IsNested
  <2>2. \A leaf \in Leaves[w] : s.at > 0 /\ leaf.path # <<>> => ~(leaf.path[1].at > 0)
    <3> SUFFICES ASSUME NEW leaf \in Leaves[w], s.at > 0, leaf.path # <<>>
                 PROVE  ~(leaf.path[1].at > 0)
      OBVIOUS
    <3>1. IsNested(w) /\ (leaf.path[1].at > 0 <=> w.kind = "list")
      BY <1>1, FirstOfLeaf
    <3>2. v.kind = "list"
      BY <1>2 DEF IsNested
    <3> QED
      BY <1>8, <3>1, <3>2
  <2>3. s.at = 0 => ~IsSensitive(s.key, more)
    BY <1>2, <1>8 DEF IsNested
  <2>4. \A leaf \in Leaves[w] : Redacted(Cons(s, leaf), more) = Cons(s, Redacted(leaf, more))
    BY <1>2, <1>3, <2>2, <2>3, UnderOther
  <2>5. Leaves[Reached(w, more)] = {Redacted(leaf, more) : leaf \in Leaves[w]}
    BY <1>1 DEF HidesIn
  <2>6. ASSUME NEW leaf \in Leaves[Reached(w, more)]
        PROVE  \E l \in Leaves[w] : Cons(s, leaf) = Redacted(Cons(s, l), more)
    <3>1. PICK l \in Leaves[w] : leaf = Redacted(l, more)
      BY <2>5
    <3> QED
      BY <2>4, <3>1
  <2>7. ASSUME NEW l \in Leaves[w]
        PROVE  \E leaf \in Leaves[Reached(w, more)] : Redacted(Cons(s, l), more) = Cons(s, leaf)
    BY <2>4, <2>5
  <2> QED
    BY <2>1, <2>6, <2>7 DEF w, s
<1> QED
  BY <1>6, <1>7, <1>8 DEF IsNested

LEMMA NestedHides ==
    ASSUME NEW v \in Details, IsNested(v), NEW more \in ExtraKeys,
           \A i \in DOMAIN v.items : HidesIn(Part(v, i), more)
    PROVE  HidesIn(v, more)
<1> DEFINE r == Reached(v, more)
<1>1. /\ r \in Details
      /\ v.kind = "dict" <=> r.kind = "dict"
      /\ v.kind = "list" <=> r.kind = "list"
      /\ DOMAIN r.items = DOMAIN v.items
  BY ReachedDetails, ReachedKinds DEF IsNested
<1>2. IsNested(r)
  <2>1. DOMAIN v.items # {}
    BY EmptyItems DEF IsNested
  <2> HIDE DEF r
  <2> QED
    BY <1>1, <2>1, EmptyItems DEF IsNested
<1>3. ASSUME NEW i \in DOMAIN v.items
      PROVE  Part(r, i) = ReachedPart(v, i, more) /\ Into(r, i) = Into(v, i)
  <2>1. CASE v.kind = "dict"
    <3>1. r = Dict([j \in DOMAIN v.items |-> Item(v.items[j].key, ReachedPart(v, j, more))])
      BY <2>1, DictReached
    <3>2. /\ r.kind = "dict" /\ r.items[i].key = v.items[i].key
          /\ r.items[i].value = ReachedPart(v, i, more)
      BY <3>1 DEF Dict, Item
    <3> HIDE DEF r
    <3> QED
      BY <2>1, <3>2 DEF Part, Into
  <2>2. CASE v.kind = "list"
    <3>1. r = List([j \in DOMAIN v.items |-> ReachedPart(v, j, more)])
      BY <2>2, ListReached
    <3>2. r.kind = "list" /\ r.items[i] = ReachedPart(v, i, more)
      BY <3>1 DEF List
    <3> HIDE DEF r
    <3> QED
      BY <2>2, <3>2 DEF Part, Into
  <2> QED
    BY <2>1, <2>2 DEF IsNested
<1> HIDE DEF r
<1>4. ASSUME NEW x
      PROVE  x \in Leaves[r] <=> \E leaf \in Leaves[v] : x = Redacted(leaf, more)
  <2>1. x \in Leaves[r] <=>
          \E i \in DOMAIN v.items : \E leaf \in Leaves[ReachedPart(v, i, more)] :
             x = Cons(Into(v, i), leaf)
    <3>1. x \in Leaves[r] <=>
            \E i \in DOMAIN r.items : \E leaf \in Leaves[Part(r, i)] : x = Under(r, i, leaf)
      BY <1>1, <1>2, NestedLeaf
    <3>2. \A leaf : \A i \in DOMAIN v.items : Under(r, i, leaf) = Cons(Into(v, i), leaf)
      BY <1>3 DEF Under, Cons
    <3> QED
      BY <1>1, <1>3, <3>1, <3>2
  <2>2. \A i \in DOMAIN v.items :
          (\E leaf \in Leaves[ReachedPart(v, i, more)] : x = Cons(Into(v, i), leaf)) <=>
          (\E leaf \in Leaves[Part(v, i)] : x = Redacted(Cons(Into(v, i), leaf), more))
    BY PartHides
  <2>3. (\E leaf \in Leaves[v] : x = Redacted(leaf, more)) <=>
          \E i \in DOMAIN v.items : \E leaf \in Leaves[Part(v, i)] :
             x = Redacted(Cons(Into(v, i), leaf), more)
    <3>1. \A y : y \in Leaves[v] <=>
            \E i \in DOMAIN v.items : \E leaf \in Leaves[Part(v, i)] : y = Cons(Into(v, i), leaf)
      BY NestedLeaf DEF Under, Cons
    <3>2. ASSUME NEW leaf \in Leaves[v], x = Redacted(leaf, more)
          PROVE  \E i \in DOMAIN v.items : \E l \in Leaves[Part(v, i)] :
                    x = Redacted(Cons(Into(v, i), l), more)
      <4>1. PICK i \in DOMAIN v.items :
               \E l \in Leaves[Part(v, i)] : leaf = Cons(Into(v, i), l)
        BY <3>1
      <4> QED
        BY <3>2, <4>1
    <3>3. ASSUME NEW i \in DOMAIN v.items, NEW l \in Leaves[Part(v, i)],
                 x = Redacted(Cons(Into(v, i), l), more)
          PROVE  \E leaf \in Leaves[v] : x = Redacted(leaf, more)
      <4>1. Cons(Into(v, i), l) \in Leaves[v]
        BY <3>1
      <4> QED
        BY <3>3, <4>1
    <3> QED
      BY <3>2, <3>3
  <2> QED
    BY <2>1, <2>2, <2>3, Zenon
<1>5. Leaves[r] = {Redacted(leaf, more) : leaf \in Leaves[v]}
  BY <1>4
<1> QED
  BY <1>5 DEF HidesIn, r

LEMMA DetailsHide == \A more \in ExtraKeys : \A v \in Details : HidesIn(v, more)
<1> SUFFICES ASSUME NEW more \in ExtraKeys PROVE \A v \in Details : HidesIn(v, more)
  OBVIOUS
<1> DEFINE S == {v \in Details : HidesIn(v, more)}
<1>1. ASSUME NEW v \in Details,
             v.kind \in {"dict", "list"} => \A i \in DOMAIN v.items : Part(v, i) \in S
      PROVE  v \in S
  <2>1. CASE IsNested(v)
    <3>1. \A i \in DOMAIN v.items : HidesIn(Part(v, i), more)
      BY <1>1, <2>1 DEF IsNested
    <3> QED
      BY <2>1, <3>1, NestedHides
  <2>2. CASE ~IsNested(v)
    BY <2>2, PlainHides
  <2> QED
    BY <2>1, <2>2
<1>2. Details \subseteq S
  <2> HIDE DEF S
  <2> QED
    BY <1>1, DetailsInduction
<1> QED
  BY <1>2

\* Redaction hides what its definition by paths says and nothing else, for all
\* keys and details however deep.
THEOREM HidesByPathCorrect == Spec => []HidesByPath
<1>1. TypeOK => HidesByPath
  BY PayloadReached, DetailsHide DEF TypeOK, HidesByPath, HidesIn
<1> QED
  BY <1>1, TypeCorrect, PTL

=============================================================================
