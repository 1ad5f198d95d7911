---------------------------- MODULE StartupProofs ----------------------------
(***************************************************************************)
(* Proofs about Startup, and with it about TomlValue, TomlConfig and       *)
(* FileConfigDataSource.                                                   *)
(*                                                                         *)
(* The first half is about what Dig computes, for every tree and every     *)
(* path: it is a fold over the path, so this is an induction over the      *)
(* path's length.  The second half is the inductive invariant of Startup.  *)
(***************************************************************************)
EXTENDS Startup, FoldProofs

-----------------------------------------------------------------------------
(* Dig, one segment at a time.                                             *)

\* What Dig's loop does with a segment.
Step(cur, segment) == IF AsMap(cur) = Null THEN Null ELSE Get(AsMap(cur), segment)

Digging == INSTANCE FoldProofs WITH Op <- Step

LEMMA DigIsAFold == ASSUME NEW v, NEW path PROVE Dig(v, path) = Digging!Fold(v, path)
  BY DEF Dig, FoldLeft, MapThenFoldSet, Max, Step,
         Digging!Fold, Digging!FoldLeft, Digging!MapThenFoldSet, Digging!Max

LEMMA DigOfNothing == ASSUME NEW v PROVE Dig(v, <<>>) = v
  BY DigIsAFold, Digging!FoldOfNothing

\* Dig on a path is Dig on all but the last segment, and one more turn of the
\* loop with that one.
LEMMA DigOfOneMore ==
  ASSUME NEW v, NEW S, NEW path \in Seq(S), NEW key \in S
  PROVE  Dig(v, Append(path, key)) = Step(Dig(v, path), key)
  BY DigIsAFold, Digging!FoldOfOneMore

-----------------------------------------------------------------------------
(* What is at a path.                                                      *)

\* The paths that lead from p to a node of v.
From(v, p, K) == {q \in Seq(K) : p \o q \in DOMAIN v}

\* What v has at p and below.
At(v, p, K) == [q \in From(v, p, K) |-> v[p \o q]]

\* A sequence and a part of it.
LEMMA Parts ==
  ASSUME NEW K, NEW p \in Seq(K), NEW q \in Seq(K)
  PROVE  /\ p \o q \in Seq(K) /\ Len(p \o q) = Len(p) + Len(q)
         /\ SubSeq(p \o q, 1, Len(p)) = p
         /\ SubSeq(p \o q, Len(p) + 1, Len(p \o q)) = q
         /\ IsPrefix(p, p \o q)
  <1>1. p \o q \in Seq(K) /\ Len(p \o q) = Len(p) + Len(q) /\ Len(p) \in Nat /\ Len(q) \in Nat
    BY ConcatProperties, LenProperties
  <1>2. SubSeq(p, 1, Len(p)) = p /\ SubSeq(q, 1, Len(q)) = q
    BY SubSeqFull
  <1>3. SubSeq(p \o q, 1, Len(p)) = p
    <2>1. SubSeq(p \o q, 1, Len(p)) = SubSeq(p, 1, Len(p))
      BY <1>1, SubSeqOfConcat1
    <2> QED BY <1>2, <2>1
  <1>4. SubSeq(p \o q, Len(p) + 1, Len(p \o q)) = q
    <2>1. SubSeq(p \o q, Len(p) + 1, Len(p) + Len(q)) = SubSeq(q, 1, Len(q))
      BY <1>1, SubSeqOfConcat2
    <2> QED BY <1>1, <1>2, <2>1
  <1>5. IsPrefix(p, p \o q)
    BY <1>1, <1>2, <1>3 DEF IsPrefix
  <1> QED BY <1>1, <1>3, <1>4, <1>5

LEMMA PrefixAndRest ==
  ASSUME NEW K, NEW p \in Seq(K), NEW r \in Seq(K), IsPrefix(p, r)
  PROVE  /\ SubSeq(r, Len(p) + 1, Len(r)) \in Seq(K)
         /\ p \o SubSeq(r, Len(p) + 1, Len(r)) = r
  <1>1. Len(p) \in Nat /\ Len(r) \in Nat /\ Len(p) <= Len(r)
    BY LenProperties DEF IsPrefix
  <1>2. SubSeq(p, 1, Len(p)) = p /\ SubSeq(r, 1, Len(r)) = r
    BY SubSeqFull
  <1>3. SubSeq(r, 1, Len(p)) = p
    BY <1>2 DEF IsPrefix
  <1>4. SubSeq(r, 1, Len(p)) \o SubSeq(r, Len(p) + 1, Len(r)) = SubSeq(r, 1, Len(r))
    <2> DEFINE m == Len(p)
               n == Len(r)
    <2>1. 1 \in 1..n + 1 /\ m \in 1 - 1..n /\ n \in m..n
      BY <1>1
    <2> HIDE DEF m, n
    <2>2. SubSeq(r, 1, m) \o SubSeq(r, m + 1, n) = SubSeq(r, 1, n)
      BY <2>1, ConcatAdjacentSubSeq DEF n
    <2> QED BY <2>2 DEF m, n
  <1>5. SubSeq(r, Len(p) + 1, Len(r)) \in Seq(K)
    BY <1>1, SubSeqProperties
  <1> QED BY <1>2, <1>3, <1>4, <1>5

LEMMA HeadAndRest ==
  ASSUME NEW K, NEW r \in Seq(K), r # <<>>
  PROVE  Head(r) \in K /\ Tail(r) \in Seq(K) /\ <<Head(r)>> \o Tail(r) = r
  <1>1. Len(r) \in Nat /\ Len(r) >= 1
    BY LenProperties, EmptySeq
  <1>2. Head(r) = r[1] /\ Tail(r) = SubSeq(r, 2, Len(r)) /\ SubSeq(r, 1, Len(r)) = r
    BY SubSeqFull, TailIsSubSeq
  <1>3. SubSeq(r, 1, Len(r)) = <<r[1]>> \o SubSeq(r, 2, Len(r))
    BY <1>1, SubSeqRecursiveFirst
  <1> QED BY <1>2, <1>3, HeadTailProperties

LEMMA HeadOfKey ==
  ASSUME NEW K, NEW key \in K, NEW q \in Seq(K)
  PROVE  /\ <<key>> \o q \in Seq(K) /\ <<key>> \o q # <<>>
         /\ Head(<<key>> \o q) = key /\ Tail(<<key>> \o q) = q
  <1>1. <<key>> \in Seq(K) /\ Len(<<key>>) = 1
    OBVIOUS
  <1>2. /\ <<key>> \o q \in Seq(K) /\ Len(<<key>> \o q) = 1 + Len(q) /\ Len(q) \in Nat
        /\ (<<key>> \o q)[1] = key
    BY <1>1, ConcatProperties, LenProperties
  <1>3. <<key>> \o q # <<>>
    BY <1>2
  <1>4. Tail(<<key>> \o q) = SubSeq(<<key>> \o q, 2, Len(<<key>> \o q))
    BY <1>2, <1>3, TailIsSubSeq
  <1>5. SubSeq(<<key>> \o q, 2, Len(<<key>> \o q)) = q
    BY <1>1, Parts
  <1> QED BY <1>2, <1>3, <1>4, <1>5


LEMMA AtIsBelow ==
  ASSUME NEW K, NEW v, DOMAIN v \subseteq Seq(K), NEW p \in Seq(K)
  PROVE  LET below == {q \in DOMAIN v : IsPrefix(p, q)}
         IN  [q \in {SubSeq(r, Len(p) + 1, Len(r)) : r \in below} |-> v[p \o q]] = At(v, p, K)
  <1> DEFINE below == {q \in DOMAIN v : IsPrefix(p, q)}
             rest == {SubSeq(r, Len(p) + 1, Len(r)) : r \in below}
  <1>1. ASSUME NEW q \in rest PROVE q \in From(v, p, K)
    <2>1. PICK r \in below : q = SubSeq(r, Len(p) + 1, Len(r))
      OBVIOUS
    <2>2. r \in Seq(K) /\ r \in DOMAIN v /\ IsPrefix(p, r)
      OBVIOUS
    <2>3. q \in Seq(K) /\ p \o q = r
      BY <2>1, <2>2, PrefixAndRest
    <2> QED BY <2>2, <2>3 DEF From
  <1>2. ASSUME NEW q \in From(v, p, K) PROVE q \in rest
    <2>1. q \in Seq(K) /\ p \o q \in DOMAIN v
      BY DEF From
    <2>2. IsPrefix(p, p \o q) /\ SubSeq(p \o q, Len(p) + 1, Len(p \o q)) = q
      BY <2>1, Parts
    <2> QED BY <2>1, <2>2
  <1>3. rest = From(v, p, K)
    BY <1>1, <1>2
  <1> HIDE DEF rest
  <1>4. [q \in rest |-> v[p \o q]] = At(v, p, K)
    BY <1>3 DEF At
  <1> QED BY <1>4 DEF rest

LEMMA GetIsAt ==
  ASSUME NEW K, NEW m, DOMAIN m \subseteq Seq(K), NEW key \in K
  PROVE  Get(m, key) = At(m, <<key>>, K)
  <1> DEFINE below == {p \in DOMAIN m : p # <<>> /\ Head(p) = key}
             tails == {Tail(p) : p \in below}
  <1>1. ASSUME NEW q \in tails PROVE q \in From(m, <<key>>, K)
    <2>1. PICK p \in below : q = Tail(p)
      OBVIOUS
    <2>2. p \in Seq(K) /\ p \in DOMAIN m /\ p # <<>> /\ Head(p) = key
      OBVIOUS
    <2>3. q \in Seq(K) /\ <<key>> \o q = p
      BY <2>1, <2>2, HeadAndRest
    <2> QED BY <2>2, <2>3 DEF From
  <1>2. ASSUME NEW q \in From(m, <<key>>, K) PROVE q \in tails
    <2>1. q \in Seq(K) /\ <<key>> \o q \in DOMAIN m
      BY DEF From
    <2>2. <<key>> \o q # <<>> /\ Head(<<key>> \o q) = key /\ Tail(<<key>> \o q) = q
      BY <2>1, HeadOfKey
    <2> QED BY <2>1, <2>2
  <1>3. tails = From(m, <<key>>, K)
    BY <1>1, <1>2
  <1>4. Get(m, key) = [q \in tails |-> m[<<key>> \o q]]
    BY DEF Get
  <1> HIDE DEF tails
  <1> QED BY <1>3, <1>4 DEF At

LEMMA AtOfAt ==
  ASSUME NEW K, NEW v, NEW p \in Seq(K), NEW key \in K
  PROVE  At(At(v, p, K), <<key>>, K) = At(v, Append(p, key), K)
  <1>1. <<key>> \in Seq(K) /\ Append(p, key) = p \o <<key>> /\ Append(p, key) \in Seq(K)
    BY AppendIsConcat, AppendProperties
  <1>2. ASSUME NEW q \in Seq(K)
        PROVE  <<key>> \o q \in Seq(K) /\ p \o (<<key>> \o q) = Append(p, key) \o q
    BY <1>1, ConcatProperties, ConcatAssociative
  <1>3. DOMAIN At(v, p, K) = From(v, p, K)
    BY DEF At
  <1>4. From(At(v, p, K), <<key>>, K) = From(v, Append(p, key), K)
    BY <1>2, <1>3 DEF From
  <1>5. ASSUME NEW q \in From(v, Append(p, key), K)
        PROVE  At(v, p, K)[<<key>> \o q] = v[Append(p, key) \o q]
    <2>1. q \in Seq(K) /\ Append(p, key) \o q \in DOMAIN v
      BY DEF From
    <2>2. <<key>> \o q \in From(v, p, K)
      BY <1>2, <2>1 DEF From
    <2> QED BY <1>2, <2>1, <2>2 DEF At
  <1> DEFINE u == At(v, p, K)
  <1> HIDE DEF u
  <1>6. At(u, <<key>>, K) = [q \in From(u, <<key>>, K) |-> u[<<key>> \o q]]
    BY DEF At
  <1>7. At(v, Append(p, key), K) = [q \in From(v, Append(p, key), K) |-> v[Append(p, key) \o q]]
    BY DEF At
  <1> QED BY <1>4, <1>5, <1>6, <1>7 DEF u


-----------------------------------------------------------------------------
(* Dig finds what is at the path.                                          *)

\* IsTree's shape, for keys of any kind.
TreeOver(v, K) ==
    /\ DOMAIN v \subseteq Seq(K)
    /\ v = [q \in DOMAIN v |-> v[q]]
    /\ \A p \in DOMAIN v : \A n \in 0..Len(p) - 1 :
         SubSeq(p, 1, n) \in DOMAIN v /\ v[SubSeq(p, 1, n)].type = "table"

LEMMA NothingIsNull ==
  ASSUME NEW v, NEW p, NEW K, From(v, p, K) = {}
  PROVE  At(v, p, K) = Null
  BY DEF At, Null

LEMMA AtRoot ==
  ASSUME NEW K, NEW v, TreeOver(v, K)
  PROVE  At(v, <<>>, K) = v
  <1>1. \A q \in Seq(K) : <<>> \o q = q
    BY ConcatEmptySeq
  <1>2. From(v, <<>>, K) = DOMAIN v
    BY <1>1 DEF From, TreeOver
  <1>3. \A q \in DOMAIN v : <<>> \o q = q
    BY <1>1 DEF TreeOver
  <1>4. At(v, <<>>, K) = [q \in DOMAIN v |-> v[q]]
    BY <1>2, <1>3 DEF At
  <1> QED BY <1>4 DEF TreeOver

\* What is above a node is a table.
LEMMA AboveIsTable ==
  ASSUME NEW K, NEW v, TreeOver(v, K), NEW p \in Seq(K), NEW q \in Seq(K), p \o q \in DOMAIN v
  PROVE  p \in DOMAIN v /\ (q # <<>> => v[p].type = "table")
  <1>1. CASE q = <<>>
    <2>1. p \o q = p
      BY <1>1, ConcatEmptySeq
    <2> QED BY <1>1, <2>1
  <1>2. CASE q # <<>>
    <2>1. Len(p) \in Nat /\ Len(q) \in Nat /\ Len(q) > 0
      BY <1>2, LenProperties, EmptySeq
    <2>2. Len(p \o q) = Len(p) + Len(q) /\ SubSeq(p \o q, 1, Len(p)) = p
      BY Parts
    <2>3. Len(p) \in 0..Len(p \o q) - 1
      BY <2>1, <2>2
    <2> QED BY <2>2, <2>3 DEF TreeOver
  <1> QED BY <1>1, <1>2

LEMMA StepIsAt ==
  ASSUME NEW K, NEW v, TreeOver(v, K), NEW p \in Seq(K), NEW key \in K
  PROVE  Step(At(v, p, K), key) = At(v, Append(p, key), K)
  <1> DEFINE u == At(v, p, K)
  <1>1. <<key>> \in Seq(K) /\ Append(p, key) = p \o <<key>> /\ Append(p, key) \in Seq(K)
    BY AppendIsConcat, AppendProperties
  <1>2. DOMAIN u = From(v, p, K) /\ DOMAIN u \subseteq Seq(K)
    BY DEF At, From
  <1>3. ASSUME NEW q \in From(v, Append(p, key), K)
        PROVE  p \in DOMAIN v /\ v[p].type = "table"
    <2>1. q \in Seq(K) /\ Append(p, key) \o q \in DOMAIN v
      BY DEF From
    <2>2. p \o (<<key>> \o q) = Append(p, key) \o q
      BY <1>1, <2>1, ConcatAssociative
    <2>3. <<key>> \o q \in Seq(K) /\ <<key>> \o q # <<>>
      BY <2>1, HeadOfKey
    <2> QED BY <2>1, <2>2, <2>3, AboveIsTable
  <1>4. <<>> \in Seq(K) /\ p \o <<>> = p
    BY ConcatEmptySeq
  <1>5. CASE p \in DOMAIN v /\ v[p].type = "table"
    <2>1. <<>> \in DOMAIN u /\ u[<<>>] = v[p]
      BY <1>2, <1>4, <1>5 DEF At, From
    <2>2. DOMAIN Null = {}
      BY DEF Null
    <2>3. u # Null
      BY <2>1, <2>2
    <2> HIDE DEF u
    <2>4. AsMap(u) = u
      BY <1>5, <2>1, <2>3 DEF AsMap, Is
    <2>5. Step(u, key) = Get(u, key)
      BY <2>3, <2>4 DEF Step
    <2>6. Get(u, key) = At(u, <<key>>, K)
      BY <1>2, GetIsAt
    <2> QED BY <2>5, <2>6, AtOfAt DEF u
  <1>6. CASE ~(p \in DOMAIN v /\ v[p].type = "table")
    <2>1. At(v, Append(p, key), K) = Null
      BY <1>3, <1>6, NothingIsNull
    <2>2. AsMap(u) = Null
      <3>1. CASE From(v, p, K) = {}
        <4>1. u = Null
          BY <3>1, NothingIsNull
        <4> HIDE DEF u
        <4> QED BY <4>1 DEF AsMap, Is
      <3>2. CASE From(v, p, K) # {}
        <4>1. p \in DOMAIN v
          BY <3>2, AboveIsTable DEF From
        <4>2. u[<<>>] = v[p]
          BY <1>4, <4>1 DEF At, From
        <4> HIDE DEF u
        <4> QED BY <1>6, <4>1, <4>2 DEF AsMap, Is
      <3> QED BY <3>1, <3>2
    <2> QED BY <2>1, <2>2 DEF Step
  <1> QED BY <1>5, <1>6

LEMMA DigIsAt ==
  ASSUME NEW K, NEW v, TreeOver(v, K), NEW path \in Seq(K)
  PROVE  Dig(v, path) = At(v, path, K)
  <1> DEFINE T == {n \in Nat : \A p \in Seq(K) : Len(p) = n => Dig(v, p) = At(v, p, K)}
  <1>1. 0 \in T
    <2>1. ASSUME NEW p \in Seq(K), Len(p) = 0 PROVE p = <<>>
      BY <2>1, EmptySeq
    <2> QED BY <2>1, DigOfNothing, AtRoot
  <1>2. ASSUME NEW n \in T PROVE n + 1 \in T
    <2>1. n \in Nat /\ \A p \in Seq(K) : Len(p) = n => Dig(v, p) = At(v, p, K)
      OBVIOUS
    <2>2. SUFFICES ASSUME NEW p \in Seq(K), Len(p) = n + 1 PROVE Dig(v, p) = At(v, p, K)
      BY <2>1
    <2>3. PICK s \in Seq(K), key \in K : p = Append(s, key)
      <3>1. p # <<>>
        BY <2>1, <2>2
      <3> QED BY <3>1, SequenceEmptyOrAppend
    <2>4. Len(s) = n
      BY <2>1, <2>2, <2>3, AppendProperties, LenProperties
    <2>5. Dig(v, p) = Step(At(v, s, K), key)
      BY <2>1, <2>3, <2>4, DigOfOneMore
    <2> QED BY <2>3, <2>5, StepIsAt
  <1>3. T = Nat
    <2> HIDE DEF T
    <2>1. T \in SUBSET Nat
      BY DEF T
    <2> QED BY <1>1, <1>2, <2>1, SetInduction
  <1> QED BY <1>3, LenProperties


-----------------------------------------------------------------------------
(* The values that a configuration can have.                               *)

\* What m_root can be: a null pointer, or the tree that Create makes.
IsRoot(v) ==
    /\ TreeOver(v, Key)
    /\ \A p \in DOMAIN v : v[p].type = "integer" => v[p].value \in Int

LEMMA NullIsRoot == IsRoot(Null)
  <1>1. DOMAIN Null = {} /\ Null = [q \in {} |-> Null[q]]
    BY DEF Null
  <1> QED BY <1>1 DEF IsRoot, TreeOver

LEMMA CreateIsRoot ==
  ASSUME NEW table, IsTable(table)
  PROVE  IsRoot(Create(table))
  <1> DEFINE v == Create(table)
  <1>1. DOMAIN v = Kept(table) /\ v = [q \in DOMAIN v |-> v[q]] /\ \A p \in DOMAIN v : v[p] = table[p]
    BY DEF Create
  <1>2. DOMAIN v \subseteq DOMAIN table
    BY <1>1 DEF Kept
  <1>3. \A p \in DOMAIN table : table[p].type = "table" => p \in DOMAIN v
    BY <1>1 DEF Kept, NodeToVariant, VariantType
  <1> HIDE DEF v
  <1>4. DOMAIN v \subseteq Seq(Key)
    BY <1>2 DEF IsTable, IsTree
  <1>5. ASSUME NEW p \in DOMAIN v, NEW n \in 0..Len(p) - 1
        PROVE  SubSeq(p, 1, n) \in DOMAIN v /\ v[SubSeq(p, 1, n)].type = "table"
    <2>1. SubSeq(p, 1, n) \in DOMAIN table /\ table[SubSeq(p, 1, n)].type = "table"
      BY <1>2 DEF IsTable, IsTree
    <2> QED BY <1>1, <1>3, <2>1
  <1>6. \A p \in DOMAIN v : v[p].type = "integer" => v[p].value \in Int
    BY <1>1, <1>2 DEF IsTable, IsTree
  <1>7. TreeOver(v, Key)
    BY <1>1, <1>4, <1>5 DEF TreeOver
  <1> QED BY <1>6, <1>7 DEF IsRoot, v

\* AsInt64 gives an integer for what is at any path.
LEMMA AtIsInteger ==
  ASSUME NEW K, NEW v, TreeOver(v, K), NEW p \in Seq(K),
         \A q \in DOMAIN v : v[q].type = "integer" => v[q].value \in Int
  PROVE  AsInt64(At(v, p, K)) \in Int
  <1> DEFINE u == At(v, p, K)
  <1>1. CASE From(v, p, K) = {}
    <2>1. u = Null
      BY <1>1, NothingIsNull
    <2> HIDE DEF u
    <2>2. AsInt64(u) = 0
      BY <2>1 DEF AsInt64, Is
    <2> QED BY <2>2 DEF u
  <1>2. CASE From(v, p, K) # {}
    <2>1. p \in DOMAIN v
      BY <1>2, AboveIsTable DEF From
    <2>2. <<>> \in Seq(K) /\ p \o <<>> = p
      BY ConcatEmptySeq
    <2>3. u[<<>>] = v[p]
      BY <2>1, <2>2 DEF At, From
    <2> HIDE DEF u
    <2>4. AsInt64(u) \in Int
      BY <2>1, <2>3 DEF AsInt64, Is
    <2> QED BY <2>4 DEF u
  <1> QED BY <1>1, <1>2

LEMMA SettingIsInteger ==
  ASSUME NEW K, NEW v, TreeOver(v, K), NEW section \in K, NEW key \in K,
         \A q \in DOMAIN v : v[q].type = "integer" => v[q].value \in Int
  PROVE  AsInt64(Get(Dig(v, <<section>>), key)) \in Int
  <1>1. <<section>> \in Seq(K)
    OBVIOUS
  <1>2. Dig(v, <<section>>) = At(v, <<section>>, K)
    BY <1>1, DigIsAt
  <1>3. DOMAIN At(v, <<section>>, K) \subseteq Seq(K)
    BY DEF At, From
  <1>4. Get(At(v, <<section>>, K), key) = At(At(v, <<section>>, K), <<key>>, K)
    BY <1>3, GetIsAt
  <1>5. At(At(v, <<section>>, K), <<key>>, K) = At(v, Append(<<section>>, key), K)
    BY <1>1, AtOfAt
  <1>6. Append(<<section>>, key) \in Seq(K)
    BY <1>1, AppendProperties
  <1> QED BY <1>2, <1>4, <1>5, <1>6, AtIsInteger

LEMMA CutToWidth ==
  ASSUME NEW x \in Int, NEW d \in Nat \ {0}
  PROVE  x % d \in 0..d - 1
  OBVIOUS

\* What ServerConfig parses of the server's section is in range.
LEMMA SettingsInRange ==
  ASSUME NEW v, IsRoot(v)
  PROVE  ParseServerConfigFromValue(Dig(v, <<"server">>)) \in ServerConfigData
  <1> DEFINE Setting(key) == AsInt64(Get(Dig(v, <<"server">>), key))
  <1>1. ASSUME NEW key \in Key PROVE Setting(key) \in Int
    <2>1. "server" \in Key
      BY KeyAssumption
    <2> QED BY <2>1, SettingIsInteger, Zenon DEF IsRoot
  <1>2. Setting("num_workers") \in Int /\ Setting("port") \in Int /\ Setting("tls_port") \in Int
    BY <1>1, KeyAssumption
  <1> HIDE DEF Setting
  <1>3. 2 ^ WorkerBits \in Nat \ {0} /\ 2 ^ PortBits \in Nat \ {0}
    BY WidthAssumption, Zenon
  <1>4. /\ Setting("num_workers") % 2 ^ WorkerBits \in 0..2 ^ WorkerBits - 1
        /\ Setting("port") % 2 ^ PortBits \in 0..2 ^ PortBits - 1
        /\ Setting("tls_port") % 2 ^ PortBits \in 0..2 ^ PortBits - 1
    BY <1>2, <1>3, CutToWidth, Zenon
  <1> QED BY <1>4, Zenon DEF Setting, ParseServerConfigFromValue, ServerConfigData

-----------------------------------------------------------------------------
(* Startup's state.                                                        *)

\* Nobody has a node before main has a ServerConfig.
NoNodesYet ==
    main \in {"start", "watcher", "checked", "sourced", "configured"} => Alive = {}

-----------------------------------------------------------------------------
(* TomlConfig.                                                             *)

ConfigInv ==
    /\ ConfigTypeOK
    /\ IsRoot(m_root)
    /\ EveryLiveNodeIsCached
    /\ StaleOnlyIfPinned

LEMMA ConfigStutters == ConfigInv /\ UNCHANGED configVars => ConfigInv'
  BY DEF ConfigInv, ConfigTypeOK, EveryLiveNodeIsCached, StaleOnlyIfPinned, configVars, Alive

\* GetNode disturbs no node that is alive, and returns one that is or none.
LEMMA GetNodeKeeps ==
  ASSUME ConfigInv, NEW p \in Path, NEW id \in NodeId \cup {NoNode}, GetNode(p, id),
         UNCHANGED <<m_root, pinned>>
  PROVE  /\ ConfigInv'
         /\ Alive \subseteq Alive' /\ \A i \in Alive : nodes'[i] = nodes[i]
         /\ \A q \in Path : Cached(q) => Cached(q)' /\ m_nodes'[q] = m_nodes[q]
         /\ id # NoNode => /\ id \in Alive' /\ Cached(p)' /\ m_nodes'[p] = id
                           /\ Alive = {} => nodes'[id].value = Dig(m_root, p)
  <1> USE NodeAssumption
  <1>1. Alive \subseteq NodeId /\ DOMAIN nodes = NodeId
    BY DEF Alive, ConfigInv, ConfigTypeOK
  <1>2. CASE Cached(p) /\ id = m_nodes[p] /\ UNCHANGED <<m_nodes, nodes>>
    <2>1. Alive' = Alive /\ \A q : Cached(q)' = Cached(q)
      BY <1>2 DEF Alive, Cached
    <2>2. id \in Alive
      BY <1>2 DEF Cached, ConfigInv, ConfigTypeOK
    <2>3. ConfigInv'
      BY <1>2, ConfigStutters DEF configVars
    <2> QED BY <1>2, <2>1, <2>2, <2>3
  <1>3. CASE /\ ~Cached(p) /\ Dig(m_root, p) = Null /\ id = NoNode
             /\ m_nodes' = [q \in DOMAIN m_nodes \ {p} |-> m_nodes[q]]
             /\ UNCHANGED nodes
    <2>1. Alive' = Alive
      BY <1>3 DEF Alive
    <2>2. \A i \in Alive : nodes[i].path # p
      BY <1>3 DEF ConfigInv, ConfigTypeOK, EveryLiveNodeIsCached, Cached, Alive
    <2>3. ConfigTypeOK'
      BY <1>3, <2>1 DEF ConfigInv, ConfigTypeOK
    <2>4. EveryLiveNodeIsCached' /\ StaleOnlyIfPinned'
      BY <1>3, <2>1, <2>2 DEF ConfigInv, EveryLiveNodeIsCached, StaleOnlyIfPinned
    <2>5. \A q \in Path : Cached(q) => Cached(q)' /\ m_nodes'[q] = m_nodes[q]
      BY <1>3 DEF Cached
    <2> QED BY <1>3, <2>1, <2>3, <2>4, <2>5 DEF ConfigInv
  <1>4. CASE /\ ~Cached(p) /\ Dig(m_root, p) # Null
             /\ Alive # NodeId /\ id = CHOOSE i \in NodeId : i \notin Alive
             /\ nodes' = [nodes EXCEPT ![id] = [path |-> p, value |-> Dig(m_root, p)]]
             /\ m_nodes' = [q \in DOMAIN m_nodes \cup {p} |-> IF q = p THEN id ELSE m_nodes[q]]
    <2>1. id \in NodeId /\ id \notin Alive
      <3>1. \E i \in NodeId : i \notin Alive
        BY <1>1, <1>4
      <3> QED BY <1>4, <3>1
    <2>2. DOMAIN nodes' = NodeId /\ \A i \in NodeId \ {id} : nodes'[i] = nodes[i]
      BY <1>1, <1>4
    <2>3. nodes'[id].path = p /\ nodes'[id].value = Dig(m_root, p) /\ nodes'[id] # Dead
      BY <1>1, <1>4, <2>1 DEF Dead
    <2>4. Alive' = Alive \cup {id}
      BY <1>1, <2>1, <2>2, <2>3 DEF Alive
    <2>5. \A i \in Alive : nodes[i].path # p /\ nodes'[i] = nodes[i]
      BY <1>1, <1>4, <2>1, <2>2 DEF ConfigInv, ConfigTypeOK, EveryLiveNodeIsCached, Cached
    <2>6. /\ DOMAIN m_nodes' = DOMAIN m_nodes \cup {p} /\ m_nodes'[p] = id
          /\ \A q \in DOMAIN m_nodes \ {p} : m_nodes'[q] = m_nodes[q]
      BY <1>4
    <2>7. ConfigTypeOK'
      <3>1. \A i \in Alive' : nodes'[i].path \in Path /\ nodes'[i].value # Null
        BY <1>4, <2>3, <2>4, <2>5 DEF ConfigInv, ConfigTypeOK
      <3>2. \A q \in DOMAIN m_nodes' : m_nodes'[q] \in Alive' \cup {Expired}
        BY <2>4, <2>6 DEF ConfigInv, ConfigTypeOK
      <3>3. DOMAIN m_nodes' \subseteq Path /\ pinned' \subseteq Alive'
        BY <2>4, <2>6 DEF ConfigInv, ConfigTypeOK
      <3>4. DOMAIN m_root' \subseteq Seq(Key)
        BY DEF ConfigInv, ConfigTypeOK
      <3> QED BY <2>2, <3>1, <3>2, <3>3, <3>4 DEF ConfigTypeOK
    <2>8. EveryLiveNodeIsCached'
      BY <2>3, <2>4, <2>5, <2>6 DEF ConfigInv, EveryLiveNodeIsCached
    <2>9. StaleOnlyIfPinned'
      BY <2>3, <2>4, <2>5 DEF ConfigInv, StaleOnlyIfPinned
    <2>10. \A q \in Path : Cached(q) => Cached(q)' /\ m_nodes'[q] = m_nodes[q]
      BY <1>4, <2>6 DEF Cached
    <2>11. Cached(p)'
      BY <2>1, <2>6 DEF Cached
    <2> QED BY <2>3, <2>4, <2>5, <2>6, <2>7, <2>8, <2>9, <2>10, <2>11 DEF ConfigInv
  <1> QED BY <1>2, <1>3, <1>4 DEF GetNode

\* FreeNode disturbs no other node.
LEMMA FreeNodeKeeps ==
  ASSUME ConfigInv, NEW id \in NodeId, FreeNode(id)
  PROVE  /\ ConfigInv'
         /\ Alive' = Alive \ {id} /\ \A i \in Alive \ {id} : nodes'[i] = nodes[i]
         /\ \A q \in Path : Cached(q) /\ m_nodes[q] # id => Cached(q)' /\ m_nodes'[q] = m_nodes[q]
  <1> USE NodeAssumption
  <1>1. DOMAIN nodes = NodeId
    BY DEF ConfigInv, ConfigTypeOK
  <1>2. DOMAIN nodes' = NodeId /\ nodes'[id] = Dead /\ \A i \in NodeId \ {id} : nodes'[i] = nodes[i]
    BY <1>1 DEF FreeNode
  <1>3. Alive' = Alive \ {id}
    BY <1>2 DEF Alive
  <1>4. /\ DOMAIN m_nodes' = DOMAIN m_nodes
        /\ \A q \in DOMAIN m_nodes : m_nodes'[q] = IF m_nodes[q] = id THEN Expired ELSE m_nodes[q]
    BY DEF FreeNode
  <1>5. ConfigTypeOK'
    <2>1. \A i \in Alive' : nodes'[i] = nodes[i] /\ i \in Alive
      BY <1>2, <1>3 DEF Alive
    <2>2. \A q \in DOMAIN m_nodes' : m_nodes'[q] \in Alive' \cup {Expired}
      BY <1>3, <1>4 DEF ConfigInv, ConfigTypeOK
    <2>3. pinned' \subseteq Alive'
      BY <1>3 DEF ConfigInv, ConfigTypeOK, FreeNode
    <2> QED BY <1>2, <1>4, <2>1, <2>2, <2>3 DEF ConfigInv, ConfigTypeOK, FreeNode
  <1>6. EveryLiveNodeIsCached' /\ StaleOnlyIfPinned'
    BY <1>2, <1>3, <1>4 DEF ConfigInv, EveryLiveNodeIsCached, StaleOnlyIfPinned, FreeNode, Alive
  <1>7. \A q \in Path : Cached(q) /\ m_nodes[q] # id => Cached(q)' /\ m_nodes'[q] = m_nodes[q]
    BY <1>4 DEF Cached
  <1>8. IsRoot(m_root)'
    BY DEF ConfigInv, FreeNode
  <1> QED BY <1>2, <1>3, <1>5, <1>6, <1>7, <1>8 DEF ConfigInv, Alive

\* Reload leaves the nodes alone, and those that are alive are pinned from then.
LEMMA ReloadKeeps ==
  ASSUME ConfigInv, NEW table, Reload(table, table \in Document)
  PROVE  ConfigInv' /\ UNCHANGED <<m_nodes, nodes>> /\ Alive' = Alive
  <1>1. UNCHANGED <<m_nodes, nodes>> /\ Alive' = Alive
    BY DEF Reload, Alive
  <1>2. CASE table \in Document
    <2>1. m_root' = Create(table) /\ pinned' = Alive
      BY <1>2 DEF Reload
    <2>2. IsRoot(m_root')
      BY <1>2, <2>1, StartupAssumption, CreateIsRoot
    <2>3. ConfigTypeOK'
      BY <1>1, <2>1, <2>2 DEF ConfigInv, ConfigTypeOK, IsRoot, TreeOver
    <2>4. EveryLiveNodeIsCached' /\ StaleOnlyIfPinned'
      BY <1>1, <2>1 DEF ConfigInv, EveryLiveNodeIsCached, StaleOnlyIfPinned
    <2> QED BY <1>1, <2>2, <2>3, <2>4 DEF ConfigInv
  <1>3. CASE table \notin Document
    BY <1>1, <1>3, ConfigStutters DEF Reload, configVars
  <1> QED BY <1>2, <1>3


-----------------------------------------------------------------------------
(* FileConfigDataSource.                                                   *)

SourceTypes == SourceTypeOK /\ content \in 1..MaxChanges

LEMMA SourceTypesStutter ==
  SourceTypes /\ UNCHANGED <<file, watchVars, sourceVars>> => SourceTypes'
  BY DEF SourceTypes, SourceTypeOK, Watcher!TypeOK, watchVars, sourceVars

\* The steps of the file, the source and the watcher keep their types.
LEMMA SourceStepsKeepTypes ==
  ASSUME SourceTypes,
         \/ \E text \in Document \cup {Garbled} : Save(text)
         \/ Delete
         \/ CreateChecks
         \/ InitializeFileWatch
         \/ \E s \in Subscriber : Subscribe(s) \/ ReadFirst(s) \/ CallSubscriber(s)
         \/ NotifyWatchers
         \/ NotifiesNobody
         \/ DestroyMembers
         \/ DestroyWatchHandle
         \/ Watcher!Destroy /\ UNCHANGED <<file, sourceVars>>
  PROVE  SourceTypes'
  <1> USE SourceAssumption DEF SourceTypes, SourceTypeOK, Watcher!TypeOK, watchVars, sourceVars
  <1>1. ASSUME NEW text \in Document \cup {Garbled}, Save(text) PROVE SourceTypes'
    BY <1>1 DEF Save, Watcher!Change
  <1>2. CASE Delete
    BY <1>2 DEF Delete
  <1>3. CASE CreateChecks
    BY <1>3 DEF CreateChecks
  <1>4. CASE InitializeFileWatch
    BY <1>4 DEF InitializeFileWatch, Watcher!WatchFile, Watcher!WatchState
  <1>5. ASSUME NEW s \in Subscriber, Heard(s) PROVE heard' \in [Subscriber -> 0..MaxChanges]
    BY <1>5 DEF Heard
  <1>6. ASSUME NEW s \in Subscriber, Subscribe(s) PROVE SourceTypes'
    BY <1>6 DEF Subscribe
  <1>7. ASSUME NEW s \in Subscriber, ReadFirst(s) PROVE SourceTypes'
    BY <1>5, <1>7 DEF ReadFirst
  <1>8. ASSUME NEW s \in Subscriber, CallSubscriber(s) PROVE SourceTypes'
    BY <1>5, <1>8 DEF CallSubscriber
  <1>9. CASE NotifyWatchers
    BY <1>9 DEF NotifyWatchers, Watcher!Callback
  <1>10. CASE NotifiesNobody
    BY <1>10 DEF NotifiesNobody, Watcher!Callback, Watcher!LateCallback
  <1>11. CASE DestroyMembers
    BY <1>11 DEF DestroyMembers
  <1>12. CASE DestroyWatchHandle
    BY <1>12 DEF DestroyWatchHandle, Watcher!Unwatch, Watcher!UnwatchReturns, Watcher!WatchState
  <1>13. CASE Watcher!Destroy /\ UNCHANGED <<file, sourceVars>>
    BY <1>13 DEF Watcher!Destroy
  <1> QED BY <1>1, <1>2, <1>3, <1>4, <1>6, <1>7, <1>8, <1>9, <1>10, <1>11, <1>12, <1>13


-----------------------------------------------------------------------------
(* The inductive invariant.                                                *)

MainTypes ==
    /\ main \in {"start", "watcher", "checked", "sourced", "configured", "serving",
                 "returning", "exiting", "exited", "crashed"}
    /\ m_serverConfigNode \in NodeId \cup {NoNode}
    /\ m_data \in ServerConfigData
    /\ held \subseteq Alive
    /\ reloads \in 0..MaxReloads

IInv ==
    /\ ConfigInv
    /\ SourceTypes
    /\ MainTypes
    /\ NoNodesYet

LEMMA InitIsInv == Init => IInv
  <1> SUFFICES ASSUME Init PROVE IInv
    OBVIOUS
  <1> USE DEF Init
  <1>1. Alive = {} /\ DOMAIN m_nodes = {} /\ DOMAIN nodes = NodeId
    BY DEF ConfigInit, Alive
  <1>2. m_root = Null /\ IsRoot(m_root)
    BY NullIsRoot DEF ConfigInit
  <1>3. ConfigInv
    BY <1>1, <1>2 DEF ConfigInit, ConfigInv, ConfigTypeOK, EveryLiveNodeIsCached, StaleOnlyIfPinned,
      IsRoot, TreeOver
  <1>4. SourceTypes
    BY SourceAssumption DEF SourceInit, SourceTypes, SourceTypeOK, Watcher!TypeOK, Watcher!Init,
      Watcher!WatchState
  <1>5. NoData \in ServerConfigData
    <2>1. 2 ^ WorkerBits \in Nat \ {0} /\ 2 ^ PortBits \in Nat \ {0}
      BY WidthAssumption, Zenon
    <2>2. ASSUME NEW d \in Nat \ {0} PROVE 0 \in 0..d - 1
      OBVIOUS
    <2>3. 0 \in 0..2 ^ WorkerBits - 1 /\ 0 \in 0..2 ^ PortBits - 1
      BY <2>1, <2>2, Zenon
    <2> QED BY <2>3, Zenon DEF NoData, ServerConfigData
  <1>6. MainTypes
    BY <1>1, <1>5, StartupAssumption DEF MainTypes
  <1>7. NoNodesYet
    BY <1>1 DEF NoNodesYet
  <1> QED BY <1>3, <1>4, <1>6, <1>7 DEF IInv

\* A step that leaves the configuration and main's data alone.
LEMMA ConfigLeftAlone ==
  ASSUME IInv, UNCHANGED <<configVars, m_serverConfigNode, m_data, held, reloads>>,
         \/ main' = main
         \/ main' \in {"watcher", "checked", "sourced"} /\ main \in {"start", "watcher", "checked"}
         \/ main' \in {"returning", "exiting", "exited", "crashed"}
  PROVE  ConfigInv' /\ MainTypes' /\ NoNodesYet'
  <1>1. ConfigInv' /\ Alive' = Alive
    BY ConfigStutters DEF IInv, configVars, Alive
  <1>2. MainTypes'
    BY <1>1 DEF IInv, MainTypes
  <1>3. NoNodesYet'
    BY <1>1 DEF IInv, NoNodesYet, MainTypes
  <1> QED BY <1>1, <1>2, <1>3

\* The steps of main that make and destroy the source.
LEMMA SourceStepsOfMain ==
  ASSUME IInv,
         \/ InitializeGlobalFileWatcher \/ CreateFromFileChecks \/ CreateFromFileWatches
         \/ ServeForeverReturns \/ DestroySource \/ MainReturns \/ DestroyFileWatcher
  PROVE  IInv'
  <1>t. SourceTypes
    BY DEF IInv
  <1>1. CASE InitializeGlobalFileWatcher
    <2>1. SourceTypes'
      BY <1>1, <1>t, SourceTypesStutter DEF InitializeGlobalFileWatcher
    <2> QED BY <1>1, <2>1, ConfigLeftAlone DEF InitializeGlobalFileWatcher, IInv
  <1>2. CASE CreateFromFileChecks
    <2>1. SourceTypes'
      BY <1>2, <1>t, SourceStepsKeepTypes DEF CreateFromFileChecks
    <2> QED BY <1>2, <2>1, ConfigLeftAlone DEF CreateFromFileChecks, IInv
  <1>3. CASE CreateFromFileWatches
    <2>1. SourceTypes'
      BY <1>3, <1>t, SourceStepsKeepTypes DEF CreateFromFileWatches
    <2> QED BY <1>3, <2>1, ConfigLeftAlone DEF CreateFromFileWatches, IInv
  <1>4. CASE ServeForeverReturns
    <2>1. SourceTypes'
      BY <1>4, <1>t, SourceTypesStutter DEF ServeForeverReturns
    <2> QED BY <1>4, <2>1, ConfigLeftAlone DEF ServeForeverReturns, IInv
  <1>5. CASE DestroySource
    <2>1. SourceTypes'
      BY <1>5, <1>t, SourceStepsKeepTypes DEF DestroySource
    <2> QED BY <1>5, <2>1, ConfigLeftAlone DEF DestroySource, startVars, IInv
  <1>6. CASE MainReturns
    <2>1. SourceTypes'
      BY <1>6, <1>t, SourceTypesStutter DEF MainReturns
    <2> QED BY <1>6, <2>1, ConfigLeftAlone DEF MainReturns, IInv
  <1>7. CASE DestroyFileWatcher
    <2>1. SourceTypes'
      BY <1>7, <1>t, SourceStepsKeepTypes DEF DestroyFileWatcher
    <2> QED BY <1>7, <2>1, ConfigLeftAlone DEF DestroyFileWatcher, IInv
  <1> QED BY <1>1, <1>2, <1>3, <1>4, <1>5, <1>6, <1>7


\* The steps of the file, its subscribers and the watcher's thread.
LEMMA SourceStepsOfOthers ==
  ASSUME IInv,
         \/ FileChanges \/ SourceIsNotified \/ DeadSourceIsNotified
         \/ \E s \in Subscriber : SubscribeToSource(s) \/ SubscriberReads(s) \/ SubscriberIsCalled(s)
  PROVE  IInv'
  <1>t. SourceTypes
    BY DEF IInv
  <1>1. CASE FileChanges
    <2>1. SourceTypes'
      BY <1>1, <1>t, SourceStepsKeepTypes DEF FileChanges
    <2>2. UNCHANGED <<configVars, m_serverConfigNode, m_data, held, reloads>> /\ main' = main
      BY <1>1 DEF FileChanges, startVars
    <2>3. ConfigInv' /\ MainTypes' /\ NoNodesYet'
      BY <2>2, ConfigLeftAlone
    <2> QED BY <2>1, <2>3 DEF IInv
  <1>2. CASE SourceIsNotified
    <2>1. SourceTypes'
      BY <1>2, <1>t, SourceStepsKeepTypes DEF SourceIsNotified
    <2>2. UNCHANGED <<configVars, m_serverConfigNode, m_data, held, reloads>> /\ main' = main
      BY <1>2 DEF SourceIsNotified, startVars
    <2>3. ConfigInv' /\ MainTypes' /\ NoNodesYet'
      BY <2>2, ConfigLeftAlone
    <2> QED BY <2>1, <2>3 DEF IInv
  <1>3. CASE DeadSourceIsNotified
    <2>1. SourceTypes'
      BY <1>3, <1>t, SourceStepsKeepTypes DEF DeadSourceIsNotified
    <2>2. UNCHANGED <<configVars, m_serverConfigNode, m_data, held, reloads>> /\ main' \in {main, "crashed"}
      BY <1>3 DEF DeadSourceIsNotified
    <2>3. ConfigInv' /\ MainTypes' /\ NoNodesYet'
      BY <2>2, ConfigLeftAlone
    <2> QED BY <2>1, <2>3 DEF IInv
  <1>4. ASSUME NEW s \in Subscriber,
               SubscribeToSource(s) \/ SubscriberReads(s) \/ SubscriberIsCalled(s)
        PROVE  IInv'
    <2>1. Subscribe(s) \/ ReadFirst(s) \/ CallSubscriber(s)
      BY <1>4 DEF SubscribeToSource, SubscriberReads, SubscriberIsCalled
    <2>2. SourceTypes'
      BY <1>t, <2>1, SourceStepsKeepTypes
    <2>3. UNCHANGED <<configVars, m_serverConfigNode, m_data, held, reloads>> /\ main' = main
      BY <1>4 DEF SubscribeToSource, SubscriberReads, SubscriberIsCalled, startVars
    <2>4. ConfigInv' /\ MainTypes' /\ NoNodesYet'
      BY <2>3, ConfigLeftAlone
    <2> QED BY <2>2, <2>4 DEF IInv
  <1> QED BY <1>1, <1>2, <1>3, <1>4

\* The steps that read, look up or destroy the configuration.
LEMMA ConfigSteps ==
  ASSUME IInv,
         \/ CreateTomlConfig \/ CreateServerConfig \/ DestroyConfig \/ ReloadConfig
         \/ \E p \in Path : AskForNode(p)
         \/ \E id \in NodeId : LetGo(id)
  PROVE  IInv'
  <1>t. SourceTypes /\ ConfigInv /\ MainTypes /\ NoNodesYet
    BY DEF IInv
  <1>s. <<"server">> \in Path /\ MaxReloads \in Nat
    BY StartupAssumption
  <1>1. CASE CreateTomlConfig
    <2>1. SourceTypes'
      BY <1>1, <1>t, SourceTypesStutter DEF CreateTomlConfig
    <2>2. ConfigInv' /\ UNCHANGED <<m_nodes, nodes>> /\ Alive' = Alive
      BY <1>1, <1>t, ReloadKeeps DEF CreateTomlConfig
    <2>3. MainTypes' /\ NoNodesYet'
      BY <1>1, <1>t, <2>2 DEF CreateTomlConfig, MainTypes, NoNodesYet
    <2> QED BY <2>1, <2>2, <2>3 DEF IInv
  <1>2. CASE CreateServerConfig
    <2>1. SourceTypes'
      BY <1>2, <1>t, SourceTypesStutter DEF CreateServerConfig
    <2>2. PICK id \in NodeId \cup {NoNode} :
            /\ GetNode(<<"server">>, id)
            /\ IF id # NoNode /\ Parses(nodes'[id].value)
                 THEN /\ main' = "serving"
                      /\ m_serverConfigNode' = id
                      /\ m_data' = ParseServerConfigFromValue(nodes'[id].value)
                 ELSE main' = "returning" /\ UNCHANGED <<m_serverConfigNode, m_data>>
      BY <1>2, Zenon DEF CreateServerConfig
    <2>3. /\ UNCHANGED <<m_root, pinned, held, reloads>> /\ Alive = {}
      BY <1>2, <1>t DEF CreateServerConfig, NoNodesYet
    <2>4. /\ ConfigInv' /\ Alive \subseteq Alive'
          /\ id # NoNode => /\ id \in Alive' /\ Cached(<<"server">>)' /\ m_nodes'[<<"server">>] = id
                            /\ nodes'[id].value = Dig(m_root, <<"server">>)
      BY <1>t, <1>s, <2>2, <2>3, GetNodeKeeps
    <2>5. CASE id # NoNode /\ Parses(nodes'[id].value)
      <3>1. m_data' \in ServerConfigData
        BY <1>t, <2>2, <2>4, <2>5, SettingsInRange DEF ConfigInv
      <3>2. MainTypes' /\ NoNodesYet'
        BY <1>t, <2>2, <2>3, <2>4, <2>5, <3>1 DEF MainTypes, NoNodesYet
      <3> QED BY <2>1, <2>4, <3>2 DEF IInv
    <2>6. CASE ~(id # NoNode /\ Parses(nodes'[id].value))
      <3>1. main' = "returning" /\ UNCHANGED <<m_serverConfigNode, m_data>>
        BY <2>2, <2>6
      <3>2. MainTypes' /\ NoNodesYet'
        BY <1>t, <2>3, <2>4, <3>1 DEF MainTypes, NoNodesYet
      <3> QED BY <2>1, <2>4, <3>2 DEF IInv
    <2> QED BY <2>5, <2>6
  <1>3. CASE DestroyConfig
    <2>1. SourceTypes'
      BY <1>3, <1>t, SourceStepsKeepTypes DEF DestroyConfig
    <2>2. Alive' = {} /\ DOMAIN m_nodes' = {} /\ DOMAIN nodes' = NodeId /\ m_root' = Null /\ pinned' = {}
      BY <1>3 DEF DestroyConfig, Alive
    <2>3. IsRoot(m_root')
      BY <2>2, NullIsRoot
    <2>4. ConfigInv'
      BY <2>2, <2>3 DEF ConfigInv, ConfigTypeOK, EveryLiveNodeIsCached, StaleOnlyIfPinned,
        IsRoot, TreeOver
    <2>5. MainTypes' /\ NoNodesYet'
      BY <1>3, <1>t, <2>2 DEF DestroyConfig, MainTypes, NoNodesYet
    <2> QED BY <2>1, <2>4, <2>5 DEF IInv
  <1>4. CASE ReloadConfig
    <2>1. SourceTypes'
      BY <1>4, <1>t, SourceTypesStutter DEF ReloadConfig
    <2>2. ConfigInv' /\ UNCHANGED <<m_nodes, nodes>> /\ Alive' = Alive
      BY <1>4, <1>t, ReloadKeeps DEF ReloadConfig
    <2>3. MainTypes' /\ NoNodesYet'
      BY <1>4, <1>s, <1>t, <2>2 DEF ReloadConfig, MainTypes, NoNodesYet
    <2> QED BY <2>1, <2>2, <2>3 DEF IInv
  <1>5. ASSUME NEW p \in Path, AskForNode(p) PROVE IInv'
    <2>1. SourceTypes'
      BY <1>5, <1>t, SourceTypesStutter DEF AskForNode
    <2>2. PICK id \in NodeId \cup {NoNode} : GetNode(p, id) /\ held' = (held \cup {id}) \ {NoNode}
      BY <1>5, Zenon DEF AskForNode
    <2>3. main = "serving" /\ UNCHANGED <<m_root, pinned, main, m_serverConfigNode, m_data, reloads>>
      BY <1>5 DEF AskForNode
    <2>4. /\ ConfigInv' /\ Alive \subseteq Alive' /\ \A i \in Alive : nodes'[i] = nodes[i]
          /\ \A q \in Path : Cached(q) => Cached(q)' /\ m_nodes'[q] = m_nodes[q]
          /\ id # NoNode => id \in Alive'
      BY <1>t, <2>2, <2>3, GetNodeKeeps
    <2>5. MainTypes' /\ NoNodesYet'
      BY <1>t, <2>2, <2>3, <2>4 DEF MainTypes, NoNodesYet
    <2> QED BY <2>1, <2>4, <2>5 DEF IInv
  <1>6. ASSUME NEW id \in NodeId, LetGo(id) PROVE IInv'
    <2>1. SourceTypes'
      BY <1>6, <1>t, SourceTypesStutter DEF LetGo
    <2>2. /\ main = "serving" /\ UNCHANGED <<main, m_serverConfigNode, m_data, reloads>>
          /\ held' = held \ {id}
      BY <1>6 DEF LetGo
    <2>3. CASE id = m_serverConfigNode
      <3>1. UNCHANGED configVars
        BY <1>6, <2>3 DEF LetGo
      <3>2. ConfigInv' /\ Alive' = Alive
        BY <1>t, <3>1, ConfigStutters DEF configVars, Alive
      <3>3. MainTypes' /\ NoNodesYet'
        BY <1>t, <2>2, <3>1, <3>2 DEF MainTypes, NoNodesYet
      <3> QED BY <2>1, <3>2, <3>3 DEF IInv
    <2>4. CASE id # m_serverConfigNode
      <3>1. FreeNode(id)
        BY <1>6, <2>4 DEF LetGo
      <3>2. /\ ConfigInv' /\ Alive' = Alive \ {id} /\ \A i \in Alive \ {id} : nodes'[i] = nodes[i]
            /\ \A q \in Path : Cached(q) /\ m_nodes[q] # id => Cached(q)' /\ m_nodes'[q] = m_nodes[q]
        BY <1>t, <3>1, FreeNodeKeeps
      <3>3. MainTypes' /\ NoNodesYet'
        BY <1>t, <2>2, <3>2 DEF MainTypes, NoNodesYet
      <3> QED BY <2>1, <3>2, <3>3 DEF IInv
    <2> QED BY <2>3, <2>4
  <1> QED BY <1>1, <1>2, <1>3, <1>4, <1>5, <1>6


LEMMA NextKeepsInv == IInv /\ [Next]_vars => IInv'
  <1> SUFFICES ASSUME IInv, [Next]_vars PROVE IInv'
    OBVIOUS
  <1>1. CASE MainStep \/ ServeForeverReturns
    BY <1>1, SourceStepsOfMain, ConfigSteps DEF MainStep
  <1>2. CASE UserStep
    BY <1>2, SourceStepsOfOthers, ConfigSteps DEF UserStep
  <1>3. CASE \/ FileChanges \/ SourceIsNotified \/ DeadSourceIsNotified
             \/ \E s \in Subscriber : SubscriberIsCalled(s)
    BY <1>3, SourceStepsOfOthers
  <1>4. CASE UNCHANGED vars
    <2>1. /\ UNCHANGED <<configVars, m_serverConfigNode, m_data, held, reloads>> /\ main' = main
          /\ UNCHANGED <<file, watchVars, sourceVars>>
      BY <1>4 DEF vars, startVars
    <2>2. ConfigInv' /\ MainTypes' /\ NoNodesYet'
      BY <2>1, ConfigLeftAlone
    <2>3. SourceTypes'
      BY <2>1, SourceTypesStutter DEF IInv
    <2> QED BY <2>2, <2>3 DEF IInv
  <1> QED BY <1>1, <1>2, <1>3, <1>4 DEF Next, Terminated

LEMMA AlwaysInv == Spec => []IInv
  BY InitIsInv, NextKeepsInv, PTL DEF Spec

-----------------------------------------------------------------------------
(* The theorems.                                                           *)

\* The types hold.  Of the code this says most about ServerConfig: whatever the
\* file holds, the settings it parses fit their members, and whoever holds a
\* node holds one that is alive.
THEOREM TypeCorrect == Spec => []TypeOK
  <1>1. IInv => TypeOK
    BY DEF IInv, ConfigInv, SourceTypes, MainTypes, TypeOK
  <1> QED BY <1>1, AlwaysInv, PTL

\* TomlConfig::Dig finds what the configuration has at a path, for every
\* document and every path.
THEOREM DigCorrect == Spec => []DigFindsThePath
  <1>1. IInv => DigFindsThePath
    <2>1. SUFFICES ASSUME IInv, NEW p \in Path
                   PROVE  LET below == {q \in DOMAIN m_root : IsPrefix(p, q)}
                          IN Dig(m_root, p)
                               = [q \in {SubSeq(r, Len(p) + 1, Len(r)) : r \in below} |-> m_root[p \o q]]
      BY DEF DigFindsThePath
    <2>2. p \in Seq(Key) /\ TreeOver(m_root, Key) /\ DOMAIN m_root \subseteq Seq(Key)
      BY <2>1, NodeAssumption DEF IInv, ConfigInv, IsRoot, TreeOver
    <2>3. Dig(m_root, p) = At(m_root, p, Key)
      BY <2>2, DigIsAt
    <2> QED BY <2>2, <2>3, AtIsBelow
  <1> QED BY <1>1, AlwaysInv, PTL

\* TomlConfig::GetNode's cache has every node that is alive, under its path.
THEOREM CacheCorrect == Spec => []EveryLiveNodeIsCached
  <1>1. IInv => EveryLiveNodeIsCached
    BY DEF IInv, ConfigInv
  <1> QED BY <1>1, AlwaysInv, PTL

\* A node shows what the configuration has now, unless it was held over a
\* Reload.
THEOREM StaleOnlyOverReload == Spec => []StaleOnlyIfPinned
  <1>1. IInv => StaleOnlyIfPinned
    BY DEF IInv, ConfigInv
  <1> QED BY <1>1, AlwaysInv, PTL
=============================================================================
