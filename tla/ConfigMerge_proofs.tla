------------------------- MODULE ConfigMerge_proofs -------------------------
(***************************************************************************)
(* Theorems about ConfigMerge, for any options, files and command lines.   *)
(* The invariant says of the walk which files it has found (Found), and of *)
(* the merge how far it is, which file and which entry of it come next     *)
(* (Place), and that the defaults so far are those of the entries before:  *)
(* of the nearest that gives one (Nearest), or of all of them (All).       *)
(***************************************************************************)
EXTENDS ConfigMerge, SequenceTheorems, WellFoundedInduction, TLAPS

(* Sequences of sequences, joined.                                         *)

LEMMA LeastNat ==
    ASSUME NEW T, T \subseteq Nat, T # {}
    PROVE  \E x \in T : \A y \in T : x <= y
<1>. DEFINE less == {p \in Nat \X Nat : p[1] < p[2]}
<1>1. IsWellFoundedOn(less, Nat) BY NatLessThanWellFounded DEF OpToRel
<1>2. \A i, j \in Nat : j < i => <<j, i>> \in less OBVIOUS
<1>. HIDE DEF less
<1>3. PICK x \in T : \A y \in T : ~(<<y, x>> \in less) BY <1>1, WFMin
<1>4. ASSUME NEW y \in T PROVE x <= y
  <2>1. x \in Nat /\ y \in Nat OBVIOUS
  <2>2. ~(y < x) BY <1>2, <1>3, <2>1
  <2>. QED BY <2>1, <2>2
<1>. QED BY <1>4

Agree(p, q, n) == \A i \in 1..n : p[i] = q[i]
Sums(p, n, f) == f[0] = <<>> /\ \A i \in 1..n : f[i] = f[i - 1] \o p[i]

LEMMA SumsAgree ==
    ASSUME NEW n \in Nat, NEW k \in Nat, n <= k,
           NEW p, NEW q, NEW f, NEW g, Sums(p, n, f), Sums(q, k, g),
           Agree(p, q, n)
    PROVE  f[n] = g[n]
<1>. DEFINE bad == {i \in 0..n : f[i] # g[i]}
<1>1. SUFFICES ASSUME bad # {} PROVE FALSE
  <2>1. n \in 0..n OBVIOUS
  <2>. QED BY <2>1
<1>2. bad \subseteq Nat OBVIOUS
<1>3. PICK x \in bad : \A y \in bad : x <= y BY <1>1, <1>2, LeastNat
<1>4. x \in 0..n /\ f[x] # g[x] OBVIOUS
<1>5. x # 0 BY <1>4 DEF Sums
<1>6. x - 1 \in 0..n /\ x - 1 \notin bad BY <1>3, <1>4, <1>5
<1>7. f[x - 1] = g[x - 1] /\ p[x] = q[x] BY <1>4, <1>5, <1>6 DEF Agree
<1>8. x \in 1..n /\ x \in 1..k BY <1>4, <1>5
<1>9. f[x] = f[x - 1] \o p[x] /\ g[x] = g[x - 1] \o q[x] BY <1>8 DEF Sums
<1>. QED BY <1>4, <1>7, <1>9

LEMMA Associative ==
    \A s, t, u \in Seq(Items) : (s \o t) \o u = s \o (t \o u)
BY ConcatAssociative

LEMMA SumsExist ==
    ASSUME NEW n \in Nat, NEW p \in [1..n -> Seq(Items)]
    PROVE  \E f \in [0..n -> Seq(Items)] : Sums(p, n, f)
<1>. DEFINE Has(k) == \E f \in [0..k -> Seq(Items)] : Sums(p, k, f)
            bad == {k \in 0..n : ~Has(k)}
<1>1. SUFFICES ASSUME bad # {} PROVE FALSE
  <2>1. n \in 0..n OBVIOUS
  <2>2. ASSUME bad = {} PROVE Has(n)
    <3>. HIDE DEF Has
    <3>. QED BY <2>1, <2>2
  <2>. QED BY <2>2, Zenon
<1>2. bad \subseteq Nat OBVIOUS
<1>3. PICK x \in bad : \A y \in bad : x <= y BY <1>1, <1>2, LeastNat
<1>4. x \in 0..n /\ ~Has(x) OBVIOUS
<1>5. x # 0
  <2>. DEFINE f == [i \in 0..0 |-> <<>>]
  <2>1. f \in [0..0 -> Seq(Items)] BY EmptySeq
  <2>2. Sums(p, 0, f) BY DEF Sums
  <2>. QED BY <1>4, <2>1, <2>2
<1>6. x - 1 \in 0..n /\ x - 1 \notin bad BY <1>3, <1>4, <1>5
<1>7. PICK f \in [0..(x - 1) -> Seq(Items)] : Sums(p, x - 1, f) BY <1>6
<1>. DEFINE g == [i \in 0..x |-> IF i = x THEN f[x - 1] \o p[x] ELSE f[i]]
<1>8. f[x - 1] \o p[x] \in Seq(Items)
  <2>1. f[x - 1] \in Seq(Items) /\ p[x] \in Seq(Items) BY <1>4, <1>5, <1>7
  <2>. QED BY <2>1, ConcatProperties
<1>9. g \in [0..x -> Seq(Items)] BY <1>4, <1>7, <1>8
<1>10. g[0] = <<>> /\ \A i \in 1..x : g[i] = g[i - 1] \o p[i]
  <2>1. ASSUME NEW i \in 1..x, i # x PROVE g[i] = g[i - 1] \o p[i]
    <3>1. i \in 1..(x - 1) /\ i \in 0..x /\ i - 1 \in 0..x /\ i - 1 # x BY <1>4, <2>1
    <3>2. f[i] = f[i - 1] \o p[i] BY <1>7, <2>1, <3>1 DEF Sums
    <3>. QED BY <2>1, <3>1, <3>2
  <2>2. g[0] = <<>> BY <1>4, <1>5, <1>7 DEF Sums
  <2>3. g[x] = g[x - 1] \o p[x]
    <3>1. x \in 0..x /\ x - 1 \in 0..x /\ x - 1 # x BY <1>4, <1>5
    <3>. QED BY <3>1
  <2>. QED BY <2>1, <2>2, <2>3
<1>11. Sums(p, x, g) BY <1>10 DEF Sums
<1>. QED BY <1>4, <1>9, <1>11

LEMMA JoinedIs ==
    ASSUME NEW n \in Nat, NEW p \in [1..n -> Seq(Items)]
    PROVE  \E f \in [0..n -> Seq(Items)] : Sums(p, n, f) /\ Joined(p) = f[n]
<1>1. PICK f \in [0..n -> Seq(Items)] : Sums(p, n, f) BY SumsExist
<1>2. p \in Seq(Seq(Items)) /\ Len(p) = n
  <2>1. p \in Seq(Seq(Items)) BY SeqDef
  <2>. QED BY <2>1
<1>. DEFINE upto == CHOOSE u : u = [i \in 0..Len(p) |-> IF i = 0 THEN <<>> ELSE u[i - 1] \o p[i]]
<1>3. upto = [i \in 0..Len(p) |-> IF i = 0 THEN <<>> ELSE upto[i - 1] \o p[i]]
  <2>1. f = [i \in 0..Len(p) |-> IF i = 0 THEN <<>> ELSE f[i - 1] \o p[i]]
    <3>1. \A i \in 0..n : f[i] = IF i = 0 THEN <<>> ELSE f[i - 1] \o p[i]
      <4>1. \A i \in 0..n : i = 0 \/ i \in 1..n OBVIOUS
      <4>. QED BY <1>1, <4>1 DEF Sums
    <3>. QED BY <1>1, <1>2, <3>1
  <2>. QED BY <2>1
<1>4. Joined(p) = upto[n] BY <1>2 DEF Joined
<1>. HIDE DEF upto
<1>5. Sums(p, n, upto)
  <2>1. \A i \in 0..n : upto[i] = IF i = 0 THEN <<>> ELSE upto[i - 1] \o p[i]
    BY <1>2, <1>3
  <2>2. \A i \in 1..n : i \in 0..n /\ i # 0 OBVIOUS
  <2>3. 0 \in 0..n OBVIOUS
  <2>. QED BY <2>1, <2>2, <2>3 DEF Sums
<1>6. n <= n /\ Agree(p, p, n) BY DEF Agree
<1>7. upto[n] = f[n] BY <1>1, <1>5, <1>6, SumsAgree
<1>. QED BY <1>1, <1>4, <1>7

LEMMA JoinedType ==
    ASSUME NEW n \in Nat, NEW p \in [1..n -> Seq(Items)]
    PROVE  Joined(p) \in Seq(Items) /\ (n = 0 => Joined(p) = <<>>)
<1>1. PICK f \in [0..n -> Seq(Items)] : Sums(p, n, f) /\ Joined(p) = f[n] BY JoinedIs
<1>. QED BY <1>1 DEF Sums

LEMMA JoinedMore ==
    ASSUME NEW n \in Nat, NEW p \in [1..n -> Seq(Items)],
           NEW q \in [1..(n + 1) -> Seq(Items)], Agree(p, q, n)
    PROVE  Joined(q) = Joined(p) \o q[n + 1]
<1>1. PICK f \in [0..n -> Seq(Items)] : Sums(p, n, f) /\ Joined(p) = f[n] BY JoinedIs
<1>. DEFINE k == n + 1
<1>2. k \in Nat /\ n <= k /\ k \in 1..k /\ k - 1 = n /\ n \in 0..n OBVIOUS
<1>. HIDE DEF k
<1>3. q \in [1..k -> Seq(Items)] BY DEF k
<1>4. PICK g \in [0..k -> Seq(Items)] : Sums(q, k, g) /\ Joined(q) = g[k] BY <1>2, <1>3, JoinedIs
<1>5. f[n] = g[n]
  <2>1. Sums(p, n, f) /\ Sums(q, k, g) BY <1>1, <1>4
  <2>2. \A a, b, u, v : Sums(a, n, u) /\ Sums(b, k, v) /\ Agree(a, b, n) => u[n] = v[n]
    BY <1>2, SumsAgree
  <2>3. Sums(p, n, f) /\ Sums(q, k, g) /\ Agree(p, q, n) BY <2>1
  <2>. QED BY <2>2, <2>3
<1>6. g[k] = g[k - 1] \o q[k] BY <1>2, <1>4 DEF Sums
<1>7. Joined(q) = Joined(p) \o q[k] BY <1>1, <1>2, <1>4, <1>5, <1>6
<1>. QED BY <1>7 DEF k

Mute(q, n, k) == \A i \in (n + 1)..k : q[i] = <<>>

LEMMA JoinedSilent ==
    ASSUME NEW n \in Nat, NEW k \in Nat, n <= k, NEW p \in [1..n -> Seq(Items)],
           NEW q \in [1..k -> Seq(Items)], Agree(p, q, n), Mute(q, n, k)
    PROVE  Joined(q) = Joined(p)
<1>1. PICK f \in [0..n -> Seq(Items)] : Sums(p, n, f) /\ Joined(p) = f[n] BY JoinedIs
<1>2. PICK g \in [0..k -> Seq(Items)] : Sums(q, k, g) /\ Joined(q) = g[k] BY JoinedIs
<1>3. f[n] = g[n]
  <2>1. Sums(p, n, f) /\ Sums(q, k, g) BY <1>1, <1>2
  <2>2. \A a, b, u, v : Sums(a, n, u) /\ Sums(b, k, v) /\ Agree(a, b, n) => u[n] = v[n]
    BY SumsAgree
  <2>3. Sums(p, n, f) /\ Sums(q, k, g) /\ Agree(p, q, n) BY <2>1
  <2>. QED BY <2>2, <2>3
<1>. DEFINE bad == {i \in n..k : g[i] # f[n]}
<1>4. bad = {}
  <2>1. SUFFICES ASSUME bad # {} PROVE FALSE OBVIOUS
  <2>2. bad \subseteq Nat OBVIOUS
  <2>3. PICK x \in bad : \A y \in bad : x <= y BY <2>1, <2>2, LeastNat
  <2>4. x \in n..k /\ g[x] # f[n] /\ x # n BY <1>3
  <2>5. x - 1 \in n..k /\ x - 1 \notin bad BY <2>3, <2>4
  <2>6. g[x - 1] = f[n] BY <2>5
  <2>7. q[x] = <<>> BY <2>4 DEF Mute
  <2>0. x \in 1..k BY <2>4
  <2>8. g[x] = g[x - 1] \o q[x] BY <1>2, <2>0 DEF Sums
  <2>9. f[n] \in Seq(Items) BY <1>1
  <2>. QED BY <2>4, <2>6, <2>7, <2>8, <2>9, ConcatEmptySeq
<1>5. k \in n..k OBVIOUS
<1>6. g[k] = f[n] BY <1>4, <1>5
<1>. QED BY <1>1, <1>2, <1>6

-----------------------------------------------------------------------------
(* D: the directories, lim: the last one that is read.                     *)

Ents(D, lim, k) == IF k \in 1..lim THEN D[k].entries ELSE <<>>

(* list: the files of the first b directories, in the order of the walk.   *)
Found(D, list, b) ==
    \E at \in [1..Len(list) -> 1..b] :
        /\ \A i, j \in 1..Len(list) : i < j => at[i] < at[j]
        /\ \A i \in 1..Len(list) : list[i] = D[at[i]]
        /\ \A k \in 1..b : D[k].kind = "absent" \/ \E i \in 1..Len(list) : at[i] = k

(* m entries of the file in directory k are merged, left and then the      *)
(* files of list are not.                                                  *)
Place(D, lim, k, m, list, left) ==
    /\ Found(D, list, k - 1)
    /\ left = SubSeq(Ents(D, lim, k), m + 1, Len(Ents(D, lim, k)))

(* Of directory j, the entries that are merged.                            *)
Past(D, k, m, j) == IF j = k THEN 1..m ELSE 1..Len(D[j].entries)

Nearest(D, lim, k, m, d, v) ==
    \/ /\ v = <<>>
       /\ \A j \in k..lim : \A n \in Past(D, k, m, j) : ~Gives(D[j].entries[n], d)
    \/ /\ v # <<>>
       /\ \E j \in k..lim : \E n \in Past(D, k, m, j) :
            /\ Gives(D[j].entries[n], d) /\ v = Value(D[j].entries[n], d)
            /\ \A i \in k..j : \A l \in Past(D, k, m, i) :
                    i < j \/ l > n => ~Gives(D[i].entries[l], d)

(* What the directories above the k-th add to a list, and the first m      *)
(* entries of a file.                                                      *)
Above(D, lim, k, d) == [i \in 1..(lim - k) |-> Said(D[lim + 1 - i].entries, d)]
First(E, m, d) == [n \in 1..m |-> Adds(E[n], d)]

All(D, lim, k, m, d, v) ==
    v = IF k > lim THEN <<>>
        ELSE Joined(Above(D, lim, k, d)) \o Joined(First(Ents(D, lim, k), m, d))

Kept(D, lim, k, m, v) ==
    \A d \in Dests : IF IsList(d) THEN All(D, lim, k, m, d, v[d])
                     ELSE Nearest(D, lim, k, m, d, v[d])

(* Some part of the files is merged into v.                                *)
SoFar(D, lim, list, left, v) ==
    \E k \in 1..(lim + 1) : \E m \in 0..Len(Ents(D, lim, k)) :
        Place(D, lim, k, m, list, left) /\ Kept(D, lim, k, m, v)

OptInv ==
    /\ input \in Input /\ files \in Seq(File) /\ merged \in [Dests -> Seq(Items)]
    /\ pc = "walk" =>
          /\ dir \in 1..Limit /\ Found(input.dirs, files, dir - 1)
          /\ entries = <<>> /\ merged = [d \in Dests |-> <<>>]
    /\ pc \in {"merge", "parse", "done"} =>
          SoFar(input.dirs, Limit, files, entries, merged)
    /\ pc \in {"parse", "done"} => files = <<>> /\ entries = <<>>
    /\ pc = "done" => args = [d \in Dests |-> Option(d)]

-----------------------------------------------------------------------------
(* What the inputs are like.                                               *)

LEMMA InputFacts ==
    ASSUME input \in Input
    PROVE  /\ input.dirs \in Seq(File) /\ Limit \in Nat /\ Limit \in 1..Len(input.dirs)
           /\ input.home \in Nat /\ input.home <= Len(input.dirs)
           /\ input.cli \in [Dests -> Seq(Items)]
<1>1. /\ input.dirs \in Seq(File) /\ input.home \in Nat /\ input.home <= Len(input.dirs)
      /\ input.dirs # <<>> /\ input.cli \in [Dests -> Seq(Items)]
  BY DEF Input
<1>2. Len(input.dirs) \in Nat \ {0} BY <1>1, EmptySeq
<1>. QED BY <1>1, <1>2 DEF Limit

LEMMA FileEntries ==
    ASSUME NEW f \in File
    PROVE  f.entries \in Seq(Entry) /\ (f.kind # "mapping" => f.entries = <<>>)
<1>1. <<>> \in Seq(Entry) BY EmptySeq
<1>. QED BY <1>1 DEF File

LEMMA EntryFields ==
    ASSUME NEW e \in Entry
    PROVE  /\ e.key \in Dests \cup Modes \cup {Unknown} /\ e.value \in Seq(Items)
           /\ e.valid => (e.key \in Dests /\ IsList(e.key)) \/ Len(e.value) = 1
BY DEF Entry

(* What one entry makes of an option.                                      *)
LEMMA MergeAt ==
    ASSUME NEW v \in [Dests -> Seq(Items)], NEW e \in Entry, e.key # Unknown, e.valid
    PROVE  /\ Merge(v, e) \in [Dests -> Seq(Items)]
           /\ \A d \in Dests :
                IF IsList(d) THEN Merge(v, e)[d] = v[d] \o Adds(e, d)
                ELSE /\ Merge(v, e)[d] = IF Gives(e, d) THEN Value(e, d) ELSE v[d]
                     /\ Gives(e, d) => Value(e, d) # <<>>
<1>. USE OptionAssumption
<1>1. e.key \in Dests \cup Modes /\ e.value \in Seq(Items) BY EntryFields
<1>2. \A d \in Dests : v[d] \o <<>> = v[d] BY ConcatEmptySeq
<1>3. \A x : <<x>> # <<>> OBVIOUS
<1>4. CASE e.key \in Modes
  <2>1. e.key \in Items /\ e.key \notin Dests /\ <<e.key>> \in Seq(Items) BY <1>4
  <2>2. Merge(v, e) = IF e.value = <<"true">> THEN [v EXCEPT ![Mode] = <<e.key>>] ELSE v
    BY <1>4 DEF Merge
  <2>3. ASSUME NEW d \in Dests
        PROVE  /\ Adds(e, d) = <<>> /\ Value(e, d) = <<e.key>>
               /\ Gives(e, d) <=> d = Mode /\ e.value = <<"true">>
    BY <1>4, <2>1 DEF Adds, Value, Gives
  <2>4. ~IsList(Mode) BY DEF IsList
  <2>. QED BY <1>2, <1>3, <2>1, <2>2, <2>3, <2>4
<1>5. CASE e.key \in Dests /\ IsList(e.key)
  <2>1. v[e.key] \o e.value \in Seq(Items) BY <1>1, <1>5, ConcatProperties
  <2>2. Merge(v, e) = [v EXCEPT ![e.key] = v[e.key] \o e.value] BY <1>5 DEF Merge
  <2>3. ASSUME NEW d \in Dests
        PROVE  /\ Adds(e, d) = IF d = e.key THEN e.value ELSE <<>>
               /\ Gives(e, d) <=> d = e.key
    BY <1>5 DEF Adds, Gives
  <2>4. Merge(v, e) \in [Dests -> Seq(Items)] BY <2>1, <2>2
  <2>5. ASSUME NEW d \in Dests, d = e.key
        PROVE  IsList(d) /\ Merge(v, e)[d] = v[d] \o Adds(e, d)
    BY <1>5, <2>2, <2>3, <2>5, ZenonT(40)
  <2>6. ASSUME NEW d \in Dests, d # e.key
        PROVE  /\ Merge(v, e)[d] = v[d] /\ Adds(e, d) = <<>> /\ ~Gives(e, d)
               /\ v[d] = v[d] \o Adds(e, d)
    BY <1>2, <2>2, <2>3, <2>6
  <2>. QED BY <2>4, <2>5, <2>6
<1>6. CASE e.key \in Dests /\ ~IsList(e.key)
  <2>1. Merge(v, e) = [v EXCEPT ![e.key] = e.value] BY <1>6 DEF Merge
  <2>2. Len(e.value) = 1 BY <1>6, EntryFields
  <2>3. e.value # <<>>
    <3>1. SUFFICES ASSUME e.value = <<>> PROVE FALSE OBVIOUS
    <3>2. Len(<<>>) = 0 OBVIOUS
    <3>3. Len(<<>>) = 1 BY <2>2, <3>1
    <3>. QED BY <3>2, <3>3
  <2>4. ASSUME NEW d \in Dests
        PROVE  /\ Adds(e, d) = IF d = e.key THEN e.value ELSE <<>>
               /\ Gives(e, d) <=> d = e.key
               /\ d = e.key => Value(e, d) = e.value
    BY <1>6 DEF Adds, Gives, Value
  <2>. QED BY <1>1, <1>2, <1>6, <2>1, <2>3, <2>4
<1>. QED BY <1>1, <1>4, <1>5, <1>6

-----------------------------------------------------------------------------
(* The files that are found.                                               *)

LEMMA FoundNone == ASSUME NEW D PROVE Found(D, <<>>, 0)
<1>. DEFINE at == [i \in 1..0 |-> i]
<1>1. Len(<<>>) = 0 /\ 1..0 = {} OBVIOUS
<1>2. at \in [1..Len(<<>>) -> 1..0] BY <1>1
<1>3. /\ \A i, j \in 1..Len(<<>>) : i < j => at[i] < at[j]
      /\ \A i \in 1..Len(<<>>) : <<>>[i] = D[at[i]]
      /\ \A k \in 1..0 : D[k].kind = "absent" \/ \E i \in 1..Len(<<>>) : at[i] = k
  BY <1>1
<1>. HIDE DEF at
<1>. QED BY <1>2, <1>3 DEF Found

LEMMA FoundMore ==
    ASSUME NEW D, NEW b \in Nat, NEW list \in Seq(File), Found(D, list, b)
    PROVE  Found(D, IF D[b + 1].kind = "absent" THEN list ELSE Append(list, D[b + 1]), b + 1)
<1>. DEFINE n == Len(list)
<1>1. n \in Nat OBVIOUS
<1>2. PICK at \in [1..n -> 1..b] :
        /\ \A i, j \in 1..n : i < j => at[i] < at[j]
        /\ \A i \in 1..n : list[i] = D[at[i]]
        /\ \A k \in 1..b : D[k].kind = "absent" \/ \E i \in 1..n : at[i] = k
  BY DEF Found
<1>3. \A i \in 1..n : at[i] \in Nat /\ at[i] \in 1..b BY <1>2
<1>. HIDE DEF n
<1>4. CASE D[b + 1].kind = "absent"
  <2>1. at \in [1..n -> 1..(b + 1)] BY <1>2, <1>3
  <2>2. \A k \in 1..(b + 1) : k \in 1..b \/ k = b + 1 OBVIOUS
  <2>3. \A k \in 1..(b + 1) : D[k].kind = "absent" \/ \E i \in 1..n : at[i] = k
    BY <1>2, <1>4, <2>2
  <2>. QED BY <1>2, <1>4, <2>1, <2>3, SMTT(30) DEF Found, n
<1>5. CASE D[b + 1].kind # "absent"
  <2>. DEFINE more == Append(list, D[b + 1])
              to == [i \in 1..(n + 1) |-> IF i = n + 1 THEN b + 1 ELSE at[i]]
  <2>1. /\ Len(more) = n + 1 /\ more[n + 1] = D[b + 1]
        /\ \A i \in 1..n : more[i] = list[i]
    BY DEF n
  <2>2. \A i \in 1..(n + 1) : i \in 1..n \/ i = n + 1 BY <1>1
  <2>3. \A i \in 1..n : i # n + 1 /\ i \in 1..(n + 1) BY <1>1
  <2>4. to[n + 1] = b + 1 /\ \A i \in 1..n : to[i] = at[i] BY <1>1, <2>3
  <2>5. to \in [1..(n + 1) -> 1..(b + 1)]
    <3>1. \A i \in 1..n : at[i] \in 1..(b + 1) BY <1>3
    <3>2. b + 1 \in 1..(b + 1) OBVIOUS
    <3>. QED BY <2>2, <3>1, <3>2
  <2>. HIDE DEF to, more
  <2>6. \A i, j \in 1..(n + 1) : i < j => to[i] < to[j]
    <3>1. ASSUME NEW i \in 1..(n + 1), NEW j \in 1..(n + 1), i < j PROVE to[i] < to[j]
      <4>1. i \in 1..n BY <1>1, <3>1
      <4>2. CASE j = n + 1 BY <1>3, <2>4, <4>1, <4>2
      <4>3. CASE j \in 1..n BY <1>2, <2>4, <3>1, <4>1, <4>3
      <4>. QED BY <2>2, <4>2, <4>3
    <3>. QED BY <3>1
  <2>7. \A i \in 1..(n + 1) : more[i] = D[to[i]] BY <1>2, <2>1, <2>2, <2>4
  <2>8. \A k \in 1..(b + 1) : D[k].kind = "absent" \/ \E i \in 1..(n + 1) : to[i] = k
    <3>1. ASSUME NEW k \in 1..b PROVE D[k].kind = "absent" \/ \E i \in 1..(n + 1) : to[i] = k
      BY <1>2, <2>3, <2>4
    <3>2. n + 1 \in 1..(n + 1) BY <1>1
    <3>3. \A k \in 1..(b + 1) : k \in 1..b \/ k = b + 1 OBVIOUS
    <3>. QED BY <2>4, <3>1, <3>2, <3>3
  <2>9. Found(D, more, b + 1)
    <3>1. to \in [1..Len(more) -> 1..(b + 1)] BY <2>1, <2>5
    <3>2. \A i, j \in 1..Len(more) : i < j => to[i] < to[j] BY <2>1, <2>6
    <3>3. \A i \in 1..Len(more) : more[i] = D[to[i]] BY <2>1, <2>7
    <3>4. \A k \in 1..(b + 1) : D[k].kind = "absent" \/ \E i \in 1..Len(more) : to[i] = k
      BY <2>1, <2>8
    <3>. QED BY <3>1, <3>2, <3>3, <3>4, Zenon DEF Found
  <2>. QED BY <1>5, <2>9 DEF more
<1>. QED BY <1>4, <1>5

(* The last of them, and those before it.                                  *)
LEMMA FoundLast ==
    ASSUME NEW D, NEW b \in Nat, NEW list \in Seq(File), Found(D, list, b), list # <<>>
    PROVE  \E k \in 1..b :
              /\ list[Len(list)] = D[k]
              /\ Found(D, SubSeq(list, 1, Len(list) - 1), k - 1)
              /\ \A j \in (k + 1)..b : D[j].kind = "absent"
<1>. DEFINE n == Len(list) - 1
            less == SubSeq(list, 1, n)
<1>1. n \in Nat /\ Len(list) = n + 1
  <2>1. Len(list) \in Nat \ {0} BY EmptySeq
  <2>. QED BY <2>1
<1>2. less \in Seq(File) /\ Len(less) = n /\ \A i \in 1..n : less[i] = list[i]
  BY <1>1
<1>. HIDE DEF n, less
<1>3. PICK at \in [1..(n + 1) -> 1..b] :
        /\ \A i, j \in 1..(n + 1) : i < j => at[i] < at[j]
        /\ \A i \in 1..(n + 1) : list[i] = D[at[i]]
        /\ \A k \in 1..b : D[k].kind = "absent" \/ \E i \in 1..(n + 1) : at[i] = k
  BY <1>1, SMTT(30) DEF Found
<1>4. n + 1 \in 1..(n + 1) BY <1>1
<1>5. at[n + 1] \in 1..b /\ list[Len(list)] = D[at[n + 1]] BY <1>1, <1>3, <1>4
<1>. DEFINE k == at[n + 1]
<1>6. k \in 1..b BY <1>5
<1>. HIDE DEF k
<1>7. \A i \in 1..n : i \in 1..(n + 1) /\ i < n + 1 BY <1>1
<1>8. \A i \in 1..n : at[i] \in 1..b /\ at[i] < k BY <1>3, <1>4, <1>7 DEF k
<1>9. \A i \in 1..n : at[i] \in 1..(k - 1) BY <1>6, <1>8
<1>10. \A i \in 1..(n + 1) : i \in 1..n \/ i = n + 1 BY <1>1
<1>11. Found(D, less, k - 1)
  <2>. DEFINE to == [i \in 1..n |-> at[i]]
  <2>1. to \in [1..n -> 1..(k - 1)] BY <1>9
  <2>2. \A i \in 1..n : to[i] = at[i] OBVIOUS
  <2>. HIDE DEF to
  <2>3. \A i, j \in 1..n : i < j => to[i] < to[j] BY <1>3, <1>7, <2>2
  <2>4. \A i \in 1..n : less[i] = D[to[i]] BY <1>2, <1>3, <1>7, <2>2
  <2>5. ASSUME NEW j \in 1..(k - 1), D[j].kind # "absent" PROVE \E i \in 1..n : to[i] = j
    <3>1. j \in 1..b /\ j # k BY <1>6
    <3>2. PICK i \in 1..(n + 1) : at[i] = j BY <1>3, <2>5, <3>1
    <3>3. i \in 1..n BY <1>10, <3>1, <3>2 DEF k
    <3>. QED BY <2>2, <3>2, <3>3
  <2>. QED BY <1>2, <2>1, <2>3, <2>4, <2>5, ZenonT(40) DEF Found
<1>12. ASSUME NEW j \in (k + 1)..b PROVE D[j].kind = "absent"
  <2>1. j \in 1..b /\ j > k BY <1>6
  <2>2. ASSUME NEW i \in 1..(n + 1), at[i] = j PROVE FALSE
    <3>1. i \in 1..n BY <1>10, <2>1, <2>2 DEF k
    <3>. QED BY <1>6, <1>8, <2>1, <2>2, <3>1
  <2>. QED BY <1>3, <2>1, <2>2
<1>13. list[Len(list)] = D[k] BY <1>5 DEF k
<1>. QED BY <1>6, <1>11, <1>12, <1>13 DEF less, n

-----------------------------------------------------------------------------
(* One more entry, and one more file.                                      *)

LEMMA NearestMore ==
    ASSUME NEW D, NEW lim \in Nat, NEW k \in 1..lim, NEW m \in Nat, NEW d, NEW v,
           Nearest(D, lim, k, m, d, v),
           Gives(D[k].entries[m + 1], d) => Value(D[k].entries[m + 1], d) # <<>>
    PROVE  Nearest(D, lim, k, m + 1, d,
                   IF Gives(D[k].entries[m + 1], d) THEN Value(D[k].entries[m + 1], d) ELSE v)
<1>1. \A n \in 1..(m + 1) : n \in 1..m \/ n = m + 1 OBVIOUS
<1>2. m + 1 \in 1..(m + 1) /\ ~(m + 1 > m + 1) /\ \A n \in 1..m : n \in 1..(m + 1) OBVIOUS
<1>3. k \in k..lim /\ \A i \in k..k : i = k /\ ~(i < k) OBVIOUS
<1>4. /\ Past(D, k, m + 1, k) = 1..(m + 1) /\ Past(D, k, m, k) = 1..m
      /\ \A j : j # k => Past(D, k, m + 1, j) = Past(D, k, m, j)
  BY DEF Past
<1>5. CASE Gives(D[k].entries[m + 1], d)
  <2>1. \A i \in k..k : \A l \in Past(D, k, m + 1, i) : ~(i < k \/ l > m + 1)
    BY <1>1, <1>3, <1>4
  <2>. QED BY <1>2, <1>3, <1>4, <1>5, <2>1 DEF Nearest
<1>6. CASE ~Gives(D[k].entries[m + 1], d)
  <2>1. \A j : \A n \in Past(D, k, m + 1, j) :
           n \in Past(D, k, m, j) \/ ~Gives(D[j].entries[n], d)
    BY <1>1, <1>4, <1>6
  <2>2. \A j : Past(D, k, m, j) \subseteq Past(D, k, m + 1, j) BY <1>2, <1>4
  <2>3. CASE v = <<>> /\ \A j \in k..lim : \A n \in Past(D, k, m, j) : ~Gives(D[j].entries[n], d)
    BY <1>6, <2>1, <2>3 DEF Nearest
  <2>4. CASE v # <<>> /\ \E j \in k..lim : \E n \in Past(D, k, m, j) :
            /\ Gives(D[j].entries[n], d) /\ v = Value(D[j].entries[n], d)
            /\ \A i \in k..j : \A l \in Past(D, k, m, i) :
                    i < j \/ l > n => ~Gives(D[i].entries[l], d)
    <3>0. PICK j \in k..lim : \E n \in Past(D, k, m, j) :
            /\ Gives(D[j].entries[n], d) /\ v = Value(D[j].entries[n], d)
            /\ \A i \in k..j : \A l \in Past(D, k, m, i) :
                    i < j \/ l > n => ~Gives(D[i].entries[l], d)
      BY <2>4
    <3>1. PICK n \in Past(D, k, m, j) :
            /\ Gives(D[j].entries[n], d) /\ v = Value(D[j].entries[n], d)
            /\ \A i \in k..j : \A l \in Past(D, k, m, i) :
                    i < j \/ l > n => ~Gives(D[i].entries[l], d)
      BY <3>0
    <3>2. n \in Past(D, k, m + 1, j) BY <2>2
    <3>3. \A i \in k..j : \A l \in Past(D, k, m + 1, i) :
             i < j \/ l > n => ~Gives(D[i].entries[l], d)
      BY <2>1, <3>1
    <3>. QED BY <1>6, <2>4, <3>1, <3>2, <3>3 DEF Nearest
  <2>. QED BY <2>3, <2>4 DEF Nearest
<1>. QED BY <1>5, <1>6

LEMMA NearestOpen ==
    ASSUME NEW D, NEW lim \in Nat, NEW at \in 1..(lim + 1), NEW k \in 1..(at - 1), NEW d, NEW v,
           Nearest(D, lim, at, Len(Ents(D, lim, at)), d, v),
           \A j \in (k + 1)..(at - 1) : D[j].entries = <<>>
    PROVE  Nearest(D, lim, k, 0, d, v)
<1>. DEFINE L == Len(Ents(D, lim, at))
<1>1. Len(<<>>) = 0 OBVIOUS
<1>2. \A j \in at..lim : j # k /\ j \in k..lim /\ (j = at => at \in 1..lim) OBVIOUS
<1>3. \A j \in k..lim : j \in k..(at - 1) \/ j \in at..lim OBVIOUS
<1>4. \A j \in at..lim : Past(D, k, 0, j) = Past(D, at, L, j)
  BY <1>2 DEF Past, Ents
<1>5. \A j \in k..(at - 1) : Past(D, k, 0, j) = {}
  <2>1. 1..0 = {} OBVIOUS
  <2>2. \A j \in k..(at - 1) : j = k \/ j \in (k + 1)..(at - 1) OBVIOUS
  <2>. QED BY <1>1, <2>1, <2>2 DEF Past
<1>. HIDE DEF L
<1>6. CASE v = <<>> /\ \A j \in at..lim : \A n \in Past(D, at, L, j) : ~Gives(D[j].entries[n], d)
  <2>1. \A j \in k..lim : \A n \in Past(D, k, 0, j) : ~Gives(D[j].entries[n], d)
    BY <1>3, <1>4, <1>5, <1>6
  <2>. QED BY <1>6, <2>1 DEF Nearest
<1>7. CASE v # <<>> /\ \E j \in at..lim : \E n \in Past(D, at, L, j) :
            /\ Gives(D[j].entries[n], d) /\ v = Value(D[j].entries[n], d)
            /\ \A i \in at..j : \A l \in Past(D, at, L, i) :
                    i < j \/ l > n => ~Gives(D[i].entries[l], d)
  <2>0. PICK j \in at..lim : \E n \in Past(D, at, L, j) :
            /\ Gives(D[j].entries[n], d) /\ v = Value(D[j].entries[n], d)
            /\ \A i \in at..j : \A l \in Past(D, at, L, i) :
                    i < j \/ l > n => ~Gives(D[i].entries[l], d)
    BY <1>7
  <2>1. PICK n \in Past(D, at, L, j) :
            /\ Gives(D[j].entries[n], d) /\ v = Value(D[j].entries[n], d)
            /\ \A i \in at..j : \A l \in Past(D, at, L, i) :
                    i < j \/ l > n => ~Gives(D[i].entries[l], d)
    BY <2>0
  <2>2. j \in k..lim /\ n \in Past(D, k, 0, j) BY <1>2, <1>4
  <2>3. \A i \in k..j : i \in k..(at - 1) \/ (i \in at..j /\ i \in at..lim) OBVIOUS
  <2>4. \A i \in k..j : \A l \in Past(D, k, 0, i) :
           i < j \/ l > n => ~Gives(D[i].entries[l], d)
    BY <1>4, <1>5, <2>1, <2>3
  <2>. QED BY <1>7, <2>1, <2>2, <2>4 DEF Nearest
<1>. QED BY <1>6, <1>7 DEF Nearest, L

LEMMA FirstType ==
    ASSUME NEW E \in Seq(Entry), NEW d, NEW m \in 0..Len(E)
    PROVE  First(E, m, d) \in [1..m -> Seq(Items)]
<1>1. \A n \in 1..m : n \in 1..Len(E) OBVIOUS
<1>2. \A n \in 1..Len(E) : E[n] \in Entry BY ElementOfSeq
<1>3. \A e \in Entry : Adds(e, d) \in Seq(Items) BY EntryFields, EmptySeq DEF Adds
<1>. QED BY <1>1, <1>2, <1>3 DEF First

LEMMA SaidFirst ==
    ASSUME NEW E \in Seq(Entry), NEW d
    PROVE  Said(E, d) = Joined(First(E, Len(E), d)) /\ Said(E, d) \in Seq(Items)
<1>1. DOMAIN E = 1..Len(E) /\ Len(E) \in Nat /\ Len(E) \in 0..Len(E) BY LenProperties
<1>2. Said(E, d) = Joined(First(E, Len(E), d)) BY <1>1 DEF Said, First
<1>3. First(E, Len(E), d) \in [1..Len(E) -> Seq(Items)] BY <1>1, FirstType
<1>4. Joined(First(E, Len(E), d)) \in Seq(Items) BY <1>1, <1>3, JoinedType
<1>. QED BY <1>2, <1>4

(* The first lim directories of D.                                         *)
Dirs(D, lim) == D \in Seq(File) /\ lim \in Nat /\ lim <= Len(D)

LEMMA DirEntries ==
    ASSUME NEW D, NEW lim, Dirs(D, lim), NEW k \in 1..lim
    PROVE  /\ D[k] \in File /\ D[k].entries \in Seq(Entry) /\ Len(D[k].entries) \in Nat
           /\ D[k].kind # "mapping" => D[k].entries = <<>>
           /\ Ents(D, lim, k) = D[k].entries
<1>1. k \in 1..Len(D) BY DEF Dirs
<1>2. D[k] \in File BY <1>1, ElementOfSeq DEF Dirs
<1>3. D[k].entries \in Seq(Entry) /\ (D[k].kind # "mapping" => D[k].entries = <<>>)
  BY <1>2, FileEntries
<1>4. Len(D[k].entries) \in Nat BY <1>3, LenProperties
<1>. QED BY <1>2, <1>3, <1>4 DEF Ents

LEMMA AboveType ==
    ASSUME NEW D, NEW lim, Dirs(D, lim), NEW k \in 0..lim, NEW d
    PROVE  /\ lim - k \in Nat /\ Above(D, lim, k, d) \in [1..(lim - k) -> Seq(Items)]
           /\ Joined(Above(D, lim, k, d)) \in Seq(Items)
<1>1. lim \in Nat BY DEF Dirs
<1>2. lim - k \in Nat BY <1>1
<1>3. \A i \in 1..(lim - k) : lim + 1 - i \in 1..lim BY <1>1
<1>4. \A j \in 1..lim : Said(D[j].entries, d) \in Seq(Items) BY DirEntries, SaidFirst
<1>5. Above(D, lim, k, d) \in [1..(lim - k) -> Seq(Items)] BY <1>3, <1>4 DEF Above
<1>6. Joined(Above(D, lim, k, d)) \in Seq(Items) BY <1>2, <1>5, JoinedType
<1>. QED BY <1>2, <1>5, <1>6

LEMMA AllMore ==
    ASSUME NEW D, NEW lim, Dirs(D, lim), NEW k \in 1..lim, NEW m \in Nat,
           m + 1 \in 1..Len(D[k].entries), NEW d, NEW v, All(D, lim, k, m, d, v)
    PROVE  All(D, lim, k, m + 1, d, v \o Adds(D[k].entries[m + 1], d))
<1>. DEFINE E == D[k].entries
            A == Joined(Above(D, lim, k, d))
            q == First(E, m + 1, d)
<1>1. E \in Seq(Entry) /\ Ents(D, lim, k) = E /\ Len(E) \in Nat BY DirEntries
<1>2. lim \in Nat /\ ~(k > lim) /\ k \in 0..lim BY DEF Dirs
<1>3. A \in Seq(Items) BY <1>2, AboveType
<1>4. m \in 0..Len(E) /\ m + 1 \in 0..Len(E) BY <1>1
<1>. HIDE DEF E, A
<1>5. First(E, m, d) \in [1..m -> Seq(Items)] BY <1>1, <1>4, FirstType
<1>6. q \in [1..(m + 1) -> Seq(Items)] BY <1>1, <1>4, FirstType
<1>7. q[m + 1] = Adds(E[m + 1], d) /\ Agree(First(E, m, d), q, m) BY DEF First, Agree
<1>. HIDE DEF q
<1>8. Joined(q) = Joined(First(E, m, d)) \o q[m + 1] BY <1>5, <1>6, <1>7, JoinedMore
<1>9. Joined(First(E, m, d)) \in Seq(Items) BY <1>5, JoinedType
<1>10. q[m + 1] \in Seq(Items)
  <2>1. m + 1 \in 1..(m + 1) OBVIOUS
  <2>. QED BY <1>6, <2>1
<1>11. v = A \o Joined(First(E, m, d)) BY <1>1, <1>2 DEF All, A
<1>12. v \o q[m + 1] = A \o Joined(q)
  <2>2. (A \o Joined(First(E, m, d))) \o q[m + 1] = A \o (Joined(First(E, m, d)) \o q[m + 1])
    BY <1>3, <1>9, <1>10, Associative
  <2>. QED BY <1>8, <1>11, <2>2
<1>. QED BY <1>1, <1>2, <1>7, <1>12 DEF All, A, E, q

LEMMA AboveMore ==
    ASSUME NEW D, NEW lim, Dirs(D, lim), NEW k \in 1..lim, NEW d
    PROVE  Joined(Above(D, lim, k - 1, d)) = Joined(Above(D, lim, k, d)) \o Said(D[k].entries, d)
<1>. DEFINE n == lim - k
            q == Above(D, lim, k - 1, d)
<1>1. lim \in Nat /\ k \in 0..lim /\ k - 1 \in 0..lim /\ lim - (k - 1) = n + 1 BY DEF Dirs
<1>2. n \in Nat /\ Above(D, lim, k, d) \in [1..n -> Seq(Items)] BY <1>1, AboveType
<1>3. q \in [1..(n + 1) -> Seq(Items)] BY <1>1, AboveType
<1>4. lim + 1 - (n + 1) = k /\ n + 1 \in 1..(n + 1) /\ \A i \in 1..n : i \in 1..(n + 1)
  BY <1>1, <1>2
<1>5. q[n + 1] = Said(D[k].entries, d)
  BY <1>1, <1>4 DEF Above
<1>6. Agree(Above(D, lim, k, d), q, n) BY <1>1, <1>4 DEF Above, Agree
<1>. HIDE DEF n, q
<1>7. Joined(q) = Joined(Above(D, lim, k, d)) \o q[n + 1] BY <1>2, <1>3, <1>6, JoinedMore
<1>. QED BY <1>5, <1>7 DEF q

LEMMA AboveSilent ==
    ASSUME NEW D, NEW lim, Dirs(D, lim), NEW b \in 0..lim, NEW k \in 0..b, NEW d,
           \A j \in (k + 1)..b : D[j].entries = <<>>
    PROVE  Joined(Above(D, lim, k, d)) = Joined(Above(D, lim, b, d))
<1>. DEFINE n == lim - b
            t == lim - k
<1>1. lim \in Nat /\ k \in 0..lim /\ n <= t BY DEF Dirs
<1>2. n \in Nat /\ Above(D, lim, b, d) \in [1..n -> Seq(Items)] BY <1>1, AboveType
<1>3. t \in Nat /\ Above(D, lim, k, d) \in [1..t -> Seq(Items)] BY <1>1, AboveType
<1>4. Agree(Above(D, lim, b, d), Above(D, lim, k, d), n) BY <1>1 DEF Above, Agree
<1>5. Said(<<>>, d) = <<>>
  <2>1. <<>> \in Seq(Entry) /\ Len(<<>>) = 0 BY EmptySeq
  <2>2. Said(<<>>, d) = Joined(First(<<>>, 0, d)) BY <2>1, SaidFirst
  <2>0. 0 \in 0..Len(<<>>) BY <2>1
  <2>3. First(<<>>, 0, d) \in [1..0 -> Seq(Items)] BY <2>0, <2>1, FirstType
  <2>. QED BY <2>2, <2>3, JoinedType
<1>6. Mute(Above(D, lim, k, d), n, t)
  <2>1. \A i \in (n + 1)..t : i \in 1..t /\ lim + 1 - i \in (k + 1)..b BY <1>1
  <2>. QED BY <1>5, <2>1 DEF Above, Mute
<1>. HIDE DEF n, t
<1>7. n \in Nat /\ t \in Nat /\ n <= t BY <1>1, <1>2, <1>3
<1>. QED BY <1>2, <1>3, <1>4, <1>6, <1>7, JoinedSilent

LEMMA AllClosed ==
    ASSUME NEW D, NEW lim, Dirs(D, lim), NEW at \in 1..(lim + 1), NEW k \in 0..(at - 1),
           NEW d, NEW v, All(D, lim, at, Len(Ents(D, lim, at)), d, v),
           \A j \in (k + 1)..(at - 1) : D[j].entries = <<>>
    PROVE  v = Joined(Above(D, lim, k, d))
<1>1. lim \in Nat /\ at - 1 \in 0..lim BY DEF Dirs
<1>2. Joined(Above(D, lim, k, d)) = Joined(Above(D, lim, at - 1, d)) BY <1>1, AboveSilent
<1>3. CASE at = lim + 1
  <2>1. v = <<>> /\ at - 1 = lim /\ lim - lim = 0 BY <1>1, <1>3 DEF All
  <2>2. lim \in 0..lim BY <1>1
  <2>3. Above(D, lim, lim, d) \in [1..0 -> Seq(Items)] BY <2>1, <2>2, AboveType
  <2>. QED BY <1>2, <2>1, <2>3, JoinedType
<1>4. CASE at \in 1..lim
  <2>1. Ents(D, lim, at) = D[at].entries /\ D[at].entries \in Seq(Entry) BY <1>4, DirEntries
  <2>2. v = Joined(Above(D, lim, at, d)) \o Said(D[at].entries, d)
    BY <1>1, <1>4, <2>1, SaidFirst, SMTT(30) DEF All
  <2>. QED BY <1>2, <1>4, <2>2, AboveMore
<1>. QED BY <1>1, <1>3, <1>4

LEMMA AllOpen ==
    ASSUME NEW D, NEW lim, Dirs(D, lim), NEW k \in 1..lim, NEW d
    PROVE  All(D, lim, k, 0, d, Joined(Above(D, lim, k, d)))
<1>1. lim \in Nat /\ k \in 0..lim /\ ~(k > lim) BY DEF Dirs
<1>2. Ents(D, lim, k) \in Seq(Entry) /\ 0 \in 0..Len(Ents(D, lim, k)) BY DirEntries
<1>3. First(Ents(D, lim, k), 0, d) \in [1..0 -> Seq(Items)] BY <1>2, FirstType
<1>4. Joined(First(Ents(D, lim, k), 0, d)) = <<>> BY <1>3, JoinedType
<1>5. Joined(Above(D, lim, k, d)) \in Seq(Items) BY <1>1, AboveType
<1>. QED BY <1>1, <1>4, <1>5, ConcatEmptySeq DEF All

-----------------------------------------------------------------------------
(* The merge: its start, the next file, the next entry, its end.           *)

LEMMA SoFarStart ==
    ASSUME NEW D, NEW lim, Dirs(D, lim), NEW list, Found(D, list, lim),
           NEW v, v = [d \in Dests |-> <<>>]
    PROVE  SoFar(D, lim, list, <<>>, v)
<1>1. lim \in Nat /\ lim + 1 \in 1..(lim + 1) /\ lim + 1 - 1 = lim /\ lim + 1 > lim
      /\ lim + 1 \notin 1..lim
  BY DEF Dirs
<1>2. Ents(D, lim, lim + 1) = <<>> BY <1>1 DEF Ents
<1>3. Len(<<>>) = 0 /\ 0 \in 0..0 BY EmptySeq
<1>4. SubSeq(<<>>, 0 + 1, 0) = <<>> BY SubSeqEmpty
<1>5. Place(D, lim, lim + 1, 0, list, <<>>) BY <1>1, <1>2, <1>3, <1>4 DEF Place
<1>6. ASSUME NEW d \in Dests
      PROVE  All(D, lim, lim + 1, 0, d, v[d]) /\ Nearest(D, lim, lim + 1, 0, d, v[d])
  <2>1. v[d] = <<>> OBVIOUS
  <2>2. (lim + 1)..lim = {} BY <1>1
  <2>. QED BY <1>1, <2>1, <2>2 DEF All, Nearest
<1>7. Kept(D, lim, lim + 1, 0, v) BY <1>6 DEF Kept
<1>. QED BY <1>1, <1>2, <1>3, <1>5, <1>7 DEF SoFar

(* Nothing left of a file: all its entries are merged.                     *)
LEMMA NoneLeft ==
    ASSUME NEW D, NEW lim, Dirs(D, lim), NEW at \in 1..(lim + 1),
           NEW m \in 0..Len(Ents(D, lim, at)), NEW list, Place(D, lim, at, m, list, <<>>)
    PROVE  m = Len(Ents(D, lim, at))
<1>. DEFINE E == Ents(D, lim, at)
<1>1. E \in Seq(Entry)
  <2>1. CASE at \in 1..lim BY <2>1, DirEntries
  <2>2. CASE at \notin 1..lim BY <2>2, EmptySeq DEF Ents
  <2>. QED BY <2>1, <2>2
<1>2. SubSeq(E, m + 1, Len(E)) = <<>> BY DEF Place
<1>. HIDE DEF E
<1>3. Len(E) \in Nat /\ E \in [1..Len(E) -> Entry] BY <1>1, LenProperties
<1>4. m \in 0..Len(E) BY DEF E
<1>5. \A i \in (m + 1)..Len(E) : E[i] \in Entry BY <1>3, <1>4
<1>6. m + 1 \in Int /\ Len(E) \in Int BY <1>3, <1>4
<1>7. Len(SubSeq(E, m + 1, Len(E))) = IF m + 1 <= Len(E) THEN Len(E) - (m + 1) + 1 ELSE 0
  BY <1>5, <1>6, SubSeqProperties
<1>8. Len(SubSeq(E, m + 1, Len(E))) = 0 BY <1>2, EmptySeq
<1>. DEFINE L == Len(E)
<1>9. L \in Nat /\ m \in 0..L /\ 0 = IF m + 1 <= L THEN L - (m + 1) + 1 ELSE 0
  BY <1>3, <1>4, <1>7, <1>8
<1>. HIDE DEF L
<1>10. m = L BY <1>9
<1>. QED BY <1>10 DEF E, L

LEMMA SoFarOpen ==
    ASSUME NEW D, NEW lim, Dirs(D, lim), NEW list \in Seq(File), list # <<>>,
           NEW v, SoFar(D, lim, list, <<>>, v)
    PROVE  SoFar(D, lim, SubSeq(list, 1, Len(list) - 1), list[Len(list)].entries, v)
<1>. DEFINE less == SubSeq(list, 1, Len(list) - 1)
            file == list[Len(list)]
<1>0. lim \in Nat BY DEF Dirs
<1>1. PICK at \in 1..(lim + 1) : \E m \in 0..Len(Ents(D, lim, at)) :
          Place(D, lim, at, m, list, <<>>) /\ Kept(D, lim, at, m, v)
  BY DEF SoFar
<1>2. PICK m \in 0..Len(Ents(D, lim, at)) :
          Place(D, lim, at, m, list, <<>>) /\ Kept(D, lim, at, m, v)
  BY <1>1
<1>3. m = Len(Ents(D, lim, at)) BY <1>2, NoneLeft
<1>4. Found(D, list, at - 1) /\ at - 1 \in Nat BY <1>0, <1>2 DEF Place
<1>5. PICK k \in 1..(at - 1) :
          /\ file = D[k] /\ Found(D, less, k - 1)
          /\ \A j \in (k + 1)..(at - 1) : D[j].kind = "absent"
  BY <1>4, FoundLast
<1>. HIDE DEF less, file
<1>6. k \in 1..lim /\ k \in 1..(lim + 1) /\ k \in 0..(at - 1) BY <1>0, <1>5
<1>7. /\ Ents(D, lim, k) = file.entries /\ file.entries \in Seq(Entry)
      /\ Len(file.entries) \in Nat
  BY <1>5, <1>6, DirEntries
<1>8. ASSUME NEW j \in (k + 1)..(at - 1) PROVE D[j].entries = <<>>
  <2>1. j \in 1..lim BY <1>0, <1>6
  <2>2. D[j].kind # "mapping" BY <1>5
  <2>. QED BY <2>1, <2>2, DirEntries
<1>9. Place(D, lim, k, 0, less, file.entries)
  <2>1. SubSeq(file.entries, 0 + 1, Len(file.entries)) = file.entries BY <1>7, SubSeqFull
  <2>. QED BY <1>5, <1>7, <2>1 DEF Place
<1>10. Kept(D, lim, k, 0, v)
  <2>1. ASSUME NEW d \in Dests, IsList(d) PROVE All(D, lim, k, 0, d, v[d])
    <3>1. All(D, lim, at, Len(Ents(D, lim, at)), d, v[d]) BY <1>2, <1>3, <2>1 DEF Kept
    <3>2. v[d] = Joined(Above(D, lim, k, d)) BY <1>6, <1>8, <3>1, AllClosed
    <3>. QED BY <1>6, <3>2, AllOpen
  <2>2. ASSUME NEW d \in Dests, ~IsList(d) PROVE Nearest(D, lim, k, 0, d, v[d])
    <3>1. Nearest(D, lim, at, Len(Ents(D, lim, at)), d, v[d]) BY <1>2, <1>3, <2>2 DEF Kept
    <3>. QED BY <1>0, <1>5, <1>8, <3>1, NearestOpen
  <2>. QED BY <2>1, <2>2 DEF Kept
<1>11. 0 \in 0..Len(Ents(D, lim, k)) BY <1>7
<1>. QED BY <1>6, <1>9, <1>10, <1>11 DEF SoFar, less, file

LEMMA SoFarMerge ==
    ASSUME NEW D, NEW lim, Dirs(D, lim), NEW list, NEW left, left # <<>>,
           NEW v \in [Dests -> Seq(Items)], SoFar(D, lim, list, left, v)
    PROVE  LET e == Head(left)
           IN  /\ e \in Entry
               /\ e.key # Unknown /\ e.valid =>
                    /\ Merge(v, e) \in [Dests -> Seq(Items)]
                    /\ SoFar(D, lim, list, Tail(left), Merge(v, e))
<1>0. lim \in Nat BY DEF Dirs
<1>1. PICK k \in 1..(lim + 1) : \E m \in 0..Len(Ents(D, lim, k)) :
          Place(D, lim, k, m, list, left) /\ Kept(D, lim, k, m, v)
  BY DEF SoFar
<1>2. PICK m \in 0..Len(Ents(D, lim, k)) :
          Place(D, lim, k, m, list, left) /\ Kept(D, lim, k, m, v)
  BY <1>1
<1>. DEFINE E == Ents(D, lim, k)
            e == E[m + 1]
<1>3. left = SubSeq(E, m + 1, Len(E)) BY <1>2 DEF Place
<1>4. k \in 1..lim
  <2>1. SUFFICES ASSUME k \notin 1..lim PROVE FALSE OBVIOUS
  <2>2. E = <<>> BY <2>1 DEF Ents
  <2>3. Len(<<>>) = 0 BY EmptySeq
  <2>4. m = 0 BY <1>2, <2>2, <2>3
  <2>5. SubSeq(<<>>, 0 + 1, 0) = <<>> BY SubSeqEmpty
  <2>. QED BY <1>3, <2>2, <2>3, <2>4, <2>5
<1>5. E = D[k].entries /\ E \in Seq(Entry) /\ Len(E) \in Nat BY <1>4, DirEntries
<1>6. m \in 0..Len(E) OBVIOUS
<1>. HIDE DEF E
<1>7. m < Len(E)
  <2>1. SUFFICES ASSUME ~(m < Len(E)) PROVE FALSE OBVIOUS
  <2>2. m + 1 \in Int /\ Len(E) \in Int /\ Len(E) < m + 1 BY <1>5, <1>6, <2>1
  <2>3. SubSeq(E, m + 1, Len(E)) = <<>> BY <2>2, SubSeqEmpty
  <2>. QED BY <1>3, <2>3
<1>8. m \in Nat /\ m + 1 \in 1..Len(E) /\ m + 1 \in 0..Len(E) /\ Len(E) \in (m + 1)..Len(E)
  BY <1>5, <1>6, <1>7
<1>9. Head(left) = e /\ Tail(left) = SubSeq(E, m + 1 + 1, Len(E))
  BY <1>3, <1>5, <1>8, HeadTailOfSubSeq
<1>10. e \in Entry BY <1>5, <1>8, ElementOfSeq
<1>11. ASSUME e.key # Unknown, e.valid
       PROVE  /\ Merge(v, e) \in [Dests -> Seq(Items)]
              /\ SoFar(D, lim, list, Tail(left), Merge(v, e))
  <2>. DEFINE w == Merge(v, e)
  <2>1. /\ w \in [Dests -> Seq(Items)]
        /\ \A d \in Dests :
             IF IsList(d) THEN w[d] = v[d] \o Adds(e, d)
             ELSE /\ w[d] = IF Gives(e, d) THEN Value(e, d) ELSE v[d]
                  /\ Gives(e, d) => Value(e, d) # <<>>
    BY <1>10, <1>11, MergeAt
  <2>. HIDE DEF w
  <2>2. Kept(D, lim, k, m + 1, w)
    <3>1. ASSUME NEW d \in Dests, IsList(d) PROVE All(D, lim, k, m + 1, d, w[d])
      <4>1. All(D, lim, k, m, d, v[d]) BY <1>2, <3>1 DEF Kept
      <4>2. m + 1 \in 1..Len(D[k].entries) BY <1>5, <1>8
      <4>3. All(D, lim, k, m + 1, d, v[d] \o Adds(D[k].entries[m + 1], d))
        BY <1>4, <1>8, <4>1, <4>2, AllMore
      <4>. QED BY <1>5, <2>1, <3>1, <4>3
    <3>2. ASSUME NEW d \in Dests, ~IsList(d) PROVE Nearest(D, lim, k, m + 1, d, w[d])
      <4>1. Nearest(D, lim, k, m, d, v[d]) BY <1>2, <3>2 DEF Kept
      <4>2. w[d] = (IF Gives(e, d) THEN Value(e, d) ELSE v[d])
            /\ (Gives(e, d) => Value(e, d) # <<>>)
        BY <2>1, <3>2
      <4>3. e = D[k].entries[m + 1] BY <1>5
      <4>. HIDE DEF e
      <4>4. Gives(D[k].entries[m + 1], d) => Value(D[k].entries[m + 1], d) # <<>>
        BY <4>2, <4>3
      <4>5. Nearest(D, lim, k, m + 1, d,
                    IF Gives(D[k].entries[m + 1], d) THEN Value(D[k].entries[m + 1], d)
                    ELSE v[d])
        BY <1>0, <1>4, <1>8, <4>1, <4>4, NearestMore
      <4>. QED BY <4>2, <4>3, <4>5
    <3>. QED BY <3>1, <3>2 DEF Kept
  <2>3. Place(D, lim, k, m + 1, list, Tail(left)) BY <1>2, <1>9 DEF Place, E
  <2>4. m + 1 \in 0..Len(Ents(D, lim, k)) /\ k \in 1..(lim + 1) BY <1>0, <1>4, <1>8 DEF E
  <2>. QED BY <2>1, <2>2, <2>3, <2>4 DEF SoFar, w
<1>. QED BY <1>9, <1>10, <1>11

-----------------------------------------------------------------------------
(* The invariant.                                                          *)

LEMMA OptInit == Init => OptInv
<1>1. SUFFICES ASSUME Init PROVE OptInv OBVIOUS
<1>2. input \in Input /\ pc = "walk" /\ dir = 1 /\ files = <<>> /\ entries = <<>>
      /\ merged = [d \in Dests |-> <<>>]
  BY <1>1, OptionAssumption DEF Init
<1>3. files \in Seq(File) /\ merged \in [Dests -> Seq(Items)] BY <1>2, EmptySeq
<1>4. Limit \in Nat /\ Limit \in 1..Len(input.dirs) BY <1>2, InputFacts
<1>5. dir \in 1..Limit /\ dir - 1 = 0 BY <1>2, <1>4
<1>6. Found(input.dirs, files, dir - 1) BY <1>2, <1>5, FoundNone
<1>. QED BY <1>2, <1>3, <1>5, <1>6 DEF OptInv

LEMMA OptStep == OptInv /\ [Next]_vars => OptInv'
<1>1. SUFFICES ASSUME OptInv, [Next]_vars PROVE OptInv' OBVIOUS
<1>. DEFINE D == input.dirs
<1>2. input \in Input /\ files \in Seq(File) /\ merged \in [Dests -> Seq(Items)]
  BY <1>1 DEF OptInv
<1>3. /\ D \in Seq(File) /\ Limit \in Nat /\ Limit \in 1..Len(D)
      /\ input.home \in Nat /\ input.home <= Len(D)
  BY <1>2, InputFacts
<1>4. Dirs(D, Limit) BY <1>3 DEF Dirs
<1>5. input' = input
  BY <1>1 DEF Next, Walk, OpenFile, MergeEntry, LoadDone, ParseArgs, vars
<1>6. Limit' = Limit BY <1>5 DEF Limit
<1>7. CASE Walk
  <2>0. /\ pc = "walk" /\ entries' = entries /\ merged' = merged
        /\ files' = IF D[dir].kind = "absent" THEN files ELSE Append(files, D[dir])
        /\ IF LastDir THEN pc' = "merge" /\ dir' = dir ELSE dir' = dir + 1 /\ pc' = pc
    BY <1>7 DEF Walk
  <2>1. /\ dir \in 1..Limit /\ Found(D, files, dir - 1)
        /\ entries = <<>> /\ merged = [d \in Dests |-> <<>>]
    BY <1>1, <2>0 DEF OptInv
  <2>2. dir \in Nat /\ dir - 1 \in Nat /\ dir - 1 + 1 = dir /\ dir + 1 - 1 = dir BY <1>3, <2>1
  <2>3. D[dir] \in File BY <1>4, <2>1, DirEntries
  <2>4. files' \in Seq(File) BY <1>2, <2>0, <2>3, AppendProperties
  <2>5. Found(D, files', dir)
    <3>1. Found(D, IF D[dir - 1 + 1].kind = "absent" THEN files
                   ELSE Append(files, D[dir - 1 + 1]), dir - 1 + 1)
      BY <1>2, <2>1, <2>2, FoundMore
    <3>. QED BY <2>0, <2>2, <3>1
  <2>6. LastDir <=> dir = Limit
    <3>1. dir \in Nat /\ dir >= 1 /\ dir <= Limit BY <1>3, <2>1
    <3>. QED BY <1>3, <3>1 DEF LastDir, Limit
  <2>7. CASE LastDir
    <3>1. pc' = "merge" /\ Found(D, files', Limit) BY <2>0, <2>5, <2>6, <2>7
    <3>2. SoFar(D, Limit, files', <<>>, merged) BY <1>4, <2>1, <3>1, SoFarStart
    <3>3. SoFar(input.dirs, Limit, files, entries, merged)'
      BY <1>5, <1>6, <2>0, <2>1, <3>2
    <3>. QED BY <1>2, <1>5, <2>0, <2>4, <3>1, <3>3 DEF OptInv
  <2>8. CASE ~LastDir
    <3>1. pc' = "walk" /\ dir' = dir + 1 BY <2>0, <2>8
    <3>2. dir' \in 1..Limit /\ dir' - 1 = dir BY <1>3, <2>1, <2>2, <2>6, <2>8, <3>1
    <3>3. (dir \in 1..Limit)' /\ Found(input.dirs, files, dir - 1)'
      BY <1>5, <1>6, <2>5, <3>2
    <3>. QED BY <1>2, <1>5, <2>0, <2>1, <2>4, <3>1, <3>3 DEF OptInv
  <2>. QED BY <2>7, <2>8
<1>8. CASE OpenFile
  <2>0. /\ pc = "merge" /\ entries = <<>> /\ files # <<>> /\ merged' = merged
        /\ files' = SubSeq(files, 1, Len(files) - 1)
        /\ entries' = files[Len(files)].entries
        /\ pc' \in {"failed", "merge"}
    BY <1>8 DEF OpenFile
  <2>1. SoFar(D, Limit, files, <<>>, merged) BY <1>1, <2>0 DEF OptInv
  <2>2. SoFar(D, Limit, files', entries', merged) BY <1>2, <1>4, <2>0, <2>1, SoFarOpen
  <2>3. SoFar(input.dirs, Limit, files, entries, merged)' BY <1>5, <1>6, <2>0, <2>2
  <2>4. files' \in Seq(File)
    <3>1. Len(files) \in Nat /\ files \in [1..Len(files) -> File] BY <1>2, LenProperties
    <3>2. Len(files) - 1 \in Int /\ \A i \in 1..(Len(files) - 1) : files[i] \in File
      BY <3>1
    <3>. QED BY <2>0, <3>2, SubSeqProperties
  <2>. QED BY <1>2, <1>5, <2>0, <2>3, <2>4 DEF OptInv
<1>9. CASE MergeEntry
  <2>. DEFINE e == Head(entries)
  <2>0. pc = "merge" /\ entries # <<>> /\ files' = files BY <1>9 DEF MergeEntry
  <2>1. SoFar(D, Limit, files, entries, merged) BY <1>1, <2>0 DEF OptInv
  <2>2. CASE e.key = Unknown \/ ~e.valid
    <3>1. pc' = "failed" /\ merged' = merged BY <1>9, <2>2 DEF MergeEntry
    <3>. QED BY <1>2, <1>5, <2>0, <3>1 DEF OptInv
  <2>3. CASE e.key # Unknown /\ e.valid
    <3>1. merged' = Merge(merged, e) /\ entries' = Tail(entries) /\ pc' = pc
      BY <1>9, <2>3 DEF MergeEntry
    <3>2. merged' \in [Dests -> Seq(Items)] /\ SoFar(D, Limit, files, entries', merged')
      BY <1>2, <1>4, <2>0, <2>1, <2>3, <3>1, SoFarMerge
    <3>3. SoFar(input.dirs, Limit, files, entries, merged)' BY <1>5, <1>6, <2>0, <3>2
    <3>. QED BY <1>2, <1>5, <2>0, <3>1, <3>2, <3>3 DEF OptInv
  <2>. QED BY <2>2, <2>3
<1>10. CASE LoadDone
  <2>0. /\ pc = "merge" /\ entries = <<>> /\ files = <<>> /\ pc' = "parse"
        /\ files' = files /\ entries' = entries /\ merged' = merged
    BY <1>10 DEF LoadDone
  <2>1. SoFar(D, Limit, files, entries, merged) BY <1>1, <2>0 DEF OptInv
  <2>2. SoFar(input.dirs, Limit, files, entries, merged)' BY <1>5, <1>6, <2>0, <2>1
  <2>. QED BY <1>2, <1>5, <2>0, <2>2 DEF OptInv
<1>11. CASE ParseArgs
  <2>0. /\ pc = "parse" /\ pc' \in {"failed", "done"} /\ args' = [d \in Dests |-> Option(d)]
        /\ files' = files /\ entries' = entries /\ merged' = merged
    BY <1>11 DEF ParseArgs
  <2>1. SoFar(D, Limit, files, entries, merged) /\ files = <<>> /\ entries = <<>>
    BY <1>1, <2>0 DEF OptInv
  <2>2. SoFar(input.dirs, Limit, files, entries, merged)' BY <1>5, <1>6, <2>0, <2>1
  <2>3. (args = [d \in Dests |-> Option(d)])' BY <1>5, <2>0 DEF Option
  <2>. QED BY <1>2, <1>5, <2>0, <2>1, <2>2, <2>3 DEF OptInv
<1>12. CASE UNCHANGED vars
  <2>0. UNCHANGED <<input, pc, dir, files, entries, merged, args>> BY <1>12 DEF vars
  <2>1. (SoFar(input.dirs, Limit, files, entries, merged)
          <=> SoFar(input.dirs, Limit, files, entries, merged)')
    BY <1>6, <2>0
  <2>2. \A d : Option(d)' = Option(d) BY <2>0 DEF Option
  <2>. QED BY <1>1, <1>6, <2>0, <2>1, <2>2 DEF OptInv
<1>. QED BY <1>1, <1>7, <1>8, <1>9, <1>10, <1>11, <1>12 DEF Next

LEMMA OptAlways == Spec => []OptInv
BY OptInit, OptStep, PTL DEF Spec

-----------------------------------------------------------------------------
(* What it says at the end.                                                *)

(* All files are merged: what is not a list has the nearest value, and a   *)
(* list all of them.                                                       *)
LEMMA AtTheEnd ==
    ASSUME NEW D, NEW lim, Dirs(D, lim), NEW v, SoFar(D, lim, <<>>, <<>>, v)
    PROVE  /\ \A d \in Dests : IsList(d) => v[d] = Joined(Above(D, lim, 0, d))
           /\ \A d \in Dests : ~IsList(d) =>
                \E k \in 1..(lim + 1) :
                    /\ Nearest(D, lim, k, Len(Ents(D, lim, k)), d, v[d])
                    /\ \A j \in 1..(k - 1) : D[j].entries = <<>>
<1>0. lim \in Nat BY DEF Dirs
<1>1. PICK k \in 1..(lim + 1) : \E m \in 0..Len(Ents(D, lim, k)) :
          Place(D, lim, k, m, <<>>, <<>>) /\ Kept(D, lim, k, m, v)
  BY DEF SoFar
<1>2. PICK m \in 0..Len(Ents(D, lim, k)) :
          Place(D, lim, k, m, <<>>, <<>>) /\ Kept(D, lim, k, m, v)
  BY <1>1
<1>3. m = Len(Ents(D, lim, k)) BY <1>2, NoneLeft
<1>4. ASSUME NEW j \in 1..(k - 1) PROVE D[j].entries = <<>>
  <2>1. Found(D, <<>>, k - 1) BY <1>2 DEF Place
  <2>2. Len(<<>>) = 0 /\ 1..0 = {} BY EmptySeq
  <2>3. D[j].kind = "absent" BY <2>1, <2>2 DEF Found
  <2>4. j \in 1..lim /\ D[j].kind # "mapping" BY <1>0, <2>3
  <2>. QED BY <2>4, DirEntries
<1>5. ASSUME NEW d \in Dests, IsList(d) PROVE v[d] = Joined(Above(D, lim, 0, d))
  <2>1. All(D, lim, k, Len(Ents(D, lim, k)), d, v[d]) BY <1>2, <1>3, <1>5 DEF Kept
  <2>2. 0 \in 0..(k - 1) /\ 0 + 1 = 1 BY <1>0
  <2>. QED BY <1>4, <2>1, <2>2, AllClosed
<1>6. ASSUME NEW d \in Dests, ~IsList(d)
      PROVE  Nearest(D, lim, k, Len(Ents(D, lim, k)), d, v[d])
  BY <1>2, <1>3, <1>6 DEF Kept
<1>. QED BY <1>4, <1>5, <1>6

(* The nearest value among all of them is the one of the nearest file.     *)
LEMMA NearestEnd ==
    ASSUME NEW D, NEW lim, Dirs(D, lim), NEW k \in 1..(lim + 1), NEW d, NEW v,
           Nearest(D, lim, k, Len(Ents(D, lim, k)), d, v),
           \A j \in 1..(k - 1) : D[j].entries = <<>>
    PROVE  \/ /\ v = <<>>
              /\ \A j \in 1..lim : \A n \in DOMAIN D[j].entries : ~Gives(D[j].entries[n], d)
           \/ /\ v # <<>>
              /\ \E j \in 1..lim : \E n \in DOMAIN D[j].entries :
                    LET E == D[j].entries
                    IN  /\ Gives(E[n], d) /\ v = Value(E[n], d)
                        /\ \A i \in DOMAIN E : i > n => ~Gives(E[i], d)
                        /\ \A i \in 1..lim : i < j =>
                              \A l \in DOMAIN D[i].entries : ~Gives(D[i].entries[l], d)
<1>. DEFINE m == Len(Ents(D, lim, k))
<1>0. lim \in Nat BY DEF Dirs
<1>1. \A j \in 1..lim : DOMAIN D[j].entries = 1..Len(D[j].entries)
  BY DirEntries, LenProperties
<1>2. \A j \in k..lim : j \in 1..lim OBVIOUS
<1>3. \A j \in k..lim : Past(D, k, m, j) = DOMAIN D[j].entries
  BY <1>1, <1>2 DEF Past, Ents
<1>4. \A j \in 1..lim : j \in 1..(k - 1) \/ j \in k..lim OBVIOUS
<1>5. \A j \in 1..(k - 1) : j \in 1..lim BY <1>0
<1>6. \A j \in 1..(k - 1) : DOMAIN D[j].entries = {}
  <2>1. Len(<<>>) = 0 /\ 1..0 = {} BY EmptySeq
  <2>. QED BY <1>1, <1>5, <2>1
<1>. HIDE DEF m
<1>7. CASE v = <<>> /\ \A j \in k..lim : \A n \in Past(D, k, m, j) : ~Gives(D[j].entries[n], d)
  BY <1>3, <1>4, <1>6, <1>7
<1>8. CASE v # <<>> /\ \E j \in k..lim : \E n \in Past(D, k, m, j) :
            /\ Gives(D[j].entries[n], d) /\ v = Value(D[j].entries[n], d)
            /\ \A i \in k..j : \A l \in Past(D, k, m, i) :
                    i < j \/ l > n => ~Gives(D[i].entries[l], d)
  <2>0. PICK j \in k..lim : \E n \in Past(D, k, m, j) :
            /\ Gives(D[j].entries[n], d) /\ v = Value(D[j].entries[n], d)
            /\ \A i \in k..j : \A l \in Past(D, k, m, i) :
                    i < j \/ l > n => ~Gives(D[i].entries[l], d)
    BY <1>8
  <2>1. PICK n \in Past(D, k, m, j) :
            /\ Gives(D[j].entries[n], d) /\ v = Value(D[j].entries[n], d)
            /\ \A i \in k..j : \A l \in Past(D, k, m, i) :
                    i < j \/ l > n => ~Gives(D[i].entries[l], d)
    BY <2>0
  <2>2. j \in 1..lim /\ n \in DOMAIN D[j].entries BY <1>2, <1>3
  <2>3. j \in k..j OBVIOUS
  <2>4. \A i \in DOMAIN D[j].entries : i > n => ~Gives(D[j].entries[i], d)
    BY <1>3, <2>1, <2>3
  <2>5. \A i \in k..lim : i < j => i \in k..j OBVIOUS
  <2>6. \A i \in 1..lim : i < j =>
            \A l \in DOMAIN D[i].entries : ~Gives(D[i].entries[l], d)
    BY <1>3, <1>4, <1>6, <2>1, <2>5
  <2>. QED BY <1>8, <2>1, <2>2, <2>4, <2>6
<1>. QED BY <1>7, <1>8 DEF Nearest, m

(* For any options and files, an option that is not a list ends up with    *)
(* the command line's value, else the nearest file's, else the default,    *)
(* though the files are merged from the farthest on (load_config,          *)
(* parse_args).                                                            *)
THEOREM PrecedenceHolds == Spec => []NearestWins
<1>1. ASSUME OptInv PROVE NearestWins
  <2>1. SUFFICES ASSUME pc = "done", NEW d \in Dests, ~IsList(d), input.cli[d] = <<>>
                 PROVE \/ (\A k \in Read : Silent(k, d)) /\ args[d] = Default[d]
                       \/ \E k \in Read : \E n \in DOMAIN input.dirs[k].entries :
                            LET E == input.dirs[k].entries
                            IN  /\ Gives(E[n], d) /\ args[d] = Value(E[n], d)
                                /\ \A i \in DOMAIN E : i > n => ~Gives(E[i], d)
                                /\ \A j \in Read : j < k => Silent(j, d)
    <3>1. ASSUME pc = "done", NEW d \in Dests, ~IsList(d), input.cli[d] # <<>>
          PROVE  args[d] = input.cli[d]
      <4>1. args[d] = Option(d) BY <1>1, <3>1 DEF OptInv
      <4>. QED BY <3>1, <4>1 DEF Option, IsList
    <3>. QED BY <2>1, <3>1 DEF NearestWins
  <2>. DEFINE D == input.dirs
  <2>2. Limit \in Nat /\ Limit <= Len(D) /\ D \in Seq(File)
    <3>1. input \in Input BY <1>1 DEF OptInv
    <3>2. D \in Seq(File) /\ Limit \in Nat /\ Limit \in 1..Len(D) BY <3>1, InputFacts
    <3>. QED BY <3>2
  <2>3. Dirs(D, Limit) BY <2>2 DEF Dirs
  <2>4. SoFar(D, Limit, <<>>, <<>>, merged)
    <3>1. SoFar(input.dirs, Limit, files, entries, merged) /\ files = <<>> /\ entries = <<>>
      BY <1>1, <2>1 DEF OptInv
    <3>. QED BY <3>1
  <2>5. args[d] = IF merged[d] # <<>> THEN merged[d] ELSE Default[d]
    <3>1. args[d] = Option(d) BY <1>1, <2>1 DEF OptInv
    <3>. QED BY <2>1, <3>1 DEF Option, IsList
  <2>6. PICK k \in 1..(Limit + 1) :
            /\ Nearest(D, Limit, k, Len(Ents(D, Limit, k)), d, merged[d])
            /\ \A j \in 1..(k - 1) : D[j].entries = <<>>
    BY <2>1, <2>3, <2>4, AtTheEnd
  <2>7. \/ /\ merged[d] = <<>>
           /\ \A j \in 1..Limit : \A n \in DOMAIN D[j].entries : ~Gives(D[j].entries[n], d)
        \/ /\ merged[d] # <<>>
           /\ \E j \in 1..Limit : \E n \in DOMAIN D[j].entries :
                 LET E == D[j].entries
                 IN  /\ Gives(E[n], d) /\ merged[d] = Value(E[n], d)
                     /\ \A i \in DOMAIN E : i > n => ~Gives(E[i], d)
                     /\ \A i \in 1..Limit : i < j =>
                           \A l \in DOMAIN D[i].entries : ~Gives(D[i].entries[l], d)
    <3>. DEFINE v == merged[d]
    <3>1. /\ Nearest(D, Limit, k, Len(Ents(D, Limit, k)), d, v)
          /\ \A j \in 1..(k - 1) : D[j].entries = <<>>
      BY <2>6
    <3>. HIDE DEF v, D
    <3>2. \/ /\ v = <<>>
             /\ \A j \in 1..Limit : \A n \in DOMAIN D[j].entries : ~Gives(D[j].entries[n], d)
          \/ /\ v # <<>>
             /\ \E j \in 1..Limit : \E n \in DOMAIN D[j].entries :
                   LET E == D[j].entries
                   IN  /\ Gives(E[n], d) /\ v = Value(E[n], d)
                       /\ \A i \in DOMAIN E : i > n => ~Gives(E[i], d)
                       /\ \A i \in 1..Limit : i < j =>
                             \A l \in DOMAIN D[i].entries : ~Gives(D[i].entries[l], d)
      BY <2>3, <3>1, NearestEnd
    <3>. QED BY <3>2 DEF v
  <2>. QED BY <2>5, <2>7 DEF Read, Silent
<1>. QED BY <1>1, OptAlways, PTL

(* For any options and files, a list option ends up with every value of    *)
(* every file that is read, in order and once, and the command line's      *)
(* after them; the passthrough arguments are replaced by the command       *)
(* line's (_merge_file, argparse's extend).                                *)
THEOREM ListsAreComplete == Spec => []ListsAccumulate
<1>1. ASSUME OptInv PROVE ListsAccumulate
  <2>1. SUFFICES ASSUME pc = "done", NEW d \in Dests, IsList(d)
                 PROVE LET all == Joined([i \in Read |->
                                     Said(input.dirs[Limit + 1 - i].entries, d)])
                       IN  args[d] = IF Kind[d] = "list" THEN all \o input.cli[d]
                                     ELSE IF input.cli[d] # <<>> THEN input.cli[d] ELSE all
    BY DEF ListsAccumulate
  <2>. DEFINE D == input.dirs
              all == Joined(Above(D, Limit, 0, d))
  <2>2. Limit \in Nat /\ Limit <= Len(D) /\ D \in Seq(File)
    <3>1. input \in Input BY <1>1 DEF OptInv
    <3>2. D \in Seq(File) /\ Limit \in Nat /\ Limit \in 1..Len(D) BY <3>1, InputFacts
    <3>. QED BY <3>2
  <2>3. Dirs(D, Limit) BY <2>2 DEF Dirs
  <2>4. SoFar(D, Limit, <<>>, <<>>, merged)
    <3>1. SoFar(input.dirs, Limit, files, entries, merged) /\ files = <<>> /\ entries = <<>>
      BY <1>1, <2>1 DEF OptInv
    <3>. QED BY <3>1
  <2>5. merged[d] = all BY <2>1, <2>3, <2>4, AtTheEnd
  <2>6. Above(D, Limit, 0, d) = [i \in Read |-> Said(D[Limit + 1 - i].entries, d)]
    <3>1. Limit - 0 = Limit BY <2>2
    <3>. QED BY <3>1 DEF Above, Read
  <2>7. Default[d] = <<>> BY <2>1, OptionAssumption
  <2>8. args[d] = Option(d) BY <1>1, <2>1 DEF OptInv
  <2>9. (IF merged[d] # <<>> THEN merged[d] ELSE Default[d]) = all BY <2>5, <2>7
  <2>. QED BY <2>6, <2>8, <2>9 DEF Option
<1>. QED BY <1>1, OptAlways, PTL
=============================================================================
