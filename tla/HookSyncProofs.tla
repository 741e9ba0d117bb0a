---------------------------- MODULE HookSyncProofs ----------------------------
(* What a sync of hooks guarantees for every set of tools and of hooks, and *)
(* for whatever the files hold: no writer narrows or takes out what a hand  *)
(* wrote; after a sync that ended well every hook of the source runs in     *)
(* every target for every tool call it ran for; and a sync from one tool    *)
(* that is repeated has nothing left to change.                             *)
(*                                                                          *)
(* Every writer does one thing to a list: it places a hook, at the first    *)
(* entry that has it or in a new one, with a scope (Placed, ScopeGiven).    *)
(* The writers of a file are folds over sets of hooks; FoldExists turns     *)
(* what one of them keeps into what all of them keep, in any order.  Stands *)
(* and GuardIn are what is kept of a hook of the user's and of one of the   *)
(* source's; Halfway carries the second through a sync, After beyond it.    *)
(* That a repeated sync changes nothing follows two writers in lockstep,    *)
(* list by list (Written, Rewritten), to a file that the second leaves      *)
(* alone (MergedSettles), and the source to the second reading (Steady).    *)
EXTENDS HookSync, FiniteSetTheorems, TLAPS

-----------------------------------------------------------------------------
(* Folds.  What holds at the start of a fold, and is kept by its steps,     *)
(* holds at its end.                                                        *)

(* A set that has 0, and with each number the next one, has all up to n.    *)
LEMMA PrefixInduction ==
  ASSUME NEW n \in Nat, NEW G, 0 \in G, \A k \in 1..n : k - 1 \in G => k \in G
  PROVE  \A k \in 0..n : k \in G
<1> DEFINE Bad == {k \in 0..n : k \notin G}
<1>1. SUFFICES ASSUME Bad # {} PROVE FALSE OBVIOUS
<1>2. PICK k \in Bad : \A j \in Bad : ~(<<j, k>> \in OpToRel(<, Nat))
  <2>1. Bad \subseteq Nat OBVIOUS
  <2> HIDE DEF Bad
  <2> QED BY <1>1, <2>1, NatLessThanWellFounded, WFMin
<1>3. k # 0 /\ k \in 1..n /\ k - 1 \in 0..n OBVIOUS
<1>4. k - 1 \notin Bad
  <2>1. <<k - 1, k>> \in OpToRel(<, Nat) BY <1>3 DEF OpToRel
  <2> QED BY <1>2, <2>1
<1> QED BY <1>3, <1>4

(* A set that has each finite set all of whose smaller sets it has.         *)
LEMMA SubsetInduction ==
  ASSUME NEW S, IsFiniteSet(S), NEW G,
         \A T \in SUBSET S : (\A x \in T : T \ {x} \in G) => T \in G
  PROVE  \A T \in SUBSET S : T \in G
<1> DEFINE n == Cardinality(S)
           H == {k \in 0..n : \A T \in SUBSET S : Cardinality(T) = k => T \in G}
<1>1. n \in Nat BY FS_CardinalityType
<1>2. ASSUME NEW T \in SUBSET S
      PROVE  /\ IsFiniteSet(T) /\ Cardinality(T) \in 0..n
             /\ \A x \in T : Cardinality(T \ {x}) = Cardinality(T) - 1
  BY <1>1, FS_Subset, FS_RemoveElement, FS_CardinalityType
<1>3. 0 \in H
  <2>1. ASSUME NEW T \in SUBSET S, Cardinality(T) = 0 PROVE T \in G
    <3>1. T = {} BY <1>2, <2>1, FS_EmptySet
    <3> QED BY <3>1
  <2> QED BY <1>1, <2>1
<1>4. ASSUME NEW k \in 1..n, k - 1 \in H PROVE k \in H
  <2>1. ASSUME NEW T \in SUBSET S, Cardinality(T) = k PROVE T \in G
    <3>1. \A x \in T : T \ {x} \in SUBSET S /\ Cardinality(T \ {x}) = k - 1 BY <1>2, <2>1
    <3> QED BY <1>4, <3>1
  <2> QED BY <2>1
<1>5. \A k \in 0..n : k \in H
  <2> HIDE DEF n, H
  <2> QED BY <1>1, <1>3, <1>4, PrefixInduction
<1> QED BY <1>2, <1>5

(* The function that folds a step over a finite set, element by element.    *)
Folding(S, B, base, step, pick) ==
  {c \in [SUBSET S -> B] : \A T \in SUBSET S :
     c[T] = IF T = {} THEN base ELSE step[<<pick[T], c[T \ {pick[T]}]>>]}

(* There is one.                                                            *)
LEMMA FoldExists ==
  ASSUME NEW S, IsFiniteSet(S), NEW B, NEW base \in B, NEW step \in [S \X B -> B],
         NEW pick, \A T \in SUBSET S : T # {} => pick[T] \in T
  PROVE  Folding(S, B, base, step, pick) # {}
<1> DEFINE n == Cardinality(S)
           F(k) == {T \in SUBSET S : Cardinality(T) <= k}
           Fits(c, T) == c[T] = IF T = {} THEN base ELSE step[<<pick[T], c[T \ {pick[T]}]>>]
           G == {k \in 0..n : \E c \in [F(k) -> B] : \A T \in F(k) : Fits(c, T)}
<1>1. n \in Nat BY FS_CardinalityType
<1>2. ASSUME NEW T \in SUBSET S
      PROVE  Cardinality(T) \in Nat /\ Cardinality(T) <= n /\ (Cardinality(T) = 0 <=> T = {})
  BY FS_Subset, FS_CardinalityType, FS_EmptySet
<1>3. ASSUME NEW T \in SUBSET S, T # {}
      PROVE  /\ pick[T] \in S /\ T \ {pick[T]} \in SUBSET S
             /\ Cardinality(T \ {pick[T]}) = Cardinality(T) - 1
  BY <1>3, FS_Subset, FS_RemoveElement
<1> HIDE DEF n
<1>4. 0 \in G
  <2>1. ASSUME NEW T \in F(0) PROVE T = {} BY <1>2
  <2> DEFINE c == [T \in F(0) |-> base]
  <2>2. c \in [F(0) -> B] OBVIOUS
  <2>3. ASSUME NEW T \in F(0) PROVE Fits(c, T) BY <2>1
  <2>4. 0 \in 0..n BY <1>1
  <2> HIDE DEF F
  <2> QED BY <2>2, <2>3, <2>4
<1>5. ASSUME NEW k \in 1..n, k - 1 \in G PROVE k \in G
  <2>1. PICK b \in [F(k - 1) -> B] : \A T \in F(k - 1) : Fits(b, T) BY <1>5
  <2> DEFINE c == [T \in F(k) |-> IF T \in F(k - 1) THEN b[T]
                                  ELSE step[<<pick[T], b[T \ {pick[T]}]>>]]
  <2>2. ASSUME NEW T \in F(k), T # {}
        PROVE  T \ {pick[T]} \in F(k - 1) /\ pick[T] \in S
    <3>1. T \in SUBSET S /\ Cardinality(T) <= k OBVIOUS
    <3>2. Cardinality(T \ {pick[T]}) <= k - 1 BY <1>1, <1>2, <1>3, <2>2, <3>1
    <3> QED BY <1>3, <2>2, <3>1, <3>2
  <2>3. ASSUME NEW T \in F(k), T \notin F(k - 1) PROVE T # {}
    <3>1. ~(Cardinality(T) <= k - 1) BY <2>3
    <3> QED BY <1>2, <3>1
  <2>4. ASSUME NEW T \in F(k) PROVE c[T] \in B
    <3> HIDE DEF F
    <3>1. CASE T \in F(k - 1) BY <3>1
    <3>2. CASE T \notin F(k - 1) BY <2>2, <2>3, <3>2
    <3> QED BY <3>1, <3>2
  <2>5. ASSUME NEW T \in F(k - 1) PROVE T \in F(k)
    <3>1. Cardinality(T) <= k BY <1>1, <1>2
    <3> QED BY <3>1
  <2>6. ASSUME NEW T \in F(k) PROVE Fits(c, T)
    <3> HIDE DEF F
    <3>1. T # {} => c[T \ {pick[T]}] = b[T \ {pick[T]}] BY <2>2, <2>5
    <3>2. CASE T \in F(k - 1)
      <4>1. c[T] = b[T] BY <3>2
      <4>2. Fits(b, T) BY <2>1, <3>2
      <4> HIDE DEF c
      <4> QED BY <3>1, <4>1, <4>2
    <3>3. CASE T \notin F(k - 1) BY <2>3, <3>1, <3>3
    <3> QED BY <3>2, <3>3
  <2>7. c \in [F(k) -> B]
    <3> HIDE DEF F
    <3> QED BY <2>4
  <2>8. k \in 0..n BY <1>1
  <2> HIDE DEF c, F
  <2> QED BY <2>6, <2>7, <2>8
<1>6. n \in G
  <2>1. \A k \in 0..n : k \in G
    <3> HIDE DEF G
    <3> QED BY <1>1, <1>4, <1>5, PrefixInduction
  <2>2. n \in 0..n BY <1>1
  <2> HIDE DEF G
  <2> QED BY <2>1, <2>2
<1>7. F(n) = SUBSET S
  <2>1. ASSUME NEW T \in SUBSET S PROVE T \in F(n) BY <1>2
  <2> QED BY <2>1
<1>8. PICK c \in [F(n) -> B] : \A T \in F(n) : Fits(c, T) BY <1>6
<1> HIDE DEF F
<1> QED BY <1>7, <1>8 DEF Folding

(* The largest of a few numbers, and of the first ones.                     *)
LEMMA Largest ==
  ASSUME NEW n \in Nat, NEW T \in SUBSET (1..n), T # {}
  PROVE  Max(T) \in T /\ \A x \in T : x <= Max(T)
<1> DEFINE U == {m \in 0..n : \A x \in T : x <= m}
<1>1. n \in U OBVIOUS
<1>2. PICK m \in U : \A j \in U : ~(<<j, m>> \in OpToRel(<, Nat))
  <2>1. U \subseteq Nat /\ U # {} BY <1>1
  <2> HIDE DEF U
  <2> QED BY <2>1, NatLessThanWellFounded, WFMin
<1>3. m \in T
  <2>1. SUFFICES ASSUME m \notin T PROVE FALSE OBVIOUS
  <2>2. \A x \in T : x <= m - 1 BY <2>1
  <2>3. m - 1 \in U
    <3>1. PICK x \in T : x \in 1..n OBVIOUS
    <3>2. x <= m BY <3>1
    <3> QED BY <2>2, <3>1, <3>2
  <2>4. <<m - 1, m>> \in OpToRel(<, Nat) BY <2>3 DEF OpToRel
  <2> QED BY <1>2, <2>3, <2>4
<1>4. \E x \in T : \A y \in T : x >= y BY <1>3
<1> QED BY <1>4 DEF Max

(* The first numbers, and their largest.                                    *)
LEMMA FirstNumbers ==
  ASSUME NEW n \in Nat
  PROVE  \A k \in 1..n : /\ 1..k \in SUBSET (1..n) /\ 1..k # {}
                         /\ Max(1..k) = k /\ (1..k) \ {k} = 1..(k - 1)
<1> SUFFICES ASSUME NEW k \in 1..n
             PROVE  /\ 1..k \in SUBSET (1..n) /\ 1..k # {}
                    /\ Max(1..k) = k /\ (1..k) \ {k} = 1..(k - 1)
  OBVIOUS
<1>1. k \in 1..k /\ \A j \in 1..k : j \in 1..n OBVIOUS
<1> DEFINE T == 1..k
<1>2. T \in SUBSET (1..n) /\ T # {} BY <1>1
<1>3. Max(T) \in T /\ \A x \in T : x <= Max(T)
  <2> HIDE DEF T
  <2> QED BY <1>2, Largest
<1>4. Max(T) = k
  <2> DEFINE m == Max(T)
  <2>1. m \in 1..k /\ k <= m BY <1>1, <1>3
  <2> HIDE DEF m
  <2>2. m = k BY <2>1
  <2> QED BY <2>2 DEF m
<1>5. (1..k) \ {k} = 1..(k - 1) OBVIOUS
<1> QED BY <1>2, <1>4, <1>5

-----------------------------------------------------------------------------
(* One list.                                                                *)

(* Scopes, entries, and an entry without one command.                       *)
Scopings == SUBSET Everything
Entries == [cmds : (SUBSET Hooks) \ {{}}, scope : Scopings]
Cleared(e, h) == [e EXCEPT !.cmds = @ \ {h}]

(* Without goes through a list entry by entry.                              *)
LEMMA WithoutBy ==
  ASSUME NEW list \in Seq(Entries), NEW h
  PROVE  \E o \in [0..Len(list) -> Seq(Entries)] :
           /\ o[0] = <<>> /\ o[Len(list)] = Without(list, h)
           /\ \A k \in 1..Len(list) :
                o[k] = IF list[k].cmds \subseteq {h} THEN o[k - 1]
                       ELSE Append(o[k - 1], Cleared(list[k], h))
<1> DEFINE n == Len(list)
           S == DOMAIN list
           B == Seq(Entries)
           Body(c, T) ==
             IF T = {} THEN <<>>
             ELSE IF list[Max(T)].cmds \subseteq {h} THEN c[T \ {Max(T)}]
             ELSE Append(c[T \ {Max(T)}], [list[Max(T)] EXCEPT !.cmds = list[Max(T)].cmds \ {h}])
           Is(c) == c = [T \in SUBSET S |-> Body(c, T)]
<1>1. n \in Nat /\ S = 1..n /\ IsFiniteSet(S) BY FS_Interval
<1>2. ASSUME NEW i \in S, ~(list[i].cmds \subseteq {h}) PROVE Cleared(list[i], h) \in Entries
  <2>1. list[i] \in Entries OBVIOUS
  <2>2. list[i].cmds \ {h} # {} BY <1>2
  <2> QED BY <2>1, <2>2 DEF Cleared, Entries
<1>3. \E c : Is(c)
  <2> DEFINE step == [p \in S \X B |-> IF list[p[1]].cmds \subseteq {h} THEN p[2]
                                       ELSE Append(p[2], Cleared(list[p[1]], h))]
             pick == [T \in SUBSET S |-> Max(T)]
  <2>1. step \in [S \X B -> B]
    <3>1. ASSUME NEW p \in S \X B
          PROVE  (IF list[p[1]].cmds \subseteq {h} THEN p[2]
                  ELSE Append(p[2], Cleared(list[p[1]], h))) \in B
      <4>1. p[1] \in S /\ p[2] \in B OBVIOUS
      <4>2. ~(list[p[1]].cmds \subseteq {h}) => Append(p[2], Cleared(list[p[1]], h)) \in B
        BY <1>2, <4>1
      <4> QED BY <4>1, <4>2
    <3> QED BY <3>1
  <2>2. <<>> \in B OBVIOUS
  <2>3. \A T \in SUBSET S : T # {} => pick[T] \in T BY <1>1, Largest
  <2>4. PICK c \in [SUBSET S -> B] : \A T \in SUBSET S :
          c[T] = IF T = {} THEN <<>> ELSE step[<<pick[T], c[T \ {pick[T]}]>>]
    <3>1. IsFiniteSet(S) BY <1>1
    <3> HIDE DEF step, pick, S, B
    <3>2. Folding(S, B, <<>>, step, pick) # {} BY <2>1, <2>2, <2>3, <3>1, FoldExists
    <3> QED BY <3>2 DEF Folding
  <2>5. ASSUME NEW T \in SUBSET S PROVE c[T] = Body(c, T)
    <3>1. CASE T = {} BY <2>4, <3>1
    <3>2. CASE T # {}
      <4>1. pick[T] = Max(T) /\ Max(T) \in S /\ T \ {Max(T)} \in SUBSET S BY <2>3, <3>2
      <4>2. <<Max(T), c[T \ {Max(T)}]>> \in S \X B BY <4>1
      <4>3. c[T] = step[<<Max(T), c[T \ {Max(T)}]>>] BY <2>4, <3>2, <4>1
      <4> QED BY <3>2, <4>2, <4>3 DEF Cleared
    <3> QED BY <3>1, <3>2
  <2>6. c = [T \in SUBSET S |-> c[T]] OBVIOUS
  <2> HIDE DEF Body, S
  <2>7. c = [T \in SUBSET S |-> Body(c, T)] BY <2>5, <2>6
  <2> QED BY <2>7
<1> DEFINE out == CHOOSE c : Is(c)
<1>4. Is(out) BY <1>3
<1>5. Without(list, h) = out[S] BY DEF Without, FoldLeft, MapThenFoldSet
<1> HIDE DEF out
<1>6. out[{}] = <<>> BY <1>4
<1>7. ASSUME NEW k \in 1..n
      PROVE  out[1..k] = IF list[k].cmds \subseteq {h} THEN out[1..(k - 1)]
                         ELSE Append(out[1..(k - 1)], Cleared(list[k], h))
  <2>1. /\ 1..k \in SUBSET S /\ 1..k # {}
        /\ Max(1..k) = k /\ (1..k) \ {k} = 1..(k - 1)
    <3>1. n \in Nat BY <1>1
    <3> HIDE DEF n
    <3>2. /\ 1..k \in SUBSET (1..n) /\ 1..k # {}
          /\ Max(1..k) = k /\ (1..k) \ {k} = 1..(k - 1)
      BY <3>1, FirstNumbers
    <3> HIDE DEF S
    <3> QED BY <1>1, <3>2
  <2>2. out[1..k] = Body(out, 1..k)
    <3> HIDE DEF Body, S
    <3> QED BY <1>4, <2>1
  <2> HIDE DEF S
  <2> QED BY <2>1, <2>2 DEF Cleared
<1> HIDE DEF Is, Body, S
<1> DEFINE G == {k \in 0..n : out[1..k] \in B}
<1>8. 0 \in G
  <2>1. out[1..0] = <<>> /\ 0 \in 0..n /\ <<>> \in B BY <1>1, <1>6
  <2> HIDE DEF n, B
  <2> QED BY <2>1
<1>9. ASSUME NEW k \in 1..n, k - 1 \in G PROVE k \in G
  <2>1. k \in S /\ k \in 0..n BY <1>1
  <2>2. out[1..(k - 1)] \in B BY <1>9
  <2>3. ~(list[k].cmds \subseteq {h}) => Cleared(list[k], h) \in Entries BY <1>2, <2>1
  <2>4. ~(list[k].cmds \subseteq {h}) => Append(out[1..(k - 1)], Cleared(list[k], h)) \in B
    BY <2>2, <2>3
  <2>5. out[1..k] = IF list[k].cmds \subseteq {h} THEN out[1..(k - 1)]
                    ELSE Append(out[1..(k - 1)], Cleared(list[k], h))
    BY <1>7
  <2>6. out[1..k] \in B
    <3> HIDE DEF B
    <3> QED BY <2>2, <2>4, <2>5
  <2> QED BY <2>1, <2>6
<1>10. \A k \in 0..n : k \in G
  <2> HIDE DEF n, G
  <2> QED BY <1>1, <1>8, <1>9, PrefixInduction
<1> DEFINE o == [k \in 0..n |-> out[1..k]]
<1>11. o \in [0..n -> B] BY <1>10
<1>12. o[0] = <<>> /\ o[n] = out[1..n] /\ out[1..n] = Without(list, h) BY <1>1, <1>5, <1>6
<1>13. ASSUME NEW k \in 1..n
       PROVE  o[k] = IF list[k].cmds \subseteq {h} THEN o[k - 1]
                     ELSE Append(o[k - 1], Cleared(list[k], h))
  <2>1. o[k] = out[1..k] /\ o[k - 1] = out[1..(k - 1)] BY <1>1
  <2> HIDE DEF o
  <2> QED BY <1>7, <2>1
<1> HIDE DEF o
<1> QED BY <1>11, <1>12, <1>13

(* Without takes one command out of every entry of a list, and the entries  *)
(* that had no other.                                                       *)
LEMMA WithoutFacts ==
  ASSUME NEW list \in Seq(Entries), NEW h
  PROVE  /\ Without(list, h) \in Seq(Entries)
         /\ \A i \in DOMAIN list : ~(list[i].cmds \subseteq {h}) =>
              \E j \in DOMAIN Without(list, h) : Without(list, h)[j] = Cleared(list[i], h)
         /\ \A j \in DOMAIN Without(list, h) :
              \E i \in DOMAIN list : Without(list, h)[j] = Cleared(list[i], h)
<1> DEFINE n == Len(list)
           B == Seq(Entries)
<1>1. n \in Nat /\ DOMAIN list = 1..n OBVIOUS
<1>2. ASSUME NEW i \in 1..n, ~(list[i].cmds \subseteq {h}) PROVE Cleared(list[i], h) \in Entries
  <2>1. list[i] \in Entries BY <1>1
  <2>2. list[i].cmds \ {h} # {} BY <1>2
  <2> QED BY <2>1, <2>2 DEF Cleared, Entries
<1>3. PICK out \in [0..n -> B] :
        /\ out[0] = <<>> /\ out[n] = Without(list, h)
        /\ \A k \in 1..n : out[k] = IF list[k].cmds \subseteq {h} THEN out[k - 1]
                                    ELSE Append(out[k - 1], Cleared(list[k], h))
  BY WithoutBy
<1> DEFINE Good(k) ==
             LET o == out[k] IN
             /\ o \in B
             /\ \A i \in 1..k : ~(list[i].cmds \subseteq {h}) =>
                  \E j \in 1..Len(o) : o[j] = Cleared(list[i], h)
             /\ \A j \in 1..Len(o) : \E i \in 1..k : o[j] = Cleared(list[i], h)
           G == {k \in 0..n : Good(k)}
<1>4. 0 \in G
  <2>1. out[0] = <<>> BY <1>3
  <2>2. <<>> \in B /\ Len(<<>>) = 0 OBVIOUS
  <2>3. Good(0)
    <3> HIDE DEF B
    <3> QED BY <2>1, <2>2
  <2>4. 0 \in 0..n BY <1>1
  <2> HIDE DEF Good
  <2> QED BY <2>3, <2>4
<1>5. ASSUME NEW k \in 1..n, k - 1 \in G PROVE k \in G
  <2> DEFINE o == out[k - 1]
             new == out[k]
             e == Cleared(list[k], h)
  <2>1. /\ o \in B
        /\ \A i \in 1..(k - 1) : ~(list[i].cmds \subseteq {h}) =>
             \E j \in 1..Len(o) : o[j] = Cleared(list[i], h)
        /\ \A j \in 1..Len(o) : \E i \in 1..(k - 1) : o[j] = Cleared(list[i], h)
    BY <1>5
  <2>2. ~(list[k].cmds \subseteq {h}) => e \in Entries BY <1>2
  <2>3. 1..k = 1..(k - 1) \cup {k} BY <1>1
  <2>4. CASE list[k].cmds \subseteq {h}
    <3>1. new = o BY <1>3, <2>4
    <3> HIDE DEF o, new
    <3>2. Good(k) BY <2>1, <2>3, <2>4, <3>1 DEF new
    <3> QED BY <1>1, <3>2
  <2>5. CASE ~(list[k].cmds \subseteq {h})
    <3>1. new = Append(o, e) BY <1>3, <2>5
    <3> HIDE DEF o, new, e
    <3>2. /\ new \in B /\ Len(new) = Len(o) + 1 /\ Len(o) \in Nat /\ new[Len(o) + 1] = e
          /\ \A j \in 1..Len(o) : new[j] = o[j]
      BY <2>1, <2>2, <2>5, <3>1
    <3>3. ASSUME NEW i \in 1..k, ~(list[i].cmds \subseteq {h})
          PROVE  \E j \in 1..Len(new) : new[j] = Cleared(list[i], h)
      <4>1. CASE i = k BY <3>2, <4>1 DEF e
      <4>2. CASE i \in 1..(k - 1)
        <5>1. PICK j \in 1..Len(o) : o[j] = Cleared(list[i], h) BY <2>1, <3>3, <4>2
        <5> QED BY <3>2, <5>1
      <4> QED BY <2>3, <4>1, <4>2
    <3>4. ASSUME NEW j \in 1..Len(new) PROVE \E i \in 1..k : new[j] = Cleared(list[i], h)
      <4>1. CASE j \in 1..Len(o)
        <5>1. PICK i \in 1..(k - 1) : o[j] = Cleared(list[i], h) BY <2>1, <4>1
        <5> QED BY <2>3, <3>2, <4>1, <5>1
      <4>2. CASE j = Len(o) + 1 BY <2>3, <3>2, <4>2 DEF e
      <4> QED BY <3>2, <4>1, <4>2
    <3>5. Good(k) BY <3>2, <3>3, <3>4 DEF new
    <3> QED BY <1>1, <3>5
  <2> QED BY <2>4, <2>5
<1>6. Good(n)
  <2>1. \A k \in 0..n : k \in G
    <3> HIDE DEF n, G
    <3> QED BY <1>1, <1>4, <1>5, PrefixInduction
  <2>2. n \in 0..n BY <1>1
  <2>3. n \in G
    <3> HIDE DEF n, G
    <3> QED BY <2>1, <2>2
  <2> HIDE DEF Good
  <2> QED BY <2>3
<1>7. /\ Without(list, h) \in B
      /\ \A i \in 1..n : ~(list[i].cmds \subseteq {h}) =>
            \E j \in 1..Len(Without(list, h)) : Without(list, h)[j] = Cleared(list[i], h)
      /\ \A j \in 1..Len(Without(list, h)) :
            \E i \in 1..n : Without(list, h)[j] = Cleared(list[i], h)
  BY <1>1, <1>3, <1>6
<1>8. DOMAIN Without(list, h) = 1..Len(Without(list, h)) BY <1>7
<1> HIDE DEF G, Good
<1> QED BY <1>1, <1>7, <1>8

(* _widen_matcher never narrows a matcher, whatever tools are asked for.    *)
THEOREM WideningNeverNarrows ==
    ASSUME NEW scope \in Scopings, scope # {}, NEW names \in Scopings
    PROVE  Reach(scope) \subseteq Reach(WidenMatcher(scope, names))
  BY DEF Reach, WidenMatcher, ToolsToMatcher, Plain, All, Regex, Everything, Scopings

(* It covers what is asked for, unless the matcher is one crossby cannot    *)
(* read.                                                                    *)
THEOREM WideningCovers ==
    ASSUME NEW scope \in Scopings, Regex \notin scope, NEW names \in Scopings
    PROVE  Reach(names) \subseteq Reach(WidenMatcher(scope, names))
  BY DEF Reach, WidenMatcher, ToolsToMatcher, Plain, All, Regex, Everything, Scopings

(* Every entry of a list has a scope.                                       *)
LEMMA EntryTyped ==
    ASSUME NEW list \in Seq(Entries), NEW i \in DOMAIN list
    PROVE  /\ list[i] \in Entries
           /\ list[i].scope \in Scopings /\ list[i].cmds \in SUBSET Hooks
<1>1. list[i] \in Entries
  OBVIOUS
<1> QED
  BY <1>1 DEF Entries

(* A list that holds a command has a first entry with it.                   *)
LEMMA FirstHolds ==
  ASSUME NEW list \in Seq(Entries), NEW h, Present(list, h)
  PROVE  FirstOf(list, h) \in Holding(list, h)
<1> DEFINE H == Holding(list, h)
<1>1. H \subseteq Nat BY DEF Holding
<1>2. PICK i \in H : \A j \in H : ~(<<j, i>> \in OpToRel(<, Nat))
  <2>1. H # {} BY DEF Present
  <2> HIDE DEF H
  <2> QED BY <1>1, <2>1, NatLessThanWellFounded, WFMin
<1>3. \A j \in H : i <= j
  <2>1. ASSUME NEW j \in H, j < i PROVE FALSE
    <3>1. <<j, i>> \in OpToRel(<, Nat) BY <1>1, <2>1 DEF OpToRel
    <3> QED BY <1>2, <3>1
  <2> HIDE DEF H
  <2> QED BY <1>1, <2>1
<1> QED BY <1>2, <1>3 DEF FirstOf

(* Every writer puts a hook into a list in this way: a new entry at the end,*)
(* or a scope for the first that has it.                                    *)
Placed(list, h, scope) ==
  IF Present(list, h) THEN Rescoped(list, FirstOf(list, h), scope)
  ELSE Append(list, Entry(h, scope))

(* It changes no other entry, and no entry's commands.                      *)
LEMMA PlacedFacts ==
  ASSUME NEW list \in Seq(Entries), NEW h \in Hooks, NEW scope \in Scopings
  PROVE  LET new == Placed(list, h, scope) IN
         /\ new \in Seq(Entries)
         /\ \A j \in DOMAIN list :
              /\ j \in DOMAIN new /\ new[j].cmds = list[j].cmds
              /\ new[j].scope # list[j].scope =>
                   j \in Holding(list, h) /\ j = FirstOf(list, h) /\ new[j].scope = scope
         /\ \A j \in DOMAIN new : j \notin DOMAIN list =>
              ~Present(list, h) /\ new[j].cmds = {h} /\ new[j].scope = scope
         /\ \E j \in Holding(new, h) : new[j].scope = scope
<1> DEFINE new == Placed(list, h, scope)
           i == FirstOf(list, h)
<1>1. CASE Present(list, h)
  <2>1. i \in DOMAIN list /\ h \in list[i].cmds /\ i \in Holding(list, h)
    BY <1>1, FirstHolds DEF Holding
  <2>2. new = [list EXCEPT ![i] = [list[i] EXCEPT !.scope = scope]]
    BY <1>1 DEF Placed, Rescoped
  <2>3. list[i] \in Entries BY <2>1, EntryTyped
  <2>4. /\ [list[i] EXCEPT !.scope = scope] \in Entries
        /\ [list[i] EXCEPT !.scope = scope].cmds = list[i].cmds
        /\ [list[i] EXCEPT !.scope = scope].scope = scope
    BY <2>3 DEF Entries
  <2> HIDE DEF i, new
  <2>5. /\ new \in Seq(Entries) /\ DOMAIN new = DOMAIN list
        /\ new[i].cmds = list[i].cmds /\ new[i].scope = scope
        /\ \A j \in DOMAIN list : j # i => new[j] = list[j]
    <3>1. new[i] = [list[i] EXCEPT !.scope = scope] BY <2>1, <2>2
    <3>2. new \in Seq(Entries) /\ DOMAIN new = DOMAIN list BY <2>1, <2>2, <2>4
    <3>3. \A j \in DOMAIN list : j # i => new[j] = list[j] BY <2>2
    <3> QED BY <2>4, <3>1, <3>2, <3>3
  <2>6. i \in Holding(new, h) BY <2>1, <2>5 DEF Holding
  <2>7. /\ new \in Seq(Entries)
        /\ \A j \in DOMAIN list :
              /\ j \in DOMAIN new /\ new[j].cmds = list[j].cmds
              /\ new[j].scope # list[j].scope =>
                   j \in Holding(list, h) /\ j = i /\ new[j].scope = scope
        /\ \A j \in DOMAIN new : j \in DOMAIN list
        /\ \E j \in Holding(new, h) : new[j].scope = scope
    BY <2>1, <2>5, <2>6
  <2> QED BY <2>7 DEF i, new
<1>2. CASE ~Present(list, h)
  <2> DEFINE e == Entry(h, scope)
             n == Len(list) + 1
  <2>1. new = Append(list, e) BY <1>2 DEF Placed
  <2>2. e \in Entries /\ e.cmds = {h} /\ e.scope = scope BY DEF Entry, Entries
  <2> HIDE DEF e, new
  <2>3. /\ new \in Seq(Entries) /\ DOMAIN new = DOMAIN list \cup {n} /\ new[n] = e
        /\ n \in DOMAIN new /\ \A j \in DOMAIN list : new[j] = list[j]
    BY <2>1, <2>2
  <2>4. n \in Holding(new, h) BY <2>2, <2>3 DEF Holding
  <2>5. /\ new \in Seq(Entries)
        /\ \A j \in DOMAIN list :
              j \in DOMAIN new /\ new[j].cmds = list[j].cmds /\ new[j].scope = list[j].scope
        /\ \A j \in DOMAIN new : j \notin DOMAIN list => new[j].cmds = {h} /\ new[j].scope = scope
        /\ \E j \in Holding(new, h) : new[j].scope = scope
    BY <2>2, <2>3, <2>4
  <2> QED BY <1>2, <2>5 DEF new
<1> QED BY <1>1, <1>2

(* The scope a writer gives the entry of a hook: of one that is there, with *)
(* the scope old, or a new one.                                             *)
ScopeGiven(t, event, there, old, names, owned) ==
  CASE ClaudeShaped(t) ->
         IF Scoped(t, event)
         THEN IF there THEN MergeMatcher(old, names, owned) ELSE ToolsToMatcher(names)
         ELSE IF there /\ t # "codex" THEN old ELSE {}
    [] t = "copilot" -> IF there THEN old ELSE {}
    [] t = "cursor" ->
         IF ~Scoped(t, event) THEN {}
         ELSE IF owned \/ ~there THEN names
         ELSE IF old = {} THEN {} ELSE WidenMatcher(old, names)

(* The tools there are.                                                     *)
FiveTools == {"claude", "codex", "cursor", "copilot", "agy"}

(* It covers the tools asked for, or has a part crossby cannot read; it is  *)
(* no narrower than what is there and not crossby's, but for a claude-shaped*)
(* entry without a matcher.                                                 *)
LEMMA ScopeFacts ==
  ASSUME NEW t \in FiveTools, NEW event, NEW there \in BOOLEAN, NEW owned \in BOOLEAN,
         NEW old \in Scopings, NEW names \in Scopings
  PROVE  LET given == ScopeGiven(t, event, there, old, names, owned) IN
         /\ given \in Scopings
         /\ names = {} /\ old \in {{}, All} => given \in {{}, All}
         /\ Scoped(t, event) =>
              /\ Reach(names) \subseteq Reach(given) \/ Regex \in given
              /\ ClaudeShaped(t) => given # {}
              /\ there /\ ~owned /\ (ClaudeShaped(t) /\ old = {} => names = {}) =>
                   Reach(old) \subseteq Reach(given) /\ (Regex \in old => Regex \in given)
<1> DEFINE given == ScopeGiven(t, event, there, old, names, owned)
           wide == WidenMatcher(old, names)
           asked == ToolsToMatcher(names)
<1>1. /\ asked \in Scopings /\ asked # {} /\ Reach(names) \subseteq Reach(asked)
      /\ names = {} => asked = All
  BY DEF ToolsToMatcher, Scopings, Everything, All, Reach
<1>2. /\ wide \in Scopings /\ wide # {} /\ (Regex \in old => Regex \in wide)
      /\ names = {} /\ old \in {{}, All} => wide = All
  BY DEF WidenMatcher, ToolsToMatcher, Scopings, Everything, All, Regex, Plain
<1>3. Reach(names) \subseteq Reach(wide) \/ Regex \in wide BY <1>2, WideningCovers
<1>4. old # {} => Reach(old) \subseteq Reach(wide) BY WideningNeverNarrows
<1>5. /\ {} \in Scopings /\ All \in Scopings
      /\ Reach({}) = Everything /\ Reach(All) = Everything
      /\ Reach(old) \subseteq Everything /\ Reach(names) \subseteq Everything
  BY DEF Scopings, Everything, All, Reach
<1>6. CASE ClaudeShaped(t) /\ Scoped(t, event)
  <2>1. given = IF there THEN IF owned THEN asked ELSE wide ELSE asked
    <3>0. t # "copilot" /\ t # "cursor" BY <1>6 DEF ClaudeShaped
    <3>1. given = IF there THEN MergeMatcher(old, names, owned) ELSE asked
      <4> HIDE DEF asked
      <4>1. Scoped(t, event) /\ ClaudeShaped(t) BY <1>6
      <4>2. given = IF Scoped(t, event)
                    THEN IF there THEN MergeMatcher(old, names, owned) ELSE ToolsToMatcher(names)
                    ELSE IF there /\ t # "codex" THEN old ELSE {}
        BY <3>0, <4>1 DEF ScopeGiven
      <4> HIDE DEF given
      <4> QED BY <4>1, <4>2 DEF asked
    <3>2. MergeMatcher(old, names, owned) = IF owned THEN asked ELSE wide BY DEF MergeMatcher
    <3> HIDE DEF given, asked, wide
    <3> QED BY <3>1, <3>2
  <2> HIDE DEF given, wide, asked
  <2>2. old = {} /\ names = {} => Reach(old) \subseteq Reach(wide) BY <1>2, <1>5
  <2>3. given \in Scopings /\ given # {} BY <1>1, <1>2, <2>1
  <2>4. names = {} /\ old \in {{}, All} => given \in {{}, All} BY <1>1, <1>2, <2>1
  <2>5. Reach(names) \subseteq Reach(given) \/ Regex \in given BY <1>1, <1>3, <2>1
  <2>6. there /\ ~owned /\ (old = {} => names = {}) =>
          Reach(old) \subseteq Reach(given) /\ (Regex \in old => Regex \in given)
    BY <1>2, <1>4, <2>1, <2>2
  <2> QED BY <1>6, <2>3, <2>4, <2>5, <2>6 DEF given
<1>7. CASE ClaudeShaped(t) /\ ~Scoped(t, event)
  <2>1. given \in {old, {}} BY <1>7 DEF ScopeGiven
  <2> QED BY <1>5, <1>7, <2>1
<1>8. CASE t = "copilot"
  <2>1. given \in {old, {}} /\ ~Scoped(t, event) BY <1>8 DEF ScopeGiven, ClaudeShaped, Scoped
  <2> QED BY <1>5, <1>8, <2>1
<1>9. CASE t = "cursor"
  <2>1. given = IF ~Scoped(t, event) THEN {}
                ELSE IF owned \/ ~there THEN names
                ELSE IF old = {} THEN {} ELSE wide
    BY <1>9 DEF ScopeGiven, ClaudeShaped
  <2>2. ~ClaudeShaped(t) BY <1>9 DEF ClaudeShaped
  <2> HIDE DEF given, wide, asked
  <2>3. given \in Scopings BY <1>2, <1>5, <2>1
  <2>4. names = {} /\ old \in {{}, All} => given \in {{}, All} BY <1>2, <2>1
  <2>5. Scoped(t, event) => Reach(names) \subseteq Reach(given) \/ Regex \in given
    BY <1>3, <1>5, <2>1
  <2>6. Scoped(t, event) /\ there /\ ~owned =>
          Reach(old) \subseteq Reach(given) /\ (Regex \in old => Regex \in given)
    BY <1>2, <1>4, <1>5, <2>1
  <2> QED BY <2>2, <2>3, <2>4, <2>5, <2>6 DEF given
<1> QED BY <1>6, <1>7, <1>8, <1>9 DEF FiveTools, ClaudeShaped

-----------------------------------------------------------------------------
(* One file.                                                                *)

(* But for the tools' matchers under pre_tool_use, nothing is scoped.       *)
Wide(list) == \A i \in DOMAIN list : list[i].scope \in {{}, All}
Files == {f \in [Slots -> Seq(Entries)] : \A s \in Slots \ {"pre"} : Wide(f[s])}

(* The events of the hooks.                                                 *)
LEMMA Events ==
  ASSUME NEW h \in Hooks
  PROVE  /\ Event(h) \in {"pre", "stop", "note"} /\ Event(h) \in Slots /\ Event(h) # "shell"
         /\ h \in Guards <=> Event(h) = "pre"
BY DEF Event, Slots

(* Names in one tool's words are names.                                     *)
LEMMA TranslateTyped ==
  ASSUME NEW t, NEW names \in Scopings
  PROVE  /\ TranslateTools(t, names) \in Scopings
         /\ names = {} => TranslateTools(t, names) = {}
         /\ t \notin {"cursor", "agy"} => TranslateTools(t, names) = names
<1> DEFINE word(n) == CASE t = "cursor" /\ n \in DOMAIN CursorNames -> CursorNames[n]
                        [] t = "agy" /\ n \in DOMAIN AgyNames -> AgyNames[n]
                        [] OTHER -> n
<1>1. \A n \in DOMAIN CursorNames : CursorNames[n] \in Everything
  BY DEF CursorNames, Everything
<1>2. \A n \in DOMAIN AgyNames : AgyNames[n] \in Everything BY DEF Everything
<1>3. ASSUME NEW n \in names
      PROVE  word(n) \in Everything /\ (t \notin {"cursor", "agy"} => word(n) = n)
  <2>1. n \in Everything BY DEF Scopings
  <2>2. CASE t = "cursor" /\ n \in DOMAIN CursorNames BY <1>1, <2>2
  <2>3. CASE t = "agy" /\ n \in DOMAIN AgyNames BY <1>2, <2>3
  <2>4. CASE ~(t = "cursor" /\ n \in DOMAIN CursorNames) /\ ~(t = "agy" /\ n \in DOMAIN AgyNames)
    BY <2>1, <2>4
  <2> QED BY <2>2, <2>3, <2>4
<1>4. TranslateTools(t, names) = {word(n) : n \in names} BY DEF TranslateTools
<1> HIDE DEF word
<1> QED BY <1>3, <1>4 DEF Scopings

(* What canonical a writer has under an entry of h, and the scope of it.    *)
OldScope(list, h) == IF Present(list, h) THEN list[FirstOf(list, h)].scope ELSE {}
NewScope(t, list, h, canonical, owned) ==
  ScopeGiven(t, Event(h), Present(list, h), OldScope(list, h), TranslateTools(t, canonical), owned)

(* The scope that is there is one.                                          *)
LEMMA OldTyped ==
  ASSUME NEW list \in Seq(Entries), NEW h
  PROVE  OldScope(list, h) \in Scopings /\ (Wide(list) => OldScope(list, h) \in {{}, All})
<1>1. CASE Present(list, h)
  <2>1. FirstOf(list, h) \in DOMAIN list BY <1>1, FirstHolds DEF Holding
  <2>2. OldScope(list, h) = list[FirstOf(list, h)].scope BY <1>1 DEF OldScope
  <2> QED BY <2>1, <2>2, EntryTyped DEF Wide
<1>2. CASE ~Present(list, h) BY <1>2 DEF OldScope, Scopings
<1> QED BY <1>1, <1>2

(* An entry that is given the scope it has stays.                           *)
LEMMA SameScope ==
  ASSUME NEW list \in Seq(Entries), NEW h, Present(list, h)
  PROVE  Rescoped(list, FirstOf(list, h), list[FirstOf(list, h)].scope) = list
<1> DEFINE i == FirstOf(list, h)
<1>1. i \in DOMAIN list BY FirstHolds DEF Holding
<1> HIDE DEF i
<1>2. list[i] \in Entries BY <1>1, EntryTyped
<1>3. [list[i] EXCEPT !.scope = list[i].scope] = list[i] BY <1>2 DEF Entries
<1>4. [list EXCEPT ![i] = list[i]] = list BY <1>1
<1>5. Rescoped(list, i, list[i].scope) = list BY <1>3, <1>4 DEF Rescoped
<1> QED BY <1>5 DEF i

(* The three writers place a hook into the list of its event.               *)
LEMMA UpsertPlaces ==
  ASSUME NEW t \in FiveTools, NEW list \in Seq(Entries), NEW h \in Hooks,
         NEW canonical \in Scopings, NEW owned \in BOOLEAN
  PROVE  LET names == TranslateTools(t, canonical)
             placed == Placed(list, h, NewScope(t, list, h, canonical, owned)) IN
         /\ ClaudeShaped(t) => ClaudeUpsert(t, list, h, names, owned) = placed
         /\ t = "copilot" => CopilotUpsert(list, h) = placed
         /\ t = "cursor" => CursorUpsert(list, h, names, Scoped(t, Event(h)), owned) = placed
<1> DEFINE names == TranslateTools(t, canonical)
           placed == Placed(list, h, NewScope(t, list, h, canonical, owned))
           i == FirstOf(list, h)
           old == OldScope(list, h)
           event == Event(h)
<1>1. Present(list, h) => old = list[i].scope /\ Rescoped(list, i, list[i].scope) = list
  BY SameScope DEF OldScope
<1>2. Scoped(t, event) \in BOOLEAN /\ Present(list, h) \in BOOLEAN BY DEF Scoped, Present
<1> HIDE DEF names, i, old, event
<1>3. ASSUME ClaudeShaped(t) PROVE ClaudeUpsert(t, list, h, names, owned) = placed
  <2>0. t # "cursor" /\ t # "copilot" BY <1>3 DEF ClaudeShaped
  <2>1. CASE ~Present(list, h)
    <3>1. ScopeGiven(t, event, FALSE, old, names, owned)
            = IF Scoped(t, event) THEN ToolsToMatcher(names) ELSE {}
      BY <1>3, <2>0 DEF ScopeGiven
    <3>2. placed = Append(list, Entry(h, ScopeGiven(t, event, FALSE, old, names, owned)))
      <4>1. Present(list, h) = FALSE BY <1>2, <2>1
      <4>2. placed = Append(list, Entry(h, NewScope(t, list, h, canonical, owned)))
        BY <2>1 DEF Placed
      <4> QED BY <4>1, <4>2 DEF NewScope, names, event, old
    <3>3. ClaudeUpsert(t, list, h, names, owned)
            = Append(list, Entry(h, IF Scoped(t, event) THEN ToolsToMatcher(names) ELSE {}))
      BY <2>1 DEF ClaudeUpsert, event
    <3> QED BY <3>1, <3>2, <3>3
  <2>2. CASE Present(list, h)
    <3>1. ScopeGiven(t, event, TRUE, old, names, owned)
            = IF Scoped(t, event) THEN MergeMatcher(old, names, owned)
              ELSE IF t # "codex" THEN old ELSE {}
      BY <1>3, <2>0 DEF ScopeGiven
    <3>2. placed = Rescoped(list, i, ScopeGiven(t, event, TRUE, old, names, owned))
      BY <2>2 DEF Placed, NewScope, names, event, old, i
    <3>3. ClaudeUpsert(t, list, h, names, owned)
            = IF Scoped(t, event) THEN Rescoped(list, i, MergeMatcher(list[i].scope, names, owned))
              ELSE IF t = "codex" THEN Rescoped(list, i, {}) ELSE list
      BY <2>2 DEF ClaudeUpsert, event, i
    <3> HIDE DEF placed
    <3>4. CASE Scoped(t, event) BY <1>1, <2>2, <3>1, <3>2, <3>3, <3>4
    <3>5. CASE ~Scoped(t, event) /\ t = "codex" BY <3>1, <3>2, <3>3, <3>5
    <3>6. CASE ~Scoped(t, event) /\ t # "codex" BY <1>1, <2>2, <3>1, <3>2, <3>3, <3>6
    <3> QED BY <3>4, <3>5, <3>6
  <2> QED BY <2>1, <2>2
<1>4. ASSUME t = "copilot" PROVE CopilotUpsert(list, h) = placed
  <2>0. ~ClaudeShaped(t) BY <1>4 DEF ClaudeShaped
  <2>1. CASE ~Present(list, h)
    <3>1. ScopeGiven(t, event, FALSE, old, names, owned) = {} BY <1>4, <2>0 DEF ScopeGiven
    <3>2. placed = Append(list, Entry(h, ScopeGiven(t, event, FALSE, old, names, owned)))
      <4>1. Present(list, h) = FALSE BY <1>2, <2>1
      <4>2. placed = Append(list, Entry(h, NewScope(t, list, h, canonical, owned)))
        BY <2>1 DEF Placed
      <4> QED BY <4>1, <4>2 DEF NewScope, names, event, old
    <3> QED BY <2>1, <3>1, <3>2 DEF CopilotUpsert
  <2>2. CASE Present(list, h)
    <3>1. ScopeGiven(t, event, TRUE, old, names, owned) = old BY <1>4, <2>0 DEF ScopeGiven
    <3>2. placed = Rescoped(list, i, ScopeGiven(t, event, TRUE, old, names, owned))
      BY <2>2 DEF Placed, NewScope, names, event, old, i
    <3> QED BY <1>1, <2>2, <3>1, <3>2 DEF CopilotUpsert
  <2> QED BY <2>1, <2>2
<1>5. ASSUME t = "cursor"
      PROVE  CursorUpsert(list, h, names, Scoped(t, event), owned) = placed
  <2>0. ~ClaudeShaped(t) BY <1>5 DEF ClaudeShaped
  <2>1. CASE ~Present(list, h)
    <3>1. ScopeGiven(t, event, FALSE, old, names, owned)
            = IF Scoped(t, event) THEN names ELSE {}
      BY <1>5, <2>0 DEF ScopeGiven
    <3>2. placed = Append(list, Entry(h, ScopeGiven(t, event, FALSE, old, names, owned)))
      <4>1. Present(list, h) = FALSE BY <1>2, <2>1
      <4>2. placed = Append(list, Entry(h, NewScope(t, list, h, canonical, owned)))
        BY <2>1 DEF Placed
      <4> QED BY <4>1, <4>2 DEF NewScope, names, event, old
    <3> QED BY <2>1, <3>1, <3>2 DEF CursorUpsert
  <2>2. CASE Present(list, h)
    <3>1. ScopeGiven(t, event, TRUE, old, names, owned)
            = IF ~Scoped(t, event) THEN {} ELSE IF owned THEN names
              ELSE IF old = {} THEN {} ELSE WidenMatcher(old, names)
      BY <1>5, <2>0 DEF ScopeGiven
    <3>2. placed = Rescoped(list, i, ScopeGiven(t, event, TRUE, old, names, owned))
      BY <2>2 DEF Placed, NewScope, names, event, old, i
    <3>3. CursorUpsert(list, h, names, Scoped(t, event), owned)
            = Rescoped(list, i, IF ~Scoped(t, event) THEN {} ELSE IF owned THEN names
                                ELSE IF list[i].scope = {} THEN {}
                                ELSE WidenMatcher(list[i].scope, names))
      BY <2>2 DEF CursorUpsert, i
    <3> QED BY <1>1, <2>2, <3>1, <3>2, <3>3
  <2> QED BY <2>1, <2>2
<1> QED BY <1>3, <1>4, <1>5 DEF names, event

(* Placing a hook with no scope, or taking one out, leaves a list wide.     *)
LEMMA PlacedWide ==
  ASSUME NEW list \in Seq(Entries), NEW h \in Hooks, NEW scope \in {{}, All}, Wide(list)
  PROVE  Placed(list, h, scope) \in Seq(Entries) /\ Wide(Placed(list, h, scope))
<1>1. scope \in Scopings BY DEF Scopings, All, Everything
<1> DEFINE new == Placed(list, h, scope)
<1>2. /\ new \in Seq(Entries)
      /\ \A j \in DOMAIN list : new[j].scope # list[j].scope => new[j].scope = scope
      /\ \A j \in DOMAIN new : j \notin DOMAIN list => new[j].scope = scope
  BY <1>1, PlacedFacts
<1> HIDE DEF new
<1>3. \A j \in DOMAIN new : new[j].scope \in {{}, All} BY <1>2 DEF Wide
<1> QED BY <1>2, <1>3 DEF Wide, new

(* A wide list stays so without a hook.                                     *)
LEMMA WithoutWide ==
  ASSUME NEW list \in Seq(Entries), NEW h, Wide(list)
  PROVE  Without(list, h) \in Seq(Entries) /\ Wide(Without(list, h))
<1> DEFINE new == Without(list, h)
<1>1. /\ new \in Seq(Entries)
      /\ \A j \in DOMAIN new : \E i \in DOMAIN list : new[j] = Cleared(list[i], h)
  BY WithoutFacts
<1> HIDE DEF new
<1>2. ASSUME NEW j \in DOMAIN new PROVE new[j].scope \in {{}, All}
  <2>1. PICK i \in DOMAIN list : new[j] = Cleared(list[i], h) BY <1>1
  <2>2. list[i] \in Entries BY EntryTyped
  <2>3. new[j].scope = list[i].scope BY <2>1, <2>2 DEF Cleared, Entries
  <2> QED BY <2>3 DEF Wide
<1> QED BY <1>1, <1>2 DEF Wide, new

(* A file with other lists.                                                 *)
LEMMA FileTyped ==
  ASSUME NEW f \in [Slots -> Seq(Entries)],
         \A s \in Slots : s # "pre" => Wide(f[s])
  PROVE  f \in Files
BY DEF Files

(* The lists of a file.                                                     *)
LEMMA FileLists ==
  ASSUME NEW f \in Files
  PROVE  /\ f \in [Slots -> Seq(Entries)]
         /\ \A s \in Slots : f[s] \in Seq(Entries) /\ (s # "pre" => Wide(f[s]))
BY DEF Files

(* The scope a hook other than a guard gets is none.                        *)
LEMMA NewScopeTyped ==
  ASSUME NEW t \in FiveTools, NEW list \in Seq(Entries), NEW h \in Hooks,
         NEW canonical \in Scopings, NEW owned \in BOOLEAN
  PROVE  /\ NewScope(t, list, h, canonical, owned) \in Scopings
         /\ canonical = {} /\ Wide(list) =>
              NewScope(t, list, h, canonical, owned) \in {{}, All}
<1> DEFINE names == TranslateTools(t, canonical)
           old == OldScope(list, h)
<1>1. names \in Scopings /\ (canonical = {} => names = {}) BY TranslateTyped
<1>2. old \in Scopings /\ (Wide(list) => old \in {{}, All}) BY OldTyped
<1>3. Present(list, h) \in BOOLEAN BY DEF Present
<1> DEFINE there == Present(list, h)
           event == Event(h)
           given == ScopeGiven(t, event, there, old, names, owned)
<1>4. given \in Scopings /\ (names = {} /\ old \in {{}, All} => given \in {{}, All})
  <2> HIDE DEF names, old, there, event
  <2> QED BY <1>1, <1>2, <1>3, ScopeFacts DEF there
<1>5. NewScope(t, list, h, canonical, owned) = given BY DEF NewScope
<1> HIDE DEF given, names, old
<1> QED BY <1>1, <1>2, <1>4, <1>5

(* One hook into one file: it is placed in the list of its event, and a     *)
(* guard of cursor's that covers the shell in that of the shell.            *)
LEMMA UpsertFile ==
  ASSUME NEW t \in FiveTools, NEW f \in Files, NEW h \in Hooks,
         NEW canonical \in Scopings, NEW owned \in BOOLEAN, h \in Guards \/ canonical = {}
  PROVE  LET new == Upsert(t, f, h, canonical, owned)
             scope == NewScope(t, f[Event(h)], h, canonical, owned) IN
         /\ new \in Files
         /\ new[Event(h)] = Placed(f[Event(h)], h, scope)
         /\ \A s \in Slots : s # Event(h) =>
              \/ new[s] = f[s]
              \/ s = "shell" /\ new[s] = Placed(f[s], h, {})
         /\ new["shell"] = IF t = "cursor" /\ h \in Guards
                                /\ "Shell" \in TranslateTools(t, canonical)
                           THEN Placed(f["shell"], h, {}) ELSE f["shell"]
<1> DEFINE event == Event(h)
           list == f[event]
           names == TranslateTools(t, canonical)
           scope == NewScope(t, list, h, canonical, owned)
           placed == Placed(list, h, scope)
           mirror == Placed(f["shell"], h, {})
           new == Upsert(t, f, h, canonical, owned)
<1>1. event \in Slots /\ event # "shell" /\ (h \in Guards <=> event = "pre") BY Events
<1>2. /\ f \in [Slots -> Seq(Entries)] /\ "shell" \in Slots /\ "shell" # "pre"
      /\ \A s \in Slots : f[s] \in Seq(Entries) /\ (s # "pre" => Wide(f[s]))
  BY FileLists DEF Slots
<1>3. list \in Seq(Entries) BY <1>1, <1>2
<1>4. scope \in Scopings /\ (canonical = {} /\ Wide(list) => scope \in {{}, All})
  <2> HIDE DEF list
  <2> QED BY <1>3, NewScopeTyped
<1>5. placed \in Seq(Entries) /\ (event # "pre" => Wide(placed))
  <2>1. event # "pre" => Wide(list) /\ canonical = {} BY <1>1, <1>2
  <2> HIDE DEF list, scope
  <2>2. placed \in Seq(Entries) BY <1>3, <1>4, PlacedFacts
  <2> QED BY <1>3, <1>4, <2>1, <2>2, PlacedWide
<1>6. mirror \in Seq(Entries) /\ Wide(mirror) BY <1>2, PlacedWide
<1>7. CursorUpsert(f["shell"], h, {}, FALSE, FALSE) = mirror BY DEF CursorUpsert, Placed
<1>8. /\ ClaudeShaped(t) => ClaudeUpsert(t, list, h, names, owned) = placed
      /\ t = "copilot" => CopilotUpsert(list, h) = placed
      /\ t = "cursor" => CursorUpsert(list, h, names, Scoped(t, event), owned) = placed
  <2> HIDE DEF list
  <2> QED BY <1>3, UpsertPlaces
<1>9. (IF t \in {"cursor", "agy"} THEN names ELSE canonical) = names
  BY TranslateTyped
<1>10. CASE t # "cursor"
  <2>1. new = [f EXCEPT ![event] = placed]
    <3>1. CASE ClaudeShaped(t)
      <4>1. t # "copilot" BY <3>1 DEF ClaudeShaped
      <4>2. new = [f EXCEPT ![event] =
                     ClaudeUpsert(t, f[event], h,
                                  IF t \in {"cursor", "agy"} THEN names ELSE canonical, owned)]
        BY <1>10, <3>1, <4>1 DEF Upsert
      <4> QED BY <1>8, <1>9, <3>1, <4>2
    <3>2. CASE t = "copilot"
      <4>1. ~ClaudeShaped(t) BY <3>2 DEF ClaudeShaped
      <4>2. new = [f EXCEPT ![event] = CopilotUpsert(f[event], h)] BY <3>2, <4>1 DEF Upsert
      <4> QED BY <1>8, <3>2, <4>2
    <3> QED BY <1>10, <3>1, <3>2 DEF FiveTools, ClaudeShaped
  <2> HIDE DEF new, placed, event, list
  <2>2. new \in [Slots -> Seq(Entries)] BY <1>1, <1>2, <1>5, <2>1
  <2>3. new[event] = placed /\ \A s \in Slots : s # event => new[s] = f[s]
    BY <1>1, <1>2, <2>1
  <2>4. new \in Files BY <1>2, <1>5, <2>2, <2>3, FileTyped
  <2>5. new["shell"] = f["shell"] BY <1>1, <1>2, <2>3
  <2> QED BY <1>10, <2>3, <2>4, <2>5 DEF new, placed, event, list
<1>11. CASE t = "cursor"
  <2>1. new = [f EXCEPT ![event] = placed,
                        !["shell"] = IF Scoped(t, event) /\ "Shell" \in names
                                     THEN mirror ELSE f["shell"]]
    <3>1. ~ClaudeShaped(t) BY <1>11 DEF ClaudeShaped
    <3>2. new = [f EXCEPT ![event] =
                   CursorUpsert(f[event], h,
                                IF t \in {"cursor", "agy"} THEN names ELSE canonical,
                                Scoped(t, event), owned),
                          !["shell"] =
                   IF Scoped(t, event)
                      /\ "Shell" \in IF t \in {"cursor", "agy"} THEN names ELSE canonical
                   THEN CursorUpsert(f["shell"], h, {}, FALSE, FALSE) ELSE f["shell"]]
      BY <1>1, <1>11, <3>1 DEF Upsert
    <3> QED BY <1>7, <1>8, <1>9, <1>11, <3>2
  <2>2. h \in Guards <=> Scoped(t, event) BY <1>1, <1>11 DEF Scoped, ClaudeShaped
  <2> HIDE DEF new, placed, event, list, mirror, names
  <2> DEFINE shell == IF Scoped(t, event) /\ "Shell" \in names THEN mirror ELSE f["shell"]
  <2>3. shell \in Seq(Entries) /\ Wide(shell) BY <1>2, <1>6
  <2>4. new = [f EXCEPT ![event] = placed, !["shell"] = shell] BY <2>1
  <2>5. shell = IF h \in Guards /\ "Shell" \in names THEN mirror ELSE f["shell"] BY <2>2
  <2> HIDE DEF shell
  <2>6. new \in [Slots -> Seq(Entries)] BY <1>1, <1>2, <1>5, <2>3, <2>4
  <2>7. /\ new[event] = placed /\ new["shell"] = shell
        /\ \A s \in Slots : s # event /\ s # "shell" => new[s] = f[s]
    BY <1>1, <1>2, <2>4
  <2>8. new \in Files BY <1>2, <1>5, <2>3, <2>6, <2>7, FileTyped
  <2>9. new["shell"] = IF t = "cursor" /\ h \in Guards /\ "Shell" \in names
                      THEN mirror ELSE f["shell"]
    BY <1>11, <2>5, <2>7
  <2>10. \A s \in Slots : s # event => new[s] = f[s] \/ (s = "shell" /\ new[s] = mirror)
    <3>1. new["shell"] = mirror \/ new["shell"] = f["shell"] BY <2>9
    <3> QED BY <2>7, <3>1
  <2> QED BY <2>7, <2>8, <2>9, <2>10 DEF new, placed, event, list, mirror, names
<1> QED BY <1>10, <1>11

(* One hook out of one file.                                                *)
LEMMA RemovedFile ==
  ASSUME NEW t, NEW f \in Files, NEW h \in Hooks
  PROVE  LET new == Removed(t, f, h) IN
         /\ new \in Files
         /\ \A s \in Slots : new[s] = f[s] \/ new[s] = Without(f[s], h)
<1> DEFINE event == Event(h)
           out == Without(f[event], h)
           shell == IF h \in Guards THEN Without(f["shell"], h) ELSE f["shell"]
           new == Removed(t, f, h)
<1>1. event \in Slots /\ event # "shell" BY Events
<1>2. /\ f \in [Slots -> Seq(Entries)] /\ "shell" \in Slots /\ "shell" # "pre"
      /\ \A s \in Slots : f[s] \in Seq(Entries) /\ (s # "pre" => Wide(f[s]))
  BY FileLists DEF Slots
<1>3. out \in Seq(Entries) /\ (event # "pre" => Wide(out)) BY <1>1, <1>2, WithoutFacts, WithoutWide
<1>4. /\ shell \in Seq(Entries) /\ Wide(shell)
      /\ shell \in {f["shell"], Without(f["shell"], h)}
  BY <1>2, WithoutWide
<1>5. new = [f EXCEPT ![event] = out, !["shell"] = shell]
  BY <1>1 DEF Removed
<1>6. out = Without(f[event], h) OBVIOUS
<1> HIDE DEF event, out, shell, new
<1>7. new \in [Slots -> Seq(Entries)] BY <1>1, <1>2, <1>3, <1>4, <1>5
<1>8. /\ new[event] = out /\ new["shell"] = shell
      /\ \A s \in Slots : s # event /\ s # "shell" => new[s] = f[s]
  BY <1>1, <1>2, <1>5
<1>9. new \in Files BY <1>2, <1>3, <1>4, <1>7, <1>8, FileTyped
<1>10. \A s \in Slots : new[s] = f[s] \/ new[s] = Without(f[s], h) BY <1>4, <1>6, <1>8
<1> QED BY <1>9, <1>10 DEF new

(* The canonical tools of a matcher; one that is wide has none.             *)
LEMMA MatcherTyped ==
  ASSUME NEW scope \in Scopings
  PROVE  /\ MatcherTools(scope) \in Scopings
         /\ scope \in {{}, All} => MatcherTools(scope) = {}
<1>1. \A m \in DOMAIN AgyNames : m \in Everything BY DEF AgyNames, Everything
<1>2. ASSUME NEW n \in Everything PROVE ReverseToolName(n) \in Everything
  <2>1. CASE n = "Shell"
    <3>1. n \notin {AgyNames[m] : m \in DOMAIN AgyNames} BY <2>1 DEF AgyNames
    <3>2. ReverseToolName(n) = "Bash" BY <2>1, <3>1 DEF ReverseToolName
    <3> QED BY <3>2 DEF Everything
  <2>2. CASE n # "Shell" /\ n \in {AgyNames[m] : m \in DOMAIN AgyNames}
    <3>1. PICK m \in DOMAIN AgyNames : AgyNames[m] = n BY <2>2
    <3>2. (CHOOSE m2 \in DOMAIN AgyNames : AgyNames[m2] = n) \in DOMAIN AgyNames BY <3>1
    <3>3. ReverseToolName(n) = CHOOSE m2 \in DOMAIN AgyNames : AgyNames[m2] = n
      BY <2>2 DEF ReverseToolName
    <3> QED BY <1>1, <3>2, <3>3
  <2>3. CASE n # "Shell" /\ n \notin {AgyNames[m] : m \in DOMAIN AgyNames}
    BY <2>3 DEF ReverseToolName
  <2> QED BY <2>1, <2>2, <2>3
<1>3. {ReverseToolName(n) : n \in scope} \in Scopings BY <1>2 DEF Scopings
<1>4. MatcherTools(scope) \in {{ReverseToolName(n) : n \in scope}, {}} BY DEF MatcherTools
<1>5. {} \in Scopings BY DEF Scopings
<1>6. scope \in {{}, All} => MatcherTools(scope) = {} BY DEF MatcherTools, Plain
<1> QED BY <1>3, <1>4, <1>5, <1>6

(* What crossby <= 0.12 left is added to the list, but for the entries with *)
(* a hook the list has: each hook of the list keeps its entries.            *)
LEMMA MigrateFacts ==
  ASSUME NEW list \in Seq(Entries), NEW old \in Seq(Entries)
  PROVE  LET new == FoldLeft(Migrate, list, old) IN
         /\ new \in Seq(Entries)
         /\ \A j \in DOMAIN list : j \in DOMAIN new /\ new[j] = list[j]
         /\ \A h : Present(list, h) => Holding(new, h) = Holding(list, h)
         /\ old = <<>> => new = list
<1> DEFINE n == Len(old)
           S == DOMAIN old
           B == Seq(Entries)
           Body(c, T) == IF T = {} THEN list ELSE Migrate(c[T \ {Max(T)}], old[Max(T)])
           Is(c) == c = [T \in SUBSET S |-> Body(c, T)]
           Moves(e) == [e EXCEPT !.scope = TranslateTools("cursor", MatcherTools(e.scope))]
<1>1. n \in Nat /\ S = 1..n /\ IsFiniteSet(S) BY FS_Interval
<1>2. ASSUME NEW i \in S
      PROVE  Moves(old[i]) \in Entries /\ Moves(old[i]).cmds = old[i].cmds
  <2>1. old[i] \in Entries /\ old[i].scope \in Scopings BY EntryTyped
  <2>2. MatcherTools(old[i].scope) \in Scopings BY <2>1, MatcherTyped
  <2>3. TranslateTools("cursor", MatcherTools(old[i].scope)) \in Scopings BY <2>2, TranslateTyped
  <2> QED BY <2>1, <2>3 DEF Entries
<1>3. ASSUME NEW m \in B, NEW i \in S
      PROVE  Migrate(m, old[i])
               = IF \E h \in old[i].cmds : Present(m, h) THEN m ELSE Append(m, Moves(old[i]))
  BY DEF Migrate
<1>4. ASSUME NEW m \in B, NEW i \in S PROVE Migrate(m, old[i]) \in B
  <2>1. Migrate(m, old[i]) \in {m, Append(m, Moves(old[i]))}
    <3> HIDE DEF S, Moves, B
    <3> QED BY <1>3
  <2> DEFINE e == Moves(old[i])
  <2>2. e \in Entries BY <1>2
  <2> HIDE DEF e
  <2>3. Append(m, e) \in B BY <2>2
  <2> QED BY <2>1, <2>3 DEF e
<1>5. \E c : Is(c)
  <2> DEFINE step == [p \in S \X B |-> Migrate(p[2], old[p[1]])]
             pick == [T \in SUBSET S |-> Max(T)]
  <2>1. step \in [S \X B -> B]
    <3>1. ASSUME NEW p \in S \X B PROVE Migrate(p[2], old[p[1]]) \in B
      <4>1. p[1] \in S /\ p[2] \in B OBVIOUS
      <4> QED BY <1>4, <4>1
    <3> QED BY <3>1
  <2>2. list \in B OBVIOUS
  <2>3. \A T \in SUBSET S : T # {} => pick[T] \in T BY <1>1, Largest
  <2>4. PICK c \in [SUBSET S -> B] : \A T \in SUBSET S :
          c[T] = IF T = {} THEN list ELSE step[<<pick[T], c[T \ {pick[T]}]>>]
    <3>1. IsFiniteSet(S) BY <1>1
    <3> HIDE DEF step, pick, S, B
    <3>2. Folding(S, B, list, step, pick) # {} BY <2>1, <2>2, <2>3, <3>1, FoldExists
    <3> QED BY <3>2 DEF Folding
  <2>5. ASSUME NEW T \in SUBSET S PROVE c[T] = Body(c, T)
    <3>1. CASE T = {} BY <2>4, <3>1
    <3>2. CASE T # {}
      <4>1. pick[T] = Max(T) /\ Max(T) \in S /\ T \ {Max(T)} \in SUBSET S BY <2>3, <3>2
      <4>2. <<Max(T), c[T \ {Max(T)}]>> \in S \X B BY <4>1
      <4>3. c[T] = step[<<Max(T), c[T \ {Max(T)}]>>] BY <2>4, <3>2, <4>1
      <4> QED BY <3>2, <4>2, <4>3
    <3> QED BY <3>1, <3>2
  <2>6. c = [T \in SUBSET S |-> c[T]] OBVIOUS
  <2> HIDE DEF Body, S
  <2>7. c = [T \in SUBSET S |-> Body(c, T)] BY <2>5, <2>6
  <2> QED BY <2>7
<1> DEFINE out == CHOOSE c : Is(c)
<1>6. Is(out) BY <1>5
<1>7. FoldLeft(Migrate, list, old) = out[S] BY DEF FoldLeft, MapThenFoldSet
<1> HIDE DEF out
<1>8. out[{}] = list BY <1>6
<1>9. ASSUME NEW k \in 1..n PROVE out[1..k] = Migrate(out[1..(k - 1)], old[k])
  <2>1. /\ 1..k \in SUBSET S /\ 1..k # {}
        /\ Max(1..k) = k /\ (1..k) \ {k} = 1..(k - 1)
    <3>1. n \in Nat BY <1>1
    <3> HIDE DEF n
    <3>2. /\ 1..k \in SUBSET (1..n) /\ 1..k # {}
          /\ Max(1..k) = k /\ (1..k) \ {k} = 1..(k - 1)
      BY <3>1, FirstNumbers
    <3> HIDE DEF S
    <3> QED BY <1>1, <3>2
  <2>2. out[1..k] = Body(out, 1..k)
    <3> HIDE DEF Body, S
    <3> QED BY <1>6, <2>1
  <2> HIDE DEF S
  <2> QED BY <2>1, <2>2
<1> DEFINE Fine(m) == /\ m \in B
                      /\ \A j \in DOMAIN list : j \in DOMAIN m /\ m[j] = list[j]
                      /\ \A h : Present(list, h) => Holding(m, h) = Holding(list, h)
           G == {k \in 0..n : Fine(out[1..k])}
<1>10. 0 \in G
  <2>1. out[1..0] = list BY <1>8
  <2>2. Fine(list) OBVIOUS
  <2>3. 0 \in 0..n BY <1>1
  <2> HIDE DEF Fine, n
  <2> QED BY <2>1, <2>2, <2>3
<1>11. ASSUME NEW m, Fine(m), NEW i \in S PROVE Fine(Migrate(m, old[i]))
  <2> DEFINE e == Moves(old[i])
  <2>1. m \in B /\ e \in Entries /\ e.cmds = old[i].cmds BY <1>2, <1>11
  <2>2. CASE \E h \in old[i].cmds : Present(m, h)
    <3>1. Migrate(m, old[i]) = m
      <4> HIDE DEF S, Moves
      <4> QED BY <1>3, <2>1, <2>2
    <3> QED BY <1>11, <3>1
  <2>3. CASE ~\E h \in old[i].cmds : Present(m, h)
    <3>1. Migrate(m, old[i]) = Append(m, e)
      <4> HIDE DEF S, Moves
      <4> QED BY <1>3, <2>1, <2>3
    <3> DEFINE new == Append(m, e)
               last == Len(m) + 1
    <3> HIDE DEF e
    <3>2. /\ new \in B /\ DOMAIN new = DOMAIN m \cup {last} /\ last \notin DOMAIN m
          /\ new[last] = e /\ \A j \in DOMAIN m : new[j] = m[j]
      BY <2>1
    <3> HIDE DEF new, last
    <3>3. ASSUME NEW h, Present(list, h) PROVE Holding(new, h) = Holding(list, h)
      <4>1. Holding(m, h) = Holding(list, h) BY <1>11, <3>3
      <4>2. h \notin e.cmds BY <2>1, <2>3, <3>3, <4>1 DEF Present
      <4>3. Holding(new, h) = Holding(m, h) BY <3>2, <4>2 DEF Holding
      <4> QED BY <4>1, <4>3
    <3>4. \A j \in DOMAIN list : j \in DOMAIN new /\ new[j] = list[j] BY <1>11, <3>2
    <3>5. Fine(new) BY <3>2, <3>3, <3>4
    <3> QED BY <3>1, <3>5 DEF new
  <2> QED BY <2>2, <2>3
<1>12. ASSUME NEW k \in 1..n, k - 1 \in G PROVE k \in G
  <2>1. k \in 0..n /\ k \in S BY <1>1
  <2>2. Fine(out[1..(k - 1)]) BY <1>12
  <2> HIDE DEF Fine, S, n
  <2>3. Fine(Migrate(out[1..(k - 1)], old[k])) BY <1>11, <2>1, <2>2
  <2> QED BY <1>9, <2>1, <2>3
<1>13. Fine(out[1..n])
  <2>1. \A k \in 0..n : k \in G
    <3> HIDE DEF n, G
    <3> QED BY <1>1, <1>10, <1>12, PrefixInduction
  <2>2. n \in 0..n BY <1>1
  <2> HIDE DEF n, Fine
  <2> QED BY <2>1, <2>2
<1>14. Fine(FoldLeft(Migrate, list, old))
  <2> HIDE DEF S, n, Fine
  <2> QED BY <1>1, <1>7, <1>13
<1>15. old = <<>> => FoldLeft(Migrate, list, old) = list
  <2>1. old = <<>> => S = {} OBVIOUS
  <2> HIDE DEF S
  <2> QED BY <1>7, <1>8, <2>1
<1> QED BY <1>14, <1>15

-----------------------------------------------------------------------------
(* A writer.                                                                *)

(* The tools hooks run for; only guards have any.                           *)
Canonical == {n \in [Hooks -> Scopings] : \A h \in Hooks \ Guards : n[h] = {}}

(* All that is written into a file, and all that is revoked from it.        *)
Upserts(t, f, names, own, S) ==
  FoldSet(LAMBDA h, g : Upsert(t, g, h, names[h], h \in own), f, S)
Removals(t, f, S) == FoldSet(LAMBDA h, g : Removed(t, g, h), f, S)

(* The hook a fold does last of those in a set, and the files it goes       *)
(* through, for each set of hooks done.                                     *)
Picked(T) == CHOOSE x \in T : TRUE
UpsertSteps(t, f, names, own, S) ==
  {c \in [SUBSET S -> Files] :
     /\ c[{}] = f /\ c[S] = Upserts(t, f, names, own, S)
     /\ \A T \in SUBSET S : T # {} =>
          /\ Picked(T) \in T
          /\ c[T] = Upsert(t, c[T \ {Picked(T)}], Picked(T), names[Picked(T)], Picked(T) \in own)}
RemovalSteps(t, f, S) ==
  {c \in [SUBSET S -> Files] :
     /\ c[{}] = f /\ c[S] = Removals(t, f, S)
     /\ \A T \in SUBSET S : T # {} =>
          Picked(T) \in T /\ c[T] = Removed(t, c[T \ {Picked(T)}], Picked(T))}

(* The upserts of a writer go hook by hook.                                 *)
LEMMA UpsertsAre ==
  ASSUME NEW t \in FiveTools, NEW f \in Files, NEW names \in Canonical, NEW own,
         NEW S \in SUBSET Hooks
  PROVE  UpsertSteps(t, f, names, own, S) # {}
<1> DEFINE up(g, h) == Upsert(t, g, h, names[h], h \in own)
           Body(c, T) == IF T = {} THEN f ELSE up(c[T \ {Picked(T)}], Picked(T))
           Is(c) == c = [T \in SUBSET S |-> Body(c, T)]
<1>1. IsFiniteSet(S) BY HookSyncAssumption, FS_Subset
<1>2. ASSUME NEW g \in Files, NEW h \in S PROVE up(g, h) \in Files
  <2>1. h \in Hooks /\ names[h] \in Scopings /\ (h \in Guards \/ names[h] = {}) BY DEF Canonical
  <2>2. (h \in own) \in BOOLEAN OBVIOUS
  <2> QED BY <2>1, <2>2, UpsertFile
<1>3. ASSUME NEW T \in SUBSET S, T # {} PROVE Picked(T) \in T BY <1>3 DEF Picked
<1>4. \E c : Is(c)
  <2> DEFINE step == [p \in S \X Files |-> up(p[2], p[1])]
             pick == [T \in SUBSET S |-> Picked(T)]
  <2>1. step \in [S \X Files -> Files]
    <3>1. ASSUME NEW p \in S \X Files PROVE up(p[2], p[1]) \in Files
      <4>1. p[1] \in S /\ p[2] \in Files OBVIOUS
      <4> QED BY <1>2, <4>1
    <3> HIDE DEF up
    <3> QED BY <3>1
  <2>2. \A T \in SUBSET S : T # {} => pick[T] \in T
    <3> QED BY <1>3
  <2>3. PICK c \in [SUBSET S -> Files] : \A T \in SUBSET S :
          c[T] = IF T = {} THEN f ELSE step[<<pick[T], c[T \ {pick[T]}]>>]
    <3> HIDE DEF step, pick
    <3>1. Folding(S, Files, f, step, pick) # {} BY <1>1, <2>1, <2>2, FoldExists
    <3> QED BY <3>1 DEF Folding
  <2>4. ASSUME NEW T \in SUBSET S PROVE c[T] = Body(c, T)
    <3> HIDE DEF up
    <3>1. CASE T = {} BY <2>3, <3>1
    <3>2. CASE T # {}
      <4>1. pick[T] = Picked(T) /\ Picked(T) \in S /\ T \ {Picked(T)} \in SUBSET S BY <1>3, <3>2
      <4>2. <<Picked(T), c[T \ {Picked(T)}]>> \in S \X Files BY <4>1
      <4>3. c[T] = step[<<Picked(T), c[T \ {Picked(T)}]>>] BY <2>3, <3>2, <4>1
      <4> QED BY <3>2, <4>2, <4>3
    <3> QED BY <3>1, <3>2
  <2>5. c = [T \in SUBSET S |-> c[T]] OBVIOUS
  <2> HIDE DEF Body
  <2>6. c = [T \in SUBSET S |-> Body(c, T)] BY <2>4, <2>5
  <2> QED BY <2>6
<1> DEFINE out == CHOOSE c : Is(c)
<1>5. Is(out)
  <2> HIDE DEF Is
  <2> QED BY <1>4
<1>6. Upserts(t, f, names, own, S) = out[S] BY DEF Upserts, FoldSet, MapThenFoldSet, Picked
<1> HIDE DEF out
<1>7. \A T \in SUBSET S : out[T] = Body(out, T)
  <2> HIDE DEF Body
  <2> QED BY <1>5
<1> HIDE DEF Is
<1> DEFINE H == {T \in SUBSET S : out[T] \in Files}
<1>8. ASSUME NEW T \in SUBSET S, \A x \in T : T \ {x} \in H PROVE T \in H
  <2>1. CASE T = {} BY <1>7, <2>1
  <2>2. CASE T # {}
    <3>1. Picked(T) \in S /\ out[T \ {Picked(T)}] \in Files BY <1>3, <1>8, <2>2
    <3>2. out[T] = Body(out, T) BY <1>7
    <3>3. Body(out, T) = up(out[T \ {Picked(T)}], Picked(T)) BY <2>2
    <3> QED BY <1>2, <3>1, <3>2, <3>3
  <2> QED BY <2>1, <2>2
<1>9. \A T \in SUBSET S : T \in H
  <2> HIDE DEF H
  <2> QED BY <1>1, <1>8, SubsetInduction
<1> DEFINE c == [T \in SUBSET S |-> out[T]]
<1>10. c \in [SUBSET S -> Files] BY <1>9
<1>11. c[{}] = f /\ c[S] = out[S] BY <1>7
<1>12. ASSUME NEW T \in SUBSET S, T # {}
       PROVE  /\ Picked(T) \in T
              /\ c[T] = up(c[T \ {Picked(T)}], Picked(T))
  <2>1. Picked(T) \in T BY <1>3, <1>12
  <2>2. c[T] = out[T] /\ c[T \ {Picked(T)}] = out[T \ {Picked(T)}] OBVIOUS
  <2>3. out[T] = up(out[T \ {Picked(T)}], Picked(T)) BY <1>7, <1>12
  <2> HIDE DEF c
  <2> QED BY <2>1, <2>2, <2>3
<1> HIDE DEF c
<1>13. c \in UpsertSteps(t, f, names, own, S) BY <1>6, <1>10, <1>11, <1>12 DEF UpsertSteps
<1> QED BY <1>13

(* And its revocations.                                                     *)
LEMMA RemovalsAre ==
  ASSUME NEW t, NEW f \in Files, NEW S \in SUBSET Hooks
  PROVE  RemovalSteps(t, f, S) # {}
<1> DEFINE Body(c, T) == IF T = {} THEN f ELSE Removed(t, c[T \ {Picked(T)}], Picked(T))
           Is(c) == c = [T \in SUBSET S |-> Body(c, T)]
<1>1. IsFiniteSet(S) BY HookSyncAssumption, FS_Subset
<1>2. ASSUME NEW g \in Files, NEW h \in S PROVE Removed(t, g, h) \in Files BY RemovedFile
<1>3. ASSUME NEW T \in SUBSET S, T # {} PROVE Picked(T) \in T BY <1>3 DEF Picked
<1>4. \E c : Is(c)
  <2> DEFINE step == [p \in S \X Files |-> Removed(t, p[2], p[1])]
             pick == [T \in SUBSET S |-> Picked(T)]
  <2>1. step \in [S \X Files -> Files]
    <3>1. ASSUME NEW p \in S \X Files PROVE Removed(t, p[2], p[1]) \in Files
      <4>1. p[1] \in S /\ p[2] \in Files OBVIOUS
      <4> QED BY <1>2, <4>1
    <3> QED BY <3>1
  <2>2. \A T \in SUBSET S : T # {} => pick[T] \in T
    <3> QED BY <1>3
  <2>3. PICK c \in [SUBSET S -> Files] : \A T \in SUBSET S :
          c[T] = IF T = {} THEN f ELSE step[<<pick[T], c[T \ {pick[T]}]>>]
    <3> HIDE DEF step, pick
    <3>1. Folding(S, Files, f, step, pick) # {} BY <1>1, <2>1, <2>2, FoldExists
    <3> QED BY <3>1 DEF Folding
  <2>4. ASSUME NEW T \in SUBSET S PROVE c[T] = Body(c, T)
    <3>1. CASE T = {} BY <2>3, <3>1
    <3>2. CASE T # {}
      <4>1. pick[T] = Picked(T) /\ Picked(T) \in S /\ T \ {Picked(T)} \in SUBSET S BY <1>3, <3>2
      <4>2. <<Picked(T), c[T \ {Picked(T)}]>> \in S \X Files BY <4>1
      <4>3. c[T] = step[<<Picked(T), c[T \ {Picked(T)}]>>] BY <2>3, <3>2, <4>1
      <4> QED BY <3>2, <4>2, <4>3
    <3> QED BY <3>1, <3>2
  <2>5. c = [T \in SUBSET S |-> c[T]] OBVIOUS
  <2> HIDE DEF Body
  <2>6. c = [T \in SUBSET S |-> Body(c, T)] BY <2>4, <2>5
  <2> QED BY <2>6
<1> DEFINE out == CHOOSE c : Is(c)
<1>5. Is(out)
  <2> HIDE DEF Is
  <2> QED BY <1>4
<1>6. Removals(t, f, S) = out[S] BY DEF Removals, FoldSet, MapThenFoldSet, Picked
<1> HIDE DEF out
<1>7. \A T \in SUBSET S : out[T] = Body(out, T)
  <2> HIDE DEF Body
  <2> QED BY <1>5
<1> HIDE DEF Is
<1> DEFINE H == {T \in SUBSET S : out[T] \in Files}
<1>8. ASSUME NEW T \in SUBSET S, \A x \in T : T \ {x} \in H PROVE T \in H
  <2>1. CASE T = {} BY <1>7, <2>1
  <2>2. CASE T # {}
    <3>1. Picked(T) \in S /\ out[T \ {Picked(T)}] \in Files BY <1>3, <1>8, <2>2
    <3>2. out[T] = Body(out, T) BY <1>7
    <3>3. Body(out, T) = Removed(t, out[T \ {Picked(T)}], Picked(T)) BY <2>2
    <3> QED BY <1>2, <3>1, <3>2, <3>3
  <2> QED BY <2>1, <2>2
<1>9. \A T \in SUBSET S : T \in H
  <2> HIDE DEF H
  <2> QED BY <1>1, <1>8, SubsetInduction
<1> DEFINE c == [T \in SUBSET S |-> out[T]]
<1>10. c \in [SUBSET S -> Files] BY <1>9
<1>11. c[{}] = f /\ c[S] = out[S] BY <1>7
<1>12. ASSUME NEW T \in SUBSET S, T # {}
       PROVE  /\ Picked(T) \in T
              /\ c[T] = Removed(t, c[T \ {Picked(T)}], Picked(T))
  <2>1. Picked(T) \in T BY <1>3, <1>12
  <2>2. c[T] = out[T] /\ c[T \ {Picked(T)}] = out[T \ {Picked(T)}] OBVIOUS
  <2>3. out[T] = Removed(t, out[T \ {Picked(T)}], Picked(T)) BY <1>7, <1>12
  <2> HIDE DEF c
  <2> QED BY <2>1, <2>2, <2>3
<1> HIDE DEF c
<1>13. c \in RemovalSteps(t, f, S) BY <1>6, <1>10, <1>11, <1>12 DEF RemovalSteps
<1> QED BY <1>13

(* What holds of the file a writer begins with, and hook by hook of the     *)
(* file so far and the hooks it has, holds of the one it ends with.         *)
LEMMA UpsertsKeep ==
  ASSUME NEW t \in FiveTools, NEW f \in Files, NEW names \in Canonical, NEW own,
         NEW S \in SUBSET Hooks, NEW G, <<{}, f>> \in G,
         \A T \in SUBSET S : \A g \in Files : \A h \in S \ T :
           <<T, g>> \in G => <<T \cup {h}, Upsert(t, g, h, names[h], h \in own)>> \in G
  PROVE  LET new == Upserts(t, f, names, own, S) IN new \in Files /\ <<S, new>> \in G
<1>0. PICK out \in UpsertSteps(t, f, names, own, S) : TRUE BY UpsertsAre
<1>1. /\ out \in [SUBSET S -> Files] /\ out[{}] = f /\ out[S] = Upserts(t, f, names, own, S)
      /\ \A T \in SUBSET S : T # {} =>
           /\ Picked(T) \in T
           /\ out[T] = Upsert(t, out[T \ {Picked(T)}], Picked(T), names[Picked(T)],
                              Picked(T) \in own)
  BY DEF UpsertSteps
<1> DEFINE H == {T \in SUBSET S : <<T, out[T]>> \in G}
<1>2. ASSUME NEW T \in SUBSET S, \A x \in T : T \ {x} \in H PROVE T \in H
  <2>1. CASE T = {} BY <1>1, <2>1
  <2>2. CASE T # {}
    <3> DEFINE x == Picked(T)
               U == T \ {x}
               g == out[U]
    <3>1. x \in T /\ out[T] = Upsert(t, g, x, names[x], x \in own) BY <1>1, <2>2
    <3> HIDE DEF x
    <3>2. U \in SUBSET S /\ x \in S \ U /\ U \cup {x} = T BY <3>1
    <3>3. g \in Files BY <1>1, <3>2
    <3>5. <<U, g>> \in G BY <1>2, <3>1
    <3> HIDE DEF U, g
    <3>4. <<U \cup {x}, Upsert(t, g, x, names[x], x \in own)>> \in G BY <3>2, <3>3, <3>5
    <3> QED BY <3>1, <3>2, <3>4
  <2> QED BY <2>1, <2>2
<1>3. IsFiniteSet(S) BY HookSyncAssumption, FS_Subset
<1>4. S \in H
  <2> HIDE DEF H
  <2>1. \A T \in SUBSET S : T \in H BY <1>2, <1>3, SubsetInduction
  <2> QED BY <2>1
<1> QED BY <1>1, <1>4

(* The same of the revocations.                                             *)
LEMMA RemovalsKeep ==
  ASSUME NEW t, NEW f \in Files, NEW S \in SUBSET Hooks, NEW G, f \in G,
         \A g \in Files : \A h \in S : g \in G => Removed(t, g, h) \in G
  PROVE  LET new == Removals(t, f, S) IN new \in Files /\ new \in G
<1>0. PICK out \in RemovalSteps(t, f, S) : TRUE BY RemovalsAre
<1>1. /\ out \in [SUBSET S -> Files] /\ out[{}] = f /\ out[S] = Removals(t, f, S)
      /\ \A T \in SUBSET S : T # {} =>
           Picked(T) \in T /\ out[T] = Removed(t, out[T \ {Picked(T)}], Picked(T))
  BY DEF RemovalSteps
<1> DEFINE H == {T \in SUBSET S : out[T] \in G}
<1>2. ASSUME NEW T \in SUBSET S, \A x \in T : T \ {x} \in H PROVE T \in H
  <2>1. CASE T = {} BY <1>1, <2>1
  <2>2. CASE T # {}
    <3> DEFINE x == Picked(T)
               g == out[T \ {x}]
    <3>1. x \in T /\ out[T] = Removed(t, g, x) BY <1>1, <2>2
    <3> HIDE DEF x
    <3>2. x \in S /\ T \ {x} \in SUBSET S BY <3>1
    <3>3. g \in Files BY <1>1, <3>2
    <3>4. g \in G BY <1>2, <3>1
    <3> HIDE DEF g
    <3> QED BY <3>1, <3>2, <3>3, <3>4
  <2> QED BY <2>1, <2>2
<1>3. IsFiniteSet(S) BY HookSyncAssumption, FS_Subset
<1>4. S \in H
  <2> HIDE DEF H
  <2>1. \A T \in SUBSET S : T \in H BY <1>2, <1>3, SubsetInduction
  <2> QED BY <2>1
<1> QED BY <1>1, <1>4

(* What a reader hands over.                                                *)
Data == [hooks : SUBSET Hooks, tools : Canonical]

(* A writer is its upserts and then its revocations.                        *)
LEMMA MergedIs ==
  ASSUME NEW t, NEW f, NEW data, NEW own
  PROVE  Merged(t, f, data, own)
           = Removals(t, Upserts(t, f, data.tools, own, {h \in data.hooks : Supports(t, h)}),
                      own \ data.hooks)
BY DEF Merged, Removals, Upserts

(* The file it leaves is one.                                               *)
LEMMA MergedTyped ==
  ASSUME NEW t \in FiveTools, NEW f \in Files, NEW data \in Data, NEW own \in SUBSET Hooks
  PROVE  Merged(t, f, data, own) \in Files
<1> DEFINE kept == {h \in data.hooks : Supports(t, h)}
           mid == Upserts(t, f, data.tools, own, kept)
<1>1. kept \in SUBSET Hooks /\ own \ data.hooks \in SUBSET Hooks /\ data.tools \in Canonical
  BY DEF Data
<1>2. mid \in Files
  <2> DEFINE G == (SUBSET kept) \X Files
  <2>1. <<{}, f>> \in G OBVIOUS
  <2>2. ASSUME NEW T \in SUBSET kept, NEW g \in Files, NEW h \in kept \ T
        PROVE  <<T \cup {h}, Upsert(t, g, h, data.tools[h], h \in own)>> \in G
    <3>1. h \in Hooks /\ data.tools[h] \in Scopings /\ (h \in Guards \/ data.tools[h] = {})
      BY <1>1 DEF Canonical
    <3>2. (h \in own) \in BOOLEAN OBVIOUS
    <3>3. Upsert(t, g, h, data.tools[h], h \in own) \in Files BY <3>1, <3>2, UpsertFile
    <3> QED BY <3>3
  <2> HIDE DEF kept, G
  <2> QED BY <1>1, <2>1, <2>2, UpsertsKeep
<1>3. Merged(t, f, data, own) = Removals(t, mid, own \ data.hooks) BY MergedIs
<1>4. Removals(t, mid, own \ data.hooks) \in Files
  <2>1. \A g \in Files : \A h \in own \ data.hooks : Removed(t, g, h) \in Files
    BY <1>1, RemovedFile
  <2> HIDE DEF mid
  <2> QED BY <1>1, <1>2, <2>1, RemovalsKeep
<1> QED BY <1>3, <1>4

(* What stands of a hook that is not crossby's, in a list that was once     *)
(* another: it is there, not in one entry with a hook of crossby's, and     *)
(* runs for no fewer calls.                                                 *)
Stands(t, s, was, h, own, list) ==
  /\ Present(list, h)
  /\ ~Shares(t, list, h, own)
  /\ ClaudeShaped(t) /\ s = "pre" => \A i \in Holding(list, h) : list[i].scope # {}
  /\ Reaches(t, s, was, h) \subseteq Reaches(t, s, list, h)

(* The tool calls an entry with that scope runs its hooks for.              *)
Calls(t, s, scope) == IF Scoped(t, s) THEN Reach(scope) ELSE Everything

(* A list reaches no less when each entry of the hook reaches no less.      *)
LEMMA ReachesMore ==
  ASSUME NEW t, NEW s, NEW h, NEW list, NEW new,
         \A i \in Holding(list, h) : \E j \in Holding(new, h) :
            Calls(t, s, list[i].scope) \subseteq Calls(t, s, new[j].scope)
  PROVE  Reaches(t, s, list, h) \subseteq Reaches(t, s, new, h)
BY DEF Reaches, Calls

(* It stands when another hook, or itself, is placed.                       *)
LEMMA PlacedStands ==
  ASSUME NEW t \in FiveTools, NEW s \in Slots, NEW was, NEW h, NEW own, h \notin own,
         NEW list \in Seq(Entries), Stands(t, s, was, h, own, list),
         NEW x \in Hooks, NEW scope \in Scopings,
         ClaudeShaped(t) /\ s = "pre" => scope # {},
         ( /\ x \notin own /\ Present(list, x) /\ Scoped(t, s)
           /\ ~(ClaudeShaped(t) /\ s = "pre" /\ OldScope(list, x) = {}) )
         => Reach(OldScope(list, x)) \subseteq Reach(scope)
  PROVE  Stands(t, s, was, h, own, Placed(list, x, scope))
<1> DEFINE new == Placed(list, x, scope)
<1>1. /\ \A j \in DOMAIN list :
              /\ j \in DOMAIN new /\ new[j].cmds = list[j].cmds
              /\ new[j].scope # list[j].scope =>
                   j \in Holding(list, x) /\ j = FirstOf(list, x) /\ new[j].scope = scope
      /\ \A j \in DOMAIN new : j \notin DOMAIN list => ~Present(list, x) /\ new[j].cmds = {x}
  BY PlacedFacts
<1> HIDE DEF new
<1>2. Holding(new, h) = Holding(list, h)
  <2>1. ASSUME NEW j \in Holding(new, h) PROVE j \in Holding(list, h)
    <3>1. CASE j \in DOMAIN list BY <1>1, <2>1, <3>1 DEF Holding
    <3>2. CASE j \notin DOMAIN list
      <4>1. h = x /\ ~Present(list, x) BY <1>1, <2>1, <3>2 DEF Holding
      <4> QED BY <4>1 DEF Stands
    <3> QED BY <3>1, <3>2
  <2>2. \A j \in Holding(list, h) : j \in Holding(new, h) BY <1>1 DEF Holding
  <2> QED BY <2>1, <2>2
<1>3. ASSUME NEW i \in Holding(list, h)
      PROVE  Calls(t, s, list[i].scope) \subseteq Calls(t, s, new[i].scope)
  <2>1. CASE new[i].scope = list[i].scope BY <2>1
  <2>2. CASE new[i].scope # list[i].scope
    <3>1. i \in DOMAIN list /\ h \in list[i].cmds BY DEF Holding
    <3>2. i \in Holding(list, x) /\ i = FirstOf(list, x) /\ new[i].scope = scope
      BY <1>1, <2>2, <3>1
    <3>3. x \notin own
      <4>1. list[i].cmds \cap (own \ {h}) = {} BY DEF Stands, Shares
      <4>2. x \in list[i].cmds BY <3>2 DEF Holding
      <4> QED BY <4>1, <4>2
    <3>4. Present(list, x) /\ OldScope(list, x) = list[i].scope BY <3>2 DEF Present, OldScope
    <3>5. ~(ClaudeShaped(t) /\ s = "pre" /\ OldScope(list, x) = {}) BY <3>4 DEF Stands
    <3>6. Scoped(t, s) => Reach(list[i].scope) \subseteq Reach(scope)
      BY <3>3, <3>4, <3>5
    <3> QED BY <3>2, <3>6 DEF Calls
  <2> QED BY <2>1, <2>2
<1>4. Reaches(t, s, list, h) \subseteq Reaches(t, s, new, h) BY <1>2, <1>3, ReachesMore
<1>5. ~Shares(t, new, h, own)
  <2>1. \A i \in Holding(list, h) : new[i].cmds = list[i].cmds BY <1>1 DEF Holding
  <2> QED BY <1>2, <2>1 DEF Stands, Shares
<1>6. ASSUME ClaudeShaped(t), s = "pre", NEW i \in Holding(new, h) PROVE new[i].scope # {}
  <2>1. i \in DOMAIN list /\ list[i].scope # {} BY <1>2, <1>6 DEF Stands, Holding
  <2> QED BY <1>1, <1>6, <2>1
<1>7. Present(new, h) BY <1>2 DEF Stands, Present
<1> QED BY <1>4, <1>5, <1>6, <1>7 DEF Stands, new

(* And when one of crossby's is taken out.                                  *)
LEMMA WithoutStands ==
  ASSUME NEW t, NEW s, NEW was, NEW h, NEW own, h \notin own,
         NEW list \in Seq(Entries), Stands(t, s, was, h, own, list), NEW x \in own
  PROVE  Stands(t, s, was, h, own, Without(list, x))
<1> DEFINE new == Without(list, x)
<1>1. /\ \A i \in DOMAIN list : ~(list[i].cmds \subseteq {x}) =>
              \E j \in DOMAIN new : new[j] = Cleared(list[i], x)
      /\ \A j \in DOMAIN new : \E i \in DOMAIN list : new[j] = Cleared(list[i], x)
  BY WithoutFacts
<1> HIDE DEF new
<1>2. ASSUME NEW i \in DOMAIN list
      PROVE  /\ Cleared(list[i], x).cmds = list[i].cmds \ {x}
             /\ Cleared(list[i], x).scope = list[i].scope
  <2>1. list[i] \in Entries BY EntryTyped
  <2> QED BY <2>1 DEF Cleared, Entries
<1>3. ASSUME NEW i \in Holding(list, h)
      PROVE  \E j \in Holding(new, h) : new[j].scope = list[i].scope
  <2>1. i \in DOMAIN list /\ h \in list[i].cmds /\ h # x BY DEF Holding
  <2>2. PICK j \in DOMAIN new : new[j] = Cleared(list[i], x) BY <1>1, <2>1
  <2>3. h \in new[j].cmds /\ new[j].scope = list[i].scope BY <1>2, <2>1, <2>2
  <2> QED BY <2>2, <2>3 DEF Holding
<1>4. ASSUME NEW j \in Holding(new, h)
      PROVE  \E i \in Holding(list, h) :
               new[j].scope = list[i].scope /\ new[j].cmds \subseteq list[i].cmds
  <2>1. j \in DOMAIN new /\ h \in new[j].cmds BY DEF Holding
  <2>2. PICK i \in DOMAIN list : new[j] = Cleared(list[i], x) BY <1>1, <2>1
  <2>3. h \in list[i].cmds /\ new[j].scope = list[i].scope /\ new[j].cmds \subseteq list[i].cmds
    BY <1>2, <2>1, <2>2
  <2> QED BY <2>3 DEF Holding
<1>5. Present(new, h)
  <2>1. PICK i \in Holding(list, h) : TRUE BY DEF Stands, Present
  <2> QED BY <1>3, <2>1 DEF Present
<1>6. ~Shares(t, new, h, own)
  <2>1. ASSUME NEW j \in Holding(new, h) PROVE new[j].cmds \cap (own \ {h}) = {}
    <3>1. PICK i \in Holding(list, h) : new[j].cmds \subseteq list[i].cmds BY <1>4
    <3>2. list[i].cmds \cap (own \ {h}) = {} BY DEF Stands, Shares
    <3> QED BY <3>1, <3>2
  <2> QED BY <2>1 DEF Shares
<1>7. ASSUME ClaudeShaped(t), s = "pre", NEW j \in Holding(new, h) PROVE new[j].scope # {}
  <2>1. PICK i \in Holding(list, h) : new[j].scope = list[i].scope BY <1>4
  <2> QED BY <1>7, <2>1 DEF Stands
<1>8. Reaches(t, s, list, h) \subseteq Reaches(t, s, new, h)
  <2>1. ASSUME NEW i \in Holding(list, h)
        PROVE  \E j \in Holding(new, h) :
                 Calls(t, s, list[i].scope) \subseteq Calls(t, s, new[j].scope)
    <3>1. PICK j \in Holding(new, h) : new[j].scope = list[i].scope BY <1>3
    <3> QED BY <3>1
  <2> QED BY <2>1, ReachesMore
<1> QED BY <1>5, <1>6, <1>7, <1>8 DEF Stands, new

(* It stands through one writer.                                            *)
LEMMA MergedStands ==
  ASSUME NEW t \in FiveTools, NEW f \in Files, NEW data \in Data, NEW own \in SUBSET Hooks,
         NEW s \in Slots, NEW was, NEW h, h \notin own, Stands(t, s, was, h, own, f[s])
  PROVE  Stands(t, s, was, h, own, Merged(t, f, data, own)[s])
<1> DEFINE kept == {x \in data.hooks : Supports(t, x)}
           mid == Upserts(t, f, data.tools, own, kept)
           gone == own \ data.hooks
           K == {g \in Files : Stands(t, s, was, h, own, g[s])}
           G == (SUBSET kept) \X K
<1>1. kept \in SUBSET Hooks /\ gone \in SUBSET Hooks /\ data.tools \in Canonical BY DEF Data
<1>2. ASSUME NEW g \in K, NEW x \in kept
      PROVE  Upsert(t, g, x, data.tools[x], x \in own) \in K
  <2> DEFINE new == Upsert(t, g, x, data.tools[x], x \in own)
             scope == NewScope(t, g[Event(x)], x, data.tools[x], x \in own)
             old == OldScope(g[Event(x)], x)
             names == TranslateTools(t, data.tools[x])
  <2>1. x \in Hooks /\ data.tools[x] \in Scopings /\ (x \in Guards \/ data.tools[x] = {})
    BY <1>1 DEF Canonical
  <2>2. (x \in own) \in BOOLEAN /\ g \in Files /\ Event(x) \in Slots
        /\ Stands(t, s, was, h, own, g[s])
    BY <2>1, Events
  <2>3. /\ new \in Files /\ new[Event(x)] = Placed(g[Event(x)], x, scope)
        /\ s # Event(x) => new[s] = g[s] \/ (s = "shell" /\ new[s] = Placed(g[s], x, {}))
    <3>1. /\ new \in Files /\ new[Event(x)] = Placed(g[Event(x)], x, scope)
          /\ \A r \in Slots : r # Event(x) =>
               \/ new[r] = g[r]
               \/ r = "shell" /\ new[r] = Placed(g[r], x, {})
      <4> DEFINE owned == x \in own
                 names0 == data.tools[x]
      <4>1. owned \in BOOLEAN /\ names0 \in Scopings /\ (x \in Guards \/ names0 = {})
        BY <2>1
      <4> HIDE DEF owned, names0
      <4>2. LET n == Upsert(t, g, x, names0, owned) IN
            /\ n \in Files
            /\ n[Event(x)] = Placed(g[Event(x)], x, NewScope(t, g[Event(x)], x, names0, owned))
            /\ \A r \in Slots : r # Event(x) =>
                 \/ n[r] = g[r]
                 \/ r = "shell" /\ n[r] = Placed(g[r], x, {})
        BY <2>1, <2>2, <4>1, UpsertFile
      <4> QED BY <4>2 DEF owned, names0
    <3> HIDE DEF new, scope
    <3> QED BY <3>1
  <2>4. g[s] \in Seq(Entries) /\ g[Event(x)] \in Seq(Entries) BY <2>2, FileLists
  <2>5. CASE s = Event(x)
    <3>1. scope \in Scopings BY <2>1, <2>2, <2>4, NewScopeTyped
    <3>2. old \in Scopings /\ names \in Scopings /\ (data.tools[x] = {} => names = {})
      BY <2>1, <2>4, OldTyped, TranslateTyped
    <3>3. /\ Scoped(t, s) /\ ClaudeShaped(t) => scope # {}
          /\ ( /\ Scoped(t, s) /\ Present(g[s], x) /\ x \notin own
               /\ (ClaudeShaped(t) /\ old = {}) => names = {} )
             => Reach(old) \subseteq Reach(scope)
      <4>1. Present(g[s], x) \in BOOLEAN BY DEF Present
      <4>2. scope = ScopeGiven(t, s, Present(g[s], x), old, names, x \in own)
        BY <2>5 DEF NewScope
      <4> HIDE DEF scope, old, names
      <4> QED BY <2>2, <3>2, <4>1, <4>2, ScopeFacts
    <3>4. ClaudeShaped(t) /\ s = "pre" => scope # {} BY <3>3 DEF ClaudeShaped, Scoped
    <3>5. s # "pre" => names = {} BY <2>1, <2>5, <3>2, Events
    <3> HIDE DEF scope, old, names, new
    <3>6. ( /\ x \notin own /\ Present(g[s], x) /\ Scoped(t, s)
            /\ ~(ClaudeShaped(t) /\ s = "pre" /\ old = {}) )
          => Reach(old) \subseteq Reach(scope)
      BY <3>3, <3>5
    <3>7. Stands(t, s, was, h, own, Placed(g[s], x, scope))
      BY <2>1, <2>2, <2>4, <2>5, <3>1, <3>4, <3>6, PlacedStands DEF old
    <3> QED BY <2>3, <2>5, <3>7 DEF new
  <2>6. CASE s # Event(x) /\ new[s] = g[s] BY <2>2, <2>3, <2>6
  <2>7. CASE s = "shell" /\ new[s] = Placed(g[s], x, {})
    <3>1. {} \in Scopings /\ Reach({}) = Everything BY DEF Scopings, Reach
    <3>2. OldScope(g[s], x) \in Scopings BY <2>4, OldTyped
    <3>3. Reach(OldScope(g[s], x)) \subseteq Reach({}) BY <3>1, <3>2 DEF Reach, Scopings
    <3>4. Stands(t, s, was, h, own, Placed(g[s], x, {}))
      BY <2>1, <2>2, <2>4, <2>7, <3>1, <3>3, PlacedStands
    <3> QED BY <2>3, <2>7, <3>4
  <2> QED BY <2>3, <2>5, <2>6, <2>7
<1>3. mid \in K
  <2>1. <<{}, f>> \in G OBVIOUS
  <2>2. ASSUME NEW T \in SUBSET kept, NEW g \in Files, NEW x \in kept \ T, <<T, g>> \in G
        PROVE  <<T \cup {x}, Upsert(t, g, x, data.tools[x], x \in own)>> \in G
    <3>1. g \in K /\ x \in kept BY <2>2
    <3> HIDE DEF K
    <3>2. Upsert(t, g, x, data.tools[x], x \in own) \in K BY <1>2, <3>1
    <3> QED BY <3>2
  <2>3. <<kept, mid>> \in G
    <3> HIDE DEF kept, G
    <3> QED BY <1>1, <2>1, <2>2, UpsertsKeep
  <2> QED BY <2>3
<1>4. ASSUME NEW g \in K, NEW x \in gone PROVE Removed(t, g, x) \in K
  <2>1. g \in Files /\ x \in Hooks /\ x \in own /\ Stands(t, s, was, h, own, g[s]) BY <1>1
  <2>2. /\ Removed(t, g, x) \in Files
        /\ Removed(t, g, x)[s] = g[s] \/ Removed(t, g, x)[s] = Without(g[s], x)
    BY <2>1, RemovedFile
  <2>3. g[s] \in Seq(Entries) BY <2>1, FileLists
  <2>4. Stands(t, s, was, h, own, Without(g[s], x)) BY <2>1, <2>3, WithoutStands
  <2> QED BY <2>1, <2>2, <2>4
<1>5. Removals(t, mid, gone) \in K
  <2>1. mid \in Files BY <1>3
  <2> HIDE DEF mid, gone, K
  <2> QED BY <1>1, <1>3, <1>4, <2>1, RemovalsKeep
<1>6. Merged(t, f, data, own) = Removals(t, mid, gone) BY MergedIs
<1> HIDE DEF mid, gone
<1> QED BY <1>5, <1>6

(* How an entry serves a hook: it runs it for the tools named, or it has a  *)
(* part crossby cannot read, or it has another hook of K.                   *)
Serves(t, s, e, h, names, K) ==
  \/ Regex \in e.scope
  \/ e.cmds \cap (K \ {h}) # {}
  \/ /\ Reach(names) \subseteq Calls(t, s, e.scope)
     /\ ClaudeShaped(t) /\ Scoped(t, s) => e.scope # {}
ServedIn(t, s, list, h, names, K) == \E i \in Holding(list, h) : Serves(t, s, list[i], h, names, K)

(* A hook is served where it is placed with a scope that covers the tools.  *)
LEMMA PlacedIsServed ==
  ASSUME NEW t, NEW s, NEW list \in Seq(Entries), NEW h \in Hooks, NEW scope \in Scopings,
         NEW names \in Scopings, NEW K,
         Scoped(t, s) => /\ Reach(names) \subseteq Reach(scope) \/ Regex \in scope
                         /\ ClaudeShaped(t) => scope # {}
  PROVE  ServedIn(t, s, Placed(list, h, scope), h, names, K)
<1> DEFINE new == Placed(list, h, scope)
<1>1. PICK j \in Holding(new, h) : new[j].scope = scope BY PlacedFacts
<1>2. Reach(names) \subseteq Everything BY DEF Reach, Scopings
<1> HIDE DEF new
<1>3. Serves(t, s, new[j], h, names, K) BY <1>1, <1>2 DEF Serves, Calls
<1> QED BY <1>3 DEF ServedIn, new

(* It stays served when another is placed.                                  *)
LEMMA PlacedServes ==
  ASSUME NEW t, NEW s, NEW list \in Seq(Entries), NEW h, NEW names \in Scopings, NEW K,
         ServedIn(t, s, list, h, names, K),
         NEW x \in Hooks, x # h, NEW scope \in Scopings,
         Scoped(t, s) /\ ClaudeShaped(t) => scope # {},
         ( /\ Scoped(t, s) /\ x \notin K /\ Present(list, x)
           /\ ClaudeShaped(t) => OldScope(list, x) # {} )
         => /\ Reach(OldScope(list, x)) \subseteq Reach(scope)
            /\ Regex \in OldScope(list, x) => Regex \in scope
  PROVE  ServedIn(t, s, Placed(list, x, scope), h, names, K)
<1> DEFINE new == Placed(list, x, scope)
<1>1. \A j \in DOMAIN list :
         /\ j \in DOMAIN new /\ new[j].cmds = list[j].cmds
         /\ new[j].scope # list[j].scope =>
              j \in Holding(list, x) /\ j = FirstOf(list, x) /\ new[j].scope = scope
  BY PlacedFacts
<1>0. SUFFICES ServedIn(t, s, new, h, names, K) OBVIOUS
<1> HIDE DEF new
<1>2. PICK i \in Holding(list, h) : Serves(t, s, list[i], h, names, K) BY DEF ServedIn
<1>3. /\ i \in DOMAIN list /\ i \in Holding(new, h) /\ h \in list[i].cmds
      /\ new[i].cmds = list[i].cmds
  BY <1>1 DEF Holding
<1>4. Reach(names) \subseteq Everything BY DEF Reach, Scopings
<1>5. CASE new[i].scope = list[i].scope
  <2>1. Serves(t, s, new[i], h, names, K) BY <1>2, <1>3, <1>5 DEF Serves
  <2> QED BY <1>3, <2>1 DEF ServedIn
<1>6. CASE new[i].scope # list[i].scope
  <2>1. i \in Holding(list, x) /\ i = FirstOf(list, x) /\ new[i].scope = scope
    BY <1>1, <1>3, <1>6
  <2>2. Present(list, x) /\ OldScope(list, x) = list[i].scope /\ x \in list[i].cmds
    BY <2>1 DEF Present, OldScope, Holding
  <2>3. CASE list[i].cmds \cap (K \ {h}) # {}
    <3>1. Serves(t, s, new[i], h, names, K) BY <1>3, <2>3 DEF Serves
    <3> QED BY <1>3, <3>1 DEF ServedIn
  <2>4. CASE ~Scoped(t, s)
    <3>1. Serves(t, s, new[i], h, names, K) BY <1>4, <2>4 DEF Serves, Calls
    <3> QED BY <1>3, <3>1 DEF ServedIn
  <2>5. CASE list[i].cmds \cap (K \ {h}) = {} /\ Scoped(t, s)
    <3>1. x \notin K BY <2>2, <2>5
    <3>2. \/ Regex \in list[i].scope
          \/ /\ Reach(names) \subseteq Reach(list[i].scope)
             /\ ClaudeShaped(t) => list[i].scope # {}
      BY <1>2, <2>5 DEF Serves, Calls
    <3>3. ClaudeShaped(t) => list[i].scope # {} BY <3>2
    <3>4. /\ Reach(list[i].scope) \subseteq Reach(scope)
          /\ Regex \in list[i].scope => Regex \in scope
      BY <2>2, <2>5, <3>1, <3>3
    <3>5. \/ Regex \in new[i].scope
          \/ /\ Reach(names) \subseteq Reach(new[i].scope)
             /\ ClaudeShaped(t) => new[i].scope # {}
      BY <2>1, <2>5, <3>2, <3>4
    <3>6. Serves(t, s, new[i], h, names, K) BY <2>5, <3>5 DEF Serves, Calls
    <3> QED BY <1>3, <3>6 DEF ServedIn
  <2> QED BY <2>3, <2>4, <2>5
<1> QED BY <1>5, <1>6

(* Or taken out, if that is none of K.                                      *)
LEMMA WithoutServes ==
  ASSUME NEW t, NEW s, NEW list \in Seq(Entries), NEW h, NEW names, NEW K,
         ServedIn(t, s, list, h, names, K), NEW x, x # h, x \notin K
  PROVE  ServedIn(t, s, Without(list, x), h, names, K)
<1> DEFINE new == Without(list, x)
<1>1. \A i \in DOMAIN list : ~(list[i].cmds \subseteq {x}) =>
          \E j \in DOMAIN new : new[j] = Cleared(list[i], x)
  BY WithoutFacts
<1> HIDE DEF new
<1>2. PICK i \in Holding(list, h) : Serves(t, s, list[i], h, names, K) BY DEF ServedIn
<1>3. i \in DOMAIN list /\ h \in list[i].cmds BY DEF Holding
<1>4. PICK j \in DOMAIN new : new[j] = Cleared(list[i], x) BY <1>1, <1>3
<1>5. new[j].cmds = list[i].cmds \ {x} /\ new[j].scope = list[i].scope
  <2>1. list[i] \in Entries BY <1>3, EntryTyped
  <2> QED BY <1>4, <2>1 DEF Cleared, Entries
<1>6. j \in Holding(new, h) BY <1>3, <1>5 DEF Holding
<1>7. list[i].cmds \cap (K \ {h}) # {} => new[j].cmds \cap (K \ {h}) # {} BY <1>5
<1>8. Serves(t, s, new[j], h, names, K) BY <1>2, <1>5, <1>7 DEF Serves
<1> QED BY <1>6, <1>8 DEF ServedIn, new

(* Presence of a hook, through another placed or taken out.                 *)
LEMMA PlacedPresent ==
  ASSUME NEW list \in Seq(Entries), NEW x \in Hooks, NEW scope \in Scopings, NEW h,
         Present(list, h) \/ h = x
  PROVE  Present(Placed(list, x, scope), h)
<1> DEFINE new == Placed(list, x, scope)
<1>1. /\ \A j \in DOMAIN list : j \in DOMAIN new /\ new[j].cmds = list[j].cmds
      /\ \E j \in Holding(new, x) : TRUE
  BY PlacedFacts
<1> HIDE DEF new
<1>2. \A j \in Holding(list, h) : j \in Holding(new, h) BY <1>1 DEF Holding
<1> QED BY <1>1, <1>2 DEF Present, new

(* And through the removal of another.                                      *)
LEMMA WithoutPresent ==
  ASSUME NEW list \in Seq(Entries), NEW x, NEW h, Present(list, h), x # h
  PROVE  Present(Without(list, x), h)
<1> DEFINE new == Without(list, x)
<1>1. \A i \in DOMAIN list : ~(list[i].cmds \subseteq {x}) =>
          \E j \in DOMAIN new : new[j] = Cleared(list[i], x)
  BY WithoutFacts
<1> HIDE DEF new
<1>2. PICK i \in DOMAIN list : h \in list[i].cmds BY DEF Present, Holding
<1>3. PICK j \in DOMAIN new : new[j] = Cleared(list[i], x) BY <1>1, <1>2
<1>4. new[j].cmds = list[i].cmds \ {x}
  <2>1. list[i] \in Entries BY <1>2, EntryTyped
  <2> QED BY <1>3, <2>1 DEF Cleared, Entries
<1>5. j \in Holding(new, h) BY <1>2, <1>3, <1>4 DEF Holding
<1> QED BY <1>5 DEF Present, new

(* The guard in one file, of a hook to be had for those canonical tools:    *)
(* it is served in its list, and in cursor's of the shell.                  *)
GuardIn(t, f, h, canonical, K) ==
  LET names == TranslateTools(t, canonical) IN
  /\ ServedIn(t, Event(h), f[Event(h)], h, names, K)
  /\ t = "cursor" /\ h \in Guards /\ "Shell" \in names => Present(f["shell"], h)

(* An upsert of the hook establishes it.                                    *)
LEMMA UpsertGuards ==
  ASSUME NEW t \in FiveTools, NEW f \in Files, NEW h \in Hooks, NEW K,
         NEW canonical \in Scopings, NEW owned \in BOOLEAN, h \in Guards \/ canonical = {}
  PROVE  GuardIn(t, Upsert(t, f, h, canonical, owned), h, canonical, K)
<1> DEFINE new == Upsert(t, f, h, canonical, owned)
           event == Event(h)
           scope == NewScope(t, f[event], h, canonical, owned)
           old == OldScope(f[event], h)
           names == TranslateTools(t, canonical)
<1>1. /\ new[event] = Placed(f[event], h, scope)
      /\ t = "cursor" /\ h \in Guards /\ "Shell" \in names
           => new["shell"] = Placed(f["shell"], h, {})
  BY UpsertFile
<1>2. event \in Slots /\ "shell" \in Slots BY Events DEF Slots
<1>3. f[event] \in Seq(Entries) /\ f["shell"] \in Seq(Entries) BY <1>2, FileLists
<1>4. names \in Scopings /\ old \in Scopings /\ {} \in Scopings
  BY <1>3, TranslateTyped, OldTyped DEF Scopings
<1>5. Present(f[event], h) \in BOOLEAN BY DEF Present
<1>6. scope = ScopeGiven(t, event, Present(f[event], h), old, names, owned) BY DEF NewScope
<1> HIDE DEF new, event, scope, old, names
<1>7. /\ scope \in Scopings
      /\ Scoped(t, event) => /\ Reach(names) \subseteq Reach(scope) \/ Regex \in scope
                             /\ ClaudeShaped(t) => scope # {}
  BY <1>4, <1>5, <1>6, ScopeFacts
<1>8. ServedIn(t, event, new[event], h, names, K) BY <1>1, <1>3, <1>4, <1>7, PlacedIsServed
<1>9. t = "cursor" /\ h \in Guards /\ "Shell" \in names => Present(new["shell"], h)
  BY <1>1, <1>3, <1>4, PlacedPresent
<1> QED BY <1>8, <1>9 DEF GuardIn, new, event, names

(* One of another hook leaves it, if what it owns is in K.                  *)
LEMMA UpsertKeepsGuard ==
  ASSUME NEW t \in FiveTools, NEW f \in Files, NEW h \in Hooks, NEW K,
         NEW canonical \in Scopings, GuardIn(t, f, h, canonical, K),
         NEW x \in Hooks, x # h, NEW its \in Scopings, x \in Guards \/ its = {},
         NEW owned \in BOOLEAN, owned => x \in K
  PROVE  GuardIn(t, Upsert(t, f, x, its, owned), h, canonical, K)
<1> DEFINE new == Upsert(t, f, x, its, owned)
           event == Event(h)
           scope == NewScope(t, f[Event(x)], x, its, owned)
           old == OldScope(f[Event(x)], x)
           asked == TranslateTools(t, its)
           names == TranslateTools(t, canonical)
<1>1. /\ new[Event(x)] = Placed(f[Event(x)], x, scope)
      /\ \A s \in Slots : s # Event(x) =>
           \/ new[s] = f[s]
           \/ s = "shell" /\ new[s] = Placed(f[s], x, {})
  BY UpsertFile
<1>2. event \in Slots /\ "shell" \in Slots /\ event # "shell" /\ Event(x) \in Slots
      /\ Event(x) # "shell"
  BY Events DEF Slots
<1>3. f[event] \in Seq(Entries) /\ f["shell"] \in Seq(Entries) /\ f[Event(x)] \in Seq(Entries)
  BY <1>2, FileLists
<1>4. names \in Scopings /\ asked \in Scopings /\ old \in Scopings /\ {} \in Scopings
  BY <1>3, TranslateTyped, OldTyped DEF Scopings
<1>5. Present(f[Event(x)], x) \in BOOLEAN BY DEF Present
<1>6. scope = ScopeGiven(t, Event(x), Present(f[Event(x)], x), old, asked, owned) BY DEF NewScope
<1>7. /\ ServedIn(t, event, f[event], h, names, K)
      /\ t = "cursor" /\ h \in Guards /\ "Shell" \in names => Present(f["shell"], h)
  BY DEF GuardIn
<1> HIDE DEF new, event, scope, old, asked, names
<1>8. /\ scope \in Scopings
      /\ Scoped(t, Event(x)) =>
           /\ ClaudeShaped(t) => scope # {}
           /\ ( /\ Present(f[Event(x)], x) /\ ~owned
                /\ (ClaudeShaped(t) /\ old = {}) => asked = {} )
              => Reach(old) \subseteq Reach(scope) /\ (Regex \in old => Regex \in scope)
  BY <1>4, <1>5, <1>6, ScopeFacts
<1>9. ServedIn(t, event, new[event], h, names, K)
  <2>1. CASE event = Event(x)
    <3>1. ( /\ Scoped(t, event) /\ x \notin K /\ Present(f[event], x)
            /\ ClaudeShaped(t) => OldScope(f[event], x) # {} )
          => /\ Reach(OldScope(f[event], x)) \subseteq Reach(scope)
             /\ Regex \in OldScope(f[event], x) => Regex \in scope
      BY <1>8, <2>1 DEF old
    <3>2. Scoped(t, event) /\ ClaudeShaped(t) => scope # {} BY <1>8, <2>1
    <3>3. ServedIn(t, event, Placed(f[event], x, scope), h, names, K)
      BY <1>3, <1>4, <1>7, <1>8, <3>1, <3>2, PlacedServes
    <3> QED BY <1>1, <2>1, <3>3
  <2>2. CASE event # Event(x) BY <1>1, <1>2, <1>7, <2>2
  <2> QED BY <2>1, <2>2
<1>10. Present(f["shell"], h) => Present(new["shell"], h)
  <2>1. new["shell"] = f["shell"] \/ new["shell"] = Placed(f["shell"], x, {}) BY <1>1, <1>2
  <2> QED BY <1>3, <1>4, <2>1, PlacedPresent
<1> QED BY <1>7, <1>9, <1>10 DEF GuardIn, new, event, names

(* A revocation too.                                                        *)
LEMMA RemovedKeepsGuard ==
  ASSUME NEW t, NEW f \in Files, NEW h \in Hooks, NEW K,
         NEW canonical, GuardIn(t, f, h, canonical, K), NEW x \in Hooks, x # h, x \notin K
  PROVE  GuardIn(t, Removed(t, f, x), h, canonical, K)
<1> DEFINE new == Removed(t, f, x)
           event == Event(h)
           names == TranslateTools(t, canonical)
<1>1. \A s \in Slots : new[s] = f[s] \/ new[s] = Without(f[s], x) BY RemovedFile
<1>2. event \in Slots /\ "shell" \in Slots BY Events DEF Slots
<1>3. f[event] \in Seq(Entries) /\ f["shell"] \in Seq(Entries) BY <1>2, FileLists
<1>4. /\ ServedIn(t, event, f[event], h, names, K)
      /\ t = "cursor" /\ h \in Guards /\ "Shell" \in names => Present(f["shell"], h)
  BY DEF GuardIn
<1> HIDE DEF new, event, names
<1>5. ServedIn(t, event, new[event], h, names, K) BY <1>1, <1>2, <1>3, <1>4, WithoutServes
<1>6. Present(f["shell"], h) => Present(new["shell"], h)
  BY <1>1, <1>2, <1>3, WithoutPresent
<1> QED BY <1>4, <1>5, <1>6 DEF GuardIn, new, event, names

(* A writer leaves its file with every hook of the source that the tool has *)
(* the event of.                                                            *)
LEMMA MergedGuards ==
  ASSUME NEW t \in FiveTools, NEW f \in Files, NEW data \in Data, NEW own \in SUBSET Hooks,
         NEW h \in data.hooks, Supports(t, h)
  PROVE  GuardIn(t, Merged(t, f, data, own), h, data.tools[h], own \cap data.hooks)
<1> DEFINE kept == {x \in data.hooks : Supports(t, x)}
           mid == Upserts(t, f, data.tools, own, kept)
           gone == own \ data.hooks
           K == own \cap data.hooks
           canonical == data.tools[h]
           Good == {g \in Files : GuardIn(t, g, h, canonical, K)}
           G == {p \in (SUBSET kept) \X Files : h \in p[1] => p[2] \in Good}
<1>1. /\ kept \in SUBSET Hooks /\ gone \in SUBSET Hooks /\ data.tools \in Canonical
      /\ h \in kept /\ h \in Hooks
  BY DEF Data
<1>2. ASSUME NEW x \in kept
      PROVE  /\ x \in Hooks /\ data.tools[x] \in Scopings /\ (x \in Guards \/ data.tools[x] = {})
             /\ (x \in own) \in BOOLEAN /\ (x \in own => x \in K)
  BY <1>1 DEF Canonical
<1>3. ASSUME NEW g \in Files, NEW x \in kept
      PROVE  Upsert(t, g, x, data.tools[x], x \in own) \in Files
  BY <1>2, UpsertFile
<1>4. ASSUME NEW g \in Files PROVE Upsert(t, g, h, data.tools[h], h \in own) \in Good
  <2>1. Upsert(t, g, h, data.tools[h], h \in own) \in Files BY <1>1, <1>3
  <2>2. GuardIn(t, Upsert(t, g, h, data.tools[h], h \in own), h, data.tools[h], K)
    <3> HIDE DEF K, kept
    <3> QED BY <1>1, <1>2, UpsertGuards
  <2> QED BY <2>1, <2>2
<1>5. ASSUME NEW g \in Good, NEW x \in kept, x # h
      PROVE  Upsert(t, g, x, data.tools[x], x \in own) \in Good
  <2>1. g \in Files /\ GuardIn(t, g, h, canonical, K) OBVIOUS
  <2>2. canonical \in Scopings BY <1>1, <1>2
  <2>3. Upsert(t, g, x, data.tools[x], x \in own) \in Files BY <1>3, <2>1
  <2>4. GuardIn(t, Upsert(t, g, x, data.tools[x], x \in own), h, canonical, K)
    <3> HIDE DEF K, kept, canonical, Good
    <3> QED BY <1>1, <1>2, <1>5, <2>1, <2>2, UpsertKeepsGuard
  <2> QED BY <2>3, <2>4
<1>6. mid \in Good
  <2>1. <<{}, f>> \in G OBVIOUS
  <2>2. ASSUME NEW T \in SUBSET kept, NEW g \in Files, NEW x \in kept \ T, <<T, g>> \in G
        PROVE  <<T \cup {x}, Upsert(t, g, x, data.tools[x], x \in own)>> \in G
    <3> DEFINE new == Upsert(t, g, x, data.tools[x], x \in own)
    <3>1. h \in T => g \in Good BY <2>2
    <3>2. new \in Files BY <1>3
    <3>3. h \in T \cup {x} => new \in Good
      <4>1. CASE x = h BY <1>4, <4>1
      <4>2. CASE x # h
        <5> HIDE DEF Good, kept
        <5> QED BY <1>5, <3>1, <4>2
      <4> QED BY <4>1, <4>2
    <3> HIDE DEF new, Good
    <3>4. T \cup {x} \in SUBSET kept OBVIOUS
    <3>5. <<T \cup {x}, new>> \in G BY <3>2, <3>3, <3>4
    <3> QED BY <3>5 DEF new
  <2>3. <<kept, mid>> \in G
    <3> HIDE DEF kept, G
    <3> QED BY <1>1, <2>1, <2>2, UpsertsKeep
  <2> HIDE DEF Good, mid
  <2> QED BY <1>1, <2>3
<1>7. ASSUME NEW g \in Good, NEW x \in gone PROVE Removed(t, g, x) \in Good
  <2>1. g \in Files /\ GuardIn(t, g, h, canonical, K) /\ x \in Hooks /\ x # h /\ x \notin K
    BY <1>1
  <2>2. Removed(t, g, x) \in Files BY <2>1, RemovedFile
  <2>3. GuardIn(t, Removed(t, g, x), h, canonical, K)
    <3> HIDE DEF K, canonical, Good, gone
    <3> QED BY <1>1, <2>1, RemovedKeepsGuard
  <2> QED BY <2>2, <2>3
<1>8. Removals(t, mid, gone) \in Good
  <2>1. mid \in Files BY <1>6
  <2> HIDE DEF mid, gone, Good
  <2> QED BY <1>1, <1>6, <1>7, <2>1, RemovalsKeep
<1>9. Merged(t, f, data, own) = Removals(t, mid, gone) BY MergedIs
<1> HIDE DEF mid, gone
<1> QED BY <1>8, <1>9

(* Served says: run for the tools asked for, unless there is a part crossby *)
(* cannot read or another hook of crossby's in the entry.                   *)
LEMMA ServedMeans ==
  ASSUME NEW t, NEW s, NEW list, NEW h, NEW names, NEW K, NEW own, K \subseteq own,
         ServedIn(t, s, list, h, names, K)
  PROVE  /\ Present(list, h)
         /\ \/ Reach(names) \subseteq Reaches(t, s, list, h)
            \/ \E i \in Holding(list, h) : Regex \in list[i].scope
            \/ Shares(t, list, h, own)
<1>1. PICK i \in Holding(list, h) : Serves(t, s, list[i], h, names, K) BY DEF ServedIn
<1>2. Calls(t, s, list[i].scope) \subseteq Reaches(t, s, list, h) BY DEF Calls, Reaches
<1>3. list[i].cmds \cap (K \ {h}) # {} => list[i].cmds \cap (own \ {h}) # {} OBVIOUS
<1>4. Present(list, h) BY DEF Present
<1> QED BY <1>1, <1>2, <1>3, <1>4 DEF Serves, Shares

-----------------------------------------------------------------------------
(* The same sync again: lists.                                              *)

(* What a hook's first entry is.                                            *)
LEMMA FirstMeans ==
  ASSUME NEW list \in Seq(Entries), NEW h
  PROVE  /\ Present(list, h) =>
              /\ FirstOf(list, h) \in DOMAIN list /\ h \in list[FirstOf(list, h)].cmds
              /\ \A j \in DOMAIN list : j < FirstOf(list, h) => h \notin list[j].cmds
         /\ \A i \in DOMAIN list :
              h \in list[i].cmds /\ (\A j \in DOMAIN list : j < i => h \notin list[j].cmds)
                => Present(list, h) /\ FirstOf(list, h) = i
<1> DEFINE H == Holding(list, h)
<1>1. /\ H \subseteq Nat /\ \A j : j \in H <=> j \in DOMAIN list /\ h \in list[j].cmds
  BY DEF Holding
<1>2. Present(list, h) <=> H # {} BY DEF Present
<1>3. ASSUME NEW i \in H, \A j \in H : i <= j
      PROVE  FirstOf(list, h) \in H /\ \A j \in H : FirstOf(list, h) <= j
  BY <1>3 DEF FirstOf
<1> HIDE DEF H
<1>4. ASSUME H # {} PROVE FirstOf(list, h) \in H /\ \A j \in H : FirstOf(list, h) <= j
  <2>1. PICK i \in H : \A j \in H : ~(<<j, i>> \in OpToRel(<, Nat))
    BY <1>1, <1>4, NatLessThanWellFounded, WFMin
  <2>2. \A j \in H : i <= j
    <3>1. ASSUME NEW j \in H, j < i PROVE FALSE
      <4>1. <<j, i>> \in OpToRel(<, Nat) BY <1>1, <3>1 DEF OpToRel
      <4> QED BY <2>1, <4>1
    <3> QED BY <1>1, <3>1
  <2> QED BY <1>3, <2>2
<1>5. ASSUME NEW i \in H, \A j \in H : ~(j < i) PROVE FirstOf(list, h) = i
  <2>1. FirstOf(list, h) \in H /\ FirstOf(list, h) <= i BY <1>4
  <2>2. ~(FirstOf(list, h) < i) BY <1>5, <2>1
  <2>3. FirstOf(list, h) \in Nat /\ i \in Nat BY <1>1, <2>1
  <2> QED BY <2>1, <2>2, <2>3
<1>6. ASSUME H # {}, NEW j \in DOMAIN list, j < FirstOf(list, h) PROVE h \notin list[j].cmds
  <2>1. FirstOf(list, h) \in Nat /\ j \in Nat BY <1>1, <1>4, <1>6
  <2>2. ~(FirstOf(list, h) <= j) BY <1>6, <2>1
  <2> QED BY <1>1, <1>4, <1>6, <2>2
<1> QED BY <1>1, <1>2, <1>4, <1>5, <1>6

(* An entry is replaced before or after another is added.                   *)
LEMMA AppendExcept ==
  ASSUME NEW s \in Seq(Entries), NEW e \in Entries, NEW r \in Entries
  PROVE  /\ Append(s, r) = [Append(s, e) EXCEPT ![Len(s) + 1] = r]
         /\ \A m \in DOMAIN s : Append([s EXCEPT ![m] = r], e) = [Append(s, e) EXCEPT ![m] = r]
<1> DEFINE n == Len(s)
<1>1. n \in Nat /\ DOMAIN s = 1..n OBVIOUS
<1>2. ASSUME NEW q \in Seq(Entries), NEW d \in Entries
      PROVE  /\ DOMAIN Append(q, d) = 1..(Len(q) + 1) /\ Append(q, d)[Len(q) + 1] = d
             /\ \A j \in 1..Len(q) : Append(q, d)[j] = q[j]
             /\ Append(q, d) = [j \in 1..(Len(q) + 1) |-> Append(q, d)[j]]
  <2> DEFINE a == Append(q, d)
  <2>1. a \in Seq(Entries) /\ Len(a) = Len(q) + 1 /\ Len(q) \in Nat OBVIOUS
  <2>2. a[Len(q) + 1] = d /\ \A j \in 1..Len(q) : a[j] = q[j] OBVIOUS
  <2> HIDE DEF a
  <2>3. DOMAIN a = 1..Len(a) /\ a = [j \in 1..Len(a) |-> a[j]] BY <2>1
  <2> QED BY <2>1, <2>2, <2>3 DEF a
<1>3. Append(s, r) = [Append(s, e) EXCEPT ![n + 1] = r]
  <2> DEFINE a == Append(s, r)
             b == Append(s, e)
  <2>1. /\ a = [j \in 1..(n + 1) |-> a[j]] /\ DOMAIN b = 1..(n + 1) /\ a[n + 1] = r
        /\ \A j \in 1..n : a[j] = s[j] /\ b[j] = s[j]
    BY <1>2
  <2> HIDE DEF a, b, n
  <2>2. \A j \in 1..(n + 1) : j = n + 1 \/ j \in 1..n BY <1>1
  <2>3. [b EXCEPT ![n + 1] = r] = [j \in 1..(n + 1) |-> IF j = n + 1 THEN r ELSE b[j]] BY <2>1
  <2>4. \A j \in 1..(n + 1) : a[j] = IF j = n + 1 THEN r ELSE b[j] BY <2>1, <2>2
  <2> QED BY <2>1, <2>3, <2>4 DEF a, b
<1>4. ASSUME NEW m \in 1..n PROVE Append([s EXCEPT ![m] = r], e) = [Append(s, e) EXCEPT ![m] = r]
  <2> DEFINE q == [s EXCEPT ![m] = r]
             a == Append(q, e)
             b == Append(s, e)
  <2>0. q \in Seq(Entries) /\ Len(q) = n /\ q[m] = r /\ \A j \in 1..n : j # m => q[j] = s[j]
    BY <1>1
  <2> HIDE DEF q
  <2>1. /\ a = [j \in 1..(n + 1) |-> a[j]] /\ DOMAIN b = 1..(n + 1)
        /\ a[n + 1] = e /\ b[n + 1] = e
        /\ \A j \in 1..n : a[j] = q[j] /\ b[j] = s[j]
    BY <1>2, <2>0
  <2> HIDE DEF a, b, n
  <2>2. \A j \in 1..(n + 1) : (j = n + 1 /\ j # m) \/ j \in 1..n BY <1>1
  <2>3. [b EXCEPT ![m] = r] = [j \in 1..(n + 1) |-> IF j = m THEN r ELSE b[j]] BY <2>1
  <2>4. \A j \in 1..(n + 1) : a[j] = IF j = m THEN r ELSE b[j] BY <2>0, <2>1, <2>2
  <2> QED BY <2>1, <2>3, <2>4 DEF a, b, q
<1> QED BY <1>1, <1>3, <1>4

(* A hook is given a scope before or after another is taken out.            *)
LEMMA WithoutRescoped ==
  ASSUME NEW list \in Seq(Entries), NEW x, NEW h, h # x, Present(list, h), NEW scope \in Scopings
  PROVE  LET out == Without(list, x) IN
         /\ out \in Seq(Entries) /\ Present(out, h)
         /\ out[FirstOf(out, h)].scope = list[FirstOf(list, h)].scope
         /\ Without(Rescoped(list, FirstOf(list, h), scope), x)
              = Rescoped(out, FirstOf(out, h), scope)
<1> DEFINE n == Len(list)
           i == FirstOf(list, h)
           new == Rescoped(list, i, scope)
           B == Seq(Entries)
<1>1. n \in Nat /\ DOMAIN list = 1..n OBVIOUS
<1>2. i \in 1..n /\ h \in list[i].cmds /\ \A j \in 1..n : j < i => h \notin list[j].cmds
  BY <1>1, FirstMeans
<1> HIDE DEF i
<1>3. list[i] \in Entries BY <1>1, <1>2, EntryTyped
<1>4. new = [list EXCEPT ![i] = [list[i] EXCEPT !.scope = scope]] BY DEF Rescoped
<1>5. [list[i] EXCEPT !.scope = scope] \in Entries BY <1>3 DEF Entries
<1>6. /\ new \in B /\ Len(new) = n /\ new[i] = [list[i] EXCEPT !.scope = scope]
      /\ \A k \in 1..n : k # i => new[k] = list[k]
  BY <1>1, <1>2, <1>4, <1>5
<1> HIDE DEF new, n
<1>7. PICK a \in [0..n -> B] :
        /\ a[0] = <<>> /\ a[n] = Without(list, x)
        /\ \A k \in 1..n : a[k] = IF list[k].cmds \subseteq {x} THEN a[k - 1]
                                  ELSE Append(a[k - 1], Cleared(list[k], x))
  BY WithoutBy DEF n
<1>8. PICK b \in [0..n -> B] :
        /\ b[0] = <<>> /\ b[n] = Without(new, x)
        /\ \A k \in 1..n : b[k] = IF new[k].cmds \subseteq {x} THEN b[k - 1]
                                  ELSE Append(b[k - 1], Cleared(new[k], x))
  <2>1. new \in Seq(Entries) BY <1>6
  <2>2. \E b \in [0..Len(new) -> Seq(Entries)] :
          /\ b[0] = <<>> /\ b[Len(new)] = Without(new, x)
          /\ \A k \in 1..Len(new) : b[k] = IF new[k].cmds \subseteq {x} THEN b[k - 1]
                                          ELSE Append(b[k - 1], Cleared(new[k], x))
    BY <2>1, WithoutBy
  <2>3. Len(new) = n BY <1>6
  <2> QED BY <2>2, <2>3
<1> DEFINE m == Len(a[i - 1]) + 1
           Before(k) == b[k] = a[k] /\ \A j \in DOMAIN a[k] : h \notin a[k][j].cmds
           Since(k) ==
             /\ m \in DOMAIN a[k] /\ h \in a[k][m].cmds
             /\ \A j \in DOMAIN a[k] : j < m => h \notin a[k][j].cmds
             /\ a[k][m].scope = list[i].scope /\ b[k] = Rescoped(a[k], m, scope)
           G == {k \in 0..n : IF k < i THEN Before(k) ELSE Since(k)}
<1>9. m \in Nat \ {0}
  <2>1. i - 1 \in 0..n BY <1>1, <1>2
  <2>2. a[i - 1] \in B BY <2>1
  <2> QED BY <2>2
<1>10. 0 \in G
  <2>1. 0 \in 0..n /\ 0 < i BY <1>1, <1>2
  <2>2. Before(0) BY <1>7, <1>8
  <2> HIDE DEF Before, Since
  <2> QED BY <2>1, <2>2
<1>11. ASSUME NEW k \in 1..n, k - 1 \in G PROVE k \in G
  <2> DEFINE s == a[k - 1]
             e == Cleared(list[k], x)
  <2>0. k \in 0..n /\ k - 1 \in 0..n /\ list[k] \in Entries /\ s \in B
    <3>1. k \in 0..n /\ k - 1 \in 0..n /\ k \in DOMAIN list BY <1>1
    <3> QED BY <3>1, EntryTyped
  <2>1. ~(list[k].cmds \subseteq {x}) =>
          e \in Entries /\ e.cmds = list[k].cmds \ {x} /\ e.scope = list[k].scope
    BY <2>0 DEF Cleared, Entries
  <2>2. CASE k < i
    <3>1. Before(k - 1)
      <4>1. k - 1 < i BY <1>2, <2>0, <2>2
      <4> HIDE DEF Before, Since
      <4> QED BY <1>11, <4>1
    <3>2. new[k] = list[k] /\ h \notin list[k].cmds BY <1>2, <1>6, <2>2
    <3>3. b[k] = a[k] BY <1>7, <1>8, <3>1, <3>2
    <3>4. ASSUME NEW j \in DOMAIN a[k] PROVE h \notin a[k][j].cmds
      <4>1. CASE list[k].cmds \subseteq {x} BY <1>7, <3>1, <4>1
      <4>2. CASE ~(list[k].cmds \subseteq {x})
        <5>1. a[k] = Append(s, e) BY <1>7, <4>2
        <5>2. h \notin e.cmds BY <2>1, <3>2, <4>2
        <5>3. \A l \in DOMAIN s : h \notin s[l].cmds BY <3>1
        <5> HIDE DEF s, e
        <5> QED BY <2>0, <5>1, <5>2, <5>3
      <4> QED BY <4>1, <4>2
    <3>5. Before(k) BY <3>3, <3>4
    <3> HIDE DEF Before, Since
    <3> QED BY <2>0, <2>2, <3>5
  <2>3. CASE k = i
    <3>1. Before(k - 1)
      <4>1. k - 1 < i BY <1>2, <2>3
      <4> HIDE DEF Before, Since
      <4> QED BY <1>11, <4>1
    <3>2. b[k - 1] = s /\ \A j \in DOMAIN s : h \notin s[j].cmds BY <3>1
    <3>3. ~(list[k].cmds \subseteq {x}) /\ h \in e.cmds BY <1>2, <2>1, <2>3
    <3>4. /\ new[k].cmds = list[k].cmds /\ Cleared(new[k], x) = [e EXCEPT !.scope = scope]
          /\ [e EXCEPT !.scope = scope] \in Entries
      <4>1. new[k] = [list[k] EXCEPT !.scope = scope] BY <1>6, <2>3
      <4> QED BY <2>0, <2>1, <3>3, <4>1 DEF Cleared, Entries
    <3>5. a[k] = Append(s, e) BY <1>7, <3>3
    <3>6. b[k] = Append(s, [e EXCEPT !.scope = scope]) BY <1>8, <3>2, <3>3, <3>4
    <3>7. m = Len(s) + 1 BY <2>3
    <3>8. e.scope = list[i].scope /\ e \in Entries BY <2>1, <2>3, <3>3
    <3> HIDE DEF s, e, m
    <3>9. /\ a[k] \in B /\ DOMAIN a[k] = DOMAIN s \cup {m} /\ m \notin DOMAIN s /\ a[k][m] = e
          /\ Len(s) \in Nat /\ \A j \in DOMAIN s : a[k][j] = s[j]
      BY <2>0, <3>5, <3>7, <3>8
    <3>10. b[k] = Rescoped(a[k], m, scope)
      <4>1. Rescoped(a[k], m, scope) = [a[k] EXCEPT ![m] = [e EXCEPT !.scope = scope]]
        BY <3>9 DEF Rescoped
      <4> DEFINE r == [e EXCEPT !.scope = scope]
      <4>2. r \in Entries /\ b[k] = Append(s, r) BY <3>4, <3>6
      <4> HIDE DEF r
      <4>3. Append(s, r) = [Append(s, e) EXCEPT ![m] = r] BY <2>0, <3>7, <3>8, <4>2, AppendExcept
      <4> QED BY <3>5, <4>1, <4>2, <4>3 DEF r
    <3>11. Since(k)
      <4>1. \A j \in DOMAIN a[k] : j < m => h \notin a[k][j].cmds
        BY <1>9, <3>2, <3>9
      <4> QED BY <3>3, <3>8, <3>9, <3>10, <4>1
    <3>12. ~(k < i) BY <1>2, <2>3
    <3> HIDE DEF Before, Since
    <3> QED BY <2>0, <3>11, <3>12
  <2>4. CASE i < k
    <3>1. Since(k - 1)
      <4>1. ~(k - 1 < i) BY <1>2, <2>0, <2>4
      <4> HIDE DEF Before, Since
      <4> QED BY <1>11, <4>1
    <3>2. new[k] = list[k] BY <1>2, <1>6, <2>4
    <3>3. Since(k)
      <4>1. CASE list[k].cmds \subseteq {x}
        <5>1. a[k] = a[k - 1] /\ b[k] = b[k - 1] BY <1>7, <1>8, <3>2, <4>1
        <5> HIDE DEF m
        <5> QED BY <3>1, <5>1
      <4>2. CASE ~(list[k].cmds \subseteq {x})
        <5>1. a[k] = Append(s, e) /\ b[k] = Append(b[k - 1], e) /\ e \in Entries
          BY <1>7, <1>8, <2>1, <3>2, <4>2
        <5>2. /\ m \in DOMAIN s /\ h \in s[m].cmds /\ s[m].scope = list[i].scope
              /\ \A j \in DOMAIN s : j < m => h \notin s[j].cmds
              /\ b[k - 1] = Rescoped(s, m, scope)
          BY <3>1
        <5> HIDE DEF s, e, m
        <5>3. /\ a[k] \in B /\ DOMAIN a[k] = DOMAIN s \cup {Len(s) + 1} /\ Len(s) \in Nat
              /\ \A j \in DOMAIN s : a[k][j] = s[j]
          BY <2>0, <5>1
        <5>4. m <= Len(s) /\ DOMAIN s = 1..Len(s) BY <2>0, <5>2
        <5> DEFINE r == [s[m] EXCEPT !.scope = scope]
        <5>5. r \in Entries
          <6>1. s[m] \in Entries BY <2>0, <5>2, EntryTyped
          <6> QED BY <6>1 DEF Entries
        <5>6. Rescoped(s, m, scope) = [s EXCEPT ![m] = r] BY DEF Rescoped
        <5>7. Rescoped(a[k], m, scope) = [a[k] EXCEPT ![m] = r] BY <5>2, <5>3 DEF Rescoped
        <5> HIDE DEF r
        <5>8. Append([s EXCEPT ![m] = r], e) = [Append(s, e) EXCEPT ![m] = r]
          BY <2>0, <5>1, <5>2, <5>5, AppendExcept
        <5>9. b[k] = Rescoped(a[k], m, scope) BY <5>1, <5>2, <5>6, <5>7, <5>8
        <5>10. \A j \in DOMAIN a[k] : j < m => h \notin a[k][j].cmds BY <1>9, <5>2, <5>3, <5>4
        <5> QED BY <5>2, <5>3, <5>9, <5>10
      <4> QED BY <4>1, <4>2
    <3>4. ~(k < i) BY <1>2, <2>4
    <3> HIDE DEF Before, Since
    <3> QED BY <2>0, <3>3, <3>4
  <2> QED BY <1>1, <1>2, <2>2, <2>3, <2>4
<1>12. Since(n)
  <2>1. \A k \in 0..n : k \in G
    <3> HIDE DEF G
    <3> QED BY <1>1, <1>10, <1>11, PrefixInduction
  <2>2. n \in 0..n /\ ~(n < i) BY <1>1, <1>2
  <2> HIDE DEF Before, Since
  <2> QED BY <2>1, <2>2
<1> DEFINE out == a[n]
<1>13. out \in B /\ out = Without(list, x) BY <1>1, <1>7
<1>14. /\ m \in DOMAIN out /\ h \in out[m].cmds
       /\ \A j \in DOMAIN out : j < m => h \notin out[j].cmds
       /\ out[m].scope = list[i].scope /\ Without(new, x) = Rescoped(out, m, scope)
  BY <1>8, <1>12
<1> HIDE DEF out, m
<1>15. Present(out, h) /\ FirstOf(out, h) = m BY <1>13, <1>14, FirstMeans
<1> QED BY <1>13, <1>14, <1>15 DEF i, new

-----------------------------------------------------------------------------
(* The same sync again: scopes.                                             *)

(* A scope that was widened is wide enough, and stays so when it is widened *)
(* for another hook.                                                        *)
LEMMA WideningAbsorbs ==
  ASSUME NEW a \in Scopings, NEW n \in Scopings, NEW m \in Scopings
  PROVE  /\ WidenMatcher(a, n) # {}
         /\ WidenMatcher(WidenMatcher(a, n), n) = WidenMatcher(a, n)
         /\ WidenMatcher(a, n) = a => WidenMatcher(WidenMatcher(a, m), n) = WidenMatcher(a, m)
<1> DEFINE d == ToolsToMatcher(n)
           e == ToolsToMatcher(m)
<1>1. d # {} /\ e # {} /\ All # {} /\ Regex \notin All BY DEF ToolsToMatcher, All, Regex
<1>2. ASSUME NEW b, NEW k
      PROVE  LET f == ToolsToMatcher(k) IN
             /\ b = {} => WidenMatcher(b, k) = f
             /\ b # {} /\ f = All /\ (b = All \/ Regex \notin b) => WidenMatcher(b, k) = All
             /\ b # {} /\ f = All /\ b # All /\ Regex \in b => WidenMatcher(b, k) = b
             /\ b # {} /\ f # All /\ b = All => WidenMatcher(b, k) = All
             /\ b # {} /\ f # All /\ b # All => WidenMatcher(b, k) = b \cup f
  BY DEF WidenMatcher, Plain
<1>3. \A S, T : S # {} /\ T # {} /\ S \cup T = All => S = All BY DEF All
<1>4. WidenMatcher(a, n) # {} BY <1>1, <1>2
<1>5. WidenMatcher(WidenMatcher(a, n), n) = WidenMatcher(a, n)
  <2>1. CASE a = {}
    <3>1. WidenMatcher(a, n) = d BY <1>2, <2>1
    <3>2. WidenMatcher(d, n) = d
      <4> HIDE DEF d
      <4>1. d = All \/ d # All OBVIOUS
      <4>2. d = All => WidenMatcher(d, n) = All BY <1>1, <1>2 DEF d
      <4>3. d # All => WidenMatcher(d, n) = d \cup d BY <1>1, <1>2 DEF d
      <4> QED BY <4>2, <4>3
    <3> QED BY <3>1, <3>2
  <2>2. CASE a # {} /\ d = All /\ (a = All \/ Regex \notin a) BY <1>1, <1>2, <2>2
  <2>3. CASE a # {} /\ d = All /\ a # All /\ Regex \in a BY <1>2, <2>3
  <2>4. CASE a # {} /\ d # All /\ a = All BY <1>2, <2>4
  <2>5. CASE a # {} /\ d # All /\ a # All
    <3>1. WidenMatcher(a, n) = a \cup d BY <1>2, <2>5
    <3>2. a \cup d # All /\ a \cup d # {} /\ (a \cup d) \cup d = a \cup d BY <1>1, <1>3, <2>5
    <3>3. WidenMatcher(a \cup d, n) = (a \cup d) \cup d BY <1>2, <2>5, <3>2
    <3> QED BY <3>1, <3>2, <3>3
  <2> QED BY <2>1, <2>2, <2>3, <2>4, <2>5
<1>6. ASSUME WidenMatcher(a, n) = a
      PROVE  WidenMatcher(WidenMatcher(a, m), n) = WidenMatcher(a, m)
  <2>1. a # {} BY <1>1, <1>2, <1>6
  <2>2. d # All => a = All \/ a = a \cup d BY <1>2, <1>6, <2>1
  <2>3. d = All => a = All \/ Regex \in a BY <1>2, <1>6, <2>1
  <2>4. CASE e = All /\ (a = All \/ Regex \notin a)
    <3>1. WidenMatcher(a, m) = All BY <1>2, <2>1, <2>4
    <3> QED BY <1>1, <1>2, <3>1
  <2>5. CASE e = All /\ a # All /\ Regex \in a BY <1>2, <1>6, <2>1, <2>5
  <2>6. CASE e # All /\ a = All BY <1>2, <1>6, <2>1, <2>6
  <2>7. CASE e # All /\ a # All
    <3>1. WidenMatcher(a, m) = a \cup e BY <1>2, <2>1, <2>7
    <3>2. a \cup e # All /\ a \cup e # {} BY <1>1, <1>3, <2>1, <2>7
    <3>3. CASE d = All
      <4>1. Regex \in a \cup e BY <2>3, <2>7, <3>3
      <4> QED BY <1>2, <3>1, <3>2, <3>3, <4>1
    <3>4. CASE d # All
      <4>1. (a \cup e) \cup d = a \cup e BY <2>2, <2>7, <3>4
      <4>2. WidenMatcher(a \cup e, n) = (a \cup e) \cup d BY <1>2, <3>2, <3>4
      <4> QED BY <3>1, <4>1, <4>2
    <3> QED BY <3>3, <3>4
  <2> QED BY <2>4, <2>5, <2>6, <2>7
<1> QED BY <1>4, <1>5, <1>6

(* Whether a writer has an entry for a hook in a list, and the scope it     *)
(* gives one.                                                               *)
Lists(t, s, h, canonical) ==
  \/ s = Event(h)
  \/ s = "shell" /\ t = "cursor" /\ h \in Guards /\ "Shell" \in TranslateTools(t, canonical)
Gives(t, s, h, there, old, canonical, owned) ==
  IF s = Event(h) THEN ScopeGiven(t, s, there, old, TranslateTools(t, canonical), owned) ELSE {}

(* To an entry that is there it gives one scope whatever it has, or leaves  *)
(* the one it has or widens it.                                             *)
Gift(t, s, h, canonical, owned) ==
  [a \in Scopings |-> Gives(t, s, h, TRUE, a, canonical, owned)]
Setting == {p \in [Scopings -> Scopings] : \A a, b \in Scopings : p[a] = p[b]}
Leaving == {p \in [Scopings -> Scopings] : \A a \in Scopings : p[a] = a}
Widening(t) ==
  {p \in [Scopings -> Scopings] : \E n \in Scopings : \A a \in Scopings :
     p[a] = IF t = "cursor" /\ a = {} THEN {} ELSE WidenMatcher(a, n)}
Soft(t) == Leaving \cup Widening(t)

(* The scopes given are scopes.                                             *)
LEMMA GivesTyped ==
  ASSUME NEW t \in FiveTools, NEW s, NEW h, NEW canonical \in Scopings, NEW owned \in BOOLEAN,
         NEW there \in BOOLEAN, NEW old \in Scopings
  PROVE  Gives(t, s, h, there, old, canonical, owned) \in Scopings
<1>1. TranslateTools(t, canonical) \in Scopings BY TranslateTyped
<1>2. ScopeGiven(t, s, there, old, TranslateTools(t, canonical), owned) \in Scopings
  BY <1>1, ScopeFacts
<1>3. {} \in Scopings BY DEF Scopings
<1> QED BY <1>2, <1>3 DEF Gives

(* A gift is one of the three.                                              *)
LEMMA Gifts ==
  ASSUME NEW t \in FiveTools, NEW s, NEW h, NEW canonical \in Scopings, NEW owned \in BOOLEAN
  PROVE  /\ Gift(t, s, h, canonical, owned) \in [Scopings -> Scopings]
         /\ Gift(t, s, h, canonical, owned) \in Setting \cup Soft(t)
<1> DEFINE names == TranslateTools(t, canonical)
           gives(a) == Gives(t, s, h, TRUE, a, canonical, owned)
           p == Gift(t, s, h, canonical, owned)
<1>0. /\ p \in [Scopings -> Scopings] /\ names \in Scopings
      /\ \A a \in Scopings : p[a] = gives(a)
  <2>1. \A a \in Scopings : gives(a) \in Scopings
    <3>1. TRUE \in BOOLEAN OBVIOUS
    <3> QED BY <3>1, GivesTyped
  <2>2. p = [a \in Scopings |-> gives(a)] BY DEF Gift
  <2>3. names \in Scopings BY TranslateTyped
  <2> HIDE DEF p, gives, names
  <2> QED BY <2>1, <2>2, <2>3
<1> SUFFICES p \in Setting \cup Soft(t) BY <1>0
<1> HIDE DEF p
<1>1. CASE s # Event(h) BY <1>0, <1>1 DEF Setting, Gives
<1>2. CASE s = Event(h)
  <2>1. \A a : gives(a) = ScopeGiven(t, s, TRUE, a, names, owned) BY <1>2 DEF Gives
  <2> HIDE DEF names
  <2>2. CASE ClaudeShaped(t)
    <3>0. t # "cursor" /\ t # "copilot" BY <2>2 DEF ClaudeShaped
    <3>1. \A a : gives(a) = IF Scoped(t, s) THEN MergeMatcher(a, names, owned)
                            ELSE IF t # "codex" THEN a ELSE {}
      BY <2>1, <2>2, <3>0 DEF ScopeGiven
    <3>2. \A a : gives(a) = IF Scoped(t, s)
                            THEN IF owned THEN ToolsToMatcher(names) ELSE WidenMatcher(a, names)
                            ELSE IF t # "codex" THEN a ELSE {}
      BY <3>1 DEF MergeMatcher
    <3> HIDE DEF gives
    <3>3. CASE Scoped(t, s) /\ owned BY <1>0, <3>2, <3>3 DEF Setting
    <3>4. CASE Scoped(t, s) /\ ~owned
      <4>1. \A a : gives(a) = WidenMatcher(a, names) BY <3>2, <3>4
      <4> QED BY <1>0, <3>0, <4>1 DEF Soft, Widening
    <3>5. CASE ~Scoped(t, s) /\ t # "codex"
      <4>1. \A a : gives(a) = a BY <3>2, <3>5
      <4> QED BY <1>0, <4>1 DEF Soft, Leaving
    <3>6. CASE ~Scoped(t, s) /\ t = "codex" BY <1>0, <3>2, <3>6 DEF Setting
    <3> QED BY <3>3, <3>4, <3>5, <3>6
  <2>3. CASE t = "copilot"
    <3>1. \A a : gives(a) = a BY <2>1, <2>3 DEF ScopeGiven, ClaudeShaped
    <3> HIDE DEF gives
    <3> QED BY <1>0, <3>1 DEF Soft, Leaving
  <2>4. CASE t = "cursor"
    <3>1. \A a : gives(a) = IF ~Scoped(t, s) THEN {} ELSE IF owned THEN names
                            ELSE IF a = {} THEN {} ELSE WidenMatcher(a, names)
      BY <2>1, <2>4 DEF ScopeGiven, ClaudeShaped
    <3> HIDE DEF gives
    <3>2. CASE ~Scoped(t, s) \/ owned BY <1>0, <3>1, <3>2 DEF Setting
    <3>3. CASE Scoped(t, s) /\ ~owned
      <4>1. \A a : gives(a) = IF a = {} THEN {} ELSE WidenMatcher(a, names) BY <3>1, <3>3
      <4> QED BY <1>0, <2>4, <4>1 DEF Soft, Widening
    <3> QED BY <3>2, <3>3
  <2> QED BY <2>2, <2>3, <2>4 DEF FiveTools, ClaudeShaped
<1> QED BY <1>1, <1>2

(* Where nothing is set, what was given once is given again, also after     *)
(* another hook had its turn.                                               *)
LEMMA SoftAgain ==
  ASSUME NEW t, NEW p \in Soft(t), NEW q \in Soft(t), NEW a \in Scopings
  PROVE  p[p[a]] = p[a] /\ (p[a] = a => p[q[a]] = q[a])
<1>1. /\ p \in [Scopings -> Scopings] /\ q \in [Scopings -> Scopings]
      /\ p[a] \in Scopings /\ q[a] \in Scopings
  BY DEF Soft, Leaving, Widening
<1>2. CASE p \in Leaving BY <1>1, <1>2 DEF Leaving
<1>3. CASE p \in Widening(t)
  <2>1. PICK n \in Scopings : \A b \in Scopings :
          p[b] = IF t = "cursor" /\ b = {} THEN {} ELSE WidenMatcher(b, n)
    BY <1>3 DEF Widening
  <2>2. WidenMatcher(a, n) # {} /\ WidenMatcher(WidenMatcher(a, n), n) = WidenMatcher(a, n)
    BY WideningAbsorbs
  <2>3. p[p[a]] = p[a] BY <1>1, <2>1, <2>2
  <2>4. ASSUME p[a] = a PROVE p[q[a]] = q[a]
    <3>1. CASE q \in Leaving BY <2>4, <3>1 DEF Leaving
    <3>2. CASE q \in Widening(t)
      <4>1. PICK m \in Scopings : \A b \in Scopings :
              q[b] = IF t = "cursor" /\ b = {} THEN {} ELSE WidenMatcher(b, m)
        BY <3>2 DEF Widening
      <4>2. /\ WidenMatcher(a, m) # {}
            /\ WidenMatcher(a, n) = a =>
                 WidenMatcher(WidenMatcher(a, m), n) = WidenMatcher(a, m)
        BY WideningAbsorbs
      <4> QED BY <1>1, <2>1, <2>2, <2>4, <4>1, <4>2
    <3> QED BY <3>1, <3>2 DEF Soft
  <2> QED BY <2>3, <2>4
<1> QED BY <1>2, <1>3 DEF Soft

(* A new entry is given its scope again: it is owned from then on.          *)
LEMMA NewGivesAgain ==
  ASSUME NEW t \in FiveTools, NEW s, NEW h, NEW canonical \in Scopings, NEW owned \in BOOLEAN,
         NEW again \in BOOLEAN, s # Event(h) \/ again = TRUE
  PROVE  Gift(t, s, h, canonical, again)[Gives(t, s, h, FALSE, {}, canonical, owned)]
           = Gives(t, s, h, FALSE, {}, canonical, owned)
<1> DEFINE old == {}
           given == Gives(t, s, h, FALSE, {}, canonical, owned)
<1> SUFFICES Gives(t, s, h, TRUE, given, canonical, again) = given
  <2>1. {} \in Scopings /\ FALSE \in BOOLEAN BY DEF Scopings
  <2>2. given \in Scopings BY <2>1, GivesTyped
  <2> HIDE DEF given
  <2> QED BY <2>2 DEF Gift, given
<1> DEFINE names == TranslateTools(t, canonical)
           new == ScopeGiven(t, s, FALSE, old, names, owned)
<1>1. CASE s # Event(h) BY <1>1 DEF Gives
<1>2. CASE s = Event(h)
  <2>1. again = TRUE BY <1>2
  <2>2. ScopeGiven(t, s, TRUE, new, names, TRUE) = new
    <3> HIDE DEF names
    <3>1. CASE ClaudeShaped(t)
      <4>0. t # "cursor" /\ t # "copilot" BY <3>1 DEF ClaudeShaped
      <4>1. new = IF Scoped(t, s) THEN ToolsToMatcher(names) ELSE {}
        BY <3>1, <4>0 DEF ScopeGiven
      <4>2. \A b : ScopeGiven(t, s, TRUE, b, names, TRUE)
                     = IF Scoped(t, s) THEN ToolsToMatcher(names)
                       ELSE IF t # "codex" THEN b ELSE {}
        BY <3>1, <4>0 DEF ScopeGiven, MergeMatcher
      <4> HIDE DEF new
      <4> QED BY <4>1, <4>2
    <3>2. CASE t = "copilot" BY <3>2 DEF ScopeGiven, ClaudeShaped
    <3>3. CASE t = "cursor"
      <4>1. new = IF Scoped(t, s) THEN names ELSE {} BY <3>3 DEF ScopeGiven, ClaudeShaped
      <4>2. \A b : ScopeGiven(t, s, TRUE, b, names, TRUE) = IF Scoped(t, s) THEN names ELSE {}
        BY <3>3 DEF ScopeGiven, ClaudeShaped
      <4> HIDE DEF new
      <4> QED BY <4>1, <4>2
    <3> QED BY <3>1, <3>2, <3>3 DEF FiveTools, ClaudeShaped
  <2> HIDE DEF names
  <2> QED BY <1>2, <2>1, <2>2 DEF Gives, names
<1> QED BY <1>1, <1>2

-----------------------------------------------------------------------------
(* The same sync again: one list.                                           *)

(* What a writer does to one list for one hook.                             *)
ListUpsert(t, s, list, h, canonical, owned) ==
  IF Lists(t, s, h, canonical)
  THEN Placed(list, h,
              Gives(t, s, h, Present(list, h), OldScope(list, h), canonical, owned))
  ELSE list

(* A writer goes list by list.                                              *)
LEMMA UpsertLists ==
  ASSUME NEW t \in FiveTools, NEW f \in Files, NEW h \in Hooks,
         NEW canonical \in Scopings, NEW owned \in BOOLEAN, h \in Guards \/ canonical = {},
         NEW s \in Slots
  PROVE  Upsert(t, f, h, canonical, owned)[s] = ListUpsert(t, s, f[s], h, canonical, owned)
<1> DEFINE new == Upsert(t, f, h, canonical, owned)
           names == TranslateTools(t, canonical)
<1>1. /\ new[Event(h)] = Placed(f[Event(h)], h, NewScope(t, f[Event(h)], h, canonical, owned))
      /\ \A r \in Slots : r # Event(h) => new[r] = f[r] \/ r = "shell"
      /\ new["shell"] = IF t = "cursor" /\ h \in Guards /\ "Shell" \in names
                        THEN Placed(f["shell"], h, {}) ELSE f["shell"]
  BY UpsertFile
<1>2. Event(h) # "shell" BY Events
<1> HIDE DEF new
<1>3. CASE s = Event(h)
  <2>1. NewScope(t, f[s], h, canonical, owned)
          = Gives(t, s, h, Present(f[s], h), OldScope(f[s], h), canonical, owned)
    BY <1>3 DEF NewScope, Gives
  <2>2. Lists(t, s, h, canonical) BY <1>3 DEF Lists
  <2> QED BY <1>1, <1>3, <2>1, <2>2 DEF ListUpsert, new
<1>4. CASE s = "shell"
  <2>1. Lists(t, s, h, canonical) <=> t = "cursor" /\ h \in Guards /\ "Shell" \in names
    BY <1>2, <1>4 DEF Lists
  <2>2. Gives(t, s, h, Present(f[s], h), OldScope(f[s], h), canonical, owned) = {}
    BY <1>2, <1>4 DEF Gives
  <2> HIDE DEF names
  <2> QED BY <1>1, <1>4, <2>1, <2>2 DEF ListUpsert, new
<1>5. CASE s # Event(h) /\ s # "shell"
  <2>1. ~Lists(t, s, h, canonical) BY <1>5 DEF Lists
  <2> QED BY <1>1, <1>5, <2>1 DEF ListUpsert, new
<1> QED BY <1>3, <1>4, <1>5

(* The entry it gives a scope, if the hook is there.                        *)
Touches(t, s, list, i, h, canonical) ==
  /\ Lists(t, s, h, canonical) /\ i \in DOMAIN list /\ h \in list[i].cmds
  /\ \A j \in DOMAIN list : j < i => h \notin list[j].cmds

(* What it does to each entry: a scope to the one it touches, or a new one. *)
Upserted(t, s, list, h, canonical, owned, new) ==
  /\ new \in Seq(Entries) /\ Len(list) <= Len(new)
  /\ Lists(t, s, h, canonical) => Present(new, h)
  /\ \A i \in 1..Len(list) :
       /\ new[i].cmds = list[i].cmds
       /\ new[i].scope = IF Touches(t, s, list, i, h, canonical)
                         THEN Gift(t, s, h, canonical, owned)[list[i].scope]
                         ELSE list[i].scope
  /\ \A i \in 1..Len(new) : i > Len(list) =>
       /\ Lists(t, s, h, canonical) /\ ~Present(list, h)
       /\ new[i].cmds = {h} /\ new[i].scope = Gives(t, s, h, FALSE, {}, canonical, owned)

(* It does that.                                                            *)
LEMMA ListUpsertFacts ==
  ASSUME NEW t \in FiveTools, NEW s, NEW list \in Seq(Entries), NEW h \in Hooks,
         NEW canonical \in Scopings, NEW owned \in BOOLEAN
  PROVE  Upserted(t, s, list, h, canonical, owned,
                  ListUpsert(t, s, list, h, canonical, owned))
<1> DEFINE new == ListUpsert(t, s, list, h, canonical, owned)
           n == Len(list)
<1> SUFFICES Upserted(t, s, list, h, canonical, owned, new) OBVIOUS
<1>1. n \in Nat /\ DOMAIN list = 1..n OBVIOUS
<1>2. CASE ~Lists(t, s, h, canonical)
  <2>1. new = list BY <1>2 DEF ListUpsert
  <2>2. \A i : ~Touches(t, s, list, i, h, canonical) BY <1>2 DEF Touches
  <2>3. n <= n /\ \A i \in 1..n : ~(i > n) BY <1>1
  <2> HIDE DEF new, n
  <2>4. Len(new) = n BY <2>1 DEF n
  <2> QED BY <1>2, <2>1, <2>2, <2>3, <2>4 DEF Upserted, n
<1>3. CASE Lists(t, s, h, canonical) /\ Present(list, h)
  <2> DEFINE k == FirstOf(list, h)
             given == Gives(t, s, h, TRUE, list[k].scope, canonical, owned)
             e == [list[k] EXCEPT !.scope = given]
  <2>1. k \in 1..n /\ h \in list[k].cmds /\ \A j \in 1..n : j < k => h \notin list[j].cmds
    BY <1>1, <1>3, FirstMeans
  <2> HIDE DEF k
  <2>2. list[k] \in Entries BY <1>1, <2>1, EntryTyped
  <2>3. list[k].scope \in Scopings BY <2>2 DEF Entries
  <2>4. given \in Scopings BY <2>3, GivesTyped
  <2>5. new = [list EXCEPT ![k] = e]
    <3>1. OldScope(list, h) = list[k].scope BY <1>3 DEF OldScope, k
    <3>2. Present(list, h) = TRUE BY <1>3 DEF Present
    <3> QED BY <1>3, <3>1, <3>2 DEF ListUpsert, Placed, Rescoped, k
  <2>14. given = Gift(t, s, h, canonical, owned)[list[k].scope] BY <2>3 DEF Gift
  <2> HIDE DEF given
  <2>6. e \in Entries /\ e.cmds = list[k].cmds /\ e.scope = given BY <2>2, <2>4 DEF Entries
  <2> HIDE DEF new, e, n
  <2>7. new \in Seq(Entries) /\ Len(new) = n BY <1>1, <2>1, <2>5, <2>6 DEF n
  <2>8. new[k] = e /\ \A i \in 1..n : i # k => new[i] = list[i] BY <1>1, <2>1, <2>5
  <2>9. \A i \in 1..n : Touches(t, s, list, i, h, canonical) <=> i = k
    <3>1. \A i \in 1..n : i < k \/ k < i \/ i = k BY <1>1, <2>1
    <3> QED BY <1>1, <1>3, <2>1, <3>1 DEF Touches
  <2>10. h \in new[k].cmds /\ k \in DOMAIN new BY <1>1, <2>1, <2>6, <2>7, <2>8
  <2>11. Present(new, h) BY <2>10 DEF Present, Holding
  <2>12. \A i \in 1..n :
           /\ new[i].cmds = list[i].cmds
           /\ new[i].scope = IF Touches(t, s, list, i, h, canonical)
                             THEN Gift(t, s, h, canonical, owned)[list[i].scope]
                             ELSE list[i].scope
    BY <2>6, <2>8, <2>9, <2>14
  <2>13. n <= Len(new) /\ \A i \in 1..Len(new) : ~(i > n) BY <1>1, <2>7
  <2> QED BY <2>7, <2>11, <2>12, <2>13 DEF Upserted, n
<1>4. CASE Lists(t, s, h, canonical) /\ ~Present(list, h)
  <2> DEFINE given == Gives(t, s, h, FALSE, {}, canonical, owned)
             e == Entry(h, given)
  <2>1. {} \in Scopings BY DEF Scopings
  <2>2. given \in Scopings BY <2>1, GivesTyped
  <2>3. new = Append(list, e)
    <3>1. OldScope(list, h) = {} BY <1>4 DEF OldScope
    <3>2. Present(list, h) = FALSE BY <1>4 DEF Present
    <3> QED BY <1>4, <3>1, <3>2 DEF ListUpsert, Placed
  <2> HIDE DEF given
  <2>4. e \in Entries /\ e.cmds = {h} /\ e.scope = given BY <2>2 DEF Entries, Entry
  <2> HIDE DEF new, e, n
  <2>5. new \in Seq(Entries) /\ Len(new) = n + 1 BY <2>3, <2>4 DEF n
  <2>6. new[n + 1] = e /\ \A i \in 1..n : new[i] = list[i] BY <1>1, <2>3, <2>4 DEF n
  <2>7. \A i : ~Touches(t, s, list, i, h, canonical)
    BY <1>4 DEF Touches, Present, Holding
  <2>8. n + 1 \in DOMAIN new /\ h \in new[n + 1].cmds BY <1>1, <2>4, <2>5, <2>6
  <2>9. Present(new, h) BY <2>8 DEF Present, Holding
  <2>10. \A i \in 1..Len(new) : i > n => i = n + 1 BY <1>1, <2>5
  <2>11. n <= Len(new) BY <1>1, <2>5
  <2>12. \A i \in 1..Len(new) : i > n => new[i].cmds = {h} /\ new[i].scope = given
    BY <2>4, <2>6, <2>10
  <2>13. \A i \in 1..n : new[i].cmds = list[i].cmds /\ new[i].scope = list[i].scope BY <2>6
  <2> QED BY <1>4, <2>5, <2>7, <2>9, <2>11, <2>12, <2>13 DEF Upserted, n, given
<1> QED BY <1>2, <1>3, <1>4

(* What is touched among the entries of a list is touched in a longer one.  *)
LEMMA TouchesPrefix ==
  ASSUME NEW t, NEW s, NEW list \in Seq(Entries), NEW new \in Seq(Entries),
         Len(list) <= Len(new), \A i \in 1..Len(list) : new[i].cmds = list[i].cmds,
         NEW h, NEW canonical, NEW i \in 1..Len(list)
  PROVE  Touches(t, s, new, i, h, canonical) <=> Touches(t, s, list, i, h, canonical)
<1>1. /\ DOMAIN list = 1..Len(list) /\ DOMAIN new = 1..Len(new)
      /\ Len(list) \in Nat /\ Len(new) \in Nat
  OBVIOUS
<1>2. i \in DOMAIN list /\ i \in DOMAIN new BY <1>1
<1>3. \A j \in DOMAIN new : j < i => j \in 1..Len(list) BY <1>1
<1>4. \A j \in DOMAIN list : j \in DOMAIN new BY <1>1
<1> QED BY <1>1, <1>2, <1>3, <1>4 DEF Touches

(* What is present in a list is present in a longer one.                    *)
LEMMA PresentPrefix ==
  ASSUME NEW list \in Seq(Entries), NEW new \in Seq(Entries),
         Len(list) <= Len(new), \A i \in 1..Len(list) : new[i].cmds = list[i].cmds,
         NEW h, Present(list, h)
  PROVE  Present(new, h)
<1>1. PICK i \in DOMAIN list : h \in list[i].cmds BY DEF Present, Holding
<1>2. /\ DOMAIN list = 1..Len(list) /\ DOMAIN new = 1..Len(new)
      /\ Len(list) \in Nat /\ Len(new) \in Nat
  OBVIOUS
<1>3. i \in DOMAIN new /\ h \in new[i].cmds BY <1>1, <1>2
<1> QED BY <1>3 DEF Present, Holding

(* The lists a writer goes through, for each set of hooks done.             *)
ListSteps(t, s, list, names, own, S) ==
  {c \in [SUBSET S -> Seq(Entries)] :
     /\ c[{}] = list
     /\ \A T \in SUBSET S : T # {} =>
          /\ Picked(T) \in T
          /\ c[T] = ListUpsert(t, s, c[T \ {Picked(T)}], Picked(T), names[Picked(T)],
                               Picked(T) \in own)}

(* What a writer asks for in an entry that has a hook.                      *)
Asks(t, s, h, names, own) == Gift(t, s, h, names[h], h \in own)

(* Nothing is set in an entry: each hook that touches it leaves or widens.  *)
NothingSet(t, s, list, i, names, own, S) ==
  \A h \in S : Touches(t, s, list, i, h, names[h]) =>
    Asks(t, s, h, names, own) \in Soft(t)

(* What a writer has made of a list when it has done the hooks of T: the    *)
(* entries that were there are, and where nothing is set each hook done has *)
(* got what it asks for; the hooks that were not there have new ones.       *)
Written(t, s, list, new, names, own, S, T) ==
  /\ Len(list) <= Len(new) /\ \A i \in 1..Len(list) : new[i].cmds = list[i].cmds
  /\ \A i \in 1..Len(new) : i > Len(list) =>
       \E h \in T : /\ Lists(t, s, h, names[h]) /\ ~Present(list, h)
                    /\ new[i].cmds = {h}
                    /\ new[i].scope = Gives(t, s, h, FALSE, {}, names[h], h \in own)
  /\ \A h \in T : Lists(t, s, h, names[h]) => Present(new, h)
  /\ \A i \in 1..Len(list) : NothingSet(t, s, list, i, names, own, S) =>
       \A h \in T : Touches(t, s, list, i, h, names[h]) =>
         Asks(t, s, h, names, own)[new[i].scope] = new[i].scope

(* A writer's list is that, hook by hook.                                   *)
LEMMA WrittenSteps ==
  ASSUME NEW t \in FiveTools, NEW s, NEW list \in Seq(Entries), NEW names \in [Hooks -> Scopings],
         NEW own, NEW S \in SUBSET Hooks, NEW c \in ListSteps(t, s, list, names, own, S)
  PROVE  \A T \in SUBSET S : Written(t, s, list, c[T], names, own, S, T)
<1>1. /\ c \in [SUBSET S -> Seq(Entries)] /\ c[{}] = list
      /\ \A T \in SUBSET S : T # {} =>
           /\ Picked(T) \in T
           /\ c[T] = ListUpsert(t, s, c[T \ {Picked(T)}], Picked(T), names[Picked(T)],
                                Picked(T) \in own)
  BY DEF ListSteps
<1> DEFINE n == Len(list)
           G == {T \in SUBSET S : Written(t, s, list, c[T], names, own, S, T)}
<1>2. n \in Nat /\ DOMAIN list = 1..n OBVIOUS
<1>3. ASSUME NEW T \in SUBSET S, \A x \in T : T \ {x} \in G PROVE T \in G
  <2>1. CASE T = {}
    <3>1. c[T] = list BY <1>1, <2>1
    <3>2. n <= n /\ \A i \in 1..n : ~(i > n) BY <1>2
    <3> HIDE DEF n
    <3>3. Written(t, s, list, list, names, own, S, {}) BY <3>2 DEF Written, n
    <3> QED BY <2>1, <3>1, <3>3
  <2>2. CASE T # {}
    <3> DEFINE x == Picked(T)
               U == T \ {x}
               old == c[U]
               new == c[T]
               owned == x \in own
    <3>1. x \in T /\ new = ListUpsert(t, s, old, x, names[x], owned) BY <1>1, <2>2
    <3> HIDE DEF x
    <3>2. x \in S /\ x \in Hooks /\ U \in SUBSET S /\ names[x] \in Scopings /\ owned \in BOOLEAN
      BY <3>1
    <3>3. old \in Seq(Entries) /\ new \in Seq(Entries) BY <1>1, <3>2
    <3>4. Written(t, s, list, old, names, own, S, U) BY <1>3, <3>1
    <3> HIDE DEF U, old, new, owned, G
    <3>5. n <= Len(old) /\ (\A i \in 1..n : old[i].cmds = list[i].cmds) BY <3>4 DEF Written
    <3>6. /\ Len(old) <= Len(new) /\ (Lists(t, s, x, names[x]) => Present(new, x))
          /\ \A i \in 1..Len(old) :
               /\ new[i].cmds = old[i].cmds
               /\ new[i].scope = IF Touches(t, s, old, i, x, names[x])
                                 THEN Gift(t, s, x, names[x], owned)[old[i].scope]
                                 ELSE old[i].scope
          /\ \A i \in 1..Len(new) : i > Len(old) =>
               /\ Lists(t, s, x, names[x]) /\ ~Present(old, x)
               /\ new[i].cmds = {x}
               /\ new[i].scope = Gives(t, s, x, FALSE, {}, names[x], owned)
      <4>1. Upserted(t, s, old, x, names[x], owned, new) BY <3>1, <3>2, <3>3, ListUpsertFacts
      <4> QED BY <4>1 DEF Upserted
    <3>7. /\ Len(old) \in Nat /\ Len(new) \in Nat
          /\ DOMAIN old = 1..Len(old) /\ DOMAIN new = 1..Len(new)
      BY <3>3
    <3>8. n <= Len(new) /\ \A i \in 1..n : i \in 1..Len(old) BY <1>2, <3>5, <3>6, <3>7
    <3>9. \A i \in 1..n : new[i].cmds = list[i].cmds BY <3>5, <3>6, <3>8
    <3>10. ASSUME NEW i \in 1..Len(new), i > n
           PROVE  \E h \in T : /\ Lists(t, s, h, names[h]) /\ ~Present(list, h)
                               /\ new[i].cmds = {h}
                               /\ new[i].scope = Gives(t, s, h, FALSE, {}, names[h], h \in own)
      <4>1. CASE i \in 1..Len(old)
        <5>1. PICK h \in U : /\ Lists(t, s, h, names[h]) /\ ~Present(list, h)
                             /\ old[i].cmds = {h}
                             /\ old[i].scope = Gives(t, s, h, FALSE, {}, names[h], h \in own)
          BY <3>4, <3>10, <4>1 DEF Written
        <5>2. h # x /\ h \in T BY DEF U
        <5>3. ~Touches(t, s, old, i, x, names[x]) BY <5>1, <5>2 DEF Touches
        <5>4. new[i].cmds = old[i].cmds /\ new[i].scope = old[i].scope BY <3>6, <4>1, <5>3
        <5> QED BY <5>1, <5>2, <5>4
      <4>2. CASE i \notin 1..Len(old)
        <5>1. i > Len(old) BY <3>7, <4>2
        <5>2. ~Present(list, x) BY <3>3, <3>5, <3>6, <5>1, PresentPrefix
        <5> QED BY <3>1, <3>6, <5>1, <5>2 DEF owned
      <4> QED BY <4>1, <4>2
    <3>11. ASSUME NEW h \in T, Lists(t, s, h, names[h]) PROVE Present(new, h)
      <4>1. CASE h = x BY <3>6, <3>11, <4>1
      <4>2. CASE h # x
        <5>1. Present(old, h) BY <3>4, <3>11, <4>2 DEF Written, U
        <5> QED BY <3>3, <3>6, <5>1, PresentPrefix
      <4> QED BY <4>1, <4>2
    <3>12. ASSUME NEW i \in 1..n, NothingSet(t, s, list, i, names, own, S),
                  NEW h \in T, Touches(t, s, list, i, h, names[h])
           PROVE  Asks(t, s, h, names, own)[new[i].scope] = new[i].scope
      <4> DEFINE a == old[i].scope
                 p == Asks(t, s, h, names, own)
                 q == Asks(t, s, x, names, own)
      <4>1. i \in DOMAIN old BY <3>7, <3>8
      <4>2. a \in Scopings
        <5>1. old[i] \in Entries BY <3>3, <4>1, EntryTyped
        <5> QED BY <5>1 DEF Entries
      <4>3. Touches(t, s, old, i, x, names[x]) <=> Touches(t, s, list, i, x, names[x])
        BY <3>3, <3>5, TouchesPrefix
      <4>4. h \in S OBVIOUS
      <4>5. p \in Soft(t) BY <3>12, <4>4 DEF NothingSet
      <4>6. h # x => p[a] = a BY <3>4, <3>12 DEF Written, U
      <4> HIDE DEF a
      <4>7. CASE ~Touches(t, s, list, i, x, names[x])
        <5>1. h # x BY <3>12, <4>7
        <5>2. new[i].scope = a BY <3>6, <3>8, <4>3, <4>7 DEF a
        <5> QED BY <4>6, <5>1, <5>2
      <4>8. CASE Touches(t, s, list, i, x, names[x])
        <5>1. new[i].scope = q[a] BY <3>6, <3>8, <4>3, <4>8 DEF a, Asks, owned
        <5>2. q \in Soft(t) BY <3>2, <3>12, <4>8 DEF NothingSet
        <5>3. h = x => p = q OBVIOUS
        <5> HIDE DEF p, q
        <5>4. p[p[a]] = p[a] /\ (p[a] = a => p[q[a]] = q[a]) BY <4>2, <4>5, <5>2, SoftAgain
        <5> QED BY <4>6, <5>1, <5>3, <5>4 DEF p
      <4> QED BY <4>7, <4>8
    <3>13. Written(t, s, list, new, names, own, S, T)
      BY <3>8, <3>9, <3>10, <3>11, <3>12 DEF Written, n
    <3> QED BY <3>13 DEF G, new
  <2> QED BY <2>1, <2>2
<1>4. IsFiniteSet(S) BY HookSyncAssumption, FS_Subset
<1>5. \A T \in SUBSET S : T \in G
  <2> HIDE DEF G
  <2> QED BY <1>3, <1>4, SubsetInduction
<1> QED BY <1>5

(* The lists of the next writer, which begins with the last list of the     *)
(* first: it has the same entries; where each hook of S that touches an     *)
(* entry finds the scope it asks for nothing changes, and where one sets    *)
(* the scope it is, from then on, what it was when the first writer had     *)
(* done as much.                                                            *)
Rewritten(t, s, list, mid, then, new, names, own, again, S, T) ==
  /\ Len(new) = Len(mid) /\ \A i \in 1..Len(mid) : new[i].cmds = mid[i].cmds
  /\ \A i \in 1..Len(mid) :
       (\A h \in S : Touches(t, s, mid, i, h, names[h]) =>
          Asks(t, s, h, names, again)[mid[i].scope] = mid[i].scope)
       => new[i].scope = mid[i].scope
  /\ \A i \in 1..Len(list) :
       (\E h \in T : /\ Touches(t, s, list, i, h, names[h])
                     /\ Asks(t, s, h, names, own) \in Setting)
       => new[i].scope = then[i].scope

(* What a writer owns when it has made a list.                              *)
OwnsNext(s, list, own, again, S) ==
  \A h \in S : s = Event(h) => IF Present(list, h) THEN h \in own <=> h \in again ELSE h \in again

(* What is owned by then asks for the same of an entry that was there.      *)
AsksAgain(t, s, list, names, own, again, S) ==
  \A h \in S : \A i : Touches(t, s, list, i, h, names[h]) =>
    Asks(t, s, h, names, own) = Asks(t, s, h, names, again)

(* A writer that owns what another made does.                               *)
LEMMA OwnedAskAgain ==
  ASSUME NEW t, NEW s, NEW list \in Seq(Entries), NEW names \in [Hooks -> Scopings], NEW own,
         NEW again, NEW S \in SUBSET Hooks, OwnsNext(s, list, own, again, S)
  PROVE  AsksAgain(t, s, list, names, own, again, S)
<1> SUFFICES ASSUME NEW h \in S, NEW i, Touches(t, s, list, i, h, names[h])
             PROVE  Asks(t, s, h, names, own) = Asks(t, s, h, names, again)
  BY DEF AsksAgain
<1>1. Present(list, h) BY DEF Touches, Present, Holding
<1>2. CASE s = Event(h)
  <2>1. (h \in own) = (h \in again) BY <1>1, <1>2 DEF OwnsNext
  <2> QED BY <2>1 DEF Asks
<1>3. CASE s # Event(h) BY <1>3 DEF Asks, Gift, Gives
<1> QED BY <1>2, <1>3

(* The next writer's list is that, hook by hook.                            *)
LEMMA RewrittenSteps ==
  ASSUME NEW t \in FiveTools, NEW s, NEW list \in Seq(Entries), NEW names \in [Hooks -> Scopings],
         NEW own, NEW again, NEW S \in SUBSET Hooks, OwnsNext(s, list, own, again, S),
         NEW c \in ListSteps(t, s, list, names, own, S),
         NEW d \in ListSteps(t, s, c[S], names, again, S)
  PROVE  \A T \in SUBSET S : Rewritten(t, s, list, c[S], c[T], d[T], names, own, again, S, T)
<1> DEFINE mid == c[S]
           n == Len(list)
           G == {T \in SUBSET S : Rewritten(t, s, list, mid, c[T], d[T], names, own, again, S, T)}
<1>1. /\ c \in [SUBSET S -> Seq(Entries)] /\ d \in [SUBSET S -> Seq(Entries)] /\ d[{}] = mid
      /\ \A T \in SUBSET S : T # {} =>
           /\ Picked(T) \in T
           /\ c[T] = ListUpsert(t, s, c[T \ {Picked(T)}], Picked(T), names[Picked(T)],
                                Picked(T) \in own)
           /\ d[T] = ListUpsert(t, s, d[T \ {Picked(T)}], Picked(T), names[Picked(T)],
                                Picked(T) \in again)
  BY DEF ListSteps
<1>2. \A T \in SUBSET S : Written(t, s, list, c[T], names, own, S, T) BY WrittenSteps
<1>3. S \in SUBSET S /\ mid \in Seq(Entries) BY <1>1
<1>4. /\ n \in Nat /\ DOMAIN list = 1..n /\ Len(mid) \in Nat /\ DOMAIN mid = 1..Len(mid)
  BY <1>3
<1>5. /\ n <= Len(mid) /\ (\A i \in 1..n : mid[i].cmds = list[i].cmds)
      /\ \A h \in S : Lists(t, s, h, names[h]) => Present(mid, h)
  BY <1>2, <1>3 DEF Written
<1>9. AsksAgain(t, s, list, names, own, again, S) BY OwnedAskAgain
<1> HIDE DEF mid
<1>6. ASSUME NEW T \in SUBSET S, \A x \in T : T \ {x} \in G PROVE T \in G
  <2>1. CASE T = {}
    <3>1. d[T] = mid BY <1>1, <2>1
    <3>2. Rewritten(t, s, list, mid, c[T], mid, names, own, again, S, {}) BY DEF Rewritten
    <3> QED BY <2>1, <3>1, <3>2
  <2>2. CASE T # {}
    <3> DEFINE x == Picked(T)
               U == T \ {x}
               was == c[U]
               then == c[T]
               old == d[U]
               new == d[T]
    <3>1. /\ x \in T /\ then = ListUpsert(t, s, was, x, names[x], x \in own)
          /\ new = ListUpsert(t, s, old, x, names[x], x \in again)
      BY <1>1, <2>2
    <3> HIDE DEF x
    <3>2. /\ x \in S /\ x \in Hooks /\ U \in SUBSET S /\ names[x] \in Scopings
          /\ (x \in own) \in BOOLEAN /\ (x \in again) \in BOOLEAN
      BY <3>1
    <3>3. /\ was \in Seq(Entries) /\ then \in Seq(Entries)
          /\ old \in Seq(Entries) /\ new \in Seq(Entries)
      BY <1>1, <3>2
    <3>4. Rewritten(t, s, list, mid, was, old, names, own, again, S, U) BY <1>6, <3>1
    <3>5. Written(t, s, list, was, names, own, S, U) BY <1>2, <3>2
    <3> HIDE DEF U, was, then, old, new, G
    <3> DEFINE mine == x \in own
               ours == x \in again
    <3>6. Upserted(t, s, was, x, names[x], mine, then)
      <4>1. then = ListUpsert(t, s, was, x, names[x], mine) /\ mine \in BOOLEAN BY <3>1, <3>2
      <4> HIDE DEF mine
      <4> QED BY <3>2, <3>3, <4>1, ListUpsertFacts
    <3>7. Upserted(t, s, old, x, names[x], ours, new)
      <4>1. new = ListUpsert(t, s, old, x, names[x], ours) /\ ours \in BOOLEAN BY <3>1, <3>2
      <4> HIDE DEF ours
      <4> QED BY <3>2, <3>3, <4>1, ListUpsertFacts
    <3>8. Len(old) = Len(mid) /\ \A i \in 1..Len(mid) : old[i].cmds = mid[i].cmds
      BY <3>4 DEF Rewritten
    <3>9. /\ n <= Len(was) /\ \A i \in 1..n : was[i].cmds = list[i].cmds
      BY <3>5 DEF Written
    <3>10. /\ Len(was) \in Nat /\ Len(new) \in Nat
           /\ DOMAIN old = 1..Len(old) /\ DOMAIN was = 1..Len(was)
      BY <3>3
    <3>17. Len(mid) <= Len(old) BY <1>4, <3>8
    <3>11. Len(new) = Len(mid)
      <4>1. Lists(t, s, x, names[x]) => Present(old, x)
        BY <1>3, <1>5, <3>2, <3>3, <3>8, <3>17, PresentPrefix
      <4>2. \A i \in 1..Len(new) : ~(i > Len(mid)) BY <3>7, <3>8, <4>1 DEF Upserted
      <4>3. Len(mid) <= Len(new) BY <3>7, <3>8 DEF Upserted
      <4> QED BY <1>4, <3>10, <4>2, <4>3
    <3>12. \A i \in 1..Len(mid) : new[i].cmds = mid[i].cmds BY <3>7, <3>8 DEF Upserted
    <3>13. ASSUME NEW i \in 1..Len(mid)
           PROVE  new[i].scope = IF Touches(t, s, mid, i, x, names[x])
                                 THEN Asks(t, s, x, names, again)[old[i].scope]
                                 ELSE old[i].scope
      <4>1. Touches(t, s, old, i, x, names[x]) <=> Touches(t, s, mid, i, x, names[x])
        BY <1>3, <1>4, <3>3, <3>8, TouchesPrefix
      <4> QED BY <3>7, <3>8, <4>1 DEF Upserted, Asks
    <3>14. ASSUME NEW i \in 1..Len(mid),
                  \A h \in S : Touches(t, s, mid, i, h, names[h]) =>
                    Asks(t, s, h, names, again)[mid[i].scope] = mid[i].scope
           PROVE  new[i].scope = mid[i].scope
      <4>1. old[i].scope = mid[i].scope BY <3>4, <3>14 DEF Rewritten
      <4>2. Touches(t, s, mid, i, x, names[x]) =>
              Asks(t, s, x, names, again)[mid[i].scope] = mid[i].scope
        BY <3>2, <3>14
      <4> QED BY <3>13, <4>1, <4>2
    <3>15. ASSUME NEW i \in 1..n,
                  NEW h \in T, Touches(t, s, list, i, h, names[h]),
                  Asks(t, s, h, names, own) \in Setting
           PROVE  new[i].scope = then[i].scope
      <4> DEFINE p == Asks(t, s, x, names, own)
      <4>1. i \in 1..Len(mid) /\ i \in 1..Len(was) BY <1>4, <1>5, <3>9, <3>10
      <4>2. Touches(t, s, mid, i, x, names[x]) <=> Touches(t, s, list, i, x, names[x])
        BY <1>3, <1>5, TouchesPrefix
      <4>3. Touches(t, s, was, i, x, names[x]) <=> Touches(t, s, list, i, x, names[x])
        BY <3>3, <3>9, TouchesPrefix
      <4>4. Touches(t, s, list, i, x, names[x]) => Asks(t, s, x, names, again) = p
        BY <1>9, <3>2 DEF AsksAgain
      <4>5. then[i].scope = IF Touches(t, s, list, i, x, names[x])
                            THEN p[was[i].scope] ELSE was[i].scope
        BY <3>6, <4>1, <4>3 DEF Upserted, Asks
      <4>6. new[i].scope = IF Touches(t, s, list, i, x, names[x])
                           THEN p[old[i].scope] ELSE old[i].scope
        BY <3>13, <4>1, <4>2, <4>4
      <4>7. CASE h \in U
        <5>1. old[i].scope = was[i].scope BY <3>4, <3>15, <4>7 DEF Rewritten
        <5> HIDE DEF p
        <5> QED BY <4>5, <4>6, <5>1
      <4>8. CASE h = x
        <5>1. p \in Setting BY <3>15, <4>8
        <5>2. was[i].scope \in Scopings /\ old[i].scope \in Scopings
          <6>1. i \in DOMAIN was /\ i \in DOMAIN old BY <3>8, <3>10, <4>1
          <6>2. was[i] \in Entries /\ old[i] \in Entries BY <3>3, <6>1, EntryTyped
          <6> QED BY <6>2 DEF Entries
        <5> HIDE DEF p
        <5>3. p[was[i].scope] = p[old[i].scope] BY <5>1, <5>2 DEF Setting
        <5> QED BY <3>15, <4>5, <4>6, <4>8, <5>3
      <4> QED BY <3>15, <4>7, <4>8 DEF U
    <3>16. Rewritten(t, s, list, mid, then, new, names, own, again, S, T)
      BY <3>11, <3>12, <3>14, <3>15 DEF Rewritten, n
    <3> QED BY <3>16 DEF G, then, new
  <2> QED BY <2>1, <2>2
<1>7. IsFiniteSet(S) BY HookSyncAssumption, FS_Subset
<1>8. \A T \in SUBSET S : T \in G
  <2> HIDE DEF G
  <2> QED BY <1>6, <1>7, SubsetInduction
<1> QED BY <1>8 DEF mid

(* So it leaves the list alone.                                             *)
LEMMA ListSettles ==
  ASSUME NEW t \in FiveTools, NEW s, NEW list \in Seq(Entries), NEW names \in [Hooks -> Scopings],
         NEW own, NEW again, NEW S \in SUBSET Hooks, OwnsNext(s, list, own, again, S),
         NEW c \in ListSteps(t, s, list, names, own, S),
         NEW d \in ListSteps(t, s, c[S], names, again, S)
  PROVE  d[S] = c[S]
<1> DEFINE mid == c[S]
           new == d[S]
           n == Len(list)
<1>1. S \in SUBSET S /\ mid \in Seq(Entries) /\ new \in Seq(Entries) BY DEF ListSteps
<1>2. Written(t, s, list, mid, names, own, S, S) BY <1>1, WrittenSteps
<1>3. Rewritten(t, s, list, mid, mid, new, names, own, again, S, S) BY <1>1, RewrittenSteps
<1>9. AsksAgain(t, s, list, names, own, again, S) BY OwnedAskAgain
<1> HIDE DEF mid, new
<1>4. /\ n \in Nat /\ DOMAIN list = 1..n /\ Len(mid) \in Nat /\ DOMAIN mid = 1..Len(mid)
      /\ DOMAIN new = 1..Len(new)
  BY <1>1
<1>5. n <= Len(mid) /\ \A i \in 1..n : mid[i].cmds = list[i].cmds BY <1>2 DEF Written
<1>6. Len(new) = Len(mid) /\ \A i \in 1..Len(mid) : new[i].cmds = mid[i].cmds
  BY <1>3 DEF Rewritten
<1>7. ASSUME NEW i \in 1..Len(mid) PROVE new[i].scope = mid[i].scope
  <2>1. CASE i \in 1..n
    <3>1. ASSUME NEW h \in S
          PROVE  Touches(t, s, mid, i, h, names[h]) <=> Touches(t, s, list, i, h, names[h])
      BY <1>1, <1>5, <2>1, TouchesPrefix
    <3>2. CASE NothingSet(t, s, list, i, names, own, S)
      <4>1. ASSUME NEW h \in S, Touches(t, s, mid, i, h, names[h])
            PROVE  Asks(t, s, h, names, again)[mid[i].scope] = mid[i].scope
        <5>1. Touches(t, s, list, i, h, names[h]) BY <3>1, <4>1
        <5>2. Asks(t, s, h, names, own)[mid[i].scope] = mid[i].scope
          BY <1>2, <2>1, <3>2, <5>1 DEF Written
        <5>3. Asks(t, s, h, names, own) = Asks(t, s, h, names, again)
          BY <1>9, <5>1 DEF AsksAgain
        <5> QED BY <5>2, <5>3
      <4> QED BY <1>3, <4>1 DEF Rewritten
    <3>3. CASE ~NothingSet(t, s, list, i, names, own, S)
      <4>1. PICK h \in S : /\ Touches(t, s, list, i, h, names[h])
                           /\ Asks(t, s, h, names, own) \notin Soft(t)
        BY <3>3 DEF NothingSet
      <4>2. Asks(t, s, h, names, own) \in Setting
        <5> DEFINE mine == h \in own
        <5>1. names[h] \in Scopings /\ mine \in BOOLEAN OBVIOUS
        <5> HIDE DEF mine
        <5>2. Gift(t, s, h, names[h], mine) \in Setting \cup Soft(t) BY <5>1, Gifts
        <5> QED BY <4>1, <5>2 DEF mine, Asks
      <4> QED BY <1>3, <2>1, <4>1, <4>2 DEF Rewritten
    <3> QED BY <3>2, <3>3
  <2>2. CASE i \notin 1..n
    <3>1. i > n BY <1>4, <2>2
    <3>2. PICK h \in S : /\ Lists(t, s, h, names[h]) /\ ~Present(list, h)
                         /\ mid[i].cmds = {h}
                         /\ mid[i].scope = Gives(t, s, h, FALSE, {}, names[h], h \in own)
      BY <1>2, <3>1 DEF Written
    <3>3. ASSUME NEW g \in S, Touches(t, s, mid, i, g, names[g])
          PROVE  Asks(t, s, g, names, again)[mid[i].scope] = mid[i].scope
      <4>1. g = h BY <3>2, <3>3 DEF Touches
      <4> DEFINE mine == h \in own
                 ours == h \in again
                 new1 == Gives(t, s, h, FALSE, {}, names[h], mine)
      <4>2. /\ names[h] \in Scopings /\ mine \in BOOLEAN /\ ours \in BOOLEAN
            /\ s # Event(h) \/ ours = TRUE
        BY <3>2 DEF OwnsNext
      <4> HIDE DEF mine, ours
      <4>5. Gift(t, s, h, names[h], ours)[new1] = new1 BY <4>2, NewGivesAgain
      <4> QED BY <3>2, <4>1, <4>5 DEF mine, ours, Asks
    <3> QED BY <1>3, <3>3 DEF Rewritten
  <2> QED BY <2>1, <2>2
<1>8. ASSUME NEW i \in 1..Len(mid) PROVE new[i] = mid[i]
  <2>1. new[i] \in Entries /\ mid[i] \in Entries BY <1>1, <1>4, <1>6, EntryTyped
  <2> QED BY <1>6, <1>7, <2>1 DEF Entries
<1>10. new = mid
  <2>1. DOMAIN new = DOMAIN mid /\ \A i \in DOMAIN new : new[i] = mid[i] BY <1>4, <1>6, <1>8
  <2>2. new = [i \in DOMAIN new |-> new[i]] /\ mid = [i \in DOMAIN mid |-> mid[i]] BY <1>1
  <2> QED BY <2>1, <2>2
<1> QED BY <1>10 DEF mid, new

-----------------------------------------------------------------------------
(* The same sync again: one file.                                           *)

(* The lists a writer goes through are those of its files.                  *)
LEMMA UpsertsInLists ==
  ASSUME NEW t \in FiveTools, NEW f \in Files, NEW names \in Canonical, NEW own,
         NEW S \in SUBSET Hooks, NEW c \in UpsertSteps(t, f, names, own, S), NEW s \in Slots
  PROVE  [T \in SUBSET S |-> c[T][s]] \in ListSteps(t, s, f[s], names, own, S)
<1> DEFINE b == [T \in SUBSET S |-> c[T][s]]
<1>1. /\ c \in [SUBSET S -> Files] /\ c[{}] = f
      /\ \A T \in SUBSET S : T # {} =>
           /\ Picked(T) \in T
           /\ c[T] = Upsert(t, c[T \ {Picked(T)}], Picked(T), names[Picked(T)], Picked(T) \in own)
  BY DEF UpsertSteps
<1>2. \A T \in SUBSET S : c[T][s] \in Seq(Entries)
  <2>1. ASSUME NEW T \in SUBSET S PROVE c[T][s] \in Seq(Entries)
    <3> DEFINE g == c[T]
    <3>1. g \in Files BY <1>1
    <3> HIDE DEF g
    <3>2. g[s] \in Seq(Entries) BY <3>1, FileLists
    <3> QED BY <3>2 DEF g
  <2> QED BY <2>1
<1>3. b \in [SUBSET S -> Seq(Entries)] BY <1>2
<1>4. b[{}] = f[s] BY <1>1
<1>5. ASSUME NEW T \in SUBSET S, T # {}
      PROVE  /\ Picked(T) \in T
             /\ b[T] = ListUpsert(t, s, b[T \ {Picked(T)}], Picked(T), names[Picked(T)],
                                  Picked(T) \in own)
  <2> DEFINE x == Picked(T)
             g == c[T \ {x}]
             owned == x \in own
  <2>1. x \in T /\ c[T] = Upsert(t, g, x, names[x], owned) BY <1>1, <1>5
  <2>2. b[T] = c[T][s] /\ b[T \ {x}] = g[s] OBVIOUS
  <2> HIDE DEF x
  <2>3. T \ {x} \in SUBSET S /\ x \in Hooks BY <2>1
  <2>4. g \in Files BY <1>1, <2>3
  <2>5. owned \in BOOLEAN /\ names[x] \in Scopings /\ (x \in Guards \/ names[x] = {})
    BY <2>3 DEF Canonical
  <2> HIDE DEF g, owned, b
  <2>6. Upsert(t, g, x, names[x], owned)[s] = ListUpsert(t, s, g[s], x, names[x], owned)
    BY <2>3, <2>4, <2>5, UpsertLists
  <2> QED BY <2>1, <2>2, <2>6 DEF x, owned
<1> HIDE DEF b
<1>6. b \in ListSteps(t, s, f[s], names, own, S) BY <1>3, <1>4, <1>5 DEF ListSteps
<1> QED BY <1>6 DEF b

(* Every hook is in every list a writer has for it.                         *)
AllListed(t, g, names, S) ==
  \A s \in Slots, h \in S : Lists(t, s, h, names[h]) => Present(g[s], h)

(* What a writer leaves alone.                                              *)
AtRest(t, names, own, S) ==
  {g \in Files : AllListed(t, g, names, S) /\ Upserts(t, g, names, own, S) = g}

(* What a writer wrote is left alone by the next one.                       *)
LEMMA UpsertsSettle ==
  ASSUME NEW t \in FiveTools, NEW f \in Files, NEW names \in Canonical, NEW own, NEW again,
         NEW S \in SUBSET Hooks,
         \A h \in S : IF Present(f[Event(h)], h) THEN h \in own <=> h \in again ELSE h \in again
  PROVE  Upserts(t, f, names, own, S) \in AtRest(t, names, again, S)
<1>1. PICK c \in UpsertSteps(t, f, names, own, S) : TRUE BY UpsertsAre
<1> DEFINE mid == c[S]
<1>2. S \in SUBSET S /\ mid \in Files /\ mid = Upserts(t, f, names, own, S) BY DEF UpsertSteps
<1> HIDE DEF mid
<1>3. PICK d \in UpsertSteps(t, mid, names, again, S) : TRUE BY <1>2, UpsertsAre
<1> DEFINE new == d[S]
<1>4. new \in Files /\ new = Upserts(t, mid, names, again, S) BY <1>2 DEF UpsertSteps
<1> HIDE DEF new
<1>5. names \in [Hooks -> Scopings] BY DEF Canonical
<1>6. ASSUME NEW s \in Slots
      PROVE  new[s] = mid[s] /\ \A h \in S : Lists(t, s, h, names[h]) => Present(mid[s], h)
  <2> DEFINE a == [T \in SUBSET S |-> c[T][s]]
             b == [T \in SUBSET S |-> d[T][s]]
             list == f[s]
  <2>1. a \in ListSteps(t, s, list, names, own, S) BY <1>1, UpsertsInLists
  <2>2. b \in ListSteps(t, s, mid[s], names, again, S) BY <1>2, <1>3, UpsertsInLists
  <2>3. a[S] = mid[s] /\ b[S] = new[s] BY <1>2 DEF mid, new
  <2>4. list \in Seq(Entries) BY FileLists
  <2>5. OwnsNext(s, list, own, again, S) BY DEF OwnsNext
  <2> HIDE DEF a, b, list
  <2>6. b \in ListSteps(t, s, a[S], names, again, S) BY <2>2, <2>3
  <2>7. b[S] = a[S] BY <1>5, <2>1, <2>4, <2>5, <2>6, ListSettles
  <2>8. Written(t, s, list, a[S], names, own, S, S) BY <1>2, <1>5, <2>1, <2>4, WrittenSteps
  <2> QED BY <2>3, <2>7, <2>8 DEF Written
<1>7. AllListed(t, mid, names, S) BY <1>6 DEF AllListed
<1>8. new = mid
  <2>1. new \in [Slots -> Seq(Entries)] /\ mid \in [Slots -> Seq(Entries)] BY <1>2, <1>4, FileLists
  <2> QED BY <1>6, <2>1
<1> QED BY <1>2, <1>4, <1>7, <1>8 DEF AtRest

(* The lists a hook is revoked from.                                        *)
LEMMA RemovedLists ==
  ASSUME NEW t, NEW f \in Files, NEW h \in Hooks, NEW s \in Slots
  PROVE  Removed(t, f, h)[s] = IF s = Event(h) \/ (s = "shell" /\ h \in Guards)
                               THEN Without(f[s], h) ELSE f[s]
<1>1. Event(h) \in Slots /\ Event(h) # "shell" /\ "shell" \in Slots BY Events DEF Slots
<1>2. f \in [Slots -> Seq(Entries)] BY FileLists
<1> DEFINE out == Without(f[Event(h)], h)
           shell == IF h \in Guards THEN Without(f["shell"], h) ELSE f["shell"]
           event == Event(h)
<1>3. Removed(t, f, h) = [f EXCEPT ![event] = out, !["shell"] = shell] BY <1>1 DEF Removed
<1>4. event \in Slots /\ event # "shell" BY <1>1
<1>5. event = Event(h) /\ out = Without(f[event], h) OBVIOUS
<1> HIDE DEF event, out
<1>6. [f EXCEPT ![event] = out, !["shell"] = shell][s]
        = IF s = event THEN out ELSE IF s = "shell" THEN shell ELSE f[s]
  BY <1>1, <1>2, <1>4
<1> QED BY <1>3, <1>5, <1>6

(* A hook that is there may be written before or after another is revoked.  *)
LEMMA ListUpsertWithout ==
  ASSUME NEW t \in FiveTools, NEW s, NEW list \in Seq(Entries), NEW h \in Hooks, NEW x, h # x,
         NEW canonical \in Scopings, NEW owned \in BOOLEAN,
         Lists(t, s, h, canonical) => Present(list, h)
  PROVE  ListUpsert(t, s, Without(list, x), h, canonical, owned)
           = Without(ListUpsert(t, s, list, h, canonical, owned), x)
<1>1. CASE ~Lists(t, s, h, canonical) BY <1>1 DEF ListUpsert
<1>2. CASE Lists(t, s, h, canonical)
  <2> DEFINE out == Without(list, x)
             old == list[FirstOf(list, h)].scope
             scope == Gives(t, s, h, TRUE, old, canonical, owned)
  <2>1. Present(list, h) BY <1>2
  <2>2. OldScope(list, h) = old /\ old \in Scopings
    <3>1. OldScope(list, h) = old BY <2>1 DEF OldScope
    <3> QED BY <3>1, OldTyped
  <2> HIDE DEF old
  <2>3. TRUE \in BOOLEAN OBVIOUS
  <2>4. scope \in Scopings BY <2>2, <2>3, GivesTyped
  <2>5. ListUpsert(t, s, list, h, canonical, owned) = Rescoped(list, FirstOf(list, h), scope)
    <3>1. Present(list, h) = TRUE BY <2>1 DEF Present
    <3> QED BY <1>2, <2>1, <2>2, <3>1 DEF ListUpsert, Placed
  <2> HIDE DEF scope
  <2>6. /\ Present(out, h) /\ out[FirstOf(out, h)].scope = old
        /\ Without(Rescoped(list, FirstOf(list, h), scope), x)
             = Rescoped(out, FirstOf(out, h), scope)
    BY <2>1, <2>4, WithoutRescoped DEF old
  <2> HIDE DEF out
  <2>7. ListUpsert(t, s, out, h, canonical, owned) = Rescoped(out, FirstOf(out, h), scope)
    <3>1. Present(out, h) = TRUE BY <2>6 DEF Present
    <3>2. OldScope(out, h) = old BY <2>6 DEF OldScope
    <3> QED BY <1>2, <2>6, <3>1, <3>2 DEF ListUpsert, Placed, scope
  <2> QED BY <2>5, <2>6, <2>7 DEF out
<1> QED BY <1>1, <1>2

(* The same of one file.                                                    *)
LEMMA UpsertRemoved ==
  ASSUME NEW t \in FiveTools, NEW g \in Files, NEW h \in Hooks, NEW x \in Hooks, h # x,
         NEW canonical \in Scopings, NEW owned \in BOOLEAN, h \in Guards \/ canonical = {},
         \A s \in Slots : Lists(t, s, h, canonical) => Present(g[s], h)
  PROVE  Upsert(t, Removed(t, g, x), h, canonical, owned)
           = Removed(t, Upsert(t, g, h, canonical, owned), x)
<1> DEFINE out == Removed(t, g, x)
           new == Upsert(t, g, h, canonical, owned)
           a == Upsert(t, out, h, canonical, owned)
           b == Removed(t, new, x)
<1>1. out \in Files /\ new \in Files BY RemovedFile, UpsertFile
<1>2. a \in Files /\ b \in Files
  <2> HIDE DEF out, new
  <2> QED BY <1>1, RemovedFile, UpsertFile
<1>3. ASSUME NEW s \in Slots PROVE a[s] = b[s]
  <2> DEFINE list == g[s]
             hit == s = Event(x) \/ (s = "shell" /\ x \in Guards)
  <2>1. list \in Seq(Entries) BY FileLists
  <2>2. out[s] = IF hit THEN Without(list, x) ELSE list BY RemovedLists
  <2>3. new[s] = ListUpsert(t, s, list, h, canonical, owned) BY UpsertLists
  <2>4. a[s] = ListUpsert(t, s, out[s], h, canonical, owned)
    <3> HIDE DEF out
    <3> QED BY <1>1, UpsertLists
  <2>5. b[s] = IF hit THEN Without(new[s], x) ELSE new[s]
    <3> HIDE DEF new
    <3> QED BY <1>1, RemovedLists
  <2>6. Lists(t, s, h, canonical) => Present(list, h) OBVIOUS
  <2> HIDE DEF list, hit, a, b, out, new
  <2>7. ListUpsert(t, s, Without(list, x), h, canonical, owned)
          = Without(ListUpsert(t, s, list, h, canonical, owned), x)
    BY <2>1, <2>6, ListUpsertWithout
  <2> QED BY <2>2, <2>3, <2>4, <2>5, <2>7
<1> HIDE DEF a, b
<1>4. a \in [Slots -> Seq(Entries)] /\ b \in [Slots -> Seq(Entries)] BY <1>2, FileLists
<1>5. a = b BY <1>3, <1>4
<1> QED BY <1>5 DEF a, b

(* A hook stays in its lists when another is written or revoked.            *)
LEMMA AllListedStays ==
  ASSUME NEW t \in FiveTools, NEW g \in Files, NEW names \in Canonical, NEW S \in SUBSET Hooks,
         AllListed(t, g, names, S), NEW x \in Hooks
  PROVE  /\ x \notin S => AllListed(t, Removed(t, g, x), names, S)
         /\ \A owned \in BOOLEAN : AllListed(t, Upsert(t, g, x, names[x], owned), names, S)
<1>1. ASSUME x \notin S PROVE AllListed(t, Removed(t, g, x), names, S)
  <2> DEFINE new == Removed(t, g, x)
  <2>1. ASSUME NEW s \in Slots, NEW h \in S, Lists(t, s, h, names[h]) PROVE Present(new[s], h)
    <3> DEFINE list == g[s]
    <3>1. list \in Seq(Entries) /\ Present(list, h) /\ x # h
      BY <1>1, <2>1, FileLists DEF AllListed
    <3>2. new[s] \in {list, Without(list, x)} BY RemovedLists
    <3> HIDE DEF new, list
    <3> QED BY <3>1, <3>2, WithoutPresent
  <2> HIDE DEF new
  <2>2. AllListed(t, new, names, S) BY <2>1 DEF AllListed
  <2> QED BY <2>2 DEF new
<1>2. ASSUME NEW owned \in BOOLEAN
      PROVE  AllListed(t, Upsert(t, g, x, names[x], owned), names, S)
  <2> DEFINE new == Upsert(t, g, x, names[x], owned)
             asked == names[x]
  <2>0. asked \in Scopings /\ (x \in Guards \/ asked = {}) BY DEF Canonical
  <2>1. ASSUME NEW s \in Slots, NEW h \in S, Lists(t, s, h, names[h]) PROVE Present(new[s], h)
    <3> DEFINE list == g[s]
    <3>1. list \in Seq(Entries) /\ Present(list, h) BY <2>1, FileLists DEF AllListed
    <3>2. new[s] = ListUpsert(t, s, list, x, asked, owned)
      <4> HIDE DEF asked
      <4>1. Upsert(t, g, x, asked, owned)[s] = ListUpsert(t, s, g[s], x, asked, owned)
        BY <2>0, UpsertLists
      <4> QED BY <4>1 DEF asked
    <3> HIDE DEF new, list, asked
    <3>3. Upserted(t, s, list, x, asked, owned, new[s]) BY <2>0, <3>1, <3>2, ListUpsertFacts
    <3> QED BY <3>1, <3>3, PresentPrefix DEF Upserted
  <2> HIDE DEF new
  <2>2. AllListed(t, new, names, S) BY <2>1 DEF AllListed
  <2> QED BY <2>2 DEF new
<1> QED BY <1>1, <1>2

(* All that a writer writes may be written before or after a hook that is   *)
(* not among it is revoked.                                                 *)
LEMMA UpsertsRemoved ==
  ASSUME NEW t \in FiveTools, NEW g \in Files, NEW names \in Canonical, NEW own,
         NEW S \in SUBSET Hooks, AllListed(t, g, names, S), NEW x \in Hooks, x \notin S
  PROVE  Upserts(t, Removed(t, g, x), names, own, S)
           = Removed(t, Upserts(t, g, names, own, S), x)
<1> DEFINE out == Removed(t, g, x)
<1>1. out \in Files BY RemovedFile
<1>2. PICK c \in UpsertSteps(t, g, names, own, S) : TRUE BY UpsertsAre
<1>3. PICK d \in UpsertSteps(t, out, names, own, S) : TRUE
  <2> HIDE DEF out
  <2> QED BY <1>1, UpsertsAre
<1>4. /\ c \in [SUBSET S -> Files] /\ c[{}] = g /\ c[S] = Upserts(t, g, names, own, S)
      /\ d[{}] = out /\ d[S] = Upserts(t, out, names, own, S)
      /\ \A T \in SUBSET S : T # {} =>
           /\ Picked(T) \in T
           /\ c[T] = Upsert(t, c[T \ {Picked(T)}], Picked(T), names[Picked(T)], Picked(T) \in own)
           /\ d[T] = Upsert(t, d[T \ {Picked(T)}], Picked(T), names[Picked(T)], Picked(T) \in own)
  BY DEF UpsertSteps
<1> HIDE DEF out
<1> DEFINE G == {T \in SUBSET S : d[T] = Removed(t, c[T], x) /\ AllListed(t, c[T], names, S)}
<1>5. ASSUME NEW T \in SUBSET S, \A y \in T : T \ {y} \in G PROVE T \in G
  <2>1. CASE T = {} BY <1>4, <2>1 DEF out
  <2>2. CASE T # {}
    <3> DEFINE h == Picked(T)
               old == c[T \ {h}]
               asked == names[h]
               owned == h \in own
    <3>1. /\ h \in T /\ c[T] = Upsert(t, old, h, asked, owned)
          /\ d[T] = Upsert(t, d[T \ {h}], h, asked, owned)
      BY <1>4, <2>2
    <3> HIDE DEF h
    <3>2. h \in S /\ h \in Hooks /\ h # x /\ T \ {h} \in SUBSET S BY <3>1
    <3>3. old \in Files BY <1>4, <3>2
    <3>4. d[T \ {h}] = Removed(t, old, x) /\ AllListed(t, old, names, S) BY <1>5, <3>1
    <3>5. /\ asked \in Scopings /\ owned \in BOOLEAN /\ (h \in Guards \/ asked = {})
          /\ \A s \in Slots : Lists(t, s, h, asked) => Present(old[s], h)
      <4>1. asked \in Scopings /\ (h \in Guards \/ asked = {}) BY <3>2 DEF Canonical
      <4>2. owned \in BOOLEAN OBVIOUS
      <4> HIDE DEF old, owned
      <4>3. \A s \in Slots : Lists(t, s, h, asked) => Present(old[s], h)
        BY <3>2, <3>4 DEF AllListed
      <4> QED BY <4>1, <4>2, <4>3
    <3> HIDE DEF old, owned
    <3>6. AllListed(t, Upsert(t, old, h, asked, owned), names, S)
      BY <3>2, <3>3, <3>4, <3>5, AllListedStays
    <3> HIDE DEF asked
    <3>7. Upsert(t, Removed(t, old, x), h, asked, owned)
            = Removed(t, Upsert(t, old, h, asked, owned), x)
      BY <3>2, <3>3, <3>5, UpsertRemoved
    <3> QED BY <3>1, <3>4, <3>6, <3>7
  <2> QED BY <2>1, <2>2
<1>6. IsFiniteSet(S) BY HookSyncAssumption, FS_Subset
<1>7. S \in G
  <2> HIDE DEF G
  <2>1. \A T \in SUBSET S : T \in G BY <1>5, <1>6, SubsetInduction
  <2> QED BY <2>1
<1> QED BY <1>4, <1>7 DEF out

(* So a file that is left alone is without the hooks revoked, too.          *)
LEMMA RestStays ==
  ASSUME NEW t \in FiveTools, NEW names \in Canonical, NEW own, NEW S \in SUBSET Hooks,
         NEW g \in AtRest(t, names, own, S), NEW X \in SUBSET Hooks, X \cap S = {}
  PROVE  Removals(t, g, X) \in AtRest(t, names, own, S)
<1> DEFINE G == AtRest(t, names, own, S)
<1>1. g \in Files /\ g \in G BY DEF AtRest
<1>2. ASSUME NEW f \in Files, NEW x \in X, f \in G PROVE Removed(t, f, x) \in G
  <2>1. AllListed(t, f, names, S) /\ Upserts(t, f, names, own, S) = f BY <1>2 DEF AtRest
  <2>2. x \in Hooks /\ x \notin S OBVIOUS
  <2>3. Removed(t, f, x) \in Files BY <2>2, RemovedFile
  <2>4. AllListed(t, Removed(t, f, x), names, S) BY <2>1, <2>2, AllListedStays
  <2>5. Upserts(t, Removed(t, f, x), names, own, S) = Removed(t, f, x)
    BY <2>1, <2>2, UpsertsRemoved
  <2> QED BY <2>3, <2>4, <2>5 DEF AtRest
<1>3. \A f \in Files : \A x \in X : f \in G => Removed(t, f, x) \in G BY <1>2
<1> HIDE DEF G
<1>4. Removals(t, g, X) \in G BY <1>1, <1>3, RemovalsKeep
<1> QED BY <1>4 DEF G

(* What the writer of a tool makes of a file it leaves alone the next time, *)
(* when it has come to own what it created.                                 *)
LEMMA MergedSettles ==
  ASSUME NEW t \in FiveTools, NEW f \in Files, NEW data \in Data, NEW own \in SUBSET Hooks
  PROVE  LET new == Merged(t, f, data, own)
             again == (own \cap data.hooks) \cup Created(t, f, data) IN
         new \in Files /\ Merged(t, new, data, again) = new
<1> DEFINE names == data.tools
           S == {h \in data.hooks : Supports(t, h)}
           X == own \ data.hooks
           again == (own \cap data.hooks) \cup Created(t, f, data)
           mid == Upserts(t, f, names, own, S)
           new == Removals(t, mid, X)
<1>1. /\ names \in Canonical /\ S \in SUBSET Hooks /\ X \in SUBSET Hooks /\ X \cap S = {}
      /\ again \ data.hooks = {}
  BY DEF Data, Created
<1>2. \A h \in S : IF Present(f[Event(h)], h) THEN h \in own <=> h \in again ELSE h \in again
  BY DEF Created
<1>3. Merged(t, f, data, own) = new BY MergedIs
<1> HIDE DEF names, S, X, again
<1>4. mid \in AtRest(t, names, again, S) BY <1>1, <1>2, UpsertsSettle
<1> HIDE DEF mid
<1>5. new \in AtRest(t, names, again, S) BY <1>1, <1>4, RestStays
<1> HIDE DEF new
<1>6. new \in Files /\ Upserts(t, new, names, again, S) = new BY <1>5 DEF AtRest
<1>7. Removals(t, new, {}) = new
  <2>1. PICK c \in RemovalSteps(t, new, {}) : TRUE BY <1>6, RemovalsAre
  <2>2. c[{}] = new /\ c[{}] = Removals(t, new, {}) BY DEF RemovalSteps
  <2> QED BY <2>2
<1>8. Merged(t, new, data, again) = Removals(t, Upserts(t, new, names, again, S),
                                             again \ data.hooks)
  BY MergedIs DEF names, S
<1>9. Merged(t, new, data, again) = new BY <1>1, <1>6, <1>7, <1>8
<1> QED BY <1>3, <1>6, <1>9 DEF again

-----------------------------------------------------------------------------
(* The behaviours.                                                          *)

(* What the variables hold.                                                 *)
Ledgers == [AllTools -> SUBSET Hooks]
SyncModes == [from : SUBSET AllTools, to : SUBSET AllTools, port : BOOLEAN]
SyncRuns ==
  [at : {"idle", "write", "save", "flag"}, mode : SyncModes, data : Data, own : Ledgers,
   todo : SUBSET AllTools, pend : Ledgers, good : SUBSET AllTools,
   smooth : BOOLEAN, moved : BOOLEAN]
Settings == {"none", "on", "off"}

Typed ==
  /\ tools \in Groups /\ broken \subseteq tools
  /\ file \in [AllTools -> Files] /\ legacy \in Seq(Entries)
  /\ flag \in [ok : BOOLEAN, hooks : Settings, old : Settings]
  /\ led \in Ledgers /\ run \in SyncRuns
  /\ still \in [mode : SyncModes, data : Data, n : 0..2]
  /\ runs \in 0..MaxRuns /\ edits \in 0..MaxEdits

(* A sync writes to installed tools, and has none left when it is done.     *)
Targets ==
  /\ run.todo \subseteq run.mode.to /\ run.mode.to \subseteq tools
  /\ run.at \in {"save", "flag"} => run.todo = {}

(* What GuardEverywhere says of one file, and of codex' flag.               *)
Guarded(t, f, data, own) ==
  \A h \in data.hooks : Supports(t, h) =>
     LET list == f[Event(h)]
         names == TranslateTools(t, data.tools[h]) IN
     /\ Present(list, h)
     /\ \/ Reach(names) \subseteq Reaches(t, Event(h), list, h)
        \/ \E i \in Holding(list, h) : Regex \in list[i].scope
        \/ Shares(t, list, h, own)
     /\ t = "cursor" /\ h \in Guards /\ "Shell" \in names => Present(f["shell"], h)
Flagged(t, data, fl) ==
  t = "codex" /\ fl.ok /\ (\E h \in data.hooks : Supports(t, h)) =>
    fl.hooks = "on" /\ fl.old = "none"

(* While a sync goes well, what it has written is already guarded, and what *)
(* is owned there is what it will record, or has recorded.                  *)
Halfway ==
  run.at # "idle" /\ run.smooth =>
    \A t \in run.mode.to \ run.todo :
      /\ t \in run.good /\ Guarded(t, file[t], run.data, run.pend[t])
      /\ Flagged(t, run.data, flag)
      /\ run.at = "flag" => led[t] = run.pend[t]

(* And when it is over, until anything else happens.                        *)
After ==
  run.at = "idle" /\ still.mode # NoMode =>
    \A t \in still.mode.to :
      t \in tools /\ Guarded(t, file[t], still.data, led[t]) /\ Flagged(t, still.data, flag)


-----------------------------------------------------------------------------
(* Types.                                                                   *)

(* What nothing is.                                                         *)
LEMMA Defaults ==
  /\ NoData \in Data /\ Nobody \in Ledgers /\ NoMode \in SyncModes /\ Idle \in SyncRuns
  /\ Moved \in [mode : SyncModes, data : Data, n : 0..2] /\ Nothing \in Files
<1>1. NoData \in Data BY DEF NoData, Data, Canonical, Scopings
<1>2. Nobody \in Ledgers BY DEF Nobody, Ledgers
<1>3. NoMode \in SyncModes BY DEF NoMode, SyncModes
<1>4. Idle \in SyncRuns BY <1>1, <1>2, <1>3 DEF Idle, SyncRuns
<1>5. Moved \in [mode : SyncModes, data : Data, n : 0..2] BY <1>1, <1>3 DEF Moved
<1>6. Nothing \in Files BY DEF Nothing, Files, Wide
<1> QED BY <1>1, <1>2, <1>3, <1>4, <1>5, <1>6

(* The tools that may be installed.                                         *)
LEMMA Known == /\ AllTools \subseteq FiveTools
               /\ \A T \in Groups : T \subseteq AllTools
BY HookSyncAssumption DEF AllTools, FiveTools

(* A file with another list in one place.                                   *)
LEMMA FilePut ==
  ASSUME NEW f \in Files, NEW s \in Slots, NEW list \in Seq(Entries), s # "pre" => Wide(list)
  PROVE  [f EXCEPT ![s] = list] \in Files
<1>1. /\ f \in [Slots -> Seq(Entries)]
      /\ \A r \in Slots : f[r] \in Seq(Entries) /\ (r # "pre" => Wide(f[r]))
  BY FileLists
<1> DEFINE new == [f EXCEPT ![s] = list]
<1>2. /\ new \in [Slots -> Seq(Entries)] /\ new[s] = list
      /\ \A r \in Slots : r # s => new[r] = f[r]
  BY <1>1
<1> HIDE DEF new
<1>3. new \in Files BY <1>1, <1>2, FileTyped
<1> QED BY <1>3 DEF new

(* A list with one entry more.                                              *)
LEMMA Longer ==
  ASSUME NEW list \in Seq(Entries), NEW e \in Entries
  PROVE  /\ Append(list, e) \in Seq(Entries)
         /\ Wide(list) /\ e.scope \in {{}, All} => Wide(Append(list, e))
<1> DEFINE new == Append(list, e)
<1>1. /\ new \in Seq(Entries)
      /\ \A i \in DOMAIN new : new[i] = e \/ (i \in DOMAIN list /\ new[i] = list[i])
  OBVIOUS
<1> HIDE DEF new
<1>2. Wide(list) /\ e.scope \in {{}, All} => Wide(new) BY <1>1 DEF Wide
<1> QED BY <1>1, <1>2 DEF new

(* What a hand writes.                                                      *)
LEMMA HandTyped ==
  ASSUME NEW t, NEW hs \in SUBSET Hooks, NEW e \in HandEntries(t, hs)
  PROVE  /\ e \in Entries
         /\ \E h \in hs : e.cmds = {h} /\ (h \in Guards \/ e.scope = {})
<1>1. CASE \E h \in hs \cap Guards : \E s \in IF t = "copilot" THEN {{}} ELSE Scopes :
             e = Entry(h, TranslateTools(t, s))
  <2>1. PICK h \in hs \cap Guards, s \in IF t = "copilot" THEN {{}} ELSE Scopes :
          e = Entry(h, TranslateTools(t, s))
    BY <1>1
  <2>2. s \in Scopings BY HookSyncAssumption DEF Scopings
  <2>3. TranslateTools(t, s) \in Scopings BY <2>2, TranslateTyped
  <2>4. h \in Hooks /\ h \in Guards /\ h \in hs OBVIOUS
  <2> QED BY <2>1, <2>3, <2>4 DEF Entry, Entries
<1>2. CASE \E h \in hs \ Guards : e = Entry(h, {})
  <2>1. PICK h \in hs \ Guards : e = Entry(h, {}) BY <1>2
  <2> QED BY <2>1 DEF Entry, Entries, Scopings
<1> QED BY <1>1, <1>2 DEF HandEntries

(* And what it may have left before crossby ran.                            *)
LEMMA ByHandTyped ==
  ASSUME NEW t, NEW f \in ByHand(t)
  PROVE  f \in Files
<1>1. CASE f = Nothing BY <1>1, Defaults
<1>2. CASE \E h \in Early : \E e \in HandEntries(t, {h}) : f = [Nothing EXCEPT ![Event(h)] = <<e>>]
  <2>0. PICK h \in Early :
          \E e \in HandEntries(t, {h}) : f = [Nothing EXCEPT ![Event(h)] = <<e>>]
    BY <1>2
  <2>1. PICK e \in HandEntries(t, {h}) : f = [Nothing EXCEPT ![Event(h)] = <<e>>] BY <2>0
  <2>2. h \in Hooks /\ {h} \in SUBSET Hooks BY HookSyncAssumption
  <2>3. e \in Entries /\ (h \in Guards \/ e.scope = {}) BY <2>2, HandTyped
  <2>4. <<e>> \in Seq(Entries) /\ (e.scope = {} => Wide(<<e>>)) BY <2>3 DEF Wide
  <2>5. Event(h) \in Slots /\ (h \in Guards <=> Event(h) = "pre") BY <2>2, Events
  <2> QED BY <2>1, <2>3, <2>4, <2>5, Defaults, FilePut
<1> QED BY <1>1, <1>2 DEF ByHand

(* What a reader finds.                                                     *)
LEMMA ScopesRead ==
  ASSUME NEW t, NEW f \in Files, NEW old \in Seq(Entries), NEW h \in Hooks
  PROVE  /\ ReadScopes(t, f, old, h) \subseteq Scopings
         /\ h \notin Guards => ReadScopes(t, f, old, h) \subseteq {{}}
<1> DEFINE list == f[Event(h)]
<1>1. /\ Event(h) \in Slots /\ (h \in Guards <=> Event(h) = "pre") BY Events
<1>2. list \in Seq(Entries) /\ (h \notin Guards => Wide(list)) BY <1>1, FileLists
<1>3. ASSUME NEW l \in Seq(Entries)
      PROVE  ScopesIn(l, h) \subseteq Scopings /\ (Wide(l) => ScopesIn(l, h) \subseteq {{}})
  <2>1. ASSUME NEW i \in Holding(l, h)
        PROVE  /\ MatcherTools(l[i].scope) \in Scopings
               /\ Wide(l) => MatcherTools(l[i].scope) = {}
    <3>1. i \in DOMAIN l BY DEF Holding
    <3>2. l[i].scope \in Scopings /\ (Wide(l) => l[i].scope \in {{}, All})
      BY <3>1, EntryTyped DEF Wide
    <3> QED BY <3>2, MatcherTyped
  <2> QED BY <2>1 DEF ScopesIn
<1>4. /\ ScopesIn(list, h) \subseteq Scopings /\ ScopesIn(old, h) \subseteq Scopings
      /\ h \notin Guards => ScopesIn(list, h) \subseteq {{}}
  <2> HIDE DEF list
  <2> QED BY <1>2, <1>3
<1>5. ASSUME NEW T \in SUBSET Scopings
      PROVE  Unioned(T) \in Scopings /\ (T \subseteq {{}} => Unioned(T) = {})
  BY DEF Unioned, Scopings
<1>6. ReadScopes(t, f, old, h) \in
        {{{}}, {}, ScopesIn(list, h), {Unioned(ScopesIn(list, h))}}
          \cup IF h \in Guards THEN {ScopesIn(old, h)} ELSE {}
  <2> HIDE DEF list
  <2>1. CASE t = "copilot"
    <3>1. ReadScopes(t, f, old, h) = IF Present(list, h) THEN {{}} ELSE {}
      BY <2>1 DEF ReadScopes, list
    <3> QED BY <3>1
  <2>2. CASE t = "cursor"
    <3>1. ReadScopes(t, f, old, h)
            = IF \E s \in Slots : f[s] # <<>>
              THEN IF Present(list, h) THEN {Unioned(ScopesIn(list, h))}
                   ELSE IF h \in Guards /\ Present(f["shell"], h) THEN {{}} ELSE {}
              ELSE IF h \in Guards THEN ScopesIn(old, h) ELSE {}
      BY <2>2 DEF ReadScopes, list
    <3> QED BY <3>1
  <2>3. CASE t = "agy" /\ h \notin Guards
    <3>1. ReadScopes(t, f, old, h) = IF Present(list, h) THEN {{}} ELSE {}
      BY <2>3 DEF ReadScopes, list
    <3> QED BY <3>1
  <2>4. CASE t # "copilot" /\ t # "cursor" /\ ~(t = "agy" /\ h \notin Guards)
    <3>1. ReadScopes(t, f, old, h) = ScopesIn(list, h) BY <2>4 DEF ReadScopes, list
    <3> QED BY <3>1
  <2> QED BY <2>1, <2>2, <2>3, <2>4
<1>7. {} \in Scopings BY DEF Scopings
<1> HIDE DEF list
<1>8. Unioned(ScopesIn(list, h)) \in Scopings BY <1>4, <1>5
<1>9. h \notin Guards => Unioned(ScopesIn(list, h)) = {} BY <1>4, <1>5
<1> QED BY <1>4, <1>6, <1>7, <1>8, <1>9

(* And what the tools' hooks are merged into.                               *)
LEMMA DiscoverTyped ==
  ASSUME NEW sources \in SUBSET AllTools, file \in [AllTools -> Files], legacy \in Seq(Entries)
  PROVE  DiscoverHooks(sources) \in Data
<1> DEFINE found(h) == UNION {ReadScopes(t, file[t], legacy, h) : t \in sources}
           scope(h) == IF found(h) = {} THEN {} ELSE Unioned(found(h))
<1>1. ASSUME NEW h \in Hooks PROVE scope(h) \in Scopings /\ (h \notin Guards => scope(h) = {})
  <2>1. ASSUME NEW t \in sources
        PROVE  /\ ReadScopes(t, file[t], legacy, h) \subseteq Scopings
               /\ h \notin Guards => ReadScopes(t, file[t], legacy, h) \subseteq {{}}
    <3>1. file[t] \in Files OBVIOUS
    <3> QED BY <3>1, ScopesRead
  <2>2. found(h) \subseteq Scopings /\ (h \notin Guards => found(h) \subseteq {{}}) BY <2>1
  <2> HIDE DEF found
  <2> QED BY <2>2 DEF Unioned, Scopings
<1>2. DiscoverHooks(sources)
        = [hooks |-> {h \in Hooks : found(h) # {}}, tools |-> [h \in Hooks |-> scope(h)]]
  BY DEF DiscoverHooks
<1> HIDE DEF found, scope
<1>3. [h \in Hooks |-> scope(h)] \in Canonical BY <1>1 DEF Canonical
<1> QED BY <1>2, <1>3 DEF Data

(* What the writer of a tool begins with, cursor's old arrays moved.        *)
LEMMA MigratedFacts ==
  ASSUME NEW t \in AllTools, file \in [AllTools -> Files], legacy \in Seq(Entries)
  PROVE  /\ Migrated(t) \in Files
         /\ \A s \in Slots : \A h : Present(file[t][s], h) =>
              /\ Holding(Migrated(t)[s], h) = Holding(file[t][s], h)
              /\ \A i \in Holding(file[t][s], h) : Migrated(t)[s][i] = file[t][s][i]
<1>1. file[t] \in Files /\ "pre" \in Slots BY DEF Slots
<1>2. CASE Migrated(t) = file[t] BY <1>1, <1>2
<1>3. CASE Migrated(t) # file[t]
  <2> DEFINE f == file[t]
             list == f["pre"]
             new == FoldLeft(Migrate, list, legacy)
  <2>1. Migrated(t) = [f EXCEPT !["pre"] = new] BY <1>3 DEF Migrated, MigrateLegacy
  <2>2. list \in Seq(Entries) /\ f \in [Slots -> Seq(Entries)] BY <1>1, FileLists
  <2>3. /\ new \in Seq(Entries)
        /\ \A j \in DOMAIN list : j \in DOMAIN new /\ new[j] = list[j]
        /\ \A h : Present(list, h) => Holding(new, h) = Holding(list, h)
    <3> HIDE DEF list
    <3> QED BY <2>2, MigrateFacts
  <2> HIDE DEF new
  <2>4. Migrated(t) \in Files
    <3>1. [f EXCEPT !["pre"] = new] \in Files
      <4> HIDE DEF f
      <4> QED BY <1>1, <2>3, FilePut DEF f
    <3> QED BY <2>1, <3>1
  <2>5. Migrated(t)["pre"] = new /\ \A s \in Slots : s # "pre" => Migrated(t)[s] = f[s]
    BY <1>1, <2>1, <2>2
  <2>6. \A h : \A i \in Holding(list, h) : new[i] = list[i] BY <2>3 DEF Holding
  <2>7. ASSUME NEW s \in Slots, NEW h, Present(f[s], h)
        PROVE  /\ Holding(Migrated(t)[s], h) = Holding(f[s], h)
               /\ \A i \in Holding(f[s], h) : Migrated(t)[s][i] = f[s][i]
    <3>1. CASE s = "pre" BY <2>3, <2>5, <2>6, <2>7, <3>1
    <3>2. CASE s # "pre" BY <2>5, <3>2
    <3> QED BY <3>1, <3>2
  <2> QED BY <2>4, <2>7
<1> QED BY <1>2, <1>3

(* A sync goes from installed tools to installed tools.                     *)
LEMMA ModesTyped ==
  ASSUME tools \in Groups, NEW mode \in Modes
  PROVE  mode \in SyncModes /\ mode.from \subseteq tools /\ mode.to \subseteq tools
<1>1. tools \subseteq AllTools BY Known
<1>2. CASE \E s \in tools : \E T \in {tools} \cup {{t} : t \in tools} :
             mode = [from |-> {s}, to |-> T \ {s}, port |-> TRUE]
  <2>1. PICK s \in tools, T \in {tools} \cup {{t} : t \in tools} :
          mode = [from |-> {s}, to |-> T \ {s}, port |-> TRUE]
    BY <1>2
  <2>2. T \subseteq tools OBVIOUS
  <2> QED BY <1>1, <2>1, <2>2 DEF SyncModes
<1>3. CASE \E p \in BOOLEAN : mode = [from |-> tools, to |-> tools, port |-> p]
  BY <1>1, <1>3 DEF SyncModes
<1> QED BY <1>2, <1>3 DEF Modes

(* Codex' flag: what can be edited is on once it was asked for, and is      *)
(* then left alone.                                                         *)
LEMMA FlagTyped ==
  ASSUME flag \in [ok : BOOLEAN, hooks : Settings, old : Settings], NEW enable \in BOOLEAN
  PROVE  /\ EnsureFlag(enable) \in [ok : BOOLEAN, hooks : Settings, old : Settings]
         /\ EnsureFlag(enable).ok = flag.ok
         /\ flag.ok /\ enable => EnsureFlag(enable).hooks = "on" /\ EnsureFlag(enable).old = "none"
         /\ flag.hooks = "on" /\ flag.old = "none" => EnsureFlag(enable) = flag
<1>1. CASE ~flag.ok BY <1>1 DEF EnsureFlag
<1>2. CASE flag.ok /\ (enable => flag.hooks = "on") /\ flag.old = "none" BY <1>2 DEF EnsureFlag
<1>3. CASE flag.ok /\ ~((enable => flag.hooks = "on") /\ flag.old = "none")
  <2>1. EnsureFlag(enable) = Enabled(enable) BY <1>3 DEF EnsureFlag
  <2>2. Enabled(enable)
          = [ok |-> TRUE, old |-> "none",
             hooks |-> IF enable THEN "on"
                       ELSE IF flag.hooks = "none" THEN flag.old ELSE flag.hooks]
    BY DEF Enabled
  <2> QED BY <1>3, <2>1, <2>2 DEF Settings
<1> QED BY <1>1, <1>2, <1>3

(* It is asked for when there is a hook for codex.                          *)
LEMMA CodexFlagIs ==
  ASSUME NEW data, NEW own
  PROVE  \E enable \in BOOLEAN :
           /\ CodexFlag(data, own) = EnsureFlag(enable)
           /\ (\E h \in data.hooks : Supports("codex", h)) => enable
BY DEF CodexFlag

(* The types hold at the start.                                             *)
LEMMA InitTyped == ASSUME Init PROVE Typed
<1>1. ASSUME NEW t \in AllTools PROVE file[t] \in Files
  <2>1. file[t] \in UNION {ByHand(u) : u \in AllTools} BY DEF Init
  <2> QED BY <2>1, ByHandTyped
<1>2. file \in [AllTools -> Files] BY <1>1 DEF Init
<1>3. legacy \in Seq(Entries)
  <2>1. CASE legacy = <<>> BY <2>1
  <2>2. CASE legacy # <<>>
    <3>1. PICK h \in Early \cap Guards, s \in Scopes : legacy = <<Entry(h, s)>>
      BY <2>2 DEF Init
    <3>2. s \in Scopings /\ h \in Hooks BY HookSyncAssumption DEF Scopings
    <3>3. Entry(h, s) \in Entries BY <3>2 DEF Entry, Entries
    <3> QED BY <3>1, <3>3
  <2> QED BY <2>1, <2>2
<1>4. flag \in [ok : BOOLEAN, hooks : Settings, old : Settings]
  <2>1. flag \in Flags \/ flag = NoFlag(TRUE)
    <3>1. CASE "codex" \in tools
      <4>1. flag \in Flags BY <3>1 DEF Init
      <4> QED BY <4>1
    <3>2. CASE "codex" \notin tools
      <4>1. flag \in {NoFlag(TRUE)} BY <3>2 DEF Init
      <4> QED BY <4>1
    <3> QED BY <3>1, <3>2
  <2>2. ASSUME NEW ok \in BOOLEAN
        PROVE  NoFlag(ok) \in [ok : BOOLEAN, hooks : Settings, old : Settings]
    BY DEF NoFlag, Settings
  <2>3. CASE flag \in [ok : {TRUE}, hooks : {"none", "off"}, old : {"on"}]
    <3>1. /\ {TRUE} \subseteq BOOLEAN /\ {"none", "off"} \subseteq Settings
          /\ {"on"} \subseteq Settings
      BY DEF Settings
    <3> DEFINE A == {TRUE}
               B == {"none", "off"}
               C == {"on"}
    <3> HIDE DEF A, B, C
    <3>2. flag \in [ok : A, hooks : B, old : C] BY <2>3 DEF A, B, C
    <3>3. A \subseteq BOOLEAN /\ B \subseteq Settings /\ C \subseteq Settings
      BY <3>1 DEF A, B, C
    <3> QED BY <3>2, <3>3
  <2>4. flag \in Flags => \/ flag \in [ok : {TRUE}, hooks : {"none", "off"}, old : {"on"}]
                         \/ flag = NoFlag(FALSE)
    BY DEF Flags
  <2> QED BY <2>1, <2>2, <2>3, <2>4
<1>5. /\ tools \in Groups /\ broken \subseteq tools /\ led \in Ledgers /\ run \in SyncRuns
      /\ still \in [mode : SyncModes, data : Data, n : 0..2]
  BY Defaults DEF Init
<1>6. runs \in 0..MaxRuns /\ edits \in 0..MaxEdits BY HookSyncAssumption DEF Init
<1> QED BY <1>2, <1>3, <1>4, <1>5, <1>6 DEF Typed

(* The user's edits.                                                        *)
LEMMA DisturbsTyped ==
  ASSUME Typed, Disturbs
  PROVE  run' \in SyncRuns /\ still' \in [mode : SyncModes, data : Data, n : 0..2]
<1>1. still' \in [mode : SyncModes, data : Data, n : 0..2] BY Defaults DEF Disturbs
<1>2. [run EXCEPT !.smooth = FALSE] \in SyncRuns BY DEF Typed, SyncRuns
<1>3. run \in SyncRuns BY DEF Typed
<1> QED BY <1>1, <1>2, <1>3 DEF Disturbs

(* An edit of one list, to another list of entries.                         *)
LEMMA EditedTyped ==
  ASSUME Typed, NEW t \in tools, NEW s \in Slots, NEW list \in Seq(Entries),
         s # "pre" => Wide(list), Edited(t, s, list)
  PROVE  Typed'
<1>1. t \in AllTools BY Known DEF Typed
<1>2. file[t] \in Files BY <1>1 DEF Typed
<1>3. [file[t] EXCEPT ![s] = list] \in Files BY <1>2, FilePut
<1>4. file' \in [AllTools -> Files]
  <2>1. file' = [file EXCEPT ![t] = [file[t] EXCEPT ![s] = list]] BY DEF Edited
  <2>2. file \in [AllTools -> Files] BY DEF Typed
  <2> QED BY <1>1, <1>3, <2>1, <2>2
<1>5. run' \in SyncRuns /\ still' \in [mode : SyncModes, data : Data, n : 0..2]
  BY DisturbsTyped DEF Edited
<1>6. edits' \in 0..MaxEdits
  <2>1. edits \in 0..MaxEdits /\ MaxEdits \in Nat BY HookSyncAssumption DEF Typed
  <2>2. edits < MaxEdits /\ edits' = edits + 1 BY DEF Edited
  <2> QED BY <2>1, <2>2
<1>7. UNCHANGED <<tools, legacy, flag, broken, led, runs>> BY DEF Edited
<1> QED BY <1>4, <1>5, <1>6, <1>7 DEF Typed, Ledgers

(* Each edit is of that kind.                                               *)
LEMMA EditsAre ==
  ASSUME Typed,
         \/ \E t \in tools : UserAdds(t) \/ UserRescopes(t)
         \/ \E t \in tools, h \in Guards : UserJoins(t, h)
         \/ \E t \in tools, h \in Hooks : UserRemoves(t, h)
         \/ \E h \in Guards : UserMirrors(h)
  PROVE  \E t \in tools : \E s \in Slots : \E list \in Seq(Entries) :
           (s # "pre" => Wide(list)) /\ Edited(t, s, list)
<1>1. ASSUME NEW t \in tools PROVE file[t] \in Files
  <2>1. t \in AllTools BY Known DEF Typed
  <2> QED BY <2>1 DEF Typed
<1>2. ASSUME NEW t \in tools, UserAdds(t)
      PROVE  \E s \in Slots : \E list \in Seq(Entries) :
               (s # "pre" => Wide(list)) /\ Edited(t, s, list)
  <2>1. PICK e \in HandEntries(t, Hooks), h \in Hooks :
          h \in e.cmds /\ Edited(t, Event(h), Append(file[t][Event(h)], e))
    BY <1>2 DEF UserAdds
  <2>2. e \in Entries /\ (h \in Guards \/ e.scope = {}) BY <2>1, HandTyped
  <2>3. Event(h) \in Slots /\ (h \in Guards <=> Event(h) = "pre") BY Events
  <2> DEFINE list == file[t][Event(h)]
  <2>4. list \in Seq(Entries) /\ (Event(h) # "pre" => Wide(list)) BY <1>1, <2>3, FileLists
  <2> HIDE DEF list
  <2>5. Append(list, e) \in Seq(Entries) /\ (Event(h) # "pre" => Wide(Append(list, e)))
    BY <2>2, <2>3, <2>4, Longer
  <2>6. Edited(t, Event(h), Append(list, e)) BY <2>1 DEF list
  <2> QED BY <2>3, <2>5, <2>6
<1>3. "pre" \in Slots /\ "shell" \in Slots BY DEF Slots
<1>4. ASSUME NEW t \in tools, UserRescopes(t)
      PROVE  \E list \in Seq(Entries) : Edited(t, "pre", list)
  <2> DEFINE list == file[t]["pre"]
  <2>1. PICK i \in DOMAIN list, s \in Scopes :
          Edited(t, "pre", Rescoped(list, i, TranslateTools(t, s)))
    BY <1>4 DEF UserRescopes
  <2>2. list \in Seq(Entries) BY <1>1, <1>3, FileLists
  <2>3. TranslateTools(t, s) \in Scopings BY HookSyncAssumption, TranslateTyped DEF Scopings
  <2> HIDE DEF list
  <2>4. list[i] \in Entries BY <2>2, EntryTyped
  <2>5. [list[i] EXCEPT !.scope = TranslateTools(t, s)] \in Entries BY <2>3, <2>4 DEF Entries
  <2>6. Rescoped(list, i, TranslateTools(t, s)) \in Seq(Entries) BY <2>2, <2>5 DEF Rescoped
  <2> QED BY <2>1, <2>6
<1>5. ASSUME NEW t \in tools, NEW h \in Guards, UserJoins(t, h)
      PROVE  \E list \in Seq(Entries) : Edited(t, "pre", list)
  <2> DEFINE list == file[t]["pre"]
  <2>1. PICK i \in DOMAIN list : Edited(t, "pre", [list EXCEPT ![i].cmds = @ \cup {h}])
    BY <1>5 DEF UserJoins
  <2>2. list \in Seq(Entries) BY <1>1, <1>3, FileLists
  <2> HIDE DEF list
  <2>3. list[i] \in Entries /\ h \in Hooks BY <2>2, EntryTyped DEF Hooks
  <2>4. [list[i] EXCEPT !.cmds = list[i].cmds \cup {h}] \in Entries BY <2>3 DEF Entries
  <2>5. [list EXCEPT ![i].cmds = @ \cup {h}] \in Seq(Entries) BY <2>2, <2>4
  <2> QED BY <2>1, <2>5
<1>6. ASSUME NEW t \in tools, NEW h \in Hooks, UserRemoves(t, h)
      PROVE  \E s \in Slots : \E list \in Seq(Entries) :
               (s # "pre" => Wide(list)) /\ Edited(t, s, list)
  <2>1. Event(h) \in Slots BY Events
  <2> DEFINE list == file[t][Event(h)]
  <2>2. list \in Seq(Entries) /\ (Event(h) # "pre" => Wide(list)) BY <1>1, <2>1, FileLists
  <2>3. Edited(t, Event(h), Without(list, h)) BY <1>6 DEF UserRemoves
  <2> HIDE DEF list
  <2>4. Without(list, h) \in Seq(Entries) /\ (Event(h) # "pre" => Wide(Without(list, h)))
    BY <2>2, WithoutFacts, WithoutWide
  <2> QED BY <2>1, <2>3, <2>4
<1>7. ASSUME NEW h \in Guards, UserMirrors(h)
      PROVE  \E list \in Seq(Entries) : Wide(list) /\ Edited("cursor", "shell", list)
  <2>1. Entry(h, {}) \in Entries /\ Entry(h, {}).scope = {}
    BY DEF Entry, Entries, Scopings, Hooks
  <2> DEFINE e == Entry(h, {})
  <2>2. Edited("cursor", "shell", <<e>>) BY <1>7 DEF UserMirrors
  <2> HIDE DEF e
  <2>3. <<e>> \in Seq(Entries) /\ Wide(<<e>>) BY <2>1 DEF Wide, e
  <2> QED BY <2>2, <2>3
<1>8. \A h : UserMirrors(h) => "cursor" \in tools BY DEF UserMirrors
<1> QED BY <1>2, <1>3, <1>4, <1>5, <1>6, <1>7, <1>8

(* The result of a writer.                                                  *)
LEMMA DoneTyped ==
  ASSUME Typed, NEW t \in AllTools, NEW good \in BOOLEAN, NEW pend \in SUBSET Hooks,
         Done(t, good, pend)
  PROVE  /\ run' \in SyncRuns
         /\ run'.todo = run.todo \ {t} /\ run'.mode = run.mode /\ run'.data = run.data
         /\ run'.own = run.own
         /\ run'.at = IF run.todo = {t} THEN "save" ELSE "write"
         /\ run'.pend[t] = pend /\ \A u \in AllTools \ {t} : run'.pend[u] = run.pend[u]
         /\ run.good \subseteq run'.good /\ (good => t \in run'.good)
         /\ run'.smooth => /\ run.smooth /\ good
                           /\ t = "codex" /\ flag.ok => flag' = CodexFlag(run.data, run.own[t])
<1> DEFINE moved == run.moved \/ legacy' # legacy
           smooth == /\ run.smooth /\ good
                     /\ t = "codex" /\ flag.ok => flag' = CodexFlag(run.data, run.own[t])
           at == IF run.todo = {t} THEN "save" ELSE "write"
           goods == IF good THEN run.good \cup {t} ELSE run.good
           pends == [run.pend EXCEPT ![t] = pend]
<1>1. run \in SyncRuns BY DEF Typed
<1>2. /\ moved \in BOOLEAN /\ smooth \in BOOLEAN /\ at \in {"idle", "write", "save", "flag"}
      /\ goods \in SUBSET AllTools /\ run.good \subseteq goods /\ (good => t \in goods)
  BY <1>1 DEF SyncRuns
<1>3. /\ pends \in Ledgers /\ pends[t] = pend
      /\ \A u \in AllTools \ {t} : pends[u] = run.pend[u]
  BY <1>1 DEF SyncRuns, Ledgers
<1>4. run' = [run EXCEPT !.todo = run.todo \ {t}, !.at = at, !.good = goods, !.pend = pends,
                         !.moved = moved, !.smooth = smooth]
  <2>1. run' = [run EXCEPT !.todo = run.todo \ {t}, !.at = at, !.good = goods,
                           !.pend = [run.pend EXCEPT ![t] = pend],
                           !.moved = moved, !.smooth = smooth]
    BY DEF Done
  <2> QED BY <2>1
<1>5. smooth => /\ run.smooth /\ good
                /\ t = "codex" /\ flag.ok => flag' = CodexFlag(run.data, run.own[t])
  OBVIOUS
<1>6. at = IF run.todo = {t} THEN "save" ELSE "write" OBVIOUS
<1> HIDE DEF moved, smooth, at, goods, pends
<1>7. run' \in SyncRuns BY <1>1, <1>2, <1>3, <1>4 DEF SyncRuns
<1>8. /\ run'.todo = run.todo \ {t} /\ run'.mode = run.mode /\ run'.data = run.data
      /\ run'.own = run.own
      /\ run'.at = at /\ run'.pend = pends /\ run'.good = goods /\ run'.smooth = smooth
  BY <1>1, <1>4 DEF SyncRuns
<1> QED BY <1>2, <1>3, <1>5, <1>6, <1>7, <1>8

(* The flag of codex, and whose it is.                                      *)
LEMMA FlagStepTyped ==
  ASSUME Typed, NEW t, FlagStep(t)
  PROVE  /\ flag' \in [ok : BOOLEAN, hooks : Settings, old : Settings]
         /\ flag'.ok = flag.ok /\ (t # "codex" => flag' = flag)
<1>1. flag \in [ok : BOOLEAN, hooks : Settings, old : Settings] BY DEF Typed
<1>2. PICK enable \in BOOLEAN : CodexFlag(run.data, run.own[t]) = EnsureFlag(enable)
  BY CodexFlagIs
<1> QED BY <1>1, <1>2, FlagTyped DEF FlagStep

(* What a writer comes to own.                                              *)
LEMMA WriteTyped ==
  ASSUME Typed, NEW t \in tools, Write(t)
  PROVE  /\ Typed'
         /\ t \in AllTools /\ Migrated(t) \in Files /\ run.data \in Data
         /\ run.own[t] \in SUBSET Hooks
         /\ file'[t] = Merged(t, Migrated(t), run.data, run.own[t])
         /\ \A u \in AllTools \ {t} : file'[u] = file[u]
         /\ Done(t, TRUE, (run.own[t] \cap run.data.hooks) \cup Created(t, Migrated(t), run.data))
         /\ (run.own[t] \cap run.data.hooks) \cup Created(t, Migrated(t), run.data) \in SUBSET Hooks
<1> DEFINE pend == (run.own[t] \cap run.data.hooks) \cup Created(t, Migrated(t), run.data)
           new == Merged(t, Migrated(t), run.data, run.own[t])
<1>1. t \in AllTools /\ t \in FiveTools BY Known DEF Typed
<1>2. Migrated(t) \in Files BY <1>1, MigratedFacts DEF Typed
<1>3. run.data \in Data /\ run.own[t] \in SUBSET Hooks BY <1>1 DEF Typed, SyncRuns, Ledgers
<1>4. new \in Files BY <1>1, <1>2, <1>3, MergedTyped
<1>5. pend \in SUBSET Hooks BY <1>3 DEF Created, Data
<1>6. /\ file' = [file EXCEPT ![t] = new] /\ legacy' \in {legacy, <<>>}
      /\ FlagStep(t) /\ Done(t, TRUE, pend)
      /\ UNCHANGED <<tools, broken, led, still, runs, edits>>
  BY DEF Write
<1> HIDE DEF pend, new
<1>7. /\ file' \in [AllTools -> Files] /\ file'[t] = new
      /\ \A u \in AllTools \ {t} : file'[u] = file[u]
  <2>1. file \in [AllTools -> Files] BY DEF Typed
  <2> QED BY <1>1, <1>4, <1>6, <2>1
<1>8. run' \in SyncRuns BY <1>1, <1>5, <1>6, DoneTyped
<1>9. flag' \in [ok : BOOLEAN, hooks : Settings, old : Settings] BY <1>6, FlagStepTyped
<1>10. legacy' \in Seq(Entries)
  <2>1. <<>> \in Seq(Entries) OBVIOUS
  <2>2. legacy \in Seq(Entries) BY DEF Typed
  <2> QED BY <1>6, <2>1, <2>2
<1>11. Typed' BY <1>6, <1>7, <1>8, <1>9, <1>10 DEF Typed, Ledgers
<1> QED BY <1>1, <1>2, <1>3, <1>5, <1>6, <1>7, <1>11 DEF pend, new

(* Every step keeps the types.                                              *)
LEMMA TypedStep == ASSUME Typed, [Next]_vars PROVE Typed'
<1>0. /\ tools \in Groups /\ tools \subseteq AllTools /\ run \in SyncRuns /\ led \in Ledgers
      /\ still \in [mode : SyncModes, data : Data, n : 0..2]
      /\ runs \in 0..MaxRuns /\ edits \in 0..MaxEdits /\ MaxRuns \in Nat /\ MaxEdits \in Nat
      /\ file \in [AllTools -> Files] /\ legacy \in Seq(Entries)
      /\ flag \in [ok : BOOLEAN, hooks : Settings, old : Settings]
  BY Known, HookSyncAssumption DEF Typed
<1>1. CASE UNCHANGED vars BY <1>1 DEF vars, Typed, Ledgers
<1>2. CASE Refuses
  <2>1. runs' \in 0..MaxRuns /\ still' \in [mode : SyncModes, data : Data, n : 0..2]
    <3>1. runs < MaxRuns /\ runs' = runs + 1 /\ still' = Moved BY <1>2 DEF Refuses
    <3> QED BY <1>0, <3>1, Defaults
  <2>2. UNCHANGED <<tools, file, legacy, flag, broken, led, run, edits>> BY <1>2 DEF Refuses
  <2> QED BY <2>1, <2>2 DEF Typed, Ledgers
<1>3. CASE Start
  <2>1. PICK mode \in Modes :
          /\ run' = [Idle EXCEPT !.at = "write", !.mode = mode, !.todo = mode.to, !.own = led,
                       !.data = IF mode.port THEN DiscoverHooks(mode.from) ELSE NoData]
          /\ still' = IF still.mode = mode THEN still ELSE Moved
    BY <1>3 DEF Start
  <2>2. mode \in SyncModes /\ mode.from \subseteq tools BY <1>0, ModesTyped
  <2> DEFINE data == IF mode.port THEN DiscoverHooks(mode.from) ELSE NoData
  <2>3. data \in Data
    <3>1. mode.from \in SUBSET AllTools BY <1>0, <2>2
    <3>2. DiscoverHooks(mode.from) \in Data BY <1>0, <3>1, DiscoverTyped
    <3> QED BY <3>2, Defaults
  <2>4. mode.to \in SUBSET AllTools BY <2>2 DEF SyncModes
  <2>5. run' = [Idle EXCEPT !.at = "write", !.mode = mode, !.todo = mode.to, !.own = led,
                            !.data = data]
    BY <2>1
  <2> HIDE DEF data
  <2>6. run' \in SyncRuns BY <1>0, <2>2, <2>3, <2>4, <2>5, Defaults DEF SyncRuns
  <2>7. still' \in [mode : SyncModes, data : Data, n : 0..2] BY <1>0, <2>1, Defaults
  <2>8. runs' \in 0..MaxRuns
    <3>1. runs < MaxRuns /\ runs' = runs + 1 BY <1>3 DEF Start
    <3> QED BY <1>0, <3>1
  <2>9. UNCHANGED <<tools, file, legacy, flag, broken, led, edits>> BY <1>3 DEF Start
  <2> QED BY <2>6, <2>7, <2>8, <2>9 DEF Typed, Ledgers
<1>4. CASE Save
  <2>1. led' \in Ledgers
    <3>1. led' = [t \in AllTools |-> IF t \in run.good THEN run.pend[t] ELSE led[t]]
      BY <1>4 DEF Save
    <3> QED BY <1>0, <3>1 DEF SyncRuns, Ledgers
  <2>2. run' \in SyncRuns
    <3>1. run' = [run EXCEPT !.at = "flag"] BY <1>4 DEF Save
    <3> QED BY <1>0, <3>1 DEF SyncRuns
  <2>3. UNCHANGED <<tools, file, legacy, flag, broken, still, runs, edits>> BY <1>4 DEF Save
  <2> QED BY <2>1, <2>2, <2>3 DEF Typed
<1>5. CASE SaveFails
  <2>1. run' \in SyncRuns
    <3>1. run' = [run EXCEPT !.at = "flag", !.smooth = FALSE] BY <1>5 DEF SaveFails
    <3> QED BY <1>0, <3>1 DEF SyncRuns
  <2>2. UNCHANGED <<tools, file, legacy, flag, broken, led, still, runs, edits>>
    BY <1>5 DEF SaveFails
  <2> QED BY <2>1, <2>2 DEF Typed, Ledgers
<1>6. CASE Dies
  <2>1. run' = Idle /\ still' = Moved
        /\ UNCHANGED <<tools, file, legacy, flag, broken, led, runs, edits>>
    BY <1>6 DEF Dies
  <2> QED BY <2>1, Defaults DEF Typed, Ledgers
<1>7. CASE Ends
  <2> DEFINE new == IF run.mode.from = {"codex"} THEN EnsureFlag(FALSE) ELSE flag
             n == IF run.moved THEN 0 ELSE IF still.n < 2 THEN still.n + 1 ELSE 2
  <2>1. /\ run' = Idle /\ flag' \in {flag, new}
        /\ still' = IF run.smooth /\ flag' = new
                    THEN [mode |-> run.mode, data |-> run.data, n |-> n] ELSE Moved
        /\ UNCHANGED <<tools, file, legacy, broken, led, runs, edits>>
    BY <1>7 DEF Ends
  <2>2. new \in [ok : BOOLEAN, hooks : Settings, old : Settings] BY <1>0, FlagTyped
  <2>3. n \in 0..2 BY <1>0
  <2> HIDE DEF new, n
  <2>4. [mode |-> run.mode, data |-> run.data, n |-> n]
          \in [mode : SyncModes, data : Data, n : 0..2]
    BY <1>0, <2>3 DEF SyncRuns
  <2>5. still' \in [mode : SyncModes, data : Data, n : 0..2] BY <2>1, <2>4, Defaults
  <2>6. flag' \in [ok : BOOLEAN, hooks : Settings, old : Settings] BY <1>0, <2>1, <2>2
  <2>7. run' \in SyncRuns BY <2>1, Defaults
  <2> QED BY <2>1, <2>5, <2>6, <2>7 DEF Typed, Ledgers
<1>8. ASSUME NEW t \in tools, Write(t) PROVE Typed' BY <1>8, WriteTyped
<1>9. ASSUME NEW t \in tools, WriteFails(t) PROVE Typed'
  <2>1. t \in AllTools BY <1>0
  <2>2. /\ Done(t, FALSE, {}) /\ (flag' = flag \/ FlagStep(t)) /\ legacy' = legacy
        /\ UNCHANGED <<tools, file, broken, led, still, runs, edits>>
    BY <1>9 DEF WriteFails
  <2>3. run' \in SyncRuns
    <3>1. FALSE \in BOOLEAN /\ {} \in SUBSET Hooks OBVIOUS
    <3> QED BY <2>1, <2>2, <3>1, DoneTyped
  <2>4. flag' \in [ok : BOOLEAN, hooks : Settings, old : Settings] BY <1>0, <2>2, FlagStepTyped
  <2> QED BY <2>2, <2>3, <2>4 DEF Typed, Ledgers
<1>10. ASSUME NEW t \in tools, UserBreaks(t) \/ UserRepairs(t) PROVE Typed'
  <2>1. run' \in SyncRuns /\ still' \in [mode : SyncModes, data : Data, n : 0..2]
    BY <1>10, DisturbsTyped DEF UserBreaks, UserRepairs
  <2>2. broken' \subseteq tools /\ edits' \in 0..MaxEdits
    <3>1. broken \subseteq tools BY DEF Typed
    <3>2. CASE UserBreaks(t)
      <4>1. edits < MaxEdits /\ edits' = edits + 1 /\ broken' = broken \cup {t}
        BY <3>2 DEF UserBreaks
      <4> QED BY <1>0, <3>1, <4>1
    <3>3. CASE UserRepairs(t) BY <1>0, <3>1, <3>3 DEF UserRepairs
    <3> QED BY <1>10, <3>2, <3>3
  <2>3. UNCHANGED <<tools, file, legacy, flag, led, runs>> BY <1>10 DEF UserBreaks, UserRepairs
  <2> QED BY <2>1, <2>2, <2>3 DEF Typed, Ledgers
<1>11. ASSUME NEW t \in tools, NEW s \in Slots, NEW list \in Seq(Entries),
              s # "pre" => Wide(list), Edited(t, s, list)
       PROVE  Typed'
  BY <1>11, EditedTyped
<1>12. CASE Resting BY <1>1, <1>12 DEF Resting
<1>13. CASE Sync BY <1>2, <1>3, <1>4, <1>5, <1>6, <1>7, <1>8, <1>9, <1>13 DEF Sync
<1>14. CASE User
  <2>1. CASE \E t \in tools : UserBreaks(t) \/ UserRepairs(t) BY <1>10, <2>1
  <2>2. CASE ~\E t \in tools : UserBreaks(t) \/ UserRepairs(t)
    <3>1. \/ \E t \in tools : UserAdds(t) \/ UserRescopes(t)
          \/ \E t \in tools, h \in Guards : UserJoins(t, h)
          \/ \E t \in tools, h \in Hooks : UserRemoves(t, h)
          \/ \E h \in Guards : UserMirrors(h)
      BY <1>14, <2>2 DEF User
    <3> QED BY <1>11, <3>1, EditsAre
  <2> QED BY <2>1, <2>2
<1> QED BY <1>1, <1>12, <1>13, <1>14 DEF Next

(* The targets of a sync.                                                   *)
LEMMA InitTargets == ASSUME Init PROVE Targets
BY DEF Init, Targets, Idle, NoMode

(* And every step the targets.                                              *)
LEMMA TargetsStep == ASSUME Typed, Targets, [Next]_vars PROVE Targets'
<1>0. run \in SyncRuns /\ tools \subseteq AllTools BY Known DEF Typed
<1>1. CASE UNCHANGED vars BY <1>1 DEF vars, Targets
<1>2. CASE Refuses BY <1>2 DEF Refuses, Targets
<1>3. CASE Start
  <2>1. PICK mode \in Modes :
          run' = [Idle EXCEPT !.at = "write", !.mode = mode, !.todo = mode.to, !.own = led,
                       !.data = IF mode.port THEN DiscoverHooks(mode.from) ELSE NoData]
    BY <1>3 DEF Start
  <2>2. mode.to \subseteq tools /\ tools' = tools BY <1>3, ModesTyped DEF Typed, Start
  <2>3. run'.at = "write" /\ run'.mode = mode /\ run'.todo = mode.to
    BY <2>1, Defaults DEF SyncRuns
  <2> QED BY <2>2, <2>3 DEF Targets
<1>4. CASE Save \/ SaveFails
  <2>1. run.at = "save" /\ run'.mode = run.mode /\ run'.todo = run.todo /\ tools' = tools
    BY <1>0, <1>4 DEF Save, SaveFails, SyncRuns
  <2> QED BY <2>1 DEF Targets
<1>5. CASE Dies \/ Ends
  <2>1. run' = Idle BY <1>5 DEF Dies, Ends
  <2>2. Idle.todo = {} /\ Idle.mode.to = {} /\ Idle.at = "idle" BY DEF Idle, NoMode
  <2> QED BY <2>1, <2>2 DEF Targets
<1>6. ASSUME NEW t \in tools, NEW good \in BOOLEAN, NEW pend \in SUBSET Hooks,
             Done(t, good, pend), tools' = tools
      PROVE  Targets'
  <2>1. /\ run'.todo = run.todo \ {t} /\ run'.mode = run.mode
        /\ run'.at = IF run.todo = {t} THEN "save" ELSE "write"
    BY <1>0, <1>6, DoneTyped
  <2> QED BY <1>6, <2>1 DEF Targets
<1>7. ASSUME NEW t \in tools, Write(t) PROVE Targets'
  <2>1. tools' = tools BY <1>7 DEF Write
  <2>2. TRUE \in BOOLEAN OBVIOUS
  <2> QED BY <1>6, <1>7, <2>1, <2>2, WriteTyped
<1>8. ASSUME NEW t \in tools, WriteFails(t) PROVE Targets'
  <2>1. tools' = tools /\ Done(t, FALSE, {}) BY <1>8 DEF WriteFails
  <2>2. FALSE \in BOOLEAN /\ {} \in SUBSET Hooks OBVIOUS
  <2> QED BY <1>6, <2>1, <2>2
<1>9. ASSUME Disturbs, tools' = tools PROVE Targets'
  <2>1. run'.todo = run.todo /\ run'.mode = run.mode /\ run'.at = run.at
    BY <1>0, <1>9 DEF Disturbs, SyncRuns
  <2> QED BY <1>9, <2>1 DEF Targets
<1>10. CASE User
  <2>1. CASE \E u \in tools : UserBreaks(u) \/ UserRepairs(u)
    BY <1>9, <2>1 DEF UserBreaks, UserRepairs
  <2>2. CASE ~\E u \in tools : UserBreaks(u) \/ UserRepairs(u)
    <3>1. \/ \E u \in tools : UserAdds(u) \/ UserRescopes(u)
          \/ \E u \in tools, h \in Guards : UserJoins(u, h)
          \/ \E u \in tools, h \in Hooks : UserRemoves(u, h)
          \/ \E h \in Guards : UserMirrors(h)
      BY <1>10, <2>2 DEF User
    <3>2. Disturbs /\ tools' = tools BY <3>1, EditsAre DEF Edited
    <3> QED BY <1>9, <3>2
  <2> QED BY <2>1, <2>2
<1>11. CASE Resting BY <1>1, <1>11 DEF Resting
<1> QED BY <1>1, <1>2, <1>3, <1>4, <1>5, <1>7, <1>8, <1>10, <1>11 DEF Next, Sync

(* Every variable always has its type: run, among others, holds what a sync *)
(* has in hand, and the lists under an event that no tool scopes stay wide. *)
THEOREM HooksTyped == Spec => [](Typed /\ Targets /\ TypeOK)
<1>1. ASSUME Typed, Targets PROVE TypeOK
  <2>1. ASSUME NEW t \in AllTools, NEW s \in Slots, NEW i \in DOMAIN file[t][s]
        PROVE  file[t][s][i].cmds \subseteq Hooks /\ file[t][s][i].cmds # {}
    <3> DEFINE list == file[t][s]
    <3>1. file[t] \in Files BY <1>1 DEF Typed
    <3>2. list \in Seq(Entries) BY <3>1, FileLists
    <3>3. i \in DOMAIN list OBVIOUS
    <3> HIDE DEF list
    <3>4. list[i] \in Entries BY <3>2, <3>3, EntryTyped
    <3>5. list[i].cmds \subseteq Hooks /\ list[i].cmds # {} BY <3>4 DEF Entries
    <3> QED BY <3>5 DEF list
  <2>2. /\ tools \in Groups /\ broken \subseteq tools /\ led \in [AllTools -> SUBSET Hooks]
        /\ still.n \in 0..2 /\ runs \in 0..MaxRuns /\ edits \in 0..MaxEdits
        /\ run.at \in {"idle", "write", "save", "flag"} /\ run.todo \subseteq tools
    BY <1>1 DEF Typed, Targets, Ledgers, SyncRuns
  <2> QED BY <2>1, <2>2 DEF TypeOK
<1>2. Init => Typed /\ Targets BY InitTyped, InitTargets
<1>3. Typed /\ Targets /\ [Next]_vars => (Typed /\ Targets)' BY TypedStep, TargetsStep
<1> QED BY <1>1, <1>2, <1>3, PTL DEF Spec

-----------------------------------------------------------------------------
(* What a hand wrote.                                                       *)

(* What one step does to it.                                                *)
HandStep ==
  \A t \in tools, s \in Slots, h \in Hooks :
     LET list == file[t][s] IN
     /\ Present(list, h) /\ t \in run.todo /\ t \notin run'.todo
     /\ h \notin run.own[t] /\ ~Shares(t, list, h, run.own[t])
     /\ ~(ClaudeShaped(t) /\ s = "pre" /\ \E i \in Holding(list, h) : list[i].scope = {})
     => Reaches(t, s, list, h) \subseteq Reaches(t, s, file'[t][s], h)

(* A target is done with by its writer, which ends well or fails, or the    *)
(* step leaves every file alone.                                            *)
LEMMA TargetDone ==
  ASSUME Typed, Targets, [Next]_vars, NEW t \in tools, t \in run.todo, t \notin run'.todo
  PROVE  Write(t) \/ WriteFails(t) \/ UNCHANGED <<file, legacy, flag>>
<1>1. CASE UNCHANGED vars BY <1>1 DEF vars
<1>2. ASSUME NEW u \in tools, Write(u) PROVE Write(t)
  <2>1. u = t
    <3>1. run'.todo = run.todo \ {u} BY <1>2, WriteTyped, DoneTyped
    <3> QED BY <3>1
  <2> QED BY <1>2, <2>1
<1>3. ASSUME NEW u \in tools, WriteFails(u) PROVE WriteFails(t)
  <2>1. Done(u, FALSE, {}) /\ u \in AllTools BY <1>3, Known DEF WriteFails, Typed
  <2>2. FALSE \in BOOLEAN /\ {} \in SUBSET Hooks OBVIOUS
  <2>3. run'.todo = run.todo \ {u} BY <2>1, <2>2, DoneTyped
  <2> QED BY <1>3, <2>3
<1>4. CASE Refuses \/ Start \/ Save \/ SaveFails \/ Dies \/ Ends
  <2>1. ~Ends BY DEF Ends, Targets
  <2> QED BY <1>4, <2>1 DEF Refuses, Start, Save, SaveFails, Dies
<1>5. CASE Resting BY <1>5 DEF Resting, vars
<1>6. ASSUME Disturbs PROVE FALSE
  <2>1. run \in SyncRuns BY DEF Typed
  <2>2. [run EXCEPT !.smooth = FALSE].todo = run.todo BY <2>1 DEF SyncRuns
  <2> QED BY <1>6, <2>2 DEF Disturbs
<1>7. CASE User
  <2>1. CASE \E u \in tools : UserBreaks(u) \/ UserRepairs(u)
    BY <1>6, <2>1 DEF UserBreaks, UserRepairs
  <2>2. CASE ~\E u \in tools : UserBreaks(u) \/ UserRepairs(u)
    <3>1. \/ \E u \in tools : UserAdds(u) \/ UserRescopes(u)
          \/ \E u \in tools, h \in Guards : UserJoins(u, h)
          \/ \E u \in tools, h \in Hooks : UserRemoves(u, h)
          \/ \E h \in Guards : UserMirrors(h)
      BY <1>7, <2>2 DEF User
    <3>2. Disturbs BY <3>1, EditsAre DEF Edited
    <3> QED BY <1>6, <3>2
  <2> QED BY <2>1, <2>2
<1> QED BY <1>1, <1>2, <1>3, <1>4, <1>5, <1>7 DEF Next, Sync

(* So one step does.                                                        *)
LEMMA HandStands == ASSUME Typed, Targets, [Next]_vars PROVE HandStep
<1> SUFFICES ASSUME NEW t \in tools, NEW s \in Slots, NEW h \in Hooks,
                    Present(file[t][s], h), t \in run.todo, t \notin run'.todo,
                    h \notin run.own[t], ~Shares(t, file[t][s], h, run.own[t]),
                    ~(/\ ClaudeShaped(t) /\ s = "pre"
                      /\ \E i \in Holding(file[t][s], h) : file[t][s][i].scope = {})
             PROVE  Reaches(t, s, file[t][s], h) \subseteq Reaches(t, s, file'[t][s], h)
  BY DEF HandStep
<1> DEFINE list == file[t][s]
           own == run.own[t]
           mid == Migrated(t)[s]
<1>1. CASE file' = file BY <1>1
<1>2. CASE Write(t)
  <2>1. /\ t \in AllTools /\ Migrated(t) \in Files /\ run.data \in Data
        /\ own \in SUBSET Hooks
        /\ file'[t] = Merged(t, Migrated(t), run.data, own)
    BY <1>2, WriteTyped
  <2>2. t \in FiveTools BY <2>1, Known
  <2>3. /\ Holding(mid, h) = Holding(list, h)
        /\ \A i \in Holding(list, h) : mid[i] = list[i]
    <3>1. file \in [AllTools -> Files] /\ legacy \in Seq(Entries) BY DEF Typed
    <3> QED BY <2>1, <3>1, MigratedFacts
  <2> HIDE DEF list, own, mid
  <2>4. Stands(t, s, list, h, own, mid)
    <3>1. Present(mid, h) BY <2>3 DEF Present, list
    <3>2. ~Shares(t, mid, h, own) BY <2>3 DEF Shares, list, own
    <3>3. ClaudeShaped(t) /\ s = "pre" => \A i \in Holding(mid, h) : mid[i].scope # {}
      BY <2>3 DEF list
    <3>4. Reaches(t, s, list, h) \subseteq Reaches(t, s, mid, h)
      <4>1. \A i \in Holding(list, h) : \E j \in Holding(mid, h) :
              Calls(t, s, list[i].scope) \subseteq Calls(t, s, mid[j].scope)
        BY <2>3
      <4> QED BY <4>1, ReachesMore
    <3> QED BY <3>1, <3>2, <3>3, <3>4 DEF Stands
  <2>5. h \notin own BY DEF own
  <2>6. Stands(t, s, list, h, own, Merged(t, Migrated(t), run.data, own)[s])
    BY <2>1, <2>2, <2>4, <2>5, MergedStands DEF mid
  <2> QED BY <2>1, <2>6 DEF Stands, list
<1>3. WriteFails(t) => file' = file BY DEF WriteFails
<1> QED BY <1>1, <1>2, <1>3, TargetDone

(* No sync makes a hook that crossby does not own in a file run for fewer   *)
(* tool calls there, or takes it out: whatever there is to write and to     *)
(* revoke, in whichever order, and for every list a hand may leave.         *)
THEOREM HandStandsAlways == Spec => HandScopeStands
<1>1. Typed /\ Targets /\ [Next]_vars => [HandStep]_vars BY HandStands
<1> QED BY <1>1, HooksTyped, PTL DEF Spec, HandScopeStands, HandStep

-----------------------------------------------------------------------------
(* Every hook everywhere.                                                   *)

(* Nothing is said of a sync that was disturbed.                            *)
LEMMA MovedMode == Moved.mode = NoMode BY DEF Moved

(* Nothing but a hand disturbs, and it ends what is said of a sync.         *)
LEMMA DisturbsHalfway ==
  ASSUME Typed, Halfway, After, Disturbs
  PROVE  Halfway' /\ After'
<1>1. run.at # "idle" => run'.smooth = FALSE /\ run'.at # "idle"
  <2>1. run \in SyncRuns BY DEF Typed
  <2>2. /\ [run EXCEPT !.smooth = FALSE].smooth = FALSE
        /\ [run EXCEPT !.smooth = FALSE].at = run.at
    BY <2>1 DEF SyncRuns
  <2> QED BY <2>2 DEF Disturbs
<1>2. run.at = "idle" => run' = run BY DEF Disturbs
<1>3. still'.mode = NoMode BY MovedMode DEF Disturbs
<1> QED BY <1>1, <1>2, <1>3 DEF Halfway, After

(* A writer that ends well leaves its file guarded.                         *)
LEMMA WriteGuards ==
  ASSUME Typed, NEW t \in tools, Write(t), NEW pend,
         pend = (run.own[t] \cap run.data.hooks) \cup Created(t, Migrated(t), run.data)
  PROVE  Guarded(t, file'[t], run.data, pend)
<1> DEFINE f == Migrated(t)
           own == run.own[t]
           K == own \cap run.data.hooks
           new == Merged(t, f, run.data, own)
<1>1. /\ t \in AllTools /\ f \in Files /\ run.data \in Data /\ own \in SUBSET Hooks
      /\ file'[t] = new
  BY WriteTyped
<1>2. t \in FiveTools BY <1>1, Known
<1>3. K \subseteq pend OBVIOUS
<1> HIDE DEF f, own
<1>4. ASSUME NEW h \in run.data.hooks, Supports(t, h)
      PROVE  GuardIn(t, new, h, run.data.tools[h], K)
  BY <1>1, <1>2, <1>4, MergedGuards
<1> HIDE DEF new, K
<1>5. ASSUME NEW h \in run.data.hooks, Supports(t, h)
      PROVE  LET list == new[Event(h)]
                 names == TranslateTools(t, run.data.tools[h]) IN
             /\ Present(list, h)
             /\ \/ Reach(names) \subseteq Reaches(t, Event(h), list, h)
                \/ \E i \in Holding(list, h) : Regex \in list[i].scope
                \/ Shares(t, list, h, pend)
             /\ t = "cursor" /\ h \in Guards /\ "Shell" \in names => Present(new["shell"], h)
  <2> DEFINE names == TranslateTools(t, run.data.tools[h])
             list == new[Event(h)]
  <2>1. /\ ServedIn(t, Event(h), list, h, names, K)
        /\ t = "cursor" /\ h \in Guards /\ "Shell" \in names => Present(new["shell"], h)
    BY <1>4, <1>5 DEF GuardIn
  <2> HIDE DEF names, list
  <2>2. /\ Present(list, h)
        /\ \/ Reach(names) \subseteq Reaches(t, Event(h), list, h)
           \/ \E i \in Holding(list, h) : Regex \in list[i].scope
           \/ Shares(t, list, h, pend)
    BY <1>3, <2>1, ServedMeans
  <2> QED BY <2>1, <2>2 DEF names, list
<1>6. Guarded(t, new, run.data, pend) BY <1>5 DEF Guarded
<1> QED BY <1>1, <1>6

(* And codex' flag on, if it could be edited.                               *)
LEMMA CodexFlagged ==
  ASSUME Typed, NEW data, NEW own, flag' = CodexFlag(data, own)
  PROVE  Flagged("codex", data, flag')
<1>1. PICK enable \in BOOLEAN :
        /\ CodexFlag(data, own) = EnsureFlag(enable)
        /\ (\E h \in data.hooks : Supports("codex", h)) => enable
  BY CodexFlagIs
<1>2. /\ EnsureFlag(enable).ok = flag.ok
      /\ flag.ok /\ enable => EnsureFlag(enable).hooks = "on" /\ EnsureFlag(enable).old = "none"
  BY FlagTyped DEF Typed
<1> QED BY <1>1, <1>2 DEF Flagged

(* Neither says anything at the start.                                      *)
LEMMA InitHalfway == ASSUME Init PROVE Halfway /\ After
<1>1. run.at = "idle" /\ still.mode = NoMode BY MovedMode DEF Init, Idle
<1> QED BY <1>1 DEF Halfway, After

(* Every step keeps both.                                                   *)
LEMMA HalfwayStep ==
  ASSUME Typed, Targets, Halfway, After, [Next]_vars PROVE Halfway' /\ After'
<1>0. /\ run \in SyncRuns /\ tools \subseteq AllTools /\ led \in Ledgers
      /\ flag \in [ok : BOOLEAN, hooks : Settings, old : Settings]
      /\ still \in [mode : SyncModes, data : Data, n : 0..2]
  BY Known DEF Typed
<1>1. CASE UNCHANGED vars
  <2>1. /\ run' = run /\ still' = still /\ file' = file /\ led' = led /\ flag' = flag
        /\ tools' = tools
    BY <1>1 DEF vars
  <2> QED BY <2>1 DEF Halfway, After
<1>2. CASE Refuses
  <2>1. run.at = "idle" /\ run' = run /\ still'.mode = NoMode BY <1>2, MovedMode DEF Refuses
  <2> QED BY <2>1 DEF Halfway, After
<1>3. CASE Start
  <2>1. PICK mode \in Modes :
          run' = [Idle EXCEPT !.at = "write", !.mode = mode, !.todo = mode.to, !.own = led,
                       !.data = IF mode.port THEN DiscoverHooks(mode.from) ELSE NoData]
    BY <1>3 DEF Start
  <2>2. run'.at = "write" /\ run'.mode = mode /\ run'.todo = mode.to
    BY <2>1, Defaults DEF SyncRuns
  <2> QED BY <2>2 DEF Halfway, After
<1>4. CASE Save
  <2>1. /\ run.at = "save" /\ run'.at = "flag" /\ run'.mode = run.mode /\ run'.todo = run.todo
        /\ run'.data = run.data /\ run'.pend = run.pend /\ run'.good = run.good
        /\ run'.smooth = run.smooth /\ file' = file /\ flag' = flag
    BY <1>0, <1>4 DEF Save, SyncRuns
  <2>2. \A t \in AllTools : t \in run.good => led'[t] = run.pend[t] BY <1>4 DEF Save
  <2>3. run.mode.to \subseteq AllTools BY <1>0 DEF SyncRuns, SyncModes
  <2> QED BY <2>1, <2>2, <2>3 DEF Halfway, After
<1>5. CASE SaveFails
  <2>1. run'.at = "flag" /\ run'.smooth = FALSE BY <1>0, <1>5 DEF SaveFails, SyncRuns
  <2> QED BY <2>1 DEF Halfway, After
<1>6. CASE Dies
  <2>1. run'.at = "idle" /\ still'.mode = NoMode BY <1>6, MovedMode DEF Dies, Idle
  <2> QED BY <2>1 DEF Halfway, After
<1>7. CASE Ends
  <2> DEFINE new == IF run.mode.from = {"codex"} THEN EnsureFlag(FALSE) ELSE flag
             n == IF run.moved THEN 0 ELSE IF still.n < 2 THEN still.n + 1 ELSE 2
  <2>1. /\ run.at = "flag" /\ run' = Idle /\ flag' \in {flag, new}
        /\ still' = IF run.smooth /\ flag' = new
                    THEN [mode |-> run.mode, data |-> run.data, n |-> n] ELSE Moved
        /\ tools' = tools /\ file' = file /\ led' = led
    BY <1>7 DEF Ends
  <2>2. new.ok = flag.ok /\ (flag.hooks = "on" /\ flag.old = "none" => new = flag)
    BY <1>0, FlagTyped
  <2> HIDE DEF new, n
  <2>3. run'.at = "idle" BY <2>1 DEF Idle
  <2>4. CASE run.smooth /\ flag' = new
    <3>1. still'.mode = run.mode /\ still'.data = run.data BY <2>1, <2>4
    <3>2. run.todo = {} /\ run.mode.to \subseteq tools BY <2>1 DEF Targets
    <3>3. ASSUME NEW t \in run.mode.to
          PROVE  Guarded(t, file[t], run.data, led[t]) /\ Flagged(t, run.data, flag)
      BY <2>1, <2>4, <3>2 DEF Halfway
    <3>4. ASSUME NEW t \in run.mode.to PROVE Flagged(t, run.data, flag')
      BY <2>2, <2>4, <3>3 DEF Flagged
    <3> QED BY <2>1, <2>3, <3>1, <3>2, <3>3, <3>4 DEF Halfway, After
  <2>5. CASE ~(run.smooth /\ flag' = new)
    <3>1. still'.mode = NoMode BY <2>1, <2>5, MovedMode
    <3> QED BY <2>3, <3>1 DEF Halfway, After
  <2> QED BY <2>4, <2>5
<1>8. ASSUME NEW t \in tools, Write(t) PROVE Halfway' /\ After'
  <2> DEFINE pend == (run.own[t] \cap run.data.hooks) \cup Created(t, Migrated(t), run.data)
  <2>1. /\ t \in AllTools /\ \A u \in AllTools \ {t} : file'[u] = file[u]
        /\ Done(t, TRUE, pend) /\ pend \in SUBSET Hooks
    BY <1>8, WriteTyped
  <2>2. Guarded(t, file'[t], run.data, pend) BY <1>8, WriteGuards
  <2>3. TRUE \in BOOLEAN OBVIOUS
  <2> HIDE DEF pend
  <2>4. /\ run'.todo = run.todo \ {t} /\ run'.mode = run.mode /\ run'.data = run.data
        /\ run'.at \in {"save", "write"}
        /\ run'.pend[t] = pend /\ \A u \in AllTools \ {t} : run'.pend[u] = run.pend[u]
        /\ run.good \subseteq run'.good /\ t \in run'.good
        /\ run'.smooth => /\ run.smooth
                          /\ t = "codex" /\ flag.ok => flag' = CodexFlag(run.data, run.own[t])
    BY <2>1, <2>3, DoneTyped
  <2>5. FlagStep(t) /\ run.at = "write" /\ t \in run.todo BY <1>8 DEF Write
  <2>6. flag'.ok = flag.ok /\ (t # "codex" => flag' = flag) BY <2>5, FlagStepTyped
  <2>7. SUFFICES ASSUME run'.smooth, NEW u \in run.mode.to \ run'.todo
                 PROVE  /\ u \in run'.good /\ Guarded(u, file'[u], run.data, run'.pend[u])
                        /\ Flagged(u, run.data, flag')
    BY <2>4 DEF Halfway, After
  <2>8. CASE u = t
    <3>1. Flagged(u, run.data, flag')
      <4>1. CASE t = "codex" /\ flag.ok BY <2>4, <2>7, <2>8, <4>1, CodexFlagged
      <4>2. CASE ~(t = "codex" /\ flag.ok) BY <2>6, <2>8, <4>2 DEF Flagged
      <4> QED BY <4>1, <4>2
    <3> QED BY <2>2, <2>4, <2>8, <3>1
  <2>9. CASE u # t
    <3>1. u \in run.mode.to \ run.todo /\ u \in AllTools \ {t}
      BY <1>0, <2>4, <2>9 DEF SyncRuns, SyncModes
    <3>2. /\ u \in run.good /\ Guarded(u, file[u], run.data, run.pend[u])
          /\ Flagged(u, run.data, flag)
      BY <2>4, <2>5, <2>7, <3>1 DEF Halfway
    <3>3. Flagged(u, run.data, flag')
      <4>1. CASE t = "codex" BY <2>9, <4>1 DEF Flagged
      <4>2. CASE t # "codex" BY <2>6, <3>2, <4>2
      <4> QED BY <4>1, <4>2
    <3> QED BY <2>1, <2>4, <3>1, <3>2, <3>3
  <2> QED BY <2>8, <2>9
<1>9. ASSUME NEW t \in tools, WriteFails(t) PROVE Halfway' /\ After'
  <2>1. Done(t, FALSE, {}) /\ t \in AllTools BY <1>0, <1>9 DEF WriteFails
  <2>2. FALSE \in BOOLEAN /\ {} \in SUBSET Hooks OBVIOUS
  <2>3. ~run'.smooth /\ run'.at # "idle" BY <2>1, <2>2, DoneTyped
  <2> QED BY <2>3 DEF Halfway, After
<1>10. CASE User
  <2>1. CASE \E u \in tools : UserBreaks(u) \/ UserRepairs(u)
    BY <2>1, DisturbsHalfway DEF UserBreaks, UserRepairs
  <2>2. CASE ~\E u \in tools : UserBreaks(u) \/ UserRepairs(u)
    <3>1. \/ \E u \in tools : UserAdds(u) \/ UserRescopes(u)
          \/ \E u \in tools, h \in Guards : UserJoins(u, h)
          \/ \E u \in tools, h \in Hooks : UserRemoves(u, h)
          \/ \E h \in Guards : UserMirrors(h)
      BY <1>10, <2>2 DEF User
    <3>2. Disturbs BY <3>1, EditsAre DEF Edited
    <3> QED BY <3>2, DisturbsHalfway
  <2> QED BY <2>1, <2>2
<1>11. CASE Resting BY <1>1, <1>11 DEF Resting
<1> QED BY <1>1, <1>2, <1>3, <1>4, <1>5, <1>6, <1>7, <1>8, <1>9, <1>10, <1>11 DEF Next, Sync

(* After a sync that ended well every hook of the source runs in every      *)
(* target that has its event, for every tool call it ran for in the source  *)
(* (mirrored onto cursor's shell event, and with codex' flag on): for every *)
(* set of tools and hooks, whatever the files held before.                  *)
THEOREM GuardedEverywhere == Spec => []GuardEverywhere
<1>1. After => GuardEverywhere
  <2> SUFFICES ASSUME After, still.mode # NoMode, run.at = "idle",
                      NEW t \in still.mode.to, NEW h \in still.data.hooks, Supports(t, h)
               PROVE  LET list == file[t][Event(h)]
                          names == TranslateTools(t, still.data.tools[h]) IN
                      /\ Present(list, h)
                      /\ \/ Reach(names) \subseteq Reaches(t, Event(h), list, h)
                         \/ \E i \in Holding(list, h) : Regex \in list[i].scope
                         \/ Shares(t, list, h, led[t])
                      /\ t = "cursor" /\ h \in Guards /\ "Shell" \in names
                         => Present(file[t]["shell"], h)
                      /\ t = "codex" /\ flag.ok => flag.hooks = "on" /\ flag.old = "none"
    BY DEF GuardEverywhere
  <2>1. Guarded(t, file[t], still.data, led[t]) /\ Flagged(t, still.data, flag) BY DEF After
  <2> QED BY <2>1 DEF Guarded, Flagged
<1>2. Init => Halfway /\ After BY InitHalfway
<1>3. Typed /\ Targets /\ Halfway /\ After /\ [Next]_vars => (Halfway /\ After)' BY HalfwayStep
<1> QED BY <1>1, <1>2, <1>3, HooksTyped, PTL DEF Spec

-----------------------------------------------------------------------------
(* Nothing left to change.                                                  *)

(* What is discovered, of the files and cursor's old arrays.                *)
Found(sources, files, old) ==
  LET found(h) == UNION {ReadScopes(t, files[t], old, h) : t \in sources}
  IN  [hooks |-> {h \in Hooks : found(h) # {}},
       tools |-> [h \in Hooks |-> IF found(h) = {} THEN {} ELSE Unioned(found(h))]]

(* Codex' flag when there is nothing left to change in it.                  *)
FlagSits(fl, data) ==
  fl.ok => /\ fl.old = "none"
           /\ (\E h \in data.hooks : Supports("codex", h)) => fl.hooks = "on"

(* A writer would leave its file, cursor's old arrays and codex' flag alone. *)
Sits(t, f, old, fl, data, own) ==
  /\ Merged(t, f, data, own) = f
  /\ t = "cursor" /\ (data.hooks # {} \/ own # {}) => old = <<>>
  /\ t = "codex" => FlagSits(fl, data)

(* A sync from one tool to others.                                          *)
OneTool(mode) == \E s : mode.from = {s} /\ s \notin mode.to

(* While such a sync goes well, its source is as it was read, and what it   *)
(* has written already sits.                                                *)
Steady ==
  run.at # "idle" /\ run.mode.from # tools =>
    /\ OneTool(run.mode)
    /\ run.smooth =>
         /\ run.data = Found(run.mode.from, file, legacy)
         /\ \A t \in run.mode.to \ run.todo :
              /\ t \in run.good /\ Sits(t, file[t], legacy, flag, run.data, run.pend[t])
              /\ run.at = "flag" => led[t] = run.pend[t]

(* And when it is over, until anything else happens.                        *)
Settled ==
  run.at = "idle" /\ still.mode # NoMode /\ still.mode.from # tools =>
    /\ OneTool(still.mode) /\ still.data = Found(still.mode.from, file, legacy)
    /\ \A t \in still.mode.to : Sits(t, file[t], legacy, flag, still.data, led[t])

(* So that, repeated, it finds what it has yet to write sitting there.      *)
Repeats ==
  run.at = "write" /\ still.mode = run.mode /\ run.mode.from # tools =>
    \A t \in run.todo : Sits(t, file[t], legacy, flag, run.data, run.own[t])

(* What is discovered in one tool is read from its file alone, or from      *)
(* cursor's old arrays when the tool is cursor.                             *)
LEMMA FoundSame ==
  ASSUME NEW s, NEW files, NEW news, NEW old, NEW new, news[s] = files[s],
         s = "cursor" => new = old
  PROVE  Found({s}, news, new) = Found({s}, files, old)
<1>1. ASSUME NEW h PROVE ReadScopes(s, news[s], new, h) = ReadScopes(s, files[s], old, h)
  <2>1. CASE s = "cursor" BY <2>1
  <2>2. CASE s # "cursor" BY <2>2 DEF ReadScopes
  <2> QED BY <2>1, <2>2
<1> DEFINE had(h) == UNION {ReadScopes(t, files[t], old, h) : t \in {s}}
           has(h) == UNION {ReadScopes(t, news[t], new, h) : t \in {s}}
<1>2. ASSUME NEW h PROVE had(h) = has(h)
  <2>1. had(h) = ReadScopes(s, files[s], old, h) OBVIOUS
  <2>2. has(h) = ReadScopes(s, news[s], new, h) OBVIOUS
  <2> QED BY <1>1, <2>1, <2>2
<1>3. /\ Found({s}, files, old)
           = [hooks |-> {h \in Hooks : had(h) # {}},
              tools |-> [h \in Hooks |-> IF had(h) = {} THEN {} ELSE Unioned(had(h))]]
      /\ Found({s}, news, new)
           = [hooks |-> {h \in Hooks : has(h) # {}},
              tools |-> [h \in Hooks |-> IF has(h) = {} THEN {} ELSE Unioned(has(h))]]
  BY DEF Found
<1> HIDE DEF had, has
<1> QED BY <1>2, <1>3

(* That is what a sync discovers.                                           *)
LEMMA DiscoversFound ==
  ASSUME NEW sources PROVE DiscoverHooks(sources) = Found(sources, file, legacy)
BY DEF DiscoverHooks, Found

(* A sync that is not for the wizard goes from one tool to others, to port  *)
(* what it finds.                                                           *)
LEMMA OneToolModes ==
  ASSUME NEW mode \in Modes, mode.from # tools
  PROVE  OneTool(mode) /\ mode.port
<1>1. ~\E p \in BOOLEAN : mode = [from |-> tools, to |-> tools, port |-> p] OBVIOUS
<1>2. PICK s \in tools, T \in {tools} \cup {{t} : t \in tools} :
        mode = [from |-> {s}, to |-> T \ {s}, port |-> TRUE]
  BY <1>1 DEF Modes
<1>3. mode.from = {s} /\ s \notin mode.to /\ mode.port BY <1>2
<1> QED BY <1>3 DEF OneTool

(* Codex' flag is left alone where nothing is left to change in it.         *)
LEMMA FlagStays ==
  ASSUME flag \in [ok : BOOLEAN, hooks : Settings, old : Settings], NEW data, NEW own,
         FlagSits(flag, data)
  PROVE  CodexFlag(data, own) = flag
<1>1. CASE \E h \in data.hooks : Supports("codex", h)
  BY <1>1 DEF CodexFlag, EnsureFlag, FlagSits
<1>2. CASE ~\E h \in data.hooks : Supports("codex", h)
  BY <1>2 DEF CodexFlag, EnsureFlag, FlagSits
<1> QED BY <1>1, <1>2

(* So it is once it has been set.                                           *)
LEMMA FlagSat ==
  ASSUME flag \in [ok : BOOLEAN, hooks : Settings, old : Settings], NEW data, NEW own,
         flag.ok
  PROVE  FlagSits(CodexFlag(data, own), data)
<1> DEFINE asked == \E h \in data.hooks : Supports("codex", h)
<1>1. ASSUME NEW enable \in BOOLEAN
      PROVE  EnsureFlag(enable).old = "none" /\ (enable => EnsureFlag(enable).hooks = "on")
  <2>1. CASE (enable => flag.hooks = "on") /\ flag.old = "none" BY <2>1 DEF EnsureFlag
  <2>2. CASE ~((enable => flag.hooks = "on") /\ flag.old = "none")
    BY <2>2 DEF EnsureFlag, Enabled
  <2> QED BY <2>1, <2>2
<1>2. CASE asked
  <2>1. CodexFlag(data, own) = EnsureFlag(TRUE) BY <1>2 DEF CodexFlag
  <2> QED BY <1>1, <2>1 DEF FlagSits
<1>3. CASE ~asked
  <2>1. CodexFlag(data, own) = EnsureFlag(FALSE) BY <1>3 DEF CodexFlag
  <2> QED BY <1>1, <1>3, <2>1 DEF FlagSits
<1> QED BY <1>2, <1>3

(* It sits on when another's is written.                                    *)
LEMMA SitsOn ==
  ASSUME NEW t, NEW f, NEW old, NEW new, new \in {old, <<>>}, NEW fl, NEW gl,
         t = "codex" => gl = fl, NEW data, NEW own, Sits(t, f, old, fl, data, own)
  PROVE  Sits(t, f, new, gl, data, own)
BY DEF Sits

(* What a writer writes sits, with what it comes to own.                    *)
LEMMA WriteSits ==
  ASSUME Typed, NEW t \in tools, Write(t), NEW pend,
         pend = (run.own[t] \cap run.data.hooks) \cup Created(t, Migrated(t), run.data),
         t = "codex" /\ flag.ok => flag' = CodexFlag(run.data, run.own[t])
  PROVE  Sits(t, file'[t], legacy', flag', run.data, pend)
<1> DEFINE f == Migrated(t)
           data == run.data
           own == run.own[t]
           new == file'[t]
<1>1. /\ t \in AllTools /\ f \in Files /\ data \in Data /\ own \in SUBSET Hooks
      /\ new = Merged(t, f, data, own)
  BY WriteTyped
<1>2. t \in FiveTools BY <1>1, Known
<1>3. pend = (own \cap data.hooks) \cup Created(t, f, data) /\ pend \subseteq data.hooks
  BY DEF Created
<1>4. t = "cursor" /\ data.hooks # {} => legacy' = <<>> BY DEF Write, HasWork
<1>5. t = "codex" => FlagSits(flag', data)
  <2>1. flag'.ok = flag.ok BY FlagStepTyped DEF Write
  <2>2. CASE flag.ok BY <2>2, FlagSat DEF Typed
  <2>3. CASE ~flag.ok BY <2>1, <2>3 DEF FlagSits
  <2> QED BY <2>2, <2>3
<1> HIDE DEF f, data, own, new
<1>6. Merged(t, new, data, pend) = new BY <1>1, <1>2, <1>3, MergedSettles
<1>7. Sits(t, new, legacy', flag', data, pend) BY <1>3, <1>4, <1>5, <1>6 DEF Sits
<1> QED BY <1>7 DEF new, data

(* A writer that finds its file sitting leaves everything as it is.         *)
LEMMA SitsIsLeft ==
  ASSUME Typed, NEW t \in tools, Write(t),
         Sits(t, file[t], legacy, flag, run.data, run.own[t])
  PROVE  UNCHANGED <<file, legacy, flag>>
<1>1. Migrated(t) = file[t]
  <2>1. CASE t = "cursor" /\ HasWork(t)
    <3>1. legacy = <<>> BY <2>1 DEF HasWork, Sits
    <3> DEFINE f == file[t]
    <3>2. f \in [Slots -> Seq(Entries)] /\ "pre" \in Slots
      <4>1. t \in AllTools BY Known DEF Typed
      <4>2. f \in Files BY <4>1 DEF Typed
      <4> QED BY <4>2, FileLists DEF Slots
    <3> HIDE DEF f
    <3> DEFINE list == f["pre"]
               old == legacy
    <3>3. FoldLeft(Migrate, list, old) = list
      <4>1. list \in Seq(Entries) /\ old \in Seq(Entries) /\ old = <<>> BY <3>1, <3>2 DEF Typed
      <4> HIDE DEF list, old
      <4> QED BY <4>1, MigrateFacts
    <3>4. [f EXCEPT !["pre"] = list] = f BY <3>2
    <3>5. MigrateLegacy(f, legacy) = f BY <3>3, <3>4 DEF MigrateLegacy
    <3> QED BY <2>1, <3>5 DEF Migrated, f
  <2>2. CASE ~(t = "cursor" /\ HasWork(t)) BY <2>2 DEF Migrated
  <2> QED BY <2>1, <2>2
<1>2. file' = file
  <2>1. file' = [file EXCEPT ![t] = file[t]] BY <1>1 DEF Write, Sits
  <2>2. file \in [AllTools -> Files] BY DEF Typed
  <2> QED BY <2>1, <2>2
<1>3. legacy' = legacy BY DEF Write, HasWork, Sits
<1>4. flag' = flag
  <2>1. CASE t = "codex"
    <3>1. CodexFlag(run.data, run.own[t]) = flag BY <2>1, FlagStays DEF Typed, Sits
    <3> QED BY <2>1, <3>1 DEF Write, FlagStep
  <2>2. CASE t # "codex" BY <2>2 DEF Write, FlagStep
  <2> QED BY <2>1, <2>2
<1> QED BY <1>2, <1>3, <1>4

(* What a hand disturbs is nowhere said to sit.                             *)
LEMMA DisturbsSteady ==
  ASSUME Typed, Steady, Settled, Disturbs, tools' = tools
  PROVE  Steady' /\ Settled' /\ Repeats'
<1>1. /\ run.at # "idle" => run'.smooth = FALSE
      /\ run'.at = run.at /\ run'.mode = run.mode
  <2>1. run \in SyncRuns BY DEF Typed
  <2>2. LET new == [run EXCEPT !.smooth = FALSE]
        IN  new.smooth = FALSE /\ new.at = run.at /\ new.mode = run.mode
    BY <2>1 DEF SyncRuns
  <2> QED BY <2>2 DEF Disturbs
<1>2. still'.mode = NoMode BY MovedMode DEF Disturbs
<1>3. Steady' BY <1>1 DEF Steady
<1>4. Settled' BY <1>2 DEF Settled
<1>5. Repeats'
  <2>1. ASSUME run.at = "write", run.mode.from # tools PROVE run.mode # NoMode
    BY <2>1 DEF Steady, OneTool, NoMode
  <2> QED BY <1>1, <1>2, <2>1 DEF Repeats
<1> QED BY <1>3, <1>4, <1>5

(* Nothing is said at the start.                                            *)
LEMMA InitSteady == ASSUME Init PROVE Steady /\ Settled /\ Repeats
<1>1. run.at = "idle" /\ still.mode = NoMode BY MovedMode DEF Init, Idle
<1> QED BY <1>1 DEF Steady, Settled, Repeats

(* A sync that starts.                                                      *)
LEMMA StartSteady ==
  ASSUME Typed, Settled, Start PROVE Steady' /\ Settled' /\ Repeats'
<1>1. PICK mode \in Modes :
        /\ run' = [Idle EXCEPT !.at = "write", !.mode = mode, !.todo = mode.to, !.own = led,
                     !.data = IF mode.port THEN DiscoverHooks(mode.from) ELSE NoData]
        /\ still' = IF still.mode = mode THEN still ELSE Moved
  BY DEF Start
<1>2. /\ run.at = "idle" /\ UNCHANGED <<tools, file, legacy, flag, led>> BY DEF Start
<1>3. /\ run'.at = "write" /\ run'.mode = mode /\ run'.todo = mode.to /\ run'.own = led
      /\ mode.port => run'.data = DiscoverHooks(mode.from)
  BY <1>1, Defaults DEF SyncRuns
<1>4. Settled' BY <1>3 DEF Settled
<1>5. CASE mode.from = tools BY <1>2, <1>3, <1>4, <1>5 DEF Steady, Repeats
<1>6. CASE mode.from # tools
  <2>1. OneTool(mode) /\ mode.port BY <1>6, OneToolModes
  <2>2. run'.data = Found(mode.from, file, legacy) BY <1>3, <2>1, DiscoversFound
  <2>3. Steady' BY <1>2, <1>3, <2>1, <2>2 DEF Steady
  <2>4. still'.mode = mode => still.mode = mode /\ mode # NoMode
    <3>1. mode # NoMode BY <2>1 DEF OneTool, NoMode
    <3> QED BY <1>1, <3>1, MovedMode
  <2>5. ASSUME still'.mode = mode, NEW t \in mode.to
        PROVE  Sits(t, file[t], legacy, flag, run'.data, led[t])
    BY <1>2, <1>6, <2>2, <2>4, <2>5 DEF Settled
  <2>6. Repeats' BY <1>2, <1>3, <2>5 DEF Repeats
  <2> QED BY <1>4, <2>3, <2>6
<1> QED BY <1>5, <1>6

(* A writer that ends well.                                                 *)
LEMMA WriteSteady ==
  ASSUME Typed, Targets, Steady, Repeats, NEW t \in tools, Write(t)
  PROVE  Steady' /\ Settled' /\ Repeats'
<1> DEFINE pend == (run.own[t] \cap run.data.hooks) \cup Created(t, Migrated(t), run.data)
<1>0. run \in SyncRuns /\ tools \subseteq AllTools BY Known DEF Typed
<1>1. /\ t \in AllTools /\ \A u \in AllTools \ {t} : file'[u] = file[u]
      /\ Done(t, TRUE, pend) /\ pend \in SUBSET Hooks
  BY WriteTyped
<1>2. t = "codex" /\ flag.ok /\ flag' = CodexFlag(run.data, run.own[t])
        => Sits(t, file'[t], legacy', flag', run.data, pend)
  BY WriteSits
<1>3. ~(t = "codex" /\ flag.ok) => Sits(t, file'[t], legacy', flag', run.data, pend)
  BY WriteSits
<1>4. TRUE \in BOOLEAN OBVIOUS
<1> HIDE DEF pend
<1>5. /\ run'.todo = run.todo \ {t} /\ run'.mode = run.mode /\ run'.data = run.data
      /\ run'.at \in {"save", "write"}
      /\ run'.pend[t] = pend /\ \A u \in AllTools \ {t} : run'.pend[u] = run.pend[u]
      /\ run.good \subseteq run'.good /\ t \in run'.good
      /\ run'.smooth => /\ run.smooth
                        /\ t = "codex" /\ flag.ok => flag' = CodexFlag(run.data, run.own[t])
  BY <1>1, <1>4, DoneTyped
<1>6. run'.own = run.own BY <1>1, <1>4, DoneTyped
<1>7. /\ FlagStep(t) /\ run.at = "write" /\ t \in run.todo /\ tools' = tools /\ still' = still
      /\ legacy' \in {legacy, <<>>} /\ (t # "cursor" => legacy' = legacy)
  BY DEF Write
<1>8. t # "codex" => flag' = flag BY <1>7, FlagStepTyped
<1>9. Settled' BY <1>5 DEF Settled
<1>10. CASE run.mode.from = tools BY <1>5, <1>7, <1>9, <1>10 DEF Steady, Repeats
<1>11. CASE run.mode.from # tools
  <2>1. PICK s : run.mode.from = {s} /\ s \notin run.mode.to BY <1>7, <1>11 DEF Steady, OneTool
  <2>2. s # t /\ s \in AllTools BY <1>0, <1>7, <2>1 DEF Targets, SyncRuns, SyncModes
  <2>3. Found({s}, file', legacy') = Found({s}, file, legacy)
    <3>1. file'[s] = file[s] BY <1>1, <2>2
    <3>2. s = "cursor" => legacy' = legacy BY <1>7, <2>2
    <3> QED BY <3>1, <3>2, FoundSame
  <2>4. ASSUME NEW u \in AllTools, u # t, NEW own,
               Sits(u, file[u], legacy, flag, run.data, own)
        PROVE  Sits(u, file'[u], legacy', flag', run.data, own)
    <3>1. file'[u] = file[u] BY <1>1, <2>4
    <3>2. u = "codex" => flag' = flag BY <1>8, <2>4
    <3> QED BY <1>7, <2>4, <3>1, <3>2, SitsOn
  <2>5. ASSUME run'.smooth, NEW u \in run.mode.to \ run'.todo
        PROVE  u \in run'.good /\ Sits(u, file'[u], legacy', flag', run.data, run'.pend[u])
    <3>1. CASE u = t BY <1>2, <1>3, <1>5, <2>5, <3>1
    <3>2. CASE u # t
      <4>1. u \in run.mode.to \ run.todo /\ u \in AllTools
        BY <1>0, <1>5, <2>5, <3>2 DEF SyncRuns, SyncModes
      <4>2. u \in run.good /\ Sits(u, file[u], legacy, flag, run.data, run.pend[u])
        BY <1>5, <1>7, <1>11, <2>5, <4>1 DEF Steady
      <4> QED BY <1>5, <2>4, <3>2, <4>1, <4>2
    <3> QED BY <3>1, <3>2
  <2>6. run'.smooth => run.data = Found(run.mode.from, file', legacy')
    BY <1>5, <1>7, <1>11, <2>1, <2>3 DEF Steady
  <2>7. Steady' BY <1>5, <1>7, <1>11, <2>1, <2>5, <2>6 DEF Steady, OneTool
  <2>8. ASSUME still.mode = run.mode, NEW u \in run'.todo
        PROVE  Sits(u, file'[u], legacy', flag', run.data, run.own[u])
    <3>1. u \in run.todo /\ u # t /\ u \in AllTools BY <1>0, <1>5 DEF SyncRuns
    <3>2. Sits(u, file[u], legacy, flag, run.data, run.own[u])
      BY <1>7, <1>11, <2>8, <3>1 DEF Repeats
    <3> QED BY <2>4, <3>1, <3>2
  <2>9. Repeats' BY <1>5, <1>6, <1>7, <2>8 DEF Repeats
  <2> QED BY <1>9, <2>7, <2>9
<1> QED BY <1>10, <1>11

(* Every step keeps all three.                                              *)
LEMMA SteadyStep ==
  ASSUME Typed, Targets, Steady, Settled, Repeats, [Next]_vars
  PROVE  Steady' /\ Settled' /\ Repeats'
<1>0. /\ run \in SyncRuns /\ tools \subseteq AllTools /\ led \in Ledgers
      /\ still \in [mode : SyncModes, data : Data, n : 0..2]
  BY Known DEF Typed
<1>1. CASE UNCHANGED vars
  <2>1. /\ run' = run /\ still' = still /\ file' = file /\ led' = led /\ flag' = flag
        /\ tools' = tools /\ legacy' = legacy
    BY <1>1 DEF vars
  <2> QED BY <2>1 DEF Steady, Settled, Repeats
<1>2. CASE Refuses
  <2>1. run.at = "idle" /\ run' = run /\ still'.mode = NoMode BY <1>2, MovedMode DEF Refuses
  <2> QED BY <2>1 DEF Steady, Settled, Repeats
<1>3. CASE Start BY <1>3, StartSteady
<1>4. CASE Save
  <2>1. /\ run.at = "save" /\ run'.at = "flag" /\ run'.mode = run.mode /\ run'.todo = run.todo
        /\ run'.data = run.data /\ run'.pend = run.pend /\ run'.good = run.good
        /\ run'.smooth = run.smooth
        /\ file' = file /\ flag' = flag /\ legacy' = legacy /\ tools' = tools
    BY <1>0, <1>4 DEF Save, SyncRuns
  <2>2. \A t \in AllTools : t \in run.good => led'[t] = run.pend[t] BY <1>4 DEF Save
  <2>3. run.mode.to \subseteq AllTools BY <1>0 DEF SyncRuns, SyncModes
  <2> QED BY <2>1, <2>2, <2>3 DEF Steady, Settled, Repeats
<1>5. CASE SaveFails
  <2>1. /\ run.at = "save" /\ run'.at = "flag" /\ run'.smooth = FALSE /\ run'.mode = run.mode
        /\ tools' = tools
    BY <1>0, <1>5 DEF SaveFails, SyncRuns
  <2> QED BY <2>1 DEF Steady, Settled, Repeats
<1>6. CASE Dies
  <2>1. run'.at = "idle" /\ still'.mode = NoMode BY <1>6, MovedMode DEF Dies, Idle
  <2> QED BY <2>1 DEF Steady, Settled, Repeats
<1>7. CASE Ends
  <2> DEFINE new == IF run.mode.from = {"codex"} THEN EnsureFlag(FALSE) ELSE flag
             n == IF run.moved THEN 0 ELSE IF still.n < 2 THEN still.n + 1 ELSE 2
  <2>1. /\ run.at = "flag" /\ run' = Idle /\ flag' \in {flag, new}
        /\ still' = IF run.smooth /\ flag' = new
                    THEN [mode |-> run.mode, data |-> run.data, n |-> n] ELSE Moved
        /\ tools' = tools /\ file' = file /\ led' = led /\ legacy' = legacy
    BY <1>7 DEF Ends
  <2>2. run.mode.from # {"codex"} => flag' = flag BY <2>1
  <2> HIDE DEF new, n
  <2>3. run'.at = "idle" /\ Steady' /\ Repeats' BY <2>1 DEF Idle, Steady, Repeats
  <2>4. CASE run.smooth /\ flag' = new
    <3>1. still'.mode = run.mode /\ still'.data = run.data BY <2>1, <2>4
    <3>2. run.todo = {} BY <2>1 DEF Targets
    <3>3. CASE run.mode.from = tools BY <2>1, <2>3, <3>1, <3>3 DEF Settled
    <3>4. CASE run.mode.from # tools
      <4>1. /\ OneTool(run.mode) /\ run.data = Found(run.mode.from, file, legacy)
            /\ \A t \in run.mode.to : Sits(t, file[t], legacy, flag, run.data, led[t])
        BY <2>1, <2>4, <3>2, <3>4 DEF Steady
      <4>2. ASSUME NEW t \in run.mode.to
            PROVE  Sits(t, file[t], legacy, flag', run.data, led[t])
        <5>1. t = "codex" => flag' = flag BY <2>2, <4>1 DEF OneTool
        <5>2. Sits(t, file[t], legacy, flag, run.data, led[t]) BY <4>1
        <5> QED BY <5>1, <5>2, SitsOn
      <4> QED BY <2>1, <2>3, <3>1, <4>1, <4>2 DEF Settled
    <3> QED BY <2>3, <3>3, <3>4
  <2>5. CASE ~(run.smooth /\ flag' = new)
    <3>1. still'.mode = NoMode BY <2>1, <2>5, MovedMode
    <3> QED BY <2>3, <3>1 DEF Settled
  <2> QED BY <2>4, <2>5
<1>8. ASSUME NEW t \in tools, Write(t) PROVE Steady' /\ Settled' /\ Repeats'
  BY <1>8, WriteSteady
<1>9. ASSUME NEW t \in tools, WriteFails(t) PROVE Steady' /\ Settled' /\ Repeats'
  <2>1. /\ Done(t, FALSE, {}) /\ t \in AllTools /\ run.at = "write" /\ flag' \in {flag, flag'}
        /\ UNCHANGED <<tools, file, still, legacy>>
        /\ (t \in broken => flag' = flag) /\ (t \notin broken => FlagStep(t))
    BY <1>0, <1>9 DEF WriteFails
  <2>2. FALSE \in BOOLEAN /\ {} \in SUBSET Hooks OBVIOUS
  <2>3. /\ ~run'.smooth /\ run'.at \in {"save", "write"} /\ run'.mode = run.mode
        /\ run'.data = run.data /\ run'.own = run.own /\ run'.todo = run.todo \ {t}
    BY <2>1, <2>2, DoneTyped
  <2>4. t # "codex" => flag' = flag BY <2>1, FlagStepTyped
  <2>5. Steady' /\ Settled' BY <2>1, <2>3 DEF Steady, Settled
  <2>6. ASSUME still.mode = run.mode, run.mode.from # tools, NEW u \in run'.todo
        PROVE  Sits(u, file[u], legacy, flag', run.data, run.own[u])
    <3>1. u \in run.todo /\ u # t BY <2>3, <2>6
    <3>2. Sits(u, file[u], legacy, flag, run.data, run.own[u])
      BY <2>1, <2>6, <3>1 DEF Repeats
    <3>3. u = "codex" => flag' = flag BY <2>4, <3>1
    <3> QED BY <3>2, <3>3, SitsOn
  <2>7. Repeats' BY <2>1, <2>3, <2>6 DEF Repeats
  <2> QED BY <2>5, <2>7
<1>10. CASE User
  <2>1. CASE \E u \in tools : UserBreaks(u) \/ UserRepairs(u)
    BY <2>1, DisturbsSteady DEF UserBreaks, UserRepairs
  <2>2. CASE ~\E u \in tools : UserBreaks(u) \/ UserRepairs(u)
    <3>1. \/ \E u \in tools : UserAdds(u) \/ UserRescopes(u)
          \/ \E u \in tools, h \in Guards : UserJoins(u, h)
          \/ \E u \in tools, h \in Hooks : UserRemoves(u, h)
          \/ \E h \in Guards : UserMirrors(h)
      BY <1>10, <2>2 DEF User
    <3>2. Disturbs /\ tools' = tools BY <3>1, EditsAre DEF Edited
    <3> QED BY <3>2, DisturbsSteady
  <2> QED BY <2>1, <2>2
<1>11. CASE Resting BY <1>1, <1>11 DEF Resting
<1> QED BY <1>1, <1>2, <1>3, <1>4, <1>5, <1>6, <1>7, <1>8, <1>9, <1>10, <1>11 DEF Next, Sync

(* What one step leaves alone.                                              *)
SettlesStep ==
  \A t \in tools :
    /\ Target(t) /\ still.mode = run.mode /\ ~Wizard(run.mode)
    => UNCHANGED <<file, legacy, flag>>

(* A repeated sync leaves what it finds sitting.                            *)
LEMMA RepeatsSettle ==
  ASSUME Typed, Targets, Repeats, [Next]_vars PROVE SettlesStep
<1> SUFFICES ASSUME NEW t \in tools, t \in run.todo, t \notin run'.todo,
                    still.mode = run.mode, run.mode.from # tools
             PROVE  UNCHANGED <<file, legacy, flag>>
  BY DEF SettlesStep, Target, Wizard
<1>1. ASSUME run.at = "write" PROVE Sits(t, file[t], legacy, flag, run.data, run.own[t])
  BY <1>1 DEF Repeats
<1>2. CASE Write(t)
  <2>1. run.at = "write" BY <1>2 DEF Write
  <2> QED BY <1>1, <1>2, <2>1, SitsIsLeft
<1>3. CASE WriteFails(t)
  <2>1. /\ run.at = "write" /\ UNCHANGED <<file, legacy>>
        /\ (t \in broken => flag' = flag) /\ (t \notin broken => FlagStep(t))
    BY <1>3 DEF WriteFails
  <2>2. Sits(t, file[t], legacy, flag, run.data, run.own[t]) BY <1>1, <2>1
  <2>3. FlagStep(t) => flag' = flag
    <3>1. CASE t = "codex"
      <4>1. CodexFlag(run.data, run.own[t]) = flag BY <2>2, <3>1, FlagStays DEF Typed, Sits
      <4> QED BY <4>1 DEF FlagStep
    <3>2. CASE t # "codex" BY <3>2 DEF FlagStep
    <3> QED BY <3>1, <3>2
  <2> QED BY <2>1, <2>3
<1> QED BY <1>2, <1>3, TargetDone

(* A sync from one tool that is repeated has nothing left to change: for    *)
(* every set of tools and hooks, in whichever order they are written and    *)
(* revoked, whatever the files held before.                                 *)
THEOREM OneToolAlwaysSettles == Spec => OneToolSettles
<1>1. Init => Steady /\ Settled /\ Repeats BY InitSteady
<1>2. Typed /\ Targets /\ Steady /\ Settled /\ Repeats /\ [Next]_vars
        => (Steady /\ Settled /\ Repeats)'
  BY SteadyStep
<1>3. Typed /\ Targets /\ Repeats /\ [Next]_vars => [SettlesStep]_vars BY RepeatsSettle
<1> QED BY <1>1, <1>2, <1>3, HooksTyped, PTL DEF Spec, OneToolSettles, SettlesStep

-----------------------------------------------------------------------------
(* One list, and every hook in it: what one writer does to the others that  *)
(* share an entry.                                                          *)

(* Here an entry may have no command.                                       *)
AnyEntries == [cmds : SUBSET Hooks, scope : Scopings]

(* Every entry of a list has a scope.                                       *)
LEMMA AnyEntryTyped ==
    ASSUME NEW list \in Seq(AnyEntries), NEW i \in DOMAIN list
    PROVE  list[i] \in AnyEntries /\ list[i].scope \in Scopings
<1>1. list[i] \in AnyEntries
  OBVIOUS
<1> QED
  BY <1>1 DEF AnyEntries

(* An entry that is given a scope no narrower than its own leaves the list  *)
(* running each of its hooks for no fewer tool calls.                       *)
LEMMA RescopingKeeps ==
    ASSUME NEW t, NEW event, NEW list \in Seq(AnyEntries), NEW h \in Hooks,
           NEW i, NEW scope,
           i \in DOMAIN list => Reach(list[i].scope) \subseteq Reach(scope)
    PROVE  Reaches(t, event, list, h) \subseteq Reaches(t, event, Rescoped(list, i, scope), h)
<1> DEFINE new == Rescoped(list, i, scope)
<1>a. /\ DOMAIN new = DOMAIN list
      /\ \A j \in DOMAIN list : j # i => new[j] = list[j]
  BY DEF Rescoped
<1>b. i \in DOMAIN list => new[i] = [list[i] EXCEPT !.scope = scope]
  BY DEF Rescoped
<1>c. i \in DOMAIN list => new[i].cmds = list[i].cmds /\ new[i].scope = scope
  <2>0. SUFFICES ASSUME i \in DOMAIN list
                 PROVE  new[i].cmds = list[i].cmds /\ new[i].scope = scope
    OBVIOUS
  <2>1. list[i] \in AnyEntries
    BY <2>0, AnyEntryTyped
  <2> QED
    BY <1>b, <2>0, <2>1 DEF AnyEntries
<1>1. /\ DOMAIN new = DOMAIN list
      /\ \A j \in DOMAIN list : new[j].cmds = list[j].cmds
      /\ \A j \in DOMAIN list : j # i => new[j].scope = list[j].scope
      /\ i \in DOMAIN list => new[i].scope = scope
  BY <1>a, <1>c
<1>2. Holding(new, h) = Holding(list, h)
  BY <1>1 DEF Holding
<1>3. \A j \in Holding(list, h) : Reach(list[j].scope) \subseteq Reach(new[j].scope)
  BY <1>1 DEF Holding
<1> QED
  BY <1>2, <1>3 DEF Reaches

(* What cursor's writer does to an entry that crossby did not write leaves  *)
(* each hook of the list running for no fewer tool calls.                   *)
THEOREM CursorNeverNarrows ==
    ASSUME NEW list \in Seq(AnyEntries), NEW h \in Hooks, NEW g \in Hooks,
           NEW names \in Scopings, NEW scoped \in BOOLEAN, NEW event,
           Present(list, h)
    PROVE  Reaches("cursor", event, list, g)
             \subseteq Reaches("cursor", event, CursorUpsert(list, h, names, scoped, FALSE), g)
<1> DEFINE i == FirstOf(list, h)
           scope == IF ~scoped THEN {}
                    ELSE IF list[i].scope = {} THEN {}
                    ELSE WidenMatcher(list[i].scope, names)
<1>1. CursorUpsert(list, h, names, scoped, FALSE) = Rescoped(list, i, scope)
  BY DEF CursorUpsert
<1>3. i \in DOMAIN list => list[i].scope \in Scopings
  BY AnyEntryTyped
<1>4. i \in DOMAIN list => Reach(list[i].scope) \subseteq Reach({})
  BY <1>3 DEF Reach, Scopings
<1>5. i \in DOMAIN list /\ list[i].scope # {}
        => Reach(list[i].scope) \subseteq Reach(WidenMatcher(list[i].scope, names))
  BY <1>3, WideningNeverNarrows
<1>6. i \in DOMAIN list => Reach(list[i].scope) \subseteq Reach(scope)
  BY <1>4, <1>5
<1> HIDE DEF i, scope
<1> QED
  BY <1>1, <1>6, RescopingKeeps

(* The same of the claude-shaped writers, on an entry that has a matcher:   *)
(* one without is given the scope that is asked for.                        *)
THEOREM ClaudeNeverNarrowsMatcher ==
    ASSUME NEW t \in {"claude", "codex", "agy"}, NEW list \in Seq(AnyEntries),
           NEW h \in Hooks, NEW g \in Hooks, NEW names \in Scopings,
           Present(list, h), list[FirstOf(list, h)].scope # {}
    PROVE  Reaches(t, Event(h), list, g)
             \subseteq Reaches(t, Event(h), ClaudeUpsert(t, list, h, names, FALSE), g)
<1> DEFINE i == FirstOf(list, h)
           scope == WidenMatcher(list[i].scope, names)
<1>1. ClaudeUpsert(t, list, h, names, FALSE)
        \in {list, Rescoped(list, i, {}), Rescoped(list, i, scope)}
  BY DEF ClaudeUpsert, MergeMatcher
<1>2. i \in DOMAIN list => list[i].scope \in Scopings
  BY AnyEntryTyped
<1>3. i \in DOMAIN list => Reach(list[i].scope) \subseteq Reach({})
  BY <1>2 DEF Reach, Scopings
<1>4. i \in DOMAIN list => Reach(list[i].scope) \subseteq Reach(scope)
  BY <1>2, WideningNeverNarrows
<1> HIDE DEF i, scope
<1> QED
  BY <1>1, <1>3, <1>4, RescopingKeeps
=============================================================================
