------------------------- MODULE SessionState_proofs -------------------------
(* The free list of session_allocer as a sequence of blocks: what linking all  *)
(* blocks, taking the head and giving a block back do to it.  The proofs about *)
(* modules Session and Gateway rest on these facts.                            *)
EXTENDS SessionState, SequenceTheorems, FiniteSetTheorems, TLAPS

Distinct(list) == \A i, j \in 1..Len(list) : list[i] = list[j] => i = j
Listed(a, list) == \E i \in 1..Len(list) : list[i] = a

(* One value of a function is replaced. *)
LEMMA Updated ==
  ASSUME NEW S, NEW T, NEW f \in [S -> T], NEW x \in S, NEW v \in T
  PROVE  /\ [f EXCEPT ![x] = v] \in [S -> T] /\ [f EXCEPT ![x] = v][x] = v
         /\ \A y \in S : y # x => [f EXCEPT ![x] = v][y] = f[y]
OBVIOUS

(* The list of a new pool holds every block once. *)
LEMMA FullListHoldsAll ==
  ASSUME NEW blocks, IsFiniteSet(blocks)
  PROVE  /\ FullList(blocks) \in Seq(blocks)
         /\ Distinct(FullList(blocks))
         /\ \A a \in blocks : Listed(a, FullList(blocks))
<1> DEFINE n == Cardinality(blocks)
           full(list) == /\ \A i, j \in DOMAIN list : list[i] = list[j] => i = j
                         /\ \A b \in blocks : \E i \in DOMAIN list : list[i] = b
<1>1. n \in Nat /\ ExistsBijection(1..n, blocks)
  BY FS_CardinalityType
<1>2. PICK f \in Bijection(1..n, blocks) : TRUE
  BY <1>1 DEF ExistsBijection
<1>3. f \in [1..n -> blocks] /\ full(f)
  BY <1>2 DEF Bijection, Injection, Surjection, IsInjective
<1>4. FullList(blocks) = CHOOSE list \in [1..n -> blocks] : full(list)
  BY DEF FullList
<1> HIDE DEF n, full
<1>5. FullList(blocks) \in [1..n -> blocks] /\ full(FullList(blocks))
  BY <1>3, <1>4
<1>6. /\ FullList(blocks) \in Seq(blocks) /\ Len(FullList(blocks)) = n
      /\ DOMAIN FullList(blocks) = 1..n
  BY <1>1, <1>5
<1> QED
  BY <1>5, <1>6 DEF full, Distinct, Listed

(* Pop: the head is not on the rest of the list. *)
LEMMA PopList ==
  ASSUME NEW S, NEW list \in Seq(S), list # <<>>, Distinct(list)
  PROVE  /\ Pop(list) \in Seq(S) /\ Distinct(Pop(list))
         /\ Head(list) \in S /\ Listed(Head(list), list)
         /\ \A a : Listed(a, Pop(list)) <=> Listed(a, list) /\ a # Head(list)
<1>1. /\ Tail(list) \in Seq(S) /\ Head(list) \in S /\ Head(list) = list[1]
      /\ Len(list) \in Nat /\ Len(list) >= 1 /\ Len(Tail(list)) = Len(list) - 1
      /\ \A i \in 1..Len(list) - 1 : Tail(list)[i] = list[i + 1]
  BY HeadTailProperties, LenProperties, EmptySeq
<1>2. Distinct(Tail(list))
  <2> SUFFICES ASSUME NEW i \in 1..Len(Tail(list)), NEW j \in 1..Len(Tail(list)),
                      Tail(list)[i] = Tail(list)[j]
               PROVE  i = j
    BY DEF Distinct
  <2>1. i + 1 \in 1..Len(list) /\ j + 1 \in 1..Len(list) /\ list[i + 1] = list[j + 1]
    BY <1>1
  <2>2. i + 1 = j + 1
    BY <2>1 DEF Distinct
  <2> QED
    BY <2>2
<1>3. ASSUME NEW a, Listed(a, Tail(list)) PROVE Listed(a, list) /\ a # Head(list)
  <2>1. PICK i \in 1..Len(Tail(list)) : Tail(list)[i] = a
    BY <1>3 DEF Listed
  <2>2. i + 1 \in 1..Len(list) /\ list[i + 1] = a /\ 1 \in 1..Len(list) /\ i + 1 # 1
    BY <1>1, <2>1
  <2> QED
    BY <1>1, <2>2 DEF Listed, Distinct
<1>4. ASSUME NEW a, Listed(a, list), a # Head(list) PROVE Listed(a, Tail(list))
  <2>1. PICK i \in 1..Len(list) : list[i] = a
    BY <1>4 DEF Listed
  <2>2. i # 1
    BY <1>1, <1>4, <2>1
  <2>3. i - 1 \in 1..Len(list) - 1 /\ (i - 1) + 1 = i
    BY <1>1, <2>2
  <2>4. Tail(list)[i - 1] = list[(i - 1) + 1]
    BY <1>1, <2>3
  <2> QED
    BY <1>1, <2>1, <2>3, <2>4 DEF Listed
<1>5. Listed(Head(list), list)
  <2>1. 1 \in 1..Len(list)
    BY <1>1
  <2> QED
    BY <1>1, <2>1 DEF Listed
<1> QED
  BY <1>1, <1>2, <1>3, <1>4, <1>5 DEF Pop

(* Push: a block that is not on the list becomes its head. *)
LEMMA PushList ==
  ASSUME NEW S, NEW list \in Seq(S), NEW a \in S, Distinct(list), ~ Listed(a, list)
  PROVE  /\ Push(list, a) \in Seq(S) /\ Distinct(Push(list, a))
         /\ \A b : Listed(b, Push(list, a)) <=> b = a \/ Listed(b, list)
<1> DEFINE one == <<a>>
           new == one \o list
<1>1. one \in Seq(S) /\ Len(one) = 1 /\ one[1] = a
  OBVIOUS
<1> HIDE DEF one
<1>2. /\ new \in Seq(S) /\ Len(new) = 1 + Len(list) /\ Len(list) \in Nat
      /\ \A i \in 1..1 + Len(list) : new[i] = IF i <= 1 THEN one[i] ELSE list[i - 1]
  <2>1. /\ one \o list \in Seq(S) /\ Len(one \o list) = Len(one) + Len(list)
        /\ \A i \in 1..Len(one) + Len(list) :
             (one \o list)[i] = IF i <= Len(one) THEN one[i] ELSE list[i - Len(one)]
    BY <1>1, ConcatProperties
  <2>2. Len(list) \in Nat
    BY LenProperties
  <2> QED
    BY <1>1, <2>1, <2>2 DEF new
<1>3. Push(list, a) = new
  BY DEF Push, one
<1> HIDE DEF new
<1>4. /\ new[1] = a
      /\ \A i \in 1..Len(new) : i # 1 => i - 1 \in 1..Len(list) /\ new[i] = list[i - 1]
  BY <1>1, <1>2
<1>5. Distinct(new)
  <2> SUFFICES ASSUME NEW i \in 1..Len(new), NEW j \in 1..Len(new), new[i] = new[j]
               PROVE  i = j
    BY DEF Distinct
  <2>1. CASE i = 1 \/ j = 1
    BY <1>2, <1>4, <2>1 DEF Listed
  <2>2. CASE i # 1 /\ j # 1
    <3>1. list[i - 1] = list[j - 1] /\ i - 1 \in 1..Len(list) /\ j - 1 \in 1..Len(list)
      BY <1>4, <2>2
    <3>2. i - 1 = j - 1
      BY <3>1 DEF Distinct
    <3> QED
      BY <1>2, <3>2
  <2> QED
    BY <2>1, <2>2
<1>6. ASSUME NEW b, Listed(b, new) PROVE b = a \/ Listed(b, list)
  BY <1>4, <1>6 DEF Listed
<1>7. ASSUME NEW b, b = a \/ Listed(b, list) PROVE Listed(b, new)
  <2>1. CASE b = a
    <3>1. 1 \in 1..Len(new)
      BY <1>2
    <3> QED
      BY <1>4, <2>1, <3>1 DEF Listed
  <2>2. CASE Listed(b, list)
    <3>1. PICK i \in 1..Len(list) : list[i] = b
      BY <2>2 DEF Listed
    <3>2. i + 1 \in 1..Len(new) /\ i + 1 # 1 /\ (i + 1) - 1 = i
      BY <1>2
    <3>3. new[i + 1] = list[(i + 1) - 1]
      BY <1>4, <3>2
    <3> QED
      BY <3>1, <3>2, <3>3 DEF Listed
  <2> QED
    BY <1>7, <2>1, <2>2
<1> QED
  BY <1>2, <1>3, <1>5, <1>6, <1>7

(* The first n blocks are taken at once. *)
LEMMA DropList ==
  ASSUME NEW S, NEW list \in Seq(S), Distinct(list), NEW n \in Nat, n <= Len(list)
  PROVE  LET rest == SubSeq(list, n + 1, Len(list))
         IN /\ rest \in Seq(S) /\ Distinct(rest)
            /\ \A a : Listed(a, rest) <=> Listed(a, list) /\ \A i \in 1..n : list[i] # a
<1> DEFINE rest == SubSeq(list, n + 1, Len(list))
<1>0. Len(list) \in Nat /\ \A i \in 1..Len(list) : list[i] \in S
  BY LenProperties, ElementOfSeq
<1>1. /\ rest \in Seq(S) /\ Len(rest) = Len(list) - n
      /\ \A i \in 1..Len(rest) : rest[i] = list[n + i]
  <2>1. /\ n + 1 \in Int /\ Len(list) \in Int
        /\ \A i \in (n + 1)..Len(list) : list[i] \in S
    BY <1>0
  <2>2. /\ rest \in Seq(S)
        /\ Len(rest) = IF n + 1 <= Len(list) THEN Len(list) - (n + 1) + 1 ELSE 0
        /\ \A i \in 1..Len(list) - (n + 1) + 1 : rest[i] = list[(n + 1) + i - 1]
    BY <2>1, SubSeqProperties
  <2> HIDE DEF rest
  <2>3. Len(rest) = Len(list) - n
    BY <1>0, <2>2
  <2>4. ASSUME NEW i \in 1..Len(rest) PROVE rest[i] = list[n + i]
    <3>1. i \in 1..Len(list) - (n + 1) + 1 /\ (n + 1) + i - 1 = n + i
      BY <1>0, <2>3
    <3> QED
      BY <2>2, <3>1
  <2> QED
    BY <2>2, <2>3, <2>4
<1> HIDE DEF rest
<1>2. ASSUME NEW i \in 1..Len(rest) PROVE n + i \in 1..Len(list) /\ n + i \notin 1..n
  BY <1>0, <1>1
<1>3. Distinct(rest)
  <2> SUFFICES ASSUME NEW i \in 1..Len(rest), NEW j \in 1..Len(rest), rest[i] = rest[j]
               PROVE  i = j
    BY DEF Distinct
  <2>1. list[n + i] = list[n + j]
    BY <1>1
  <2>2. n + i = n + j
    BY <1>2, <2>1 DEF Distinct
  <2> QED
    BY <2>2
<1>4. ASSUME NEW a, Listed(a, rest)
      PROVE Listed(a, list) /\ \A i \in 1..n : list[i] # a
  <2>1. PICK i \in 1..Len(rest) : rest[i] = a
    BY <1>4 DEF Listed
  <2>2. list[n + i] = a /\ n + i \in 1..Len(list) /\ n + i \notin 1..n
    BY <1>1, <1>2, <2>1
  <2>3. \A j \in 1..n : j \in 1..Len(list)
    BY <1>0
  <2> QED
    BY <2>2, <2>3 DEF Listed, Distinct
<1>5. ASSUME NEW a, Listed(a, list), \A i \in 1..n : list[i] # a PROVE Listed(a, rest)
  <2>1. PICK i \in 1..Len(list) : list[i] = a
    BY <1>5 DEF Listed
  <2>2. i \notin 1..n
    BY <1>5, <2>1
  <2>3. i - n \in 1..Len(rest) /\ n + (i - n) = i
    BY <1>0, <1>1, <2>2
  <2>4. rest[i - n] = a
    BY <1>1, <2>1, <2>3
  <2> QED
    BY <2>3, <2>4 DEF Listed
<1> QED
  BY <1>1, <1>3, <1>4, <1>5 DEF rest

(* Each stage belongs to one phase of a life.                                  *)
LEMMA Phases ==
  ASSUME NEW s, s.stage \in Stages
  PROVE  /\ phase(s) = "free" <=> s.stage = "free"
         /\ phase(s) = "used" <=> s.stage \in {"connecting", "open", "orphan"}
         /\ phase(s) = "ended" <=> s.stage = "shutdown"
         /\ phase(s) = "closing" <=> s.stage \in {"cancelled", "closing"}
         /\ isShotdown(s) <=> phase(s) \in {"ended", "closing"}
BY DEF phase, Stages, isShotdown

(* Two objects in the same stage are in the same phase.                        *)
LEMMA SamePhase ==
  ASSUME NEW r, NEW s, r.stage = s.stage
  PROVE  phase(r) = phase(s)
BY DEF phase
=============================================================================
