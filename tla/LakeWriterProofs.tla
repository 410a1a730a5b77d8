---------------------------- MODULE LakeWriterProofs ----------------------------
(***************************************************************************)
(* Proofs about LakeWriter, for every number of values, threshold, number  *)
(* of keys and number of failures.                                         *)
(***************************************************************************)
EXTENDS LakeWriter, Integers, TLAPS

-------------------------------------------------------------------------------
(* An element of a sequence is replaced, or one is appended. *)
LEMMA ReplaceElement ==
    ASSUME NEW S, NEW s \in Seq(S), NEW i \in 1..Len(s), NEW e \in S
    PROVE  /\ [s EXCEPT ![i] = e] \in Seq(S)
           /\ Len([s EXCEPT ![i] = e]) = Len(s)
           /\ DOMAIN [s EXCEPT ![i] = e] = 1..Len(s)
           /\ [s EXCEPT ![i] = e][i] = e
           /\ \A j \in 1..Len(s) : j # i => [s EXCEPT ![i] = e][j] = s[j]
  OBVIOUS

LEMMA AppendElement ==
    ASSUME NEW S, NEW s \in Seq(S), NEW e \in S
    PROVE  /\ Append(s, e) \in Seq(S)
           /\ Len(Append(s, e)) = Len(s) + 1
           /\ DOMAIN Append(s, e) = 1..(Len(s) + 1)
           /\ Append(s, e)[Len(s) + 1] = e
           /\ \A j \in 1..Len(s) : Append(s, e)[j] = s[j]
           /\ Append(s, e) # <<>>
  OBVIOUS

(* A place among the objects: value k of object i. *)
Place(vals, i, k) == i \in DOMAIN vals /\ k \in DOMAIN vals[i]

(* Object m, the last one of new, has the next values, n + 1 to n2, after    *)
(* the p values that vals has there; vals may lack it, p being 0 then.      *)
Extended(vals, new, n, n2, m, p, q) ==
    /\ n \in Nat /\ m \in Nat /\ p \in Nat /\ q \in Nat
    /\ n2 = n + (q - p) /\ p <= q /\ m # 0
    /\ DOMAIN new = 1..m /\ DOMAIN new[m] = 1..q
    /\ \/ DOMAIN vals = 1..m /\ DOMAIN vals[m] = 1..p
       \/ DOMAIN vals = 1..(m - 1) /\ p = 0
    /\ \A i \in 1..(m - 1) : new[i] = vals[i]
    /\ \A k \in 1..p : new[m][k] = vals[m][k]
    /\ \A k \in 1..q : k > p => new[m][k] = n + (k - p)

LEMMA CompleteExtend ==
    ASSUME NEW vals, NEW new, NEW n, NEW n2, NEW m, NEW p, NEW q,
           Complete(vals, n), Extended(vals, new, n, n2, m, p, q)
    PROVE  Complete(new, n2)
<1> USE DEF Extended
<1>1. \A i, k : Place(vals, i, k) => vals[i][k] \in 1..n
  BY DEF Complete, Place
<1>2. \A i, j, k, l : Place(vals, i, k) /\ Place(vals, j, l) /\ (i < j \/ (i = j /\ k < l))
        => vals[i][k] < vals[j][l]
  BY DEF Complete, Place
<1>3. ASSUME NEW i, NEW k, Place(new, i, k)
      PROVE  \/ Place(vals, i, k) /\ new[i][k] = vals[i][k]
             \/ i = m /\ k \in 1..q /\ k > p /\ new[i][k] = n + (k - p)
  <2>1. CASE i = m
    <3>1. k \in 1..q /\ m \in 1..m
      BY <1>3, <2>1 DEF Place
    <3>2. CASE k > p
      BY <2>1, <3>1, <3>2
    <3>3. CASE ~(k > p)
      <4>1. k \in 1..p
        BY <3>1, <3>3
      <4>2. DOMAIN vals = 1..m /\ DOMAIN vals[m] = 1..p
        BY <4>1
      <4>3. new[m][k] = vals[m][k]
        BY <4>1
      <4> QED BY <2>1, <3>1, <4>1, <4>2, <4>3, Zenon DEF Place
    <3> QED BY <3>2, <3>3
  <2>2. CASE i # m
    BY <1>3, <2>2 DEF Place
  <2> QED BY <2>1, <2>2
<1>4. ASSUME NEW i, NEW k, Place(vals, i, k)
      PROVE  Place(new, i, k) /\ new[i][k] = vals[i][k]
  <2>1. CASE i = m
    BY <1>4, <2>1 DEF Place
  <2>2. CASE i # m
    BY <1>4, <2>2 DEF Place
  <2> QED BY <2>1, <2>2
<1>5. ASSUME NEW v \in 1..n2
      PROVE  \E i \in DOMAIN new : \E k \in DOMAIN new[i] : new[i][k] = v
  <2>1. CASE v <= n
    <3>1. \E i, k : Place(vals, i, k) /\ vals[i][k] = v
      BY <2>1 DEF Complete, Place
    <3> QED BY <1>4, <3>1 DEF Place
  <2>2. CASE v > n
    <3>1. p + (v - n) \in 1..q /\ p + (v - n) > p
      BY <2>2
    <3>2. new[m][p + (v - n)] = v
      BY <3>1
    <3>3. m \in DOMAIN new /\ p + (v - n) \in DOMAIN new[m]
      BY <3>1
    <3> QED BY <3>2, <3>3, Zenon
  <2> QED BY <2>1, <2>2
<1>6. ASSUME NEW i, NEW k, Place(new, i, k)
      PROVE  new[i][k] \in 1..n2
  <2>1. CASE Place(vals, i, k) /\ new[i][k] = vals[i][k]
    <3>1. vals[i][k] \in 1..n
      BY <1>1, <2>1
    <3> QED BY <2>1, <3>1
  <2>2. CASE i = m /\ k \in 1..q /\ k > p /\ new[i][k] = n + (k - p)
    BY <2>2
  <2> QED BY <1>3, <1>6, <2>1, <2>2
<1>7. ASSUME NEW i, NEW j, NEW k, NEW l, Place(new, i, k), Place(new, j, l),
             i < j \/ (i = j /\ k < l)
      PROVE  new[i][k] < new[j][l]
  <2>0. /\ i \in 1..m /\ j \in 1..m
        /\ n \in Nat /\ m \in Nat /\ p \in Nat /\ q \in Nat
    BY <1>7 DEF Place
  <2> HIDE DEF Extended
  <2>1. CASE Place(vals, i, k) /\ new[i][k] = vals[i][k]
    <3>1. vals[i][k] \in 1..n
      BY <1>1, <2>1
    <3>2. CASE Place(vals, j, l) /\ new[j][l] = vals[j][l]
      BY <1>2, <1>7, <2>1, <3>2, Zenon
    <3>3. CASE j = m /\ l \in 1..q /\ l > p /\ new[j][l] = n + (l - p)
      BY <2>0, <2>1, <3>1, <3>3
    <3> QED BY <1>3, <1>7, <3>2, <3>3
  <2>2. CASE i = m /\ k \in 1..q /\ k > p /\ new[i][k] = n + (k - p)
    <3>1. j = m /\ k < l
      BY <1>7, <2>0, <2>2
    <3>2. l \in 1..q /\ l > p
      <4>1. l \in 1..q
        BY <1>7, <3>1 DEF Extended, Place
      <4> QED BY <2>0, <2>2, <3>1, <4>1
    <3>3. new[j][l] = n + (l - p)
      BY <3>1, <3>2 DEF Extended
    <3> QED BY <2>0, <2>2, <3>1, <3>2, <3>3
  <2> QED BY <1>3, <1>7, <2>1, <2>2
<1> QED BY <1>5, <1>6, <1>7 DEF Complete, Place
-------------------------------------------------------------------------------
LEMMA WriterInit == Init => WriterInv
<1> SUFFICES ASSUME Init PROVE WriterInv
  OBVIOUS
<1> USE WriterAssumption, SortedAssumption DEF Init
<1>1. TypeOK
  <2>1. mem \in [Buffers -> Seq(1..MaxVals)] /\ \A x \in Buffers : Len(mem[x]) <= Threshold
    BY DEF Buffers
  <2>2. /\ objects \in Seq(ObjectSet) /\ jobs \in Seq(JobSet) /\ keys \in Seq(1..MaxKey)
        /\ sObjects \in Seq(Seq(1..MaxVals))
    OBVIOUS
  <2>3. faults \in 0..MaxFaults /\ nvals \in 0..MaxVals /\ orphans \in 0..1
    OBVIOUS
  <2>4. filling \in Buffers /\ buffer \subseteq Buffers
    BY DEF Buffers
  <2> QED BY <2>1, <2>2, <2>3, <2>4 DEF TypeOK
<1>2. JobsInv /\ CallerInv
  BY DEF JobsInv, CallerInv, LastJob, Buffers
<1>3. ValuesInv
  BY DEF ValuesInv, Flipped, Pending, Writing, HasObject, LastJob, Complete, Buffers
<1>4. SortedInv
  BY DEF SortedInv, Complete
<1> QED BY <1>1, <1>2, <1>3, <1>4 DEF WriterInv

(* What the invariant says of the goroutines and of the values stays with   *)
(* the state it is about.                                                  *)
LEMMA JobsStay ==
    ASSUME WriterInv, UNCHANGED <<filling, buffer, closed, objects, jobs, egErr>>
    PROVE  JobsInv' /\ LastJob' = LastJob
<1>1. LastJob' = LastJob
  BY DEF LastJob
<1> QED BY <1>1 DEF WriterInv, JobsInv

LEMMA ValuesStay ==
    ASSUME WriterInv, UNCHANGED <<mem, filling, closed, nvals, objects, jobs>>
    PROVE  ValuesInv'
<1>1. LastJob' = LastJob
  BY DEF LastJob
<1>2. Flipped' = Flipped /\ Pending' = Pending /\ HasObject' = HasObject
  BY <1>1 DEF Flipped, Pending, Writing, HasObject
<1> QED BY <1>2 DEF WriterInv, ValuesInv

LEMMA WriterStays ==
    ASSUME WriterInv, UNCHANGED writerVars
    PROVE  JobsInv' /\ ValuesInv'
  BY JobsStay, ValuesStay DEF writerVars

LEMMA SortedStays ==
    ASSUME WriterInv, UNCHANGED sortedVars, result' = "none" => result = "none"
    PROVE  SortedInv'
  BY DEF WriterInv, SortedInv, sortedVars

(* The context is cancelled, or nothing changes. *)
LEMMA WriterIdle ==
    ASSUME WriterInv, Cancel \/ UNCHANGED vars
    PROVE  WriterInv'
<1>1. UNCHANGED <<kind, faults, result, writerVars, sortedVars>> /\ ctxDone' \in BOOLEAN
  BY DEF Cancel, vars, common, WriterInv, TypeOK
<1>2. TypeOK'
  BY <1>1 DEF WriterInv, TypeOK, writerVars, sortedVars
<1>3. CallerInv'
  BY <1>1 DEF WriterInv, CallerInv, LastJob, writerVars
<1> QED BY <1>1, <1>2, <1>3, WriterStays, SortedStays DEF WriterInv

-------------------------------------------------------------------------------
(* Steps of the SortedWriter. *)
LEMMA SortedCommon ==
    ASSUME WriterInv, kind = "sorted", UNCHANGED <<kind, writerVars>>
    PROVE  JobsInv' /\ ValuesInv' /\ CallerInv'
  BY WriterStays DEF WriterInv, CallerInv, LastJob, writerVars

(* The call ends, with an error or without one. *)
LEMMA SortedEnds ==
    ASSUME WriterInv,
           SortedClose \/ SortedCloseFails \/ \E key \in 1..MaxKey : SortedWriteFails(key)
    PROVE  WriterInv'
<1>1. /\ kind = "sorted" /\ UNCHANGED <<kind, ctxDone, writerVars, keys, sObjects, full>>
      /\ result' \in {"ok", "err"} /\ open' \in BOOLEAN /\ removed' \in BOOLEAN
  BY DEF SortedClose, SortedCloseFails, SortedWriteFails, Abort, WriterInv, TypeOK
<1>2. orphans' \in 0..1
  <2>1. orphans' \in {0, 1} \/ orphans' = orphans
    BY DEF SortedClose, SortedCloseFails, SortedWriteFails
  <2> QED BY <2>1 DEF WriterInv, TypeOK
<1>3. faults' \in 0..MaxFaults
  BY SortedAssumption DEF SortedClose, SortedCloseFails, SortedWriteFails, Failing, WriterInv, TypeOK
<1>4. TypeOK'
  BY <1>1, <1>2, <1>3 DEF WriterInv, TypeOK, writerVars
<1>5. SortedInv'
  BY <1>1 DEF WriterInv, SortedInv
<1> QED BY <1>1, <1>4, <1>5, SortedCommon DEF WriterInv

(* What stays ordered: keys do not decrease, and objects do not share keys. *)
KeysInv(ks, n) == \A a, b \in 1..n : a <= b => ks[a] <= ks[b]

Apart(ks, objs, m) ==
    \A i, j \in 1..m : i < j =>
        \A k \in DOMAIN objs[i], l \in DOMAIN objs[j] : ks[objs[i][k]] < ks[objs[j][l]]

(* The next key is not smaller than the last one. *)
LEMMA KeysExtend ==
    ASSUME NEW ks, NEW new, NEW n \in Nat, NEW key \in Nat,
           KeysInv(ks, n), \A a \in 1..n : ks[a] \in Nat, n # 0 => ks[n] <= key,
           \A a \in 1..n : new[a] = ks[a], new[n + 1] = key
    PROVE  KeysInv(new, n + 1) /\ \A a \in 1..n : ks[a] <= key
<1>1. ASSUME NEW a \in 1..n PROVE ks[a] <= key
  <2>1. n \in 1..n /\ ks[a] <= ks[n] /\ ks[n] \in Nat /\ ks[a] \in Nat
    BY DEF KeysInv
  <2> QED BY <2>1
<1>2. ASSUME NEW a \in 1..(n + 1), NEW b \in 1..(n + 1), a <= b PROVE new[a] <= new[b]
  <2>1. CASE b \in 1..n
    BY <1>2, <2>1 DEF KeysInv
  <2>2. CASE b = n + 1 /\ a \in 1..n
    BY <1>1, <2>2
  <2>3. CASE b = n + 1 /\ a = n + 1
    BY <2>3
  <2> QED BY <1>2, <2>1, <2>2, <2>3
<1> QED BY <1>1, <1>2 DEF KeysInv

(* Value n + 1, with the next key, is in object m2 of objs2: a new object,  *)
(* if the key is larger than all before, or the last object of objs, which  *)
(* is not empty.                                                            *)
KeyAdded(ks, new, objs, objs2, n, m, m2, key) ==
    /\ n \in Nat /\ m \in Nat /\ m2 \in Nat /\ key \in Nat
    /\ new[n + 1] = key
    /\ \A a \in 1..n : new[a] = ks[a] /\ ks[a] \in Nat /\ ks[a] <= key
    /\ \A i \in 1..m : \A k \in DOMAIN objs[i] : objs[i][k] \in 1..n
    /\ \/ m2 = m + 1 /\ \A a \in 1..n : ks[a] < key
       \/ m2 = m /\ m # 0 /\ DOMAIN objs[m] # {}
    /\ \A i \in 1..(m2 - 1) : objs2[i] = objs[i]
    /\ \A k \in DOMAIN objs2[m2] : \/ objs2[m2][k] = n + 1
                                   \/ /\ m2 = m /\ k \in DOMAIN objs[m]
                                      /\ objs2[m2][k] = objs[m][k]

LEMMA ApartExtend ==
    ASSUME NEW ks, NEW new, NEW objs, NEW objs2, NEW n, NEW m, NEW m2, NEW key,
           Apart(ks, objs, m), KeyAdded(ks, new, objs, objs2, n, m, m2, key)
    PROVE  Apart(new, objs2, m2)
<1> USE DEF KeyAdded
<1> SUFFICES ASSUME NEW i \in 1..m2, NEW j \in 1..m2, i < j,
                    NEW k \in DOMAIN objs2[i], NEW l \in DOMAIN objs2[j]
             PROVE  new[objs2[i][k]] < new[objs2[j][l]]
  BY DEF Apart
<1>1. i \in 1..m /\ i \in 1..(m2 - 1) /\ objs2[i] = objs[i] /\ k \in DOMAIN objs[i]
  OBVIOUS
<1>2. objs[i][k] \in 1..n /\ new[objs2[i][k]] = ks[objs[i][k]]
  BY <1>1
<1>3. CASE objs2[j][l] = n + 1
  <2>1. CASE m2 = m + 1 /\ \A a \in 1..n : ks[a] < key
    BY <1>2, <1>3, <2>1
  <2>2. CASE m2 = m /\ m # 0 /\ DOMAIN objs[m] # {}
    <3>1. PICK y \in DOMAIN objs[m] : TRUE
      BY <2>2
    <3>2. i < m /\ m \in 1..m
      BY <1>1, <2>2
    <3>3. objs[m][y] \in 1..n
      BY <3>1, <3>2
    <3>4. ks[objs[i][k]] < ks[objs[m][y]]
      BY <1>1, <3>1, <3>2 DEF Apart
    <3>5. ks[objs[m][y]] <= key /\ ks[objs[m][y]] \in Nat /\ ks[objs[i][k]] \in Nat
      BY <1>2, <3>3
    <3>6. ks[objs[i][k]] < key
      BY <3>4, <3>5
    <3> QED BY <1>2, <1>3, <3>6
  <2> QED BY <2>1, <2>2
<1>4. CASE objs2[j][l] # n + 1
  <2>1. j \in 1..m /\ l \in DOMAIN objs[j] /\ objs2[j][l] = objs[j][l]
    <3>1. CASE j = m2
      BY <1>4, <3>1
    <3>2. CASE j # m2
      <4>1. j \in 1..(m2 - 1) /\ j \in 1..m
        BY <3>2
      <4> QED BY <4>1
    <3> QED BY <3>1, <3>2
  <2>2. objs[j][l] \in 1..n
    BY <2>1
  <2>3. ks[objs[i][k]] < ks[objs[j][l]]
    BY <1>1, <2>1 DEF Apart
  <2> QED BY <1>2, <2>1, <2>2, <2>3
<1> QED BY <1>3, <1>4

(* A value is written. *)
LEMMA SortedWrites ==
    ASSUME WriterInv, NEW key \in 1..MaxKey, SortedWrite(key)
    PROVE  WriterInv'
<1> DEFINE n == Len(keys)
           m == Len(sObjects)
<1>1. /\ kind = "sorted" /\ result = "none" /\ n < MaxVals
      /\ UNCHANGED <<kind, faults, ctxDone, result, writerVars, orphans, removed>>
      /\ keys' = Append(keys, key)
      /\ open' = TRUE /\ full' \in BOOLEAN
      /\ keys # <<>> => key >= keys[n]
  BY DEF SortedWrite, common, WriterInv, TypeOK
<1>2. keys \in Seq(1..MaxKey) /\ sObjects \in Seq(Seq(1..MaxVals))
  BY DEF WriterInv, TypeOK
<1>3. /\ n \in Nat /\ DOMAIN keys = 1..n /\ \A a \in 1..n : keys[a] \in 1..MaxKey
      /\ keys = <<>> <=> n = 0
      /\ keys' \in Seq(1..MaxKey) /\ Len(keys') = n + 1 /\ DOMAIN keys' = 1..(n + 1)
      /\ \A a \in 1..n : keys'[a] = keys[a]
      /\ keys'[n + 1] = key
      /\ MaxVals \in Nat /\ n + 1 \in 1..MaxVals /\ key \in Nat /\ MaxKey \in Nat
  BY <1>1, <1>2, WriterAssumption, SortedAssumption
<1>4. /\ m \in Nat /\ DOMAIN sObjects = 1..m
      /\ \A i \in 1..m : sObjects[i] \in Seq(1..MaxVals) /\ sObjects[i] # <<>>
  BY <1>2 DEF WriterInv, SortedInv
<1>5. Complete(sObjects, n) /\ KeysInv(keys, n) /\ Apart(keys, sObjects, m)
  BY <1>3, <1>4 DEF WriterInv, SortedInv, KeysInv, Apart
<1>6. open <=> m # 0
  BY <1>1, <1>2 DEF WriterInv, SortedInv
<1>7. /\ NewObjectFor(key) <=> (m = 0 \/ (full /\ keys[n] # key))
      /\ sObjects' = IF NewObjectFor(key)
                     THEN Append(sObjects, <<n + 1>>)
                     ELSE [sObjects EXCEPT ![m] = Append(sObjects[m], n + 1)]
  BY <1>6 DEF SortedWrite, NewObjectFor
<1>8. /\ TypeOK' <=> sObjects' \in Seq(Seq(1..MaxVals))
      /\ SortedInv' <=> /\ Complete(sObjects', n + 1)
                        /\ KeysInv(keys', n + 1)
                        /\ Apart(keys', sObjects', Len(sObjects'))
                        /\ \A i \in DOMAIN sObjects' : sObjects'[i] # <<>>
                        /\ sObjects' # <<>>
  <2>1. TypeOK' <=> sObjects' \in Seq(Seq(1..MaxVals))
    BY <1>1, <1>3 DEF WriterInv, TypeOK, writerVars
  <2>2. DOMAIN sObjects' = 1..Len(sObjects')
    BY <1>2, <1>3, <1>7
  <2> QED BY <1>1, <1>3, <2>1, <2>2 DEF SortedInv, KeysInv, Apart
<1> HIDE DEF n, m
<1>9. KeysInv(keys', n + 1) /\ \A a \in 1..n : keys[a] <= key
  <2>1. /\ \A a \in 1..n : keys[a] \in Nat
        /\ n # 0 => keys[n] <= key
    BY <1>1, <1>3
  <2> QED BY <1>3, <1>5, <2>1, KeysExtend
<1>10. \A i \in 1..m : \A k \in DOMAIN sObjects[i] : sObjects[i][k] \in 1..n
  BY <1>4, <1>5 DEF Complete
<1>11. CASE NewObjectFor(key)
  <2>1. sObjects' = Append(sObjects, <<n + 1>>)
    BY <1>7, <1>11
  <2>2. /\ sObjects' \in Seq(Seq(1..MaxVals)) /\ Len(sObjects') = m + 1
        /\ DOMAIN sObjects' = 1..(m + 1)
        /\ \A i \in 1..m : sObjects'[i] = sObjects[i]
        /\ sObjects'[m + 1] = <<n + 1>>
    BY <1>2, <1>3, <2>1 DEF m
  <2>3. Complete(sObjects', n + 1)
    <3>1. DOMAIN sObjects'[m + 1] = 1..1 /\ sObjects'[m + 1][1] = n + 1
      BY <2>2
    <3>2. \A k \in 1..1 : sObjects'[m + 1][k] = n + k
      BY <1>3, <3>1
    <3>3. \A i \in 1..((m + 1) - 1) : i \in 1..m
      BY <1>4
    <3>4. Extended(sObjects, sObjects', n, n + 1, m + 1, 0, 1)
      BY <1>3, <1>4, <2>2, <3>1, <3>2, <3>3 DEF Extended
    <3> QED BY <1>5, <3>4, CompleteExtend
  <2>4. \A a \in 1..n : keys[a] < key
    <3>1. CASE m = 0
      BY <1>4, <1>5, <3>1 DEF Complete
    <3>2. CASE keys[n] # key
      <4> SUFFICES ASSUME NEW a \in 1..n PROVE keys[a] < key
        OBVIOUS
      <4>1. n \in 1..n /\ keys[a] <= keys[n]
        BY <1>3, <1>5 DEF KeysInv
      <4>2. keys[n] <= key /\ keys[n] \in Nat /\ keys[a] \in Nat
        BY <1>3, <1>9, <4>1
      <4> QED BY <1>3, <3>2, <4>1, <4>2
    <3> QED BY <1>7, <1>11, <3>1, <3>2
  <2>5. Apart(keys', sObjects', m + 1)
    <3>1. \A k \in DOMAIN sObjects'[m + 1] : sObjects'[m + 1][k] = n + 1
      BY <2>2
    <3>2. \A i \in 1..((m + 1) - 1) : sObjects'[i] = sObjects[i]
      BY <1>4, <2>2
    <3>3. \A a \in 1..n : keys[a] \in Nat /\ keys[a] <= key
      BY <1>3, <1>9
    <3>4. m + 1 \in Nat
      BY <1>4
    <3>5. KeyAdded(keys, keys', sObjects, sObjects', n, m, m + 1, key)
      BY <1>3, <1>4, <1>10, <2>4, <3>1, <3>2, <3>3, <3>4 DEF KeyAdded
    <3> QED BY <1>5, <3>5, ApartExtend
  <2>6. sObjects' # <<>> /\ \A i \in 1..(m + 1) : sObjects'[i] # <<>>
    <3>1. sObjects'[m + 1] # <<>> /\ sObjects' # <<>>
      BY <1>4, <2>2
    <3>2. ASSUME NEW i \in 1..(m + 1), i # m + 1 PROVE sObjects'[i] # <<>>
      <4>1. i \in 1..m
        BY <1>4, <3>2
      <4>2. sObjects'[i] = sObjects[i] /\ sObjects[i] # <<>>
        BY <1>4, <2>2, <4>1
      <4> QED BY <4>2, Zenon
    <3> QED BY <3>1, <3>2
  <2> QED BY <1>1, <1>8, <1>9, <2>2, <2>3, <2>5, <2>6, SortedCommon DEF WriterInv
<1>12. CASE ~NewObjectFor(key)
  <2> DEFINE p == Len(sObjects[m])
  <2>1. /\ m # 0 /\ m \in 1..m
        /\ sObjects' = [sObjects EXCEPT ![m] = Append(sObjects[m], n + 1)]
    BY <1>4, <1>7, <1>12
  <2>2. /\ p \in Nat /\ p # 0 /\ DOMAIN sObjects[m] = 1..p
        /\ sObjects[m] \in Seq(1..MaxVals)
    BY <1>4, <2>1
  <2> DEFINE last == Append(sObjects[m], n + 1)
  <2>3. /\ last \in Seq(1..MaxVals) /\ last # <<>>
        /\ DOMAIN last = 1..(p + 1)
        /\ \A k \in 1..p : last[k] = sObjects[m][k]
        /\ last[p + 1] = n + 1
    <3>1. n + 1 \in 1..MaxVals
      BY <1>3
    <3> QED BY <2>2, <3>1
  <2> HIDE DEF last
  <2>4. /\ sObjects' \in Seq(Seq(1..MaxVals)) /\ Len(sObjects') = m
        /\ DOMAIN sObjects' = 1..m
        /\ sObjects'[m] = last
        /\ \A i \in 1..m : i # m => sObjects'[i] = sObjects[i]
    <3>1. sObjects' = [sObjects EXCEPT ![m] = last]
      BY <2>1 DEF last
    <3> DEFINE T == Seq(1..MaxVals)
    <3>2. sObjects \in Seq(T) /\ last \in T
      BY <1>2, <2>3
    <3>3. Len(sObjects) = m /\ m \in 1..Len(sObjects)
      BY <2>1 DEF m
    <3> HIDE DEF T
    <3>4. /\ sObjects' \in Seq(T) /\ Len(sObjects') = m
          /\ DOMAIN sObjects' = 1..m
          /\ sObjects'[m] = last
          /\ \A i \in 1..m : i # m => sObjects'[i] = sObjects[i]
      BY <3>1, <3>2, <3>3
    <3> QED BY <3>4 DEF T
  <2> HIDE DEF p
  <2>5. \A i \in 1..(m - 1) : sObjects'[i] = sObjects[i]
    BY <1>4, <2>4
  <2>6. Complete(sObjects', n + 1)
    <3>1. \A k \in 1..1 : sObjects'[m][p + k] = n + k
      BY <1>3, <2>3, <2>4
    <3>2. DOMAIN sObjects'[m] = 1..(p + 1) /\ \A k \in 1..p : sObjects'[m][k] = sObjects[m][k]
      BY <2>3, <2>4
    <3>3. \A k \in 1..(p + 1) : k > p => sObjects'[m][k] = n + (k - p)
      BY <1>3, <2>2, <3>1
    <3>4. Extended(sObjects, sObjects', n, n + 1, m, p, p + 1)
      <4>1. n \in Nat /\ m \in Nat /\ p \in Nat /\ p + 1 \in Nat /\ p <= p + 1
            /\ n + 1 = n + ((p + 1) - p)
        BY <1>3, <1>4, <2>2
      <4>2. DOMAIN sObjects = 1..m /\ DOMAIN sObjects[m] = 1..p /\ m # 0 /\ DOMAIN sObjects' = 1..m
        BY <1>4, <2>1, <2>2, <2>4
      <4> QED BY <2>5, <3>2, <3>3, <4>1, <4>2, Zenon DEF Extended
    <3> QED BY <1>5, <3>4, CompleteExtend
  <2>7. Apart(keys', sObjects', m)
    <3>1. \A k \in DOMAIN sObjects'[m] : \/ sObjects'[m][k] = n + 1
                                         \/ /\ k \in DOMAIN sObjects[m]
                                            /\ sObjects'[m][k] = sObjects[m][k]
      BY <2>2, <2>3, <2>4
    <3>2. DOMAIN sObjects[m] # {}
      <4>1. \A q \in Nat : q # 0 => 1 \in 1..q
        OBVIOUS
      <4>2. 1 \in 1..p
        BY <2>2, <4>1, Zenon
      <4> QED BY <2>2, <4>2, Zenon
    <3>3. \A a \in 1..n : keys[a] \in Nat /\ keys[a] <= key
      BY <1>3, <1>9
    <3>4. KeyAdded(keys, keys', sObjects, sObjects', n, m, m, key)
      BY <1>3, <1>4, <1>10, <2>1, <2>5, <3>1, <3>2, <3>3 DEF KeyAdded
    <3> QED BY <1>5, <3>4, ApartExtend
  <2>8. sObjects' # <<>> /\ \A i \in 1..m : sObjects'[i] # <<>>
    <3>1. sObjects' # <<>>
      BY <2>1, <2>4
    <3> QED BY <1>4, <2>3, <2>4, <3>1
  <2> QED BY <1>1, <1>8, <1>9, <2>4, <2>6, <2>7, <2>8, SortedCommon DEF WriterInv
<1> QED BY <1>11, <1>12
-------------------------------------------------------------------------------
(* Steps of the caller. *)

(* A value is appended to the buffer, or Write returns an error. *)
LEMMA CallerWrites ==
    ASSUME WriterInv, Write
    PROVE  WriterInv'
<1>0. /\ kind = "writer" /\ wPC = "idle" /\ nvals < MaxVals
      /\ UNCHANGED <<kind, faults, ctxDone, result>>
      /\ UNCHANGED <<filling, buffer, closed, objects, jobs, egErr, sortedVars>>
  BY DEF Write, common
<1>1. JobsInv' /\ SortedInv' /\ LastJob' = LastJob
  BY <1>0, JobsStay, SortedStays
<1>2. CASE ctxDone
  <2>1. writeErr' = TRUE /\ UNCHANGED <<mem, nvals, wPC>>
    BY <1>2 DEF Write
  <2>2. TypeOK'
    BY <1>0, <2>1 DEF WriterInv, TypeOK, sortedVars
  <2>3. CallerInv'
    BY <1>0, <1>1, <2>1 DEF WriterInv, CallerInv
  <2> QED BY <1>0, <1>1, <2>1, <2>2, <2>3, ValuesStay DEF WriterInv
<1>3. CASE ~ctxDone
  <2> DEFINE old == mem[filling]
             new == Append(old, nvals + 1)
  <2>1. /\ nvals' = nvals + 1 /\ mem' = [mem EXCEPT ![filling] = new]
        /\ wPC' = (IF Len(mem'[filling]) >= Threshold THEN "flip" ELSE "idle")
        /\ UNCHANGED writeErr
    BY <1>3 DEF Write
  <2>2. /\ nvals \in Nat /\ nvals + 1 \in 1..MaxVals /\ filling \in Buffers
        /\ mem \in [Buffers -> Seq(1..MaxVals)] /\ old \in Seq(1..MaxVals)
        /\ Threshold \in Nat /\ Threshold # 0 /\ Len(old) \in Nat
    BY <1>0, WriterAssumption DEF WriterInv, TypeOK
  <2>3. /\ new \in Seq(1..MaxVals) /\ Len(new) = Len(old) + 1 /\ new # <<>>
        /\ DOMAIN new = 1..(Len(old) + 1) /\ new[Len(old) + 1] = nvals + 1
        /\ \A k \in 1..Len(old) : new[k] = old[k]
    <3> DEFINE T == 1..MaxVals
               e == nvals + 1
    <3>1. old \in Seq(T) /\ e \in T
      BY <2>2
    <3> HIDE DEF old, T, e
    <3>2. /\ Append(old, e) \in Seq(T) /\ Len(Append(old, e)) = Len(old) + 1
          /\ Append(old, e) # <<>> /\ DOMAIN Append(old, e) = 1..(Len(old) + 1)
          /\ Append(old, e)[Len(old) + 1] = e
          /\ \A k \in 1..Len(old) : Append(old, e)[k] = old[k]
      BY <3>1, AppendElement
    <3> QED BY <3>2 DEF T, e
  <2> HIDE DEF new
  <2>4. /\ mem' \in [Buffers -> Seq(1..MaxVals)] /\ mem'[filling] = new
        /\ \A x \in Buffers : x # filling => mem'[x] = mem[x]
    BY <2>1, <2>2, <2>3
  <2>5. ~closed => Len(new) <= Threshold
    <3>1. ~closed => Len(old) < Threshold
      BY <1>0 DEF WriterInv, CallerInv
    <3> QED BY <2>2, <2>3, <3>1
  <2>6. TypeOK'
    <3>1. ~closed => \A x \in Buffers : Len(mem'[x]) <= Threshold
      BY <2>4, <2>5 DEF WriterInv, TypeOK
    <3>2. nvals' \in 0..MaxVals
      BY <2>1, <2>2
    <3> QED BY <1>0, <2>1, <2>4, <3>1, <3>2 DEF WriterInv, TypeOK, sortedVars
  <2>7. CallerInv'
    <3>1. Len(jobs) + Len(old) <= nvals /\ Len(jobs) \in Nat
      BY DEF WriterInv, CallerInv, TypeOK
    <3>2. Len(jobs) + Len(new) <= nvals + 1
      BY <2>2, <2>3, <3>1
    <3>3. wPC' = "idle" => Len(new) < Threshold
      BY <2>1, <2>2, <2>3, <2>4
    <3>4. result = "none"
      BY <1>0 DEF WriterInv, CallerInv
    <3>5. wPC' \in {"idle", "flip"}
      BY <2>1
    <3> QED BY <1>0, <2>1, <2>3, <2>4, <3>2, <3>3, <3>4, <3>5 DEF CallerInv
  <2>8. ValuesInv'
    <3> SUFFICES ASSUME ~closed PROVE ValuesInv'
      BY <1>0 DEF ValuesInv
    <3>1. Flipped' = Flipped /\ Flipped \in Int /\ nvals = Flipped + Len(old)
      <4>1. \A a, b \in Nat : (a + 1) - (b + 1) = a - b /\ a - b \in Int /\ a = (a - b) + b
        OBVIOUS
      <4>2. Flipped' = (nvals + 1) - (Len(old) + 1) /\ Flipped = nvals - Len(old)
        <5>1. Flipped' = nvals' - Len(mem'[filling'])
          BY Zenon DEF Flipped
        <5> QED BY <1>0, <2>1, <2>3, <2>4, <5>1, Zenon DEF Flipped
      <4> QED BY <2>2, <4>1, <4>2, Zenon
    <3>2. Pending' = Pending /\ HasObject' = HasObject
      <4>1. Writing' = Writing /\ HasObject' = HasObject
        BY <1>1 DEF Writing, HasObject
      <4>2. ASSUME Writing
            PROVE  /\ jobs[Len(jobs)].buf \in Buffers /\ jobs[Len(jobs)].buf # filling
        <5>1. jobs # <<>> /\ jobs[Len(jobs)].pc # "end"
          BY <4>2 DEF Writing, LastJob
        <5>2. jobs \in Seq(JobSet) /\ Len(jobs) \in DOMAIN jobs
          BY <5>1 DEF WriterInv, TypeOK
        <5>3. jobs[Len(jobs)] \in JobSet
          BY <5>2
        <5> QED BY <5>1, <5>2, <5>3 DEF WriterInv, JobsInv, JobSet
      <4>3. Writing => mem'[jobs[Len(jobs)].buf] = mem[jobs[Len(jobs)].buf]
        BY <2>4, <4>2
      <4> QED BY <1>0, <4>1, <4>3 DEF Pending
    <3>3. \A k \in DOMAIN mem'[filling] : mem'[filling][k] = Flipped + k
      <4>1. \A k \in 1..Len(old) : old[k] = Flipped + k
        BY <2>2 DEF WriterInv, ValuesInv
      <4>2. nvals + 1 = Flipped + (Len(old) + 1)
        BY <2>2, <3>1
      <4>3. \A k \in 1..(Len(old) + 1) : k \in 1..Len(old) \/ k = Len(old) + 1
        BY <2>2
      <4> QED BY <2>3, <2>4, <4>1, <4>2, <4>3
    <3> QED BY <1>0, <3>1, <3>2, <3>3 DEF WriterInv, ValuesInv
  <2> QED BY <1>1, <2>6, <2>7, <2>8 DEF WriterInv
<1> QED BY <1>2, <1>3

(* The caller moves on without touching a buffer. *)
LEMMA CallerMoves ==
    ASSUME WriterInv, FlipClosed \/ Close \/ CloseReturns
    PROVE  WriterInv'
<1>0. /\ UNCHANGED <<kind, faults, ctxDone, mem, filling, buffer, closed, nvals, writeErr>>
      /\ UNCHANGED <<objects, jobs, egErr, sortedVars>>
      /\ wPC' \in {"idle", "closeflip", "wait", "end"}
      /\ result' \in {"none", "ok", "err"}
      /\ result' = "none" => result = "none"
  BY DEF FlipClosed, Close, CloseReturns, common, WriterInv, TypeOK
<1>1. /\ JobsInv' /\ SortedInv' /\ ValuesInv' /\ LastJob' = LastJob
  BY <1>0, JobsStay, SortedStays, ValuesStay
<1>2. TypeOK'
  BY <1>0 DEF WriterInv, TypeOK, sortedVars
<1>3. kind = "writer"
  BY DEF FlipClosed, Close, CloseReturns, WriterInv, TypeOK, CallerInv
<1>4. CallerInv'
  <2>1. CASE FlipClosed
    BY <1>0, <1>1, <1>3, <2>1 DEF FlipClosed, common, WriterInv, CallerInv
  <2>2. CASE Close
    BY <1>0, <1>1, <1>3, <2>2 DEF Close, common, WriterInv, CallerInv
  <2>3. CASE CloseReturns
    <3>1. wPC = "wait" /\ wPC' = "end" /\ \A j \in DOMAIN jobs : jobs[j].pc = "end"
      BY <2>3 DEF CloseReturns
    <3>2. LastJob = "end"
      <4>1. jobs # <<>> => Len(jobs) \in DOMAIN jobs
        BY DEF WriterInv, TypeOK
      <4> QED BY <3>1, <4>1 DEF LastJob
    <3>3. result' = "ok" => ~egErr
      BY <2>3 DEF CloseReturns
    <3> QED BY <1>0, <1>1, <1>3, <3>1, <3>2, <3>3 DEF WriterInv, CallerInv
  <2> QED BY <2>1, <2>2, <2>3
<1> QED BY <1>1, <1>2, <1>4 DEF WriterInv

(* The buffers are flipped: no goroutine has one then. *)
LEMMA CallerFlips ==
    ASSUME WriterInv, FlipBuffers
    PROVE  WriterInv'
<1> DEFINE job == [buf |-> filling, pc |-> "new", obj |-> 0]
           old == mem[filling]
<1>1. PICK spare \in buffer : /\ buffer' = buffer \ {spare}
                              /\ filling' = spare
                              /\ mem' = [mem EXCEPT ![spare] = <<>>]
                              /\ jobs' = Append(jobs, job)
  BY DEF FlipBuffers
<1>2. /\ wPC \in {"flip", "closeflip"}
      /\ wPC' = (IF wPC = "flip" THEN "idle" ELSE "wait")
      /\ UNCHANGED <<kind, faults, ctxDone, result>>
      /\ UNCHANGED <<closed, nvals, writeErr, objects, egErr, sortedVars>>
  BY DEF FlipBuffers, common
<1>3. /\ filling \in Buffers /\ spare \in Buffers /\ spare # filling /\ buffer' = {}
      /\ mem \in [Buffers -> Seq(1..MaxVals)] /\ jobs \in Seq(JobSet)
      /\ nvals \in Nat /\ Len(old) \in Nat /\ Len(jobs) \in Nat
      /\ DOMAIN jobs = 1..Len(jobs) /\ MaxVals \in Nat /\ Threshold \in Nat \ {0}
  BY <1>1, WriterAssumption DEF WriterInv, TypeOK, JobsInv, Buffers
<1>4. \A j \in DOMAIN jobs : jobs[j].pc = "end"
  <2> SUFFICES ASSUME NEW j \in DOMAIN jobs, jobs[j].pc # "end" PROVE FALSE
    OBVIOUS
  <2>1. jobs[j] \in JobSet
    BY <1>3
  <2>2. jobs[j].buf \in Buffers /\ jobs[j].buf # filling /\ jobs[j].buf \notin buffer
    BY <2>1 DEF WriterInv, JobsInv, JobSet
  <2> QED BY <1>1, <1>3, <2>2 DEF Buffers
<1>5. LastJob = "end" /\ ~closed /\ ~egErr /\ Len(jobs) = Len(objects)
  <2>1. LastJob = "end"
    BY <1>3, <1>4 DEF LastJob
  <2> QED BY <1>1, <2>1 DEF WriterInv, JobsInv
<1>6. kind = "writer" /\ result = "none"
  BY <1>2 DEF WriterInv, CallerInv, TypeOK
<1>7. /\ jobs' \in Seq(JobSet) /\ Len(jobs') = Len(jobs) + 1 /\ DOMAIN jobs' = 1..(Len(jobs) + 1)
      /\ jobs'[Len(jobs) + 1] = job /\ jobs' # <<>>
      /\ \A j \in 1..Len(jobs) : jobs'[j] = jobs[j]
  <2>1. job \in JobSet
    BY <1>3 DEF JobSet
  <2>2. jobs \in Seq(JobSet) /\ jobs' = Append(jobs, job)
    BY <1>1, <1>3
  <2> HIDE DEF job
  <2> QED BY <2>1, <2>2, AppendElement
<1>8. LastJob' = "new"
  BY <1>3, <1>7 DEF LastJob
<1>9. /\ mem' \in [Buffers -> Seq(1..MaxVals)] /\ mem'[spare] = <<>> /\ mem'[filling] = old
  BY <1>1, <1>3
<1>10. Len(jobs) + Len(old) <= nvals /\ Len(old) # 0
  BY <1>2, <1>3 DEF WriterInv, CallerInv
<1>11. TypeOK'
  <2>1. \A x \in Buffers : Len(mem'[x]) <= Threshold
    <3>1. Len(mem'[spare]) <= Threshold
      BY <1>3, <1>9
    <3>2. Len(mem'[filling]) <= Threshold
      BY <1>3, <1>5, <1>9 DEF WriterInv, TypeOK
    <3> QED BY <1>3, <3>1, <3>2 DEF Buffers
  <2>2. filling' \in Buffers /\ buffer' \subseteq Buffers /\ wPC' \in {"idle", "wait"}
    BY <1>1, <1>2, <1>3
  <2> QED BY <1>2, <1>7, <1>9, <2>1, <2>2 DEF WriterInv, TypeOK, sortedVars
<1>12. JobsInv'
  <2>1. ASSUME NEW j \in DOMAIN jobs', jobs'[j].pc # "end"
        PROVE  /\ j = Len(jobs') /\ jobs'[j].buf # filling' /\ jobs'[j].pc = "new"
    <3>1. j = Len(jobs) + 1
      <4>1. j \in 1..Len(jobs) => jobs'[j].pc = "end"
        BY <1>3, <1>4, <1>7
      <4> QED BY <1>3, <1>7, <2>1, <4>1
    <3> QED BY <1>1, <1>3, <1>7, <3>1
  <2> QED BY <1>2, <1>3, <1>5, <1>7, <1>8, <2>1 DEF JobsInv
<1>13. CallerInv'
  <2>1. mem'[filling'] = <<>> /\ Len(mem'[filling']) = 0
    BY <1>1, <1>9
  <2>2. Len(jobs') <= nvals
    BY <1>3, <1>7, <1>10
  <2> QED BY <1>2, <1>3, <1>6, <1>7, <2>1, <2>2 DEF CallerInv
<1>14. ValuesInv'
  <2>1. /\ Flipped = nvals - Len(old) /\ Pending = <<>> /\ ~HasObject
    BY <1>5 DEF Flipped, Pending, Writing, HasObject
  <2>2. Flipped' = nvals
    BY <1>1, <1>2, <1>3, <1>9 DEF Flipped
  <2>3. Pending' = old /\ ~HasObject'
    BY <1>7, <1>8, <1>9 DEF Pending, Writing, HasObject
  <2>4. Flipped' - Len(Pending') = nvals - Len(old) /\ Len(Pending') <= Flipped'
    BY <1>3, <1>10, <2>2, <2>3
  <2>5. \A k \in DOMAIN old : old[k] = (nvals - Len(old)) + k
    BY <1>5, <2>1 DEF WriterInv, ValuesInv
  <2>6. Complete([i \in DOMAIN objects |-> objects[i].vals], nvals - Len(old))
    <3>1. (nvals - Len(old)) - Len(<<>>) = nvals - Len(old)
      BY <1>3
    <3> QED BY <1>5, <2>1, <3>1 DEF WriterInv, ValuesInv
  <2>7. \A i \in DOMAIN objects : objects[i].done
    BY <1>5, <2>1 DEF WriterInv, ValuesInv
  <2>8. \A k \in DOMAIN mem'[filling'] : mem'[filling'][k] = Flipped' + k
    BY <1>1, <1>9
  <2> QED BY <1>2, <2>3, <2>4, <2>5, <2>6, <2>7, <2>8 DEF ValuesInv
<1>15. SortedInv'
  BY <1>2, SortedStays
<1> QED BY <1>11, <1>12, <1>13, <1>14, <1>15 DEF WriterInv

-------------------------------------------------------------------------------
(* Steps of a goroutine. *)

(* What is known of one that has not ended. *)
LEMMA JobFacts ==
    ASSUME WriterInv, NEW j \in DOMAIN jobs, jobs[j].pc # "end"
    PROVE  /\ j = Len(jobs) /\ LastJob = jobs[j].pc /\ jobs # <<>>
           /\ jobs \in Seq(JobSet) /\ jobs[j] \in JobSet /\ jobs[j].buf \in Buffers
           /\ jobs[j].buf # filling /\ buffer = {}
           /\ jobs[j].pc # "new" => jobs[j].obj = j
           /\ Len(jobs) \in Nat /\ DOMAIN jobs = 1..Len(jobs)
           /\ kind = "writer" /\ result = "none"
<1>1. /\ jobs \in Seq(JobSet) /\ Len(jobs) \in Nat /\ DOMAIN jobs = 1..Len(jobs)
      /\ jobs # <<>> /\ jobs[j] \in JobSet
  BY DEF WriterInv, TypeOK
<1>2. /\ j = Len(jobs) /\ jobs[j].buf # filling /\ jobs[j].buf \notin buffer
      /\ jobs[j].pc # "new" => jobs[j].obj = j
      /\ filling \notin buffer
  BY DEF WriterInv, JobsInv
<1>3. jobs[j].buf \in Buffers /\ filling \in Buffers /\ buffer \subseteq Buffers
  BY <1>1 DEF JobSet, WriterInv, TypeOK
<1>4. buffer = {}
  BY <1>2, <1>3 DEF Buffers
<1>5. LastJob = jobs[j].pc
  BY <1>1, <1>2 DEF LastJob
<1>6. kind = "writer" /\ result = "none"
  BY <1>1, <1>5 DEF WriterInv, CallerInv, TypeOK
<1> QED BY <1>1, <1>2, <1>3, <1>4, <1>5, <1>6

(* It gets to p. *)
LEMMA JobMoves ==
    ASSUME WriterInv, NEW j \in DOMAIN jobs, jobs[j].pc # "end",
           NEW p \in {"new", "sort", "write", "ok", "failed", "closed", "end"},
           NEW o \in 0..MaxVals,
           jobs' = [jobs EXCEPT ![j] = [buf |-> jobs[j].buf, obj |-> o, pc |-> p]]
    PROVE  /\ jobs' \in Seq(JobSet) /\ Len(jobs') = Len(jobs) /\ DOMAIN jobs' = DOMAIN jobs
           /\ jobs'[j].pc = p /\ jobs'[j].buf = jobs[j].buf /\ jobs'[j].obj = o
           /\ \A i \in DOMAIN jobs : i # j => jobs'[i].pc = "end"
           /\ LastJob' = p
<1> DEFINE e == [buf |-> jobs[j].buf, obj |-> o, pc |-> p]
<1>1. /\ jobs \in Seq(JobSet) /\ j \in 1..Len(jobs) /\ j = Len(jobs) /\ DOMAIN jobs = 1..Len(jobs)
      /\ e \in JobSet /\ e.pc = p /\ e.buf = jobs[j].buf /\ e.obj = o
  BY JobFacts DEF JobSet
<1>2. \A i \in DOMAIN jobs : i # j => jobs[i].pc = "end"
  BY <1>1 DEF WriterInv, JobsInv
<1> HIDE DEF e
<1>3. jobs' = [jobs EXCEPT ![j] = e]
  BY DEF e
<1>4. /\ jobs' \in Seq(JobSet) /\ Len(jobs') = Len(jobs) /\ DOMAIN jobs' = DOMAIN jobs
      /\ jobs'[j] = e /\ \A i \in DOMAIN jobs : i # j => jobs'[i] = jobs[i]
  BY <1>1, <1>3, ReplaceElement
<1>5. jobs' # <<>>
  BY <1>1, <1>4
<1>6. LastJob' = p
  BY <1>1, <1>4, <1>5 DEF LastJob
<1> QED BY <1>1, <1>2, <1>4, <1>6

LEMMA JobToRecord ==
    ASSUME WriterInv, NEW j \in DOMAIN jobs, NEW p, JobTo(j, p)
    PROVE  /\ jobs' = [jobs EXCEPT ![j] = [buf |-> jobs[j].buf, obj |-> jobs[j].obj, pc |-> p]]
           /\ jobs[j].obj \in 0..MaxVals
<1>1. jobs[j] \in JobSet
  BY DEF WriterInv, TypeOK
<1>2. [jobs[j] EXCEPT !.pc = p] = [buf |-> jobs[j].buf, obj |-> jobs[j].obj, pc |-> p]
  BY <1>1 DEF JobSet
<1> QED BY <1>1, <1>2 DEF JobTo, JobSet

(* The invariant of the goroutines and of the caller, when one gets to p. *)
LEMMA JobsInvMoves ==
    ASSUME WriterInv, NEW j \in DOMAIN jobs, jobs[j].pc # "end",
           NEW p \in {"sort", "write", "ok", "failed", "closed", "end"},
           NEW o \in 0..MaxVals,
           jobs' = [jobs EXCEPT ![j] = [buf |-> jobs[j].buf, obj |-> o, pc |-> p]],
           p # "end" => o = j /\ buffer' = {},
           UNCHANGED filling, filling \notin buffer', Len(objects') = Len(jobs),
           closed' => buffer' = {} /\ p \in {"closed", "end"} /\ (p = "end" => egErr'),
           p = "closed" => closed', egErr' => closed'
    PROVE  JobsInv'
<1>1. /\ Len(jobs') = Len(jobs) /\ DOMAIN jobs' = DOMAIN jobs
      /\ jobs'[j].pc = p /\ jobs'[j].buf = jobs[j].buf /\ jobs'[j].obj = o
      /\ \A i \in DOMAIN jobs : i # j => jobs'[i].pc = "end"
      /\ LastJob' = p
  BY JobMoves
<1>2. j = Len(jobs) /\ jobs[j].buf # filling /\ Len(jobs) \in Nat
  BY JobFacts
<1>3. \A i \in DOMAIN jobs' : jobs'[i].pc # "end" =>
          /\ i = Len(jobs') /\ jobs'[i].buf # filling' /\ jobs'[i].buf \notin buffer'
          /\ jobs'[i].pc # "new" => jobs'[i].obj = i
  BY <1>1, <1>2
<1>4. Len(jobs') = Len(objects') + (IF LastJob' = "new" THEN 1 ELSE 0)
  BY <1>1, <1>2
<1> QED BY <1>1, <1>3, <1>4 DEF JobsInv

LEMMA CallerInvMoves ==
    ASSUME WriterInv, NEW j \in DOMAIN jobs, jobs[j].pc # "end",
           UNCHANGED <<kind, result, mem, filling, nvals, wPC>>,
           Len(jobs') = Len(jobs), closed => closed'
    PROVE  CallerInv'
<1>1. kind = "writer" /\ result = "none" /\ LastJob # "end"
  BY JobFacts
<1>2. wPC # "end"
  BY <1>1 DEF WriterInv, CallerInv
<1> QED BY <1>1, <1>2 DEF WriterInv, CallerInv

(* It gets its object. *)
LEMMA JobsNew ==
    ASSUME WriterInv, NEW j \in DOMAIN jobs, JobNew(j)
    PROVE  WriterInv'
<1> DEFINE o == Len(objects) + 1
           empty == [vals |-> <<>>, done |-> FALSE]
<1>1. /\ jobs[j].pc = "new"
      /\ objects' = Append(objects, empty)
      /\ UNCHANGED <<kind, faults, ctxDone, result, sortedVars>>
      /\ UNCHANGED <<mem, filling, buffer, closed, nvals, wPC, writeErr, egErr>>
  BY DEF JobNew, common
<1>2. /\ j = Len(jobs) /\ LastJob = "new" /\ jobs # <<>> /\ jobs[j] \in JobSet
      /\ jobs[j].buf # filling /\ buffer = {} /\ Len(jobs) \in Nat
      /\ kind = "writer" /\ result = "none"
  BY <1>1, JobFacts
<1>3. /\ Len(jobs) = o /\ Len(objects) \in Nat /\ objects \in Seq(ObjectSet)
      /\ nvals \in 0..MaxVals /\ MaxVals \in Nat
      /\ Len(jobs) + Len(mem[filling]) <= nvals /\ Len(mem[filling]) \in Nat
  <2>1. /\ objects \in Seq(ObjectSet) /\ nvals \in 0..MaxVals /\ MaxVals \in Nat
        /\ mem[filling] \in Seq(1..MaxVals)
    BY WriterAssumption DEF WriterInv, TypeOK
  <2>2. Len(jobs) + Len(mem[filling]) <= nvals
    BY DEF WriterInv, CallerInv
  <2>3. Len(jobs) = Len(objects) + 1
    BY <1>2 DEF WriterInv, JobsInv
  <2>4. Len(objects) \in Nat /\ Len(mem[filling]) \in Nat
    BY <2>1
  <2> QED BY <2>1, <2>2, <2>3, <2>4
<1>4. o \in 0..MaxVals
  <2>1. /\ Len(objects) \in Nat /\ Len(mem[filling]) \in Nat /\ nvals \in 0..MaxVals
        /\ MaxVals \in Nat /\ (Len(objects) + 1) + Len(mem[filling]) <= nvals
    BY <1>3
  <2>2. ASSUME NEW a \in Nat, NEW b \in Nat, NEW c \in 0..MaxVals, (a + 1) + b <= c
        PROVE  a + 1 \in 0..MaxVals
    BY <2>1, <2>2
  <2> QED BY <2>1, <2>2
<1>5. jobs' = [jobs EXCEPT ![j] = [buf |-> jobs[j].buf, obj |-> o, pc |-> "sort"]]
  <2>1. jobs' = [jobs EXCEPT ![j] = [[jobs[j] EXCEPT !.pc = "sort"] EXCEPT !.obj = o]]
    BY <1>1, <1>2 DEF JobNew, WriterInv, TypeOK
  <2> HIDE DEF o
  <2>2. [jobs[j] EXCEPT !.pc = "sort"] = [buf |-> jobs[j].buf, obj |-> jobs[j].obj, pc |-> "sort"]
    BY <1>2 DEF JobSet
  <2>3. [[buf |-> jobs[j].buf, obj |-> jobs[j].obj, pc |-> "sort"] EXCEPT !.obj = o]
          = [buf |-> jobs[j].buf, obj |-> o, pc |-> "sort"]
    OBVIOUS
  <2> QED BY <2>1, <2>2, <2>3
<1>6. /\ objects' \in Seq(ObjectSet) /\ Len(objects') = o /\ DOMAIN objects' = 1..o
      /\ objects'[o] = empty /\ DOMAIN objects = 1..Len(objects)
      /\ \A i \in 1..Len(objects) : objects'[i] = objects[i]
  <2>1. empty \in ObjectSet
    BY DEF ObjectSet
  <2> HIDE DEF empty
  <2> QED BY <1>1, <1>3, <2>1, AppendElement
<1> HIDE DEF o
<1>7. jobs' \in Seq(JobSet) /\ Len(jobs') = Len(jobs) /\ jobs'[j].buf = jobs[j].buf /\ LastJob' = "sort"
  BY <1>1, <1>4, <1>5, JobMoves
<1>8. JobsInv'
  BY <1>1, <1>2, <1>3, <1>4, <1>5, <1>6, JobsInvMoves DEF WriterInv, JobsInv
<1>9. CallerInv'
  BY <1>1, <1>7, CallerInvMoves
<1>10. TypeOK'
  BY <1>1, <1>6, <1>7 DEF WriterInv, TypeOK, sortedVars
<1>11. SortedInv'
  BY <1>1, SortedStays
<1>12. ValuesInv'
  <2> SUFFICES ASSUME ~closed PROVE ValuesInv'
    BY <1>1 DEF ValuesInv
  <2> DEFINE n == Flipped - Len(Pending)
  <2>1. Flipped' = Flipped /\ Pending' = Pending
    BY <1>1, <1>2, <1>7 DEF Flipped, Pending, Writing
  <2>2. HasObject' /\ ~HasObject
    BY <1>2, <1>7 DEF HasObject
  <2>3. Flipped \in Nat /\ Len(Pending) \in Nat /\ Len(Pending) <= Flipped /\ n \in Nat
    <3>1. Flipped \in Nat
      BY <1>3 DEF Flipped
    <3>2. Pending \in Seq(1..MaxVals)
      <4>1. jobs[Len(jobs)].buf \in Buffers
        BY <1>2 DEF JobSet
      <4>2. Writing => mem[jobs[Len(jobs)].buf] \in Seq(1..MaxVals)
        BY <4>1 DEF WriterInv, TypeOK
      <4>3. <<>> \in Seq(1..MaxVals)
        OBVIOUS
      <4> QED BY <4>2, <4>3, Zenon DEF Pending
    <3>3. Len(Pending) \in Nat
      BY <3>2
    <3>4. Len(Pending) <= Flipped
      BY DEF WriterInv, ValuesInv
    <3> QED BY <3>1, <3>3, <3>4
  <2>4. Complete([i \in DOMAIN objects |-> objects[i].vals], n)
    BY DEF WriterInv, ValuesInv
  <2>5. Complete([i \in DOMAIN objects' |-> objects'[i].vals], n)
    <3> DEFINE vals == [i \in DOMAIN objects |-> objects[i].vals]
               new == [i \in DOMAIN objects' |-> objects'[i].vals]
    <3>1. o \in Nat /\ o # 0 /\ o - 1 = Len(objects)
      BY <1>3 DEF o
    <3>2. /\ DOMAIN new = 1..o /\ DOMAIN vals = 1..(o - 1) /\ new[o] = <<>>
          /\ \A i \in 1..(o - 1) : new[i] = vals[i]
      BY <1>6, <3>1
    <3> HIDE DEF vals, new, n
    <3>3. DOMAIN new[o] = 1..0
      BY <3>2
    <3>4. n = n + (0 - 0)
      BY <2>3
    <3>5. Extended(vals, new, n, n, o, 0, 0)
      BY <2>3, <3>1, <3>2, <3>3, <3>4 DEF Extended
    <3> QED BY <2>4, <3>5, CompleteExtend DEF vals, new
  <2>6. \A i \in DOMAIN objects' : IF i = o THEN objects'[i].vals = <<>> ELSE objects'[i].done
    <3>1. \A i \in DOMAIN objects : objects[i].done
      BY <2>2 DEF WriterInv, ValuesInv
    <3> QED BY <1>3, <1>6, <3>1 DEF o
  <2>7. /\ \A k \in DOMAIN mem[filling] : mem[filling][k] = Flipped + k
        /\ \A k \in DOMAIN Pending : Pending[k] = n + k
    BY DEF WriterInv, ValuesInv
  <2> QED BY <1>1, <1>6, <2>1, <2>2, <2>3, <2>5, <2>6, <2>7 DEF ValuesInv
<1> QED BY <1>8, <1>9, <1>10, <1>11, <1>12 DEF WriterInv

(* It goes on with its object as it was: sorted, or the write has failed. *)
LEMMA JobsGoOn ==
    ASSUME WriterInv, NEW j \in DOMAIN jobs, NEW p \in {"write", "failed"},
           jobs[j].pc \in {"sort", "write"}, JobTo(j, p), faults' \in 0..MaxFaults,
           UNCHANGED <<kind, ctxDone, result, mem, filling, buffer, closed, nvals, wPC>>,
           UNCHANGED <<writeErr, objects, egErr, sortedVars>>
    PROVE  WriterInv'
<1>1. /\ jobs' = [jobs EXCEPT ![j] = [buf |-> jobs[j].buf, obj |-> jobs[j].obj, pc |-> p]]
      /\ jobs[j].obj \in 0..MaxVals
  BY JobToRecord
<1>2. /\ j = Len(jobs) /\ LastJob = jobs[j].pc /\ jobs # <<>> /\ jobs[j].obj = j
      /\ buffer = {} /\ Len(jobs) = Len(objects)
  BY JobFacts DEF WriterInv, JobsInv, TypeOK
<1>3. ~closed /\ ~egErr
  BY <1>2 DEF WriterInv, JobsInv
<1>4. /\ jobs' \in Seq(JobSet) /\ Len(jobs') = Len(jobs) /\ jobs'[j].buf = jobs[j].buf
      /\ LastJob' = p
  BY <1>1, JobMoves
<1>5. JobsInv'
  BY <1>1, <1>2, <1>3, JobsInvMoves
<1>6. CallerInv'
  BY <1>4, CallerInvMoves
<1>7. TypeOK'
  BY <1>4 DEF WriterInv, TypeOK, sortedVars
<1>8. SortedInv'
  BY SortedStays
<1>9. Flipped' = Flipped /\ Pending' = Pending /\ HasObject' /\ HasObject
  BY <1>2, <1>4 DEF Flipped, Pending, Writing, HasObject
<1>10. ValuesInv'
  BY <1>9 DEF WriterInv, ValuesInv
<1> QED BY <1>5, <1>6, <1>7, <1>8, <1>10 DEF WriterInv

LEMMA FailingFaults == ASSUME TypeOK, Failing PROVE faults' \in 0..MaxFaults
  BY SortedAssumption DEF TypeOK, Failing

(* The object is written: the pointer into w.objects is still good. *)
LEMMA JobsWritten ==
    ASSUME WriterInv, NEW j \in DOMAIN jobs, jobs[j].pc = "write", JobTo(j, "ok"),
           objects' = IF jobs[j].obj = Len(objects)
                      THEN [objects EXCEPT ![jobs[j].obj] =
                               [vals |-> mem[jobs[j].buf], done |-> TRUE]]
                      ELSE objects,
           UNCHANGED <<kind, faults, ctxDone, result, mem, filling, buffer, closed, nvals>>,
           UNCHANGED <<wPC, writeErr, egErr, sortedVars>>
    PROVE  WriterInv'
<1> DEFINE m == Len(objects)
           vs == mem[jobs[j].buf]
           obj == [vals |-> vs, done |-> TRUE]
<1>1. /\ jobs' = [jobs EXCEPT ![j] = [buf |-> jobs[j].buf, obj |-> jobs[j].obj, pc |-> "ok"]]
      /\ jobs[j].obj \in 0..MaxVals
  BY JobToRecord
<1>2. /\ j = Len(jobs) /\ LastJob = "write" /\ jobs # <<>> /\ jobs[j].obj = j
      /\ jobs[j].buf \in Buffers /\ buffer = {}
  BY JobFacts
<1>3. Len(jobs) = m /\ ~closed /\ ~egErr /\ m \in Nat
  <2>1. m \in Nat
    BY DEF WriterInv, TypeOK
  <2> QED BY <1>2, <2>1 DEF WriterInv, JobsInv
<1>4. /\ objects \in Seq(ObjectSet) /\ vs \in Seq(1..MaxVals) /\ Len(vs) \in Nat
      /\ DOMAIN vs = 1..Len(vs) /\ m \in 1..m /\ DOMAIN objects = 1..m
  <2>1. objects \in Seq(ObjectSet) /\ vs \in Seq(1..MaxVals)
    BY <1>2 DEF WriterInv, TypeOK
  <2>2. m # 0
    BY <1>2, <1>3
  <2>3. Len(vs) \in Nat /\ DOMAIN vs = 1..Len(vs)
    BY <2>1
  <2>4. DOMAIN objects = 1..m
    BY <2>1
  <2> QED BY <1>3, <2>1, <2>2, <2>3, <2>4
<1>5. objects' = [objects EXCEPT ![m] = obj]
  BY <1>2, <1>3
<1>6. /\ objects' \in Seq(ObjectSet) /\ Len(objects') = m /\ DOMAIN objects' = 1..m
      /\ objects'[m] = obj /\ \A i \in 1..m : i # m => objects'[i] = objects[i]
  <2>1. obj \in ObjectSet
    BY <1>4 DEF ObjectSet
  <2>2. m = Len(objects) /\ m \in 1..Len(objects) /\ objects \in Seq(ObjectSet)
    BY <1>4
  <2> HIDE DEF obj, m
  <2> QED BY <1>5, <2>1, <2>2, ReplaceElement
<1>7. /\ jobs' \in Seq(JobSet) /\ Len(jobs') = Len(jobs) /\ LastJob' = "ok"
  BY <1>1, JobMoves
<1>8. JobsInv'
  <2>1. filling \notin buffer' /\ buffer' = {}
    BY <1>2
  <2> QED BY <1>1, <1>2, <1>3, <1>6, <2>1, JobsInvMoves
<1>9. CallerInv'
  BY <1>7, CallerInvMoves
<1>10. TypeOK'
  <2>1. objects' \in Seq(ObjectSet) /\ jobs' \in Seq(JobSet)
    BY <1>6, <1>7
  <2> QED BY <2>1 DEF WriterInv, TypeOK, sortedVars
<1>11. SortedInv'
  BY SortedStays
<1>12. ValuesInv'
  <2> DEFINE n == Flipped - Len(vs)
             vals == [i \in DOMAIN objects |-> objects[i].vals]
             new == [i \in DOMAIN objects' |-> objects'[i].vals]
  <2>1. Flipped' = Flipped /\ Pending' = <<>> /\ ~HasObject'
    BY <1>7 DEF Flipped, Pending, Writing, HasObject
  <2>2. Pending = vs /\ HasObject
    BY <1>2 DEF Pending, Writing, HasObject
  <2>3. /\ \A k \in DOMAIN vs : vs[k] = n + k
        /\ Len(vs) <= Flipped
        /\ Complete(vals, n)
        /\ \A i \in DOMAIN objects : IF i = m THEN objects[i].vals = <<>> ELSE objects[i].done
        /\ \A k \in DOMAIN mem[filling] : mem[filling][k] = Flipped + k
    BY <1>3, <2>2 DEF WriterInv, ValuesInv
  <2>4. Flipped \in Nat
    <3>1. /\ mem[filling] \in Seq(1..MaxVals) /\ nvals \in Nat /\ jobs \in Seq(JobSet)
          /\ Len(jobs) + Len(mem[filling]) <= nvals
      BY DEF WriterInv, TypeOK, CallerInv
    <3>2. Len(mem[filling]) \in Nat /\ Len(jobs) \in Nat
      BY <3>1
    <3>3. \A a, b, c \in Nat : a + b <= c => c - b \in Nat
      OBVIOUS
    <3> QED BY <3>1, <3>2, <3>3 DEF Flipped
  <2>5. n \in Nat /\ Flipped = n + (Len(vs) - 0)
    BY <1>4, <2>3, <2>4
  <2>6. Complete(new, Flipped)
    <3>1. /\ DOMAIN new = 1..m /\ DOMAIN vals = 1..m /\ vals[m] = <<>> /\ new[m] = vs
          /\ \A i \in 1..m : i # m => new[i] = vals[i]
      <4>0. obj.vals = vs
        OBVIOUS
      <4> HIDE DEF m, vs, obj
      <4>1. objects'[m].vals = vs
        BY <1>6, <4>0, Zenon
      <4>2. /\ m \in 1..m /\ DOMAIN objects = 1..m /\ DOMAIN objects' = 1..m
            /\ \A i \in 1..m : i # m => objects'[i] = objects[i]
        BY <1>4, <1>6
      <4>3. objects[m].vals = <<>>
        BY <2>3, <4>2
      <4> QED BY <4>1, <4>2, <4>3
    <3> HIDE DEF new, vals, n, m, vs
    <3>2. DOMAIN vals[m] = 1..0
      BY <3>1
    <3>3. DOMAIN new[m] = 1..Len(vs) /\ \A k \in 1..Len(vs) : new[m][k] = n + (k - 0)
      <4>1. new[m] = vs /\ DOMAIN vs = 1..Len(vs) /\ Len(vs) \in Nat /\ n \in Nat
            /\ \A k \in DOMAIN vs : vs[k] = n + k
        BY <1>4, <2>3, <2>5, <3>1
      <4>2. \A k \in 1..Len(vs) : k - 0 = k
        BY <4>1
      <4> QED BY <4>1, <4>2
    <3>4. \A i \in 1..(m - 1) : new[i] = vals[i]
      BY <1>3, <3>1
    <3>5. m # 0
      BY <1>4
    <3>6. Extended(vals, new, n, Flipped, m, 0, Len(vs))
      <4>1. n \in Nat /\ m \in Nat /\ 0 \in Nat /\ Len(vs) \in Nat /\ 0 <= Len(vs)
            /\ Flipped = n + (Len(vs) - 0)
        BY <1>3, <1>4, <2>5
      <4>2. /\ \A k \in 1..0 : new[m][k] = vals[m][k]
            /\ \A k \in 1..Len(vs) : k > 0 => new[m][k] = n + (k - 0)
        BY <3>3
      <4> QED BY <3>1, <3>2, <3>3, <3>4, <3>5, <4>1, <4>2, Zenon DEF Extended
    <3> QED BY <2>3, <3>6, CompleteExtend
  <2>7. \A i \in DOMAIN objects' : objects'[i].done
    <3>0. obj.done
      OBVIOUS
    <3> HIDE DEF m, vs, obj
    <3>1. objects'[m].done
      BY <1>6, <3>0, Zenon
    <3>2. /\ DOMAIN objects = 1..m /\ DOMAIN objects' = 1..m
          /\ \A i \in 1..m : i # m => objects'[i] = objects[i]
      BY <1>4, <1>6
    <3>3. \A i \in 1..m : i # m => objects[i].done
      BY <2>3, <3>2
    <3> QED BY <3>1, <3>2, <3>3
  <2>8. Flipped' - Len(Pending') = Flipped /\ Len(Pending') <= Flipped' /\ DOMAIN Pending' = {}
    <3>1. Len(<<>>) = 0 /\ DOMAIN <<>> = {}
      OBVIOUS
    <3>2. Len(Pending') = 0 /\ DOMAIN Pending' = {}
      BY <2>1, <3>1, Zenon
    <3> QED BY <2>1, <2>4, <3>2
  <2> HIDE DEF new
  <2>9. Complete([i \in DOMAIN objects' |-> objects'[i].vals], Flipped' - Len(Pending'))
    BY <2>6, <2>8 DEF new
  <2> QED BY <2>1, <2>3, <2>7, <2>8, <2>9 DEF ValuesInv
<1> QED BY <1>8, <1>9, <1>10, <1>11, <1>12 DEF WriterInv

(* It hands its buffer back and ends. *)
LEMMA JobsReturn ==
    ASSUME WriterInv, NEW j \in DOMAIN jobs, JobReturn(j)
    PROVE  WriterInv'
<1>1. /\ jobs[j].pc = "ok" /\ buffer' = {jobs[j].buf} /\ JobTo(j, "end")
      /\ UNCHANGED <<kind, faults, ctxDone, result, sortedVars>>
      /\ UNCHANGED <<mem, filling, closed, nvals, wPC, writeErr, objects, egErr>>
  BY DEF JobReturn, common
<1>2. /\ jobs' = [jobs EXCEPT ![j] = [buf |-> jobs[j].buf, obj |-> jobs[j].obj, pc |-> "end"]]
      /\ jobs[j].obj \in 0..MaxVals
  BY <1>1, JobToRecord
<1>3. /\ j = Len(jobs) /\ LastJob = "ok" /\ jobs[j].buf \in Buffers /\ jobs[j].buf # filling
  BY <1>1, JobFacts
<1>4. Len(jobs) = Len(objects) /\ ~closed /\ ~egErr
  <2>1. Len(objects) \in Nat
    BY DEF WriterInv, TypeOK
  <2> QED BY <1>3, <2>1 DEF WriterInv, JobsInv
<1>5. /\ jobs' \in Seq(JobSet) /\ Len(jobs') = Len(jobs) /\ LastJob' = "end"
  BY <1>1, <1>2, JobMoves
<1>6. JobsInv'
  <2>1. filling \notin buffer'
    BY <1>1, <1>3
  <2> QED BY <1>1, <1>2, <1>4, <2>1, JobsInvMoves
<1>7. CallerInv'
  BY <1>1, <1>5, CallerInvMoves
<1>8. TypeOK'
  <2>1. buffer' \subseteq Buffers
    BY <1>1, <1>3
  <2> QED BY <1>1, <1>5, <2>1 DEF WriterInv, TypeOK, sortedVars
<1>9. Flipped' = Flipped /\ Pending' = Pending /\ ~HasObject' /\ ~HasObject
  BY <1>1, <1>3, <1>5 DEF Flipped, Pending, Writing, HasObject
<1>10. ValuesInv'
  BY <1>1, <1>9 DEF WriterInv, ValuesInv
<1> QED BY <1>1, <1>6, <1>7, <1>8, <1>10, SortedStays DEF WriterInv

(* A write that has failed: the channel is closed and the error returned. *)
LEMMA JobsFail ==
    ASSUME WriterInv, NEW j \in DOMAIN jobs, JobClose(j) \/ JobFail(j)
    PROVE  WriterInv'
<1>1. /\ UNCHANGED <<kind, faults, result, sortedVars>>
      /\ UNCHANGED <<mem, filling, buffer, nvals, wPC, writeErr, objects>>
  BY DEF JobClose, JobFail, common
<1>2. PICK p \in {"closed", "end"} :
        /\ JobTo(j, p)
        /\ p = "closed" => jobs[j].pc = "failed" /\ closed' /\ egErr' = egErr /\ ctxDone' = ctxDone
        /\ p = "end" => jobs[j].pc = "closed" /\ closed' = closed /\ egErr' /\ ctxDone'
        /\ closed' \in BOOLEAN /\ egErr' \in BOOLEAN /\ ctxDone' \in BOOLEAN
  BY DEF JobClose, JobFail, common, WriterInv, TypeOK
<1>3. jobs[j].pc # "end" /\ jobs[j].pc # "new"
  BY <1>2
<1>4. /\ jobs' = [jobs EXCEPT ![j] = [buf |-> jobs[j].buf, obj |-> jobs[j].obj, pc |-> p]]
      /\ jobs[j].obj \in 0..MaxVals
  BY <1>2, JobToRecord
<1>5. /\ j = Len(jobs) /\ LastJob = jobs[j].pc /\ jobs[j].obj = j /\ buffer = {}
  BY <1>3, JobFacts
<1>6. Len(jobs) = Len(objects) /\ closed'
  <2>1. Len(objects) \in Nat
    BY DEF WriterInv, TypeOK
  <2> QED BY <1>2, <1>3, <1>5, <2>1 DEF WriterInv, JobsInv
<1>7. /\ jobs' \in Seq(JobSet) /\ Len(jobs') = Len(jobs) /\ LastJob' = p
  BY <1>3, <1>4, JobMoves
<1>8. JobsInv'
  <2>1. filling \notin buffer' /\ buffer' = {}
    BY <1>1, <1>5
  <2> QED BY <1>1, <1>2, <1>3, <1>4, <1>5, <1>6, <2>1, JobsInvMoves
<1>9. CallerInv'
  BY <1>1, <1>3, <1>6, <1>7, CallerInvMoves
<1>10. TypeOK'
  BY <1>1, <1>2, <1>6, <1>7 DEF WriterInv, TypeOK, sortedVars
<1>11. ValuesInv'
  BY <1>6 DEF ValuesInv
<1> QED BY <1>1, <1>8, <1>9, <1>10, <1>11, SortedStays DEF WriterInv

-------------------------------------------------------------------------------
(* Every step preserves the invariant. *)
LEMMA WriterNext == WriterInv /\ [Next]_vars => WriterInv'
<1> SUFFICES ASSUME WriterInv, [Next]_vars PROVE WriterInv'
  OBVIOUS
<1>1. CASE Cancel \/ UNCHANGED vars
  BY <1>1, WriterIdle
<1>2. CASE Caller
  BY <1>2, CallerWrites, CallerFlips, CallerMoves DEF Caller
<1>3. CASE SortedStep
  BY <1>3, SortedWrites, SortedEnds DEF SortedStep
<1>4. ASSUME NEW j \in DOMAIN jobs, Job(j)
      PROVE  WriterInv'
  <2>1. CASE JobNew(j)
    BY <2>1, JobsNew
  <2>2. CASE JobSort(j)
    <3>1. PICK p \in {"write", "failed"} : JobTo(j, p)
      BY <2>2 DEF JobSort
    <3>2. /\ jobs[j].pc = "sort"
          /\ UNCHANGED <<kind, ctxDone, result, mem, filling, buffer, closed, nvals, wPC>>
          /\ UNCHANGED <<faults, writeErr, objects, egErr, sortedVars>>
      BY <2>2 DEF JobSort, common
    <3>3. faults' \in 0..MaxFaults
      BY <3>2 DEF WriterInv, TypeOK
    <3> QED BY <3>1, <3>2, <3>3, JobsGoOn
  <2>3. CASE JobWrite(j)
    <3>1. /\ jobs[j].pc = "write"
          /\ UNCHANGED <<kind, ctxDone, result, mem, filling, buffer, closed, nvals, wPC>>
          /\ UNCHANGED <<writeErr, egErr, sortedVars>>
      BY <2>3 DEF JobWrite
    <3>2. CASE JobTo(j, "failed") /\ Failing /\ UNCHANGED objects
      <4>1. faults' \in 0..MaxFaults
        BY <3>2, FailingFaults DEF WriterInv
      <4> QED BY <3>1, <3>2, <4>1, JobsGoOn
    <3>3. CASE /\ JobTo(j, "ok")
               /\ objects' = IF jobs[j].obj = Len(objects)
                             THEN [objects EXCEPT ![jobs[j].obj] =
                                      [vals |-> mem[jobs[j].buf], done |-> TRUE]]
                             ELSE objects
               /\ UNCHANGED faults
      BY <3>1, <3>3, JobsWritten
    <3> QED BY <2>3, <3>2, <3>3 DEF JobWrite
  <2>4. CASE JobReturn(j)
    BY <2>4, JobsReturn
  <2>5. CASE JobClose(j) \/ JobFail(j)
    BY <2>5, JobsFail
  <2> QED BY <1>4, <2>1, <2>2, <2>3, <2>4, <2>5 DEF Job
<1> QED BY <1>1, <1>2, <1>3, <1>4 DEF Next

LEMMA WriterInvariant == Spec => []WriterInv
  BY WriterInit, WriterNext, PTL DEF Spec

-------------------------------------------------------------------------------
(* Double buffering is safe: no two goroutines write at once, none has the  *)
(* buffer that the caller fills, and the channel is not used once closed.   *)
THEOREM DoubleBufferingIsSafe == Spec => []BuffersDisjoint
<1>1. WriterInv => BuffersDisjoint
  <2> SUFFICES ASSUME WriterInv PROVE BuffersDisjoint
    OBVIOUS
  <2>1. ASSUME NEW j \in DOMAIN jobs, jobs[j].pc # "end"
        PROVE  /\ jobs[j].buf # filling /\ jobs[j].buf \notin buffer
               /\ jobs[j].pc \in {"ok", "failed"} => ~closed
               /\ \A i \in DOMAIN jobs : jobs[i].pc # "end" => i = j
    <3>1. j = Len(jobs) /\ LastJob = jobs[j].pc
      BY <2>1, JobFacts
    <3> QED BY <2>1, <3>1 DEF WriterInv, JobsInv
  <2> QED BY <2>1 DEF BuffersDisjoint, WriterInv
<1> QED BY <1>1, WriterInvariant, PTL

(* A load commits all its values, once each, in complete objects. *)
THEOREM LoadsAreComplete == Spec => []LoadComplete
<1>1. WriterInv => LoadComplete
  <2> SUFFICES ASSUME WriterInv, kind = "writer", result = "ok"
               PROVE  /\ \A i \in DOMAIN objects : objects[i].done
                      /\ Complete([i \in DOMAIN objects |-> objects[i].vals], nvals)
    BY DEF LoadComplete
  <2>1. wPC = "end" /\ LastJob = "end" /\ ~egErr
    BY DEF WriterInv, CallerInv
  <2>2. ~closed
    BY <2>1 DEF WriterInv, JobsInv
  <2>3. mem[filling] = <<>>
    BY <2>1, <2>2 DEF WriterInv, CallerInv
  <2>4. Pending = <<>> /\ ~HasObject
    BY <2>1 DEF Pending, Writing, HasObject
  <2>5. Flipped - Len(Pending) = nvals
    <3>1. Len(<<>>) = 0 /\ nvals \in Nat
      BY DEF WriterInv, TypeOK
    <3>2. Len(mem[filling]) = 0 /\ Len(Pending) = 0
      BY <2>3, <2>4, <3>1, Zenon
    <3> QED BY <3>1, <3>2 DEF Flipped
  <2> QED BY <2>2, <2>4, <2>5 DEF WriterInv, ValuesInv
<1> QED BY <1>1, WriterInvariant, PTL

(* A compaction commits all its values, in order, in objects that do not    *)
(* overlap.                                                                 *)
THEOREM CompactionsAreComplete == Spec => []CompactComplete
<1>1. WriterInv => CompactComplete
  <2> SUFFICES ASSUME WriterInv,
                      NEW i \in DOMAIN sObjects, NEW j \in DOMAIN sObjects, i # j,
                      NEW k \in DOMAIN sObjects[i], NEW l \in DOMAIN sObjects[j]
               PROVE  keys[sObjects[i][k]] # keys[sObjects[j][l]]
    BY DEF CompactComplete, WriterInv, SortedInv
  <2>1. /\ DOMAIN keys = 1..Len(keys) /\ DOMAIN sObjects = 1..Len(sObjects)
        /\ \A a \in 1..Len(keys) : keys[a] \in Nat
    <3>1. keys \in Seq(1..MaxKey) /\ sObjects \in Seq(Seq(1..MaxVals))
      BY DEF WriterInv, TypeOK
    <3>2. DOMAIN sObjects = 1..Len(sObjects)
      BY <3>1
    <3>3. DOMAIN keys = 1..Len(keys) /\ \A a \in 1..Len(keys) : keys[a] \in Nat
      <4>1. \A T : \A x \in Seq(T) :
                DOMAIN x = 1..Len(x) /\ \A a \in 1..Len(x) : x[a] \in T
        OBVIOUS
      <4>2. \A x \in 1..MaxKey : x \in Nat
        BY SortedAssumption
      <4> QED BY <3>1, <4>1, <4>2, Zenon
    <3> QED BY <3>2, <3>3
  <2>2. sObjects[i][k] \in 1..Len(keys) /\ sObjects[j][l] \in 1..Len(keys)
    BY Zenon DEF WriterInv, SortedInv, Complete
  <2>3. \/ keys[sObjects[i][k]] < keys[sObjects[j][l]]
        \/ keys[sObjects[j][l]] < keys[sObjects[i][k]]
    <3>1. i < j \/ j < i
      BY <2>1
    <3> QED BY <3>1 DEF WriterInv, SortedInv
  <2>4. keys[sObjects[i][k]] \in Nat /\ keys[sObjects[j][l]] \in Nat
    BY <2>1, <2>2
  <2> QED BY <2>3, <2>4
<1> QED BY <1>1, WriterInvariant, PTL
===============================================================================
