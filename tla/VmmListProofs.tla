---------------------------- MODULE VmmListProofs ----------------------------
(***************************************************************************)
(* What the operations on a list of regions of kernel/mm/vmm.c do to lists *)
(* of any length.                                                          *)
(***************************************************************************)
EXTENDS Vmm, WellFoundedInduction, SequenceTheorems, TLAPS

Flags == {KRW, KRO} \cup {u.flags : u \in UserRanges}
Region == [start : Nat, stop : Nat, flags : Flags]

\* A region that has a page.
Proper(r) == r \in Region /\ r.start < r.stop

\* A set of numbers has a least one, and Min finds it.
LEMMA MinProperty ==
    ASSUME NEW S \in SUBSET Nat, S # {}
    PROVE  Min(S) \in S /\ \A k \in S : Min(S) <= k
<1> DEFINE Less == {ss \in Nat \X Nat : ss[1] < ss[2]}
<1>1. IsWellFoundedOn(Less, Nat)
  BY Zenon, NatLessThanWellFounded DEF OpToRel
<1> HIDE DEF Less
<1>2. PICK x \in S : \A y \in S : ~ (<<y, x>> \in Less)
  BY <1>1, WFMin
<1>3. ASSUME NEW y \in S PROVE x <= y
  <2>1. x \in Nat /\ y \in Nat /\ <<y, x>> \in Nat \X Nat
    OBVIOUS
  <2>2. y < x => <<y, x>> \in Less
    BY <2>1 DEF Less
  <2> QED BY <1>2, <2>1, <2>2
<1> QED BY <1>2, <1>3 DEF Min

\* Two sequences behind each other.
LEMMA Behind ==
    ASSUME NEW S, NEW f \in Seq(S), NEW g \in Seq(S)
    PROVE  /\ f \o g \in Seq(S)
           /\ Len(f \o g) = Len(f) + Len(g)
           /\ \A k \in 1 .. Len(f) : (f \o g)[k] = f[k]
           /\ \A k \in 1 .. Len(g) : (f \o g)[Len(f) + k] = g[k]
<1>1. f \o g \in Seq(S) /\ Len(f \o g) = Len(f) + Len(g)
  BY ConcatProperties
<1>2. ASSUME NEW k \in 1 .. Len(f) PROVE (f \o g)[k] = f[k]
  BY ConcatProperties
<1>3. ASSUME NEW k \in 1 .. Len(g) PROVE (f \o g)[Len(f) + k] = g[k]
  BY ConcatProperties
<1> QED BY Zenon, <1>1, <1>2, <1>3

\* A part of a sequence.
LEMMA Part ==
    ASSUME NEW S, NEW rs \in Seq(S), NEW a \in 1 .. Len(rs) + 1, NEW b \in 0 .. Len(rs),
           a <= b + 1
    PROVE  /\ SubSeq(rs, a, b) \in Seq(S)
           /\ Len(SubSeq(rs, a, b)) = b - a + 1
           /\ \A k \in 1 .. b - a + 1 : SubSeq(rs, a, b)[k] = rs[a + k - 1]
<1>1. a \in Int /\ b \in Int /\ \A i \in a .. b : rs[i] \in S
  BY ElementOfSeq
<1>2. SubSeq(rs, a, b) \in Seq(S)
  BY <1>1, SubSeqProperties
<1>3. Len(SubSeq(rs, a, b)) = b - a + 1
  BY <1>1, SubSeqProperties
<1>4. ASSUME NEW k \in 1 .. b - a + 1 PROVE SubSeq(rs, a, b)[k] = rs[a + k - 1]
  BY <1>1, SubSeqProperties
<1> QED BY Zenon, <1>2, <1>3, <1>4

\* The first a elements of a sequence, x, and the elements from b on.
LEMMA Splice ==
    ASSUME NEW rs \in Seq(Region), NEW x \in Region,
           NEW a \in 0 .. Len(rs), NEW b \in 1 .. Len(rs) + 1
    PROVE  \A ns : ns = SubSeq(rs, 1, a) \o <<x>> \o SubSeq(rs, b, Len(rs)) =>
           /\ ns \in Seq(Region)
           /\ Len(ns) = a + 2 + Len(rs) - b
           /\ \A k \in 1 .. a : ns[k] = rs[k]
           /\ ns[a + 1] = x
           /\ \A k \in a + 2 .. Len(ns) : ns[k] = rs[k - a - 2 + b]
<1>0. SUFFICES ASSUME NEW ns, ns = SubSeq(rs, 1, a) \o <<x>> \o SubSeq(rs, b, Len(rs))
      PROVE  /\ ns \in Seq(Region)
             /\ Len(ns) = a + 2 + Len(rs) - b
             /\ \A k \in 1 .. a : ns[k] = rs[k]
             /\ ns[a + 1] = x
             /\ \A k \in a + 2 .. Len(ns) : ns[k] = rs[k - a - 2 + b]
  BY Zenon
<1>1. PICK f : f = SubSeq(rs, 1, a)
  OBVIOUS
<1>2. PICK g : g = SubSeq(rs, b, Len(rs))
  OBVIOUS
<1>3. PICK one : one = <<x>>
  OBVIOUS
<1>4. PICK m : m = f \o one
  OBVIOUS
<1>5. ns = m \o g
  BY Zenon, <1>0, <1>1, <1>2, <1>3, <1>4
<1>6. f \in Seq(Region) /\ Len(f) = a /\ \A k \in 1 .. a : f[k] = rs[k]
  <2>1. 1 \in 1 .. Len(rs) + 1 /\ 1 <= a + 1 /\ a - 1 + 1 = a
    OBVIOUS
  <2>2. /\ SubSeq(rs, 1, a) \in Seq(Region) /\ Len(SubSeq(rs, 1, a)) = a
        /\ \A k \in 1 .. a - 1 + 1 : SubSeq(rs, 1, a)[k] = rs[1 + k - 1]
    BY <2>1, Part
  <2>3. /\ f \in Seq(Region) /\ Len(f) = a
        /\ \A k \in 1 .. a - 1 + 1 : f[k] = rs[1 + k - 1]
    BY Zenon, <1>1, <2>2
  <2> QED BY <2>3
<1>7. g \in Seq(Region) /\ Len(g) = Len(rs) - b + 1 /\ \A k \in 1 .. Len(g) : g[k] = rs[b + k - 1]
  <2>1. Len(rs) \in 0 .. Len(rs) /\ b <= Len(rs) + 1
    OBVIOUS
  <2>2. /\ SubSeq(rs, b, Len(rs)) \in Seq(Region)
        /\ Len(SubSeq(rs, b, Len(rs))) = Len(rs) - b + 1
        /\ \A k \in 1 .. Len(rs) - b + 1 : SubSeq(rs, b, Len(rs))[k] = rs[b + k - 1]
    BY <2>1, Part
  <2> QED BY Zenon, <1>2, <2>2
<1>8. one \in Seq(Region) /\ Len(one) = 1 /\ one[1] = x
  BY <1>3
<1>9. /\ m \in Seq(Region) /\ Len(m) = Len(f) + Len(one)
      /\ \A k \in 1 .. Len(f) : m[k] = f[k]
      /\ \A k \in 1 .. Len(one) : m[Len(f) + k] = one[k]
  <2>1. f \in Seq(Region) /\ one \in Seq(Region)
    BY Zenon, <1>6, <1>8
  <2>2. /\ f \o one \in Seq(Region) /\ Len(f \o one) = Len(f) + Len(one)
        /\ \A k \in 1 .. Len(f) : (f \o one)[k] = f[k]
        /\ \A k \in 1 .. Len(one) : (f \o one)[Len(f) + k] = one[k]
    BY <2>1, Behind
  <2> QED BY Zenon, <1>4, <2>2
<1>10. /\ ns \in Seq(Region) /\ Len(ns) = Len(m) + Len(g)
       /\ \A k \in 1 .. Len(m) : ns[k] = m[k]
       /\ \A k \in 1 .. Len(g) : ns[Len(m) + k] = g[k]
  <2>1. m \in Seq(Region) /\ g \in Seq(Region)
    BY Zenon, <1>7, <1>9
  <2>2. /\ m \o g \in Seq(Region) /\ Len(m \o g) = Len(m) + Len(g)
        /\ \A k \in 1 .. Len(m) : (m \o g)[k] = m[k]
        /\ \A k \in 1 .. Len(g) : (m \o g)[Len(m) + k] = g[k]
    BY <2>1, Behind
  <2> QED BY Zenon, <1>5, <2>2
<1>11. Len(m) = a + 1 /\ m[a + 1] = x /\ \A k \in 1 .. a : m[k] = rs[k]
  BY <1>6, <1>8, <1>9
<1>12. Len(ns) = a + 2 + Len(rs) - b
  BY <1>7, <1>10, <1>11
<1>13. (\A k \in 1 .. a : ns[k] = rs[k]) /\ ns[a + 1] = x
  BY <1>10, <1>11
<1>14. ASSUME NEW k \in a + 2 .. Len(ns) PROVE ns[k] = rs[k - a - 2 + b]
  <2>1. PICK j \in 1 .. Len(g) : k = Len(m) + j
    <3>1. k - (a + 1) \in 1 .. Len(g) /\ k = Len(m) + (k - (a + 1))
      BY <1>7, <1>11, <1>12
    <3> QED BY <3>1
  <2>2. ns[k] = g[j] /\ g[j] = rs[b + j - 1]
    BY Zenon, <1>7, <1>10, <2>1
  <2>3. b + j - 1 = k - a - 2 + b
    BY <1>7, <1>11, <1>12, <2>1
  <2> QED BY Zenon, <2>2, <2>3
<1> QED BY Zenon, <1>10, <1>12, <1>13, <1>14

\* A sound list whose regions after the first a and before the b-th are replaced
\* by x is sound when x is apart from what is left and cannot be merged with it.
LEMMA SplicedSound ==
    ASSUME NEW rs \in Seq(Region), ListSound(rs), NEW x, Proper(x),
           NEW a \in 0 .. Len(rs), NEW b \in 1 .. Len(rs) + 1, a < b,
           NEW ns \in Seq(Region), Len(ns) = a + 2 + Len(rs) - b,
           \A k \in 1 .. a : ns[k] = rs[k],
           ns[a + 1] = x,
           \A k \in a + 2 .. Len(ns) : ns[k] = rs[k - a - 2 + b],
           \A k \in 1 .. a : rs[k].stop <= x.start,
           \A k \in b .. Len(rs) : x.stop <= rs[k].start,
           a > 0 /\ rs[a].stop = x.start => rs[a].flags # x.flags,
           b <= Len(rs) /\ x.stop = rs[b].start => x.flags # rs[b].flags
    PROVE  ListSound(ns)
<1>1. /\ \A k \in 1 .. Len(rs) : rs[k].start < rs[k].stop
      /\ \A k \in 1 .. Len(rs), m \in 1 .. Len(rs) : k < m => rs[k].stop <= rs[m].start
      /\ \A k \in 1 .. Len(rs) - 1 :
            rs[k].stop = rs[k + 1].start => rs[k].flags # rs[k + 1].flags
  BY DEF ListSound
<1>2. x.start < x.stop
  BY DEF Proper
<1>3. ASSUME NEW k \in 1 .. Len(ns) PROVE k \in 1 .. a \/ k = a + 1 \/ k \in a + 2 .. Len(ns)
  OBVIOUS
<1>4. ASSUME NEW k \in a + 2 .. Len(ns)
      PROVE  k - a - 2 + b \in b .. Len(rs) /\ k - a - 2 + b \in 1 .. Len(rs)
  OBVIOUS
<1>5. ASSUME NEW k \in 1 .. Len(ns) PROVE ns[k].start < ns[k].stop
  <2>1. CASE k \in 1 .. a
    <3>1. ns[k] = rs[k] /\ k \in 1 .. Len(rs)
      BY <2>1
    <3> QED BY <1>1, <3>1
  <2>2. CASE k = a + 1
    <3>1. ns[k] = x
      BY <2>2
    <3> QED BY <1>2, <3>1
  <2>3. CASE k \in a + 2 .. Len(ns)
    BY <1>1, <1>4, <2>3
  <2> QED BY <1>3, <2>1, <2>2, <2>3
<1>6. ASSUME NEW k \in 1 .. Len(ns), NEW m \in 1 .. Len(ns), k < m
      PROVE  ns[k].stop <= ns[m].start
  <2>1. CASE m \in 1 .. a
    <3>1. k \in 1 .. a /\ k \in 1 .. Len(rs) /\ m \in 1 .. Len(rs)
      BY <1>6, <2>1
    <3> QED BY <1>1, <1>6, <2>1, <3>1
  <2>2. CASE m = a + 1
    <3>1. k \in 1 .. a
      BY <1>6, <2>2
    <3> QED BY <2>2, <3>1
  <2>3. CASE m \in a + 2 .. Len(ns) /\ k \in 1 .. a
    <3>1. PICK q \in b .. Len(rs) : q = m - a - 2 + b
      BY <1>4, <2>3
    <3>2. ns[m] = rs[q] /\ ns[k] = rs[k]
      BY <2>3, <3>1
    <3>3. k \in 1 .. Len(rs) /\ q \in 1 .. Len(rs) /\ k < q
      BY <2>3, <3>1
    <3> QED BY <1>1, <3>2, <3>3
  <2>4. CASE m \in a + 2 .. Len(ns) /\ k = a + 1
    <3>1. PICK q \in b .. Len(rs) : q = m - a - 2 + b
      BY <1>4, <2>4
    <3>2. ns[m] = rs[q] /\ ns[k] = x
      BY <2>4, <3>1
    <3> QED BY <3>1, <3>2
  <2>5. CASE m \in a + 2 .. Len(ns) /\ k \in a + 2 .. Len(ns)
    <3>1. PICK q \in b .. Len(rs) : q = m - a - 2 + b
      BY <1>4, <2>5
    <3>2. PICK p \in b .. Len(rs) : p = k - a - 2 + b
      BY <1>4, <2>5
    <3>3. ns[m] = rs[q] /\ ns[k] = rs[p]
      BY <2>5, <3>1, <3>2
    <3>4. p \in 1 .. Len(rs) /\ q \in 1 .. Len(rs) /\ p < q
      BY <1>6, <2>5, <3>1, <3>2
    <3> QED BY <1>1, <3>3, <3>4
  <2> QED BY <1>3, <2>1, <2>2, <2>3, <2>4, <2>5
<1>7. ASSUME NEW k \in 1 .. Len(ns) - 1, ns[k].stop = ns[k + 1].start
      PROVE  ns[k].flags # ns[k + 1].flags
  <2>1. CASE k < a
    <3>1. k \in 1 .. Len(rs) - 1 /\ ns[k] = rs[k] /\ ns[k + 1] = rs[k + 1]
      BY <2>1
    <3> QED BY <1>1, <1>7, <3>1
  <2>2. CASE k = a
    <3>1. ns[k] = rs[a] /\ ns[k + 1] = x /\ a > 0
      BY SMTT(30), <2>2
    <3> QED BY <1>7, <3>1
  <2>3. CASE k = a + 1
    <3>1. k + 1 \in a + 2 .. Len(ns) /\ k + 1 - a - 2 + b = b
      BY <2>3
    <3>2. ns[k] = x /\ ns[k + 1] = rs[b] /\ b <= Len(rs)
      BY <1>4, <2>3, <3>1
    <3> QED BY <1>7, <3>2
  <2>4. CASE k > a + 1
    <3>1. PICK q \in b .. Len(rs) - 1 : q = k - a - 2 + b
      BY <2>4
    <3>2. k \in a + 2 .. Len(ns) /\ k + 1 \in a + 2 .. Len(ns) /\ k + 1 - a - 2 + b = q + 1
      BY <2>4, <3>1
    <3>3. ns[k] = rs[q] /\ ns[k + 1] = rs[q + 1]
      BY SMTT(30), <3>1, <3>2
    <3>4. q \in 1 .. Len(rs) - 1
      BY <3>1
    <3> QED BY <1>1, <1>7, <3>3, <3>4
  <2> QED BY <2>1, <2>2, <2>3, <2>4
<1> QED BY <1>5, <1>6, <1>7 DEF ListSound

\* What vmm_insert_range gives a list that the range does not overlap: a sound
\* list, and every region of it but one was there before.
LEMMA InsertSound ==
    ASSUME NEW rs \in Seq(Region), ListSound(rs), NEW i \in 0 .. Len(rs), NEW r, Proper(r),
           ~Overlaps(rs, i, r.start, r.stop)
    PROVE  /\ vmm_insert_range(rs, i, r) \in Seq(Region)
           /\ ListSound(vmm_insert_range(rs, i, r))
           /\ \A k \in 1 .. Len(vmm_insert_range(rs, i, r)) :
                 \/ vmm_insert_range(rs, i, r)[k] = Joined(rs, i, r)
                 \/ \E m \in 1 .. Len(rs) : vmm_insert_range(rs, i, r)[k] = rs[m]
<1>1. PICK a : a = IF JoinsPrev(rs, i, r) THEN i - 1 ELSE i
  OBVIOUS
<1>2. PICK b : b = IF JoinsNext(rs, i, r) THEN i + 2 ELSE i + 1
  OBVIOUS
<1>3. PICK x : x = Joined(rs, i, r)
  OBVIOUS
<1>4. PICK ns : ns = vmm_insert_range(rs, i, r)
  OBVIOUS
<1>5. ns = SubSeq(rs, 1, a) \o <<x>> \o SubSeq(rs, b, Len(rs))
  BY Zenon, <1>1, <1>2, <1>3, <1>4 DEF vmm_insert_range
<1>6. /\ \A k \in 1 .. Len(rs) : rs[k].start < rs[k].stop
      /\ \A k \in 1 .. Len(rs), m \in 1 .. Len(rs) : k < m => rs[k].stop <= rs[m].start
      /\ \A k \in 1 .. Len(rs) - 1 :
            rs[k].stop = rs[k + 1].start => rs[k].flags # rs[k + 1].flags
  BY DEF ListSound
<1>7. \A k \in 1 .. Len(rs) : rs[k].start \in Nat /\ rs[k].stop \in Nat /\ rs[k].flags \in Flags
  <2>1. ASSUME NEW k \in 1 .. Len(rs) PROVE rs[k] \in Region
    BY ElementOfSeq
  <2> QED BY <2>1 DEF Region
<1>8. r.start \in Nat /\ r.stop \in Nat /\ r.flags \in Flags /\ r.start < r.stop
  BY DEF Proper, Region
<1>9. /\ i < Len(rs) => r.stop <= rs[i + 1].start
      /\ i > 0 => rs[i].stop <= r.start
  BY <1>7, <1>8 DEF Overlaps
<1>10. /\ JoinsPrev(rs, i, r) => i > 0 /\ r.start = rs[i].stop /\ r.flags = rs[i].flags
       /\ ~JoinsPrev(rs, i, r) => i = 0 \/ r.start # rs[i].stop \/ r.flags # rs[i].flags
       /\ JoinsNext(rs, i, r) => i < Len(rs) /\ r.stop = rs[i + 1].start /\ rs[i + 1].flags = r.flags
       /\ ~JoinsNext(rs, i, r) => i = Len(rs) \/ r.stop # rs[i + 1].start \/ rs[i + 1].flags # r.flags
  BY DEF JoinsPrev, JoinsNext
<1>11. /\ x.flags = r.flags
       /\ x.start = IF JoinsPrev(rs, i, r) THEN rs[i].start ELSE r.start
       /\ x.stop = IF JoinsNext(rs, i, r) THEN rs[i + 1].stop ELSE r.stop
  BY <1>3 DEF Joined, Reg
<1>12. /\ JoinsPrev(rs, i, r) => i \in 1 .. Len(rs) /\ a = i - 1 /\ x.start = rs[i].start
       /\ ~JoinsPrev(rs, i, r) => a = i /\ x.start = r.start
  BY <1>1, <1>10, <1>11
<1>13. /\ JoinsNext(rs, i, r) => i + 1 \in 1 .. Len(rs) /\ b = i + 2 /\ x.stop = rs[i + 1].stop
       /\ ~JoinsNext(rs, i, r) => b = i + 1 /\ x.stop = r.stop
  BY <1>2, <1>10, <1>11
<1>14. x.start \in Nat /\ x.start <= r.start
  BY <1>6, <1>7, <1>8, <1>10, <1>12
<1>15. x.stop \in Nat /\ r.stop <= x.stop
  BY <1>6, <1>7, <1>8, <1>10, <1>13
<1>16. Proper(x)
  <2>1. x = [start |-> x.start, stop |-> x.stop, flags |-> x.flags]
    BY <1>3 DEF Joined, Reg
  <2>2. x.flags \in Flags /\ x.start < x.stop
    BY <1>8, <1>11, <1>14, <1>15
  <2> QED BY <1>14, <1>15, <2>1, <2>2 DEF Proper, Region
<1>17. a \in 0 .. Len(rs) /\ b \in 1 .. Len(rs) + 1 /\ a < b
  BY <1>12, <1>13
<1>18. x \in Region
  BY <1>16 DEF Proper
<1>19. /\ ns \in Seq(Region)
       /\ Len(ns) = a + 2 + Len(rs) - b
       /\ \A k \in 1 .. a : ns[k] = rs[k]
       /\ ns[a + 1] = x
       /\ \A k \in a + 2 .. Len(ns) : ns[k] = rs[k - a - 2 + b]
  <2>1. a \in 0 .. Len(rs) /\ b \in 1 .. Len(rs) + 1
    BY Zenon, <1>17
  <2>2. \A t : t = SubSeq(rs, 1, a) \o <<x>> \o SubSeq(rs, b, Len(rs)) =>
           /\ t \in Seq(Region)
           /\ Len(t) = a + 2 + Len(rs) - b
           /\ \A k \in 1 .. a : t[k] = rs[k]
           /\ t[a + 1] = x
           /\ \A k \in a + 2 .. Len(t) : t[k] = rs[k - a - 2 + b]
    BY ZenonT(30), <1>18, <2>1, Splice
  <2> QED BY Zenon, <1>5, <2>2
<1>20. ASSUME NEW k \in 1 .. a PROVE rs[k].stop <= x.start
  <2>1. CASE JoinsPrev(rs, i, r)
    <3>1. k \in 1 .. Len(rs) /\ i \in 1 .. Len(rs) /\ k < i
      BY <1>12, <2>1
    <3> QED BY <1>6, <1>12, <2>1, <3>1
  <2>2. CASE ~JoinsPrev(rs, i, r)
    <3>1. k \in 1 .. Len(rs) /\ i \in 1 .. Len(rs) /\ k <= i
      BY <1>12, <2>2
    <3>2. k < i => rs[k].stop <= rs[i].start /\ rs[i].start < rs[i].stop
      BY <1>6, <3>1
    <3> QED BY SMTT(30), <1>7, <1>8, <1>9, <1>12, <2>2, <3>1, <3>2
  <2> QED BY <2>1, <2>2
<1>21. ASSUME NEW k \in b .. Len(rs) PROVE x.stop <= rs[k].start
  <2>1. CASE JoinsNext(rs, i, r)
    <3>1. k \in 1 .. Len(rs) /\ i + 1 \in 1 .. Len(rs) /\ i + 1 < k
      BY <1>13, <2>1
    <3> QED BY <1>6, <1>13, <2>1, <3>1
  <2>2. CASE ~JoinsNext(rs, i, r)
    <3>1. k \in 1 .. Len(rs) /\ i + 1 \in 1 .. Len(rs) /\ i + 1 <= k
      BY <1>13, <2>2
    <3>2. i + 1 < k => rs[i + 1].stop <= rs[k].start /\ rs[i + 1].start < rs[i + 1].stop
      BY <1>6, <3>1
    <3> QED BY <1>7, <1>8, <1>9, <1>13, <2>2, <3>1, <3>2
  <2> QED BY <2>1, <2>2
<1>22. ASSUME a > 0, rs[a].stop = x.start PROVE rs[a].flags # x.flags
  <2>1. CASE JoinsPrev(rs, i, r)
    <3>1. a \in 1 .. Len(rs) - 1 /\ a + 1 = i
      BY <1>12, <1>17, <1>22, <2>1
    <3> QED BY SMTT(30), <1>6, <1>10, <1>11, <1>12, <1>22, <2>1, <3>1
  <2>2. CASE ~JoinsPrev(rs, i, r)
    BY <1>10, <1>11, <1>12, <1>22, <2>2
  <2> QED BY <2>1, <2>2
<1>23. ASSUME b <= Len(rs), x.stop = rs[b].start PROVE x.flags # rs[b].flags
  <2>1. CASE JoinsNext(rs, i, r)
    <3>1. i + 1 \in 1 .. Len(rs) - 1 /\ b = i + 1 + 1
      BY <1>13, <1>17, <1>23, <2>1
    <3> QED BY SMTT(30), <1>6, <1>10, <1>11, <1>13, <1>23, <2>1, <3>1
  <2>2. CASE ~JoinsNext(rs, i, r)
    BY <1>10, <1>11, <1>13, <1>23, <2>2
  <2> QED BY <2>1, <2>2
<1>24. ListSound(ns)
  BY SMTT(30), <1>16, <1>17, <1>19, <1>20, <1>21, <1>22, <1>23, SplicedSound
<1>25. ASSUME NEW k \in 1 .. Len(ns) PROVE ns[k] = x \/ \E m \in 1 .. Len(rs) : ns[k] = rs[m]
  <2>1. CASE k \in 1 .. a
    BY SMTT(30), <1>17, <1>19, <2>1
  <2>2. CASE k = a + 1
    BY <1>19, <2>2
  <2>3. CASE k \in a + 2 .. Len(ns)
    <3>1. k - a - 2 + b \in 1 .. Len(rs)
      BY <1>17, <1>19, <2>3
    <3> QED BY <1>19, <2>3, <3>1
  <2> QED BY <1>17, <1>19, <2>1, <2>2, <2>3
<1> QED BY Zenon, <1>3, <1>4, <1>19, <1>24, <1>25

\* The place vmm_add_range finds is one behind some region or none.
LEMMA SlotIndex ==
    ASSUME NEW rs \in Seq(Region), NEW start \in Nat, NEW stop \in Nat
    PROVE  Slot(rs, start, stop) \in 0 .. Len(rs)
<1>1. PICK slots : slots = {i \in 0 .. Len(rs) - 1 : /\ i = 0 \/ start > rs[i].start
                                                  /\ stop < rs[i + 1].stop}
  OBVIOUS
<1>2. Slot(rs, start, stop) = IF slots = {} THEN Len(rs) ELSE Min(slots)
  BY <1>1 DEF Slot
<1>3. CASE slots = {}
  BY <1>2, <1>3
<1>4. CASE slots # {}
  <2>1. slots \in SUBSET Nat /\ slots \subseteq 0 .. Len(rs)
    BY <1>1
  <2>2. Min(slots) \in slots
    BY <1>4, <2>1, MinProperty
  <2> QED BY <1>2, <1>4, <2>1, <2>2
<1> QED BY <1>3, <1>4

\* vmm_add_range panics over no range that is apart from every region.
LEMMA SlotApart ==
    ASSUME NEW rs \in Seq(Region), ListSound(rs), NEW r, Proper(r),
           \A k \in 1 .. Len(rs) : rs[k].stop <= r.start \/ r.stop <= rs[k].start
    PROVE  ~Overlaps(rs, Slot(rs, r.start, r.stop), r.start, r.stop)
<1>1. PICK slots : slots = {i \in 0 .. Len(rs) - 1 : /\ i = 0 \/ r.start > rs[i].start
                                                  /\ r.stop < rs[i + 1].stop}
  OBVIOUS
<1>2. PICK j : j = Slot(rs, r.start, r.stop)
  OBVIOUS
<1>3. j = IF slots = {} THEN Len(rs) ELSE Min(slots)
  BY <1>1, <1>2 DEF Slot
<1>4. \A k \in 1 .. Len(rs) : /\ rs[k].start \in Nat /\ rs[k].stop \in Nat
                              /\ rs[k].start < rs[k].stop
  <2>1. ASSUME NEW k \in 1 .. Len(rs) PROVE rs[k] \in Region
    BY ElementOfSeq
  <2> QED BY <2>1 DEF Region, ListSound
<1>5. r.start \in Nat /\ r.stop \in Nat /\ r.start < r.stop
  BY DEF Proper, Region
<1>6. CASE slots # {}
  <2>1. slots \in SUBSET Nat
    BY <1>1
  <2>2. j \in slots
    <3>1. Min(slots) \in slots
      BY <1>6, <2>1, MinProperty
    <3> QED BY <1>3, <1>6, <3>1
  <2>3. /\ j \in 0 .. Len(rs) - 1 /\ r.stop < rs[j + 1].stop
        /\ j = 0 \/ r.start > rs[j].start
    BY <1>1, <2>2
  <2>4. r.stop <= rs[j + 1].start
    <3>1. j + 1 \in 1 .. Len(rs) /\ r.stop < rs[j + 1].stop
      BY <2>3
    <3>2. rs[j + 1].stop <= r.start \/ r.stop <= rs[j + 1].start
      BY <3>1
    <3> QED BY <1>4, <1>5, <3>1, <3>2
  <2>5. ASSUME j > 0 PROVE rs[j].stop <= r.start
    <3>1. j \in 1 .. Len(rs) /\ r.start > rs[j].start
      BY <2>3, <2>5
    <3>2. rs[j].stop <= r.start \/ r.stop <= rs[j].start
      BY <3>1
    <3> QED BY <1>4, <1>5, <3>1, <3>2
  <2>6. ~Overlaps(rs, j, r.start, r.stop)
    BY <1>4, <1>5, <2>3, <2>4, <2>5 DEF Overlaps
  <2> QED BY Zenon, <1>2, <2>6
<1>7. CASE slots = {}
  <2>1. j = Len(rs)
    BY <1>3, <1>7
  <2>2. ASSUME Len(rs) > 0, r.stop <= rs[Len(rs)].start PROVE FALSE
    <3>1. PICK later : later = {k \in 1 .. Len(rs) : r.stop <= rs[k].start}
      OBVIOUS
    <3>2. later \in SUBSET Nat /\ later # {}
      BY <2>2, <3>1
    <3>3. PICK q : q = Min(later)
      OBVIOUS
    <3>4. q \in later /\ \A k \in later : q <= k
      BY <3>2, <3>3, MinProperty
    <3>5. q \in 1 .. Len(rs) /\ r.stop <= rs[q].start
      BY <3>1, <3>4
    <3>6. r.stop < rs[q].stop
      BY <1>4, <1>5, <3>5
    <3>7. CASE q = 1
      <4>1. 0 \in slots
        BY <1>1, <3>5, <3>6, <3>7
      <4> QED BY <1>7, <4>1
    <3>8. CASE q > 1
      <4>1. q - 1 \in 1 .. Len(rs) /\ q - 1 \notin later
        BY <3>4, <3>5, <3>8
      <4>2. rs[q - 1].stop <= r.start
        BY <3>1, <4>1
      <4>3. r.start > rs[q - 1].start
        BY <1>4, <1>5, <4>1, <4>2
      <4>4. q - 1 \in slots
        BY <1>1, <3>5, <3>6, <4>1, <4>3
      <4> QED BY <1>7, <4>4
    <3> QED BY <3>5, <3>7, <3>8
  <2>3. Len(rs) > 0 => rs[Len(rs)].stop <= r.start
    BY <2>2
  <2>4. ~Overlaps(rs, j, r.start, r.stop)
    BY <1>4, <1>5, <2>1, <2>3 DEF Overlaps
  <2> QED BY Zenon, <1>2, <2>4
<1> QED BY <1>6, <1>7

\* vmm_add_range of a range that it finds apart keeps the list sound.
LEMMA AddSound ==
    ASSUME NEW rs \in Seq(Region), ListSound(rs), NEW r, Proper(r),
           ~Overlaps(rs, Slot(rs, r.start, r.stop), r.start, r.stop)
    PROVE  /\ vmm_add_range(rs, r) \in Seq(Region)
           /\ ListSound(vmm_add_range(rs, r))
<1>1. r.start \in Nat /\ r.stop \in Nat
  BY DEF Proper, Region
<1>2. Slot(rs, r.start, r.stop) \in 0 .. Len(rs)
  BY <1>1, SlotIndex
<1> QED BY <1>2, InsertSound DEF vmm_add_range

\* A sound list without one of its regions is sound.
LEMMA DropSound ==
    ASSUME NEW rs \in Seq(Region), ListSound(rs), NEW k \in 1 .. Len(rs)
    PROVE  \A ns : ns = SubSeq(rs, 1, k - 1) \o SubSeq(rs, k + 1, Len(rs)) =>
           /\ ns \in Seq(Region)
           /\ ListSound(ns)
           /\ \A m \in 1 .. Len(ns) : \E q \in 1 .. Len(rs) \ {k} : ns[m] = rs[q]
<1>0. SUFFICES ASSUME NEW ns, ns = SubSeq(rs, 1, k - 1) \o SubSeq(rs, k + 1, Len(rs))
      PROVE  /\ ns \in Seq(Region)
             /\ ListSound(ns)
             /\ \A m \in 1 .. Len(ns) : \E q \in 1 .. Len(rs) \ {k} : ns[m] = rs[q]
  BY Zenon
<1>1. PICK f : f = SubSeq(rs, 1, k - 1)
  OBVIOUS
<1>2. PICK g : g = SubSeq(rs, k + 1, Len(rs))
  OBVIOUS
<1>3. ns = f \o g
  BY Zenon, <1>0, <1>1, <1>2
<1>4. f \in Seq(Region) /\ Len(f) = k - 1 /\ \A m \in 1 .. k - 1 : f[m] = rs[m]
  <2>1. /\ 1 \in 1 .. Len(rs) + 1 /\ k - 1 \in 0 .. Len(rs) /\ 1 <= k - 1 + 1
        /\ k - 1 - 1 + 1 = k - 1
    OBVIOUS
  <2>2. /\ SubSeq(rs, 1, k - 1) \in Seq(Region)
        /\ Len(SubSeq(rs, 1, k - 1)) = k - 1
        /\ \A m \in 1 .. k - 1 - 1 + 1 : SubSeq(rs, 1, k - 1)[m] = rs[1 + m - 1]
    BY <2>1, Part
  <2>3. /\ f \in Seq(Region) /\ Len(f) = k - 1
        /\ \A m \in 1 .. k - 1 - 1 + 1 : f[m] = rs[1 + m - 1]
    BY Zenon, <1>1, <2>2
  <2> QED BY <2>3
<1>5. /\ g \in Seq(Region) /\ Len(g) = Len(rs) - k
      /\ \A m \in 1 .. Len(rs) - k : g[m] = rs[m + k]
  <2>1. /\ k + 1 \in 1 .. Len(rs) + 1 /\ Len(rs) \in 0 .. Len(rs) /\ k + 1 <= Len(rs) + 1
        /\ Len(rs) - (k + 1) + 1 = Len(rs) - k
    BY SMTT(30)
  <2>2. /\ SubSeq(rs, k + 1, Len(rs)) \in Seq(Region)
        /\ Len(SubSeq(rs, k + 1, Len(rs))) = Len(rs) - (k + 1) + 1
        /\ \A m \in 1 .. Len(rs) - (k + 1) + 1 : SubSeq(rs, k + 1, Len(rs))[m] = rs[k + 1 + m - 1]
    BY <2>1, Part
  <2>3. /\ g \in Seq(Region) /\ Len(g) = Len(rs) - (k + 1) + 1
        /\ \A m \in 1 .. Len(rs) - (k + 1) + 1 : g[m] = rs[k + 1 + m - 1]
    BY Zenon, <1>2, <2>2
  <2>4. ASSUME NEW m \in 1 .. Len(rs) - k PROVE g[m] = rs[m + k]
    <3>1. k + 1 + m - 1 = m + k
      OBVIOUS
    <3> QED BY <2>1, <2>3, <3>1
  <2> QED BY <2>1, <2>3, <2>4
<1>6. /\ ns \in Seq(Region) /\ Len(ns) = Len(f) + Len(g)
      /\ \A m \in 1 .. Len(f) : ns[m] = f[m]
      /\ \A m \in 1 .. Len(g) : ns[Len(f) + m] = g[m]
  <2>1. f \in Seq(Region) /\ g \in Seq(Region)
    BY Zenon, <1>4, <1>5
  <2>2. /\ f \o g \in Seq(Region) /\ Len(f \o g) = Len(f) + Len(g)
        /\ \A m \in 1 .. Len(f) : (f \o g)[m] = f[m]
        /\ \A m \in 1 .. Len(g) : (f \o g)[Len(f) + m] = g[m]
    BY <2>1, Behind
  <2> QED BY Zenon, <1>3, <2>2
<1>7. Len(ns) = Len(rs) - 1
  BY <1>4, <1>5, <1>6
<1>8. ASSUME NEW m \in 1 .. Len(ns)
      PROVE  /\ m < k => ns[m] = rs[m]
             /\ m >= k => ns[m] = rs[m + 1]
  <2>1. CASE m < k
    BY <1>4, <1>6, <2>1
  <2>2. CASE m >= k
    <3>1. PICK j \in 1 .. Len(rs) - k : m = Len(f) + j
      <4>1. m - (k - 1) \in 1 .. Len(rs) - k /\ m = Len(f) + (m - (k - 1))
        BY <1>4, <1>7, <2>2
      <4> QED BY SMTT(30), <4>1
    <3>2. ns[m] = g[j] /\ g[j] = rs[j + k]
      BY <1>5, <1>6, <3>1
    <3>3. j + k = m + 1
      BY <1>4, <3>1
    <3> QED BY <2>2, <3>2, <3>3
  <2> QED BY <1>7, <2>1, <2>2
<1>9. /\ \A m \in 1 .. Len(rs) : rs[m].start < rs[m].stop
      /\ \A m \in 1 .. Len(rs), q \in 1 .. Len(rs) : m < q => rs[m].stop <= rs[q].start
      /\ \A m \in 1 .. Len(rs) - 1 :
            rs[m].stop = rs[m + 1].start => rs[m].flags # rs[m + 1].flags
  BY DEF ListSound
<1>10. \A m \in 1 .. Len(rs) : rs[m].start \in Nat /\ rs[m].stop \in Nat
  <2>1. ASSUME NEW m \in 1 .. Len(rs) PROVE rs[m] \in Region
    BY ElementOfSeq
  <2> QED BY <2>1 DEF Region
<1>11. ASSUME NEW m \in 1 .. Len(ns) PROVE \E q \in 1 .. Len(rs) \ {k} : ns[m] = rs[q]
  <2>1. CASE m < k
    <3>1. m \in 1 .. Len(rs) \ {k} /\ ns[m] = rs[m]
      BY <1>7, <1>8, <2>1
    <3> QED BY <3>1
  <2>2. CASE m >= k
    <3>1. m + 1 \in 1 .. Len(rs) \ {k} /\ ns[m] = rs[m + 1]
      BY <1>7, <1>8, <2>2
    <3> QED BY <3>1
  <2> QED BY <1>7, <2>1, <2>2
<1>12. ASSUME NEW m \in 1 .. Len(ns) PROVE ns[m].start < ns[m].stop
  BY SMTT(30), <1>9, <1>11
<1>13. ASSUME NEW m \in 1 .. Len(ns), NEW q \in 1 .. Len(ns), m < q
       PROVE  ns[m].stop <= ns[q].start
  <2>1. CASE q < k
    <3>1. ns[m] = rs[m] /\ ns[q] = rs[q] /\ m \in 1 .. Len(rs) /\ q \in 1 .. Len(rs)
      BY <1>7, <1>8, <1>13, <2>1
    <3> QED BY <1>9, <1>13, <3>1
  <2>2. CASE m < k /\ q >= k
    <3>1. /\ ns[m] = rs[m] /\ ns[q] = rs[q + 1] /\ m < q + 1
          /\ m \in 1 .. Len(rs) /\ q + 1 \in 1 .. Len(rs)
      BY <1>7, <1>8, <1>13, <2>2
    <3> QED BY <1>9, <3>1
  <2>3. CASE m >= k
    <3>1. /\ ns[m] = rs[m + 1] /\ ns[q] = rs[q + 1] /\ m + 1 < q + 1
          /\ m + 1 \in 1 .. Len(rs) /\ q + 1 \in 1 .. Len(rs)
      BY SMTT(30), <1>7, <1>8, <1>13, <2>3
    <3> QED BY <1>9, <3>1
  <2> QED BY <1>7, <1>13, <2>1, <2>2, <2>3
<1>14. ASSUME NEW m \in 1 .. Len(ns) - 1, ns[m].stop = ns[m + 1].start
       PROVE  ns[m].flags # ns[m + 1].flags
  <2>1. CASE m + 1 < k
    <3>1. ns[m] = rs[m] /\ ns[m + 1] = rs[m + 1] /\ m \in 1 .. Len(rs) - 1
      BY <1>7, <1>8, <2>1
    <3> QED BY <1>9, <1>14, <3>1
  <2>2. CASE m >= k
    <3>1. ns[m] = rs[m + 1] /\ m + 1 \in 1 .. Len(rs) - 1
      BY <1>7, <1>8, <2>2
    <3>2. m + 1 \in 1 .. Len(ns) /\ m + 1 >= k
      BY <1>7, <2>2
    <3>3. ns[m + 1] = rs[m + 1 + 1]
      BY <1>8, <3>2
    <3> QED BY <1>9, <1>14, <3>1, <3>3
  <2>3. CASE m + 1 = k
    <3>1. /\ ns[m] = rs[m] /\ ns[m + 1] = rs[k + 1]
          /\ m \in 1 .. Len(rs) /\ k + 1 \in 1 .. Len(rs) /\ m < k /\ k < k + 1
      BY <1>7, <1>8, <2>3
    <3>2. rs[m].stop <= rs[k].start /\ rs[k].start < rs[k].stop /\ rs[k].stop <= rs[k + 1].start
      BY <1>9, <3>1
    <3> QED BY SMTT(30), <1>10, <1>14, <3>1, <3>2
  <2> QED BY <1>7, <2>1, <2>2, <2>3
<1> QED BY <1>6, <1>11, <1>12, <1>13, <1>14 DEF ListSound

\* Taking pages from one end of a region keeps a list sound.
LEMMA ShrinkSound ==
    ASSUME NEW rs \in Seq(Region), ListSound(rs), NEW k \in 1 .. Len(rs), NEW x, Proper(x),
           rs[k].start <= x.start, x.stop <= rs[k].stop, x.flags = rs[k].flags,
           NEW ns, ns = [rs EXCEPT ![k] = x]
    PROVE  ns \in Seq(Region) /\ ListSound(ns)
<1>1. x \in Region /\ x.start \in Nat /\ x.stop \in Nat /\ x.start < x.stop
  BY DEF Proper, Region
<1>2. ns \in Seq(Region) /\ Len(ns) = Len(rs)
  BY <1>1, ExceptSeq
<1>3. ns[k] = x /\ \A m \in 1 .. Len(rs) : m # k => ns[m] = rs[m]
  OBVIOUS
<1>4. /\ \A m \in 1 .. Len(rs) : rs[m].start < rs[m].stop
      /\ \A m \in 1 .. Len(rs), q \in 1 .. Len(rs) : m < q => rs[m].stop <= rs[q].start
      /\ \A m \in 1 .. Len(rs) - 1 :
            rs[m].stop = rs[m + 1].start => rs[m].flags # rs[m + 1].flags
  BY DEF ListSound
<1>5. \A m \in 1 .. Len(rs) : rs[m].start \in Nat /\ rs[m].stop \in Nat
  <2>1. ASSUME NEW m \in 1 .. Len(rs) PROVE rs[m] \in Region
    BY ElementOfSeq
  <2> QED BY <2>1 DEF Region
<1>6. \A m \in 1 .. Len(rs) :
         /\ ns[m].flags = rs[m].flags /\ ns[m].start \in Nat /\ ns[m].stop \in Nat
         /\ rs[m].start <= ns[m].start /\ ns[m].stop <= rs[m].stop
         /\ ns[m].start < ns[m].stop
  <2>1. ASSUME NEW m \in 1 .. Len(rs)
        PROVE  /\ ns[m].flags = rs[m].flags /\ ns[m].start \in Nat /\ ns[m].stop \in Nat
               /\ rs[m].start <= ns[m].start /\ ns[m].stop <= rs[m].stop
               /\ ns[m].start < ns[m].stop
    <3>1. CASE m = k
      <4>1. ns[m] = x /\ rs[m] = rs[k]
        BY <1>3, <3>1
      <4> QED BY <1>1, <4>1
    <3>2. CASE m # k
      <4>1. ns[m] = rs[m]
        BY <1>3, <3>2
      <4> QED BY <1>4, <1>5, <4>1
    <3> QED BY <3>1, <3>2
  <2> QED BY <2>1
<1>7. ASSUME NEW m \in 1 .. Len(rs), NEW q \in 1 .. Len(rs), m < q
      PROVE  ns[m].stop <= ns[q].start
  <2>1. /\ ns[m].stop <= rs[m].stop /\ rs[m].stop <= rs[q].start /\ rs[q].start <= ns[q].start
        /\ ns[m].stop \in Nat /\ rs[m].stop \in Nat /\ rs[q].start \in Nat /\ ns[q].start \in Nat
    BY <1>4, <1>5, <1>6, <1>7
  <2> QED BY <2>1
<1>8. ASSUME NEW m \in 1 .. Len(rs) - 1, ns[m].stop = ns[m + 1].start
      PROVE  ns[m].flags # ns[m + 1].flags
  <2>1. m \in 1 .. Len(rs) /\ m + 1 \in 1 .. Len(rs) /\ m < m + 1
    OBVIOUS
  <2>2. /\ ns[m].stop <= rs[m].stop /\ rs[m].stop <= rs[m + 1].start
        /\ rs[m + 1].start <= ns[m + 1].start
        /\ ns[m].stop \in Nat /\ rs[m].stop \in Nat
        /\ rs[m + 1].start \in Nat /\ ns[m + 1].start \in Nat
    BY <1>4, <1>5, <1>6, <2>1
  <2>3. rs[m].stop = rs[m + 1].start
    BY <1>8, <2>2
  <2>4. rs[m].flags # rs[m + 1].flags
    BY <1>4, <2>3
  <2>5. ns[m].flags = rs[m].flags /\ ns[m + 1].flags = rs[m + 1].flags
    BY <1>6, <2>1
  <2> QED BY <2>4, <2>5
<1> QED BY <1>2, <1>6, <1>7, <1>8 DEF ListSound
=============================================================================
