------------------------------ MODULE VmmProofs ------------------------------
(***************************************************************************)
(* The lists of regions of kernel/mm/vmm.c stay in order, apart and merged *)
(* whatever is allocated, mapped, copied and freed: RegionsSound of Vmm,   *)
(* for every layout of memory and any number of spaces, regions and calls. *)
(***************************************************************************)
EXTENDS VmmListProofs

\* Regions of a sound list do not share a page.
LEMMA RegionsApart ==
    ASSUME NEW rs \in Seq(Region), ListSound(rs),
           NEW k \in 1 .. Len(rs), NEW m \in 1 .. Len(rs), k # m
    PROVE  rs[m].stop <= rs[k].start \/ rs[k].stop <= rs[m].start
<1>1. k < m \/ m < k
  OBVIOUS
<1> QED BY <1>1 DEF ListSound

\* Splitting a region: it is dropped, and what was before and behind the removed
\* pages is added again.
LEMMA SplitSound ==
    ASSUME NEW rs \in Seq(Region), ListSound(rs), NEW p, Proper(p), NEW q, Proper(q),
           p.stop < q.start,
           \A k \in 1 .. Len(rs) : rs[k].stop <= p.start \/ q.stop <= rs[k].start
    PROVE  /\ vmm_add_range(vmm_add_range(rs, p), q) \in Seq(Region)
           /\ ListSound(vmm_add_range(vmm_add_range(rs, p), q))
<1>1. /\ p.start \in Nat /\ p.stop \in Nat /\ p.start < p.stop
      /\ q.start \in Nat /\ q.stop \in Nat /\ q.start < q.stop
  BY DEF Proper, Region
<1>2. \A k \in 1 .. Len(rs) : /\ rs[k].start \in Nat /\ rs[k].stop \in Nat
                              /\ rs[k].start < rs[k].stop
  <2>1. ASSUME NEW k \in 1 .. Len(rs) PROVE rs[k] \in Region
    BY ElementOfSeq
  <2> QED BY <2>1 DEF Region, ListSound
<1>3. \A k \in 1 .. Len(rs) : rs[k].stop <= p.start \/ p.stop <= rs[k].start
  BY <1>1, <1>2
<1>4. PICK i : i = Slot(rs, p.start, p.stop)
  OBVIOUS
<1>5. i \in 0 .. Len(rs)
  BY <1>1, <1>4, SlotIndex
<1>6. ~Overlaps(rs, i, p.start, p.stop)
  BY <1>3, <1>4, SlotApart
<1>7. PICK ns : ns = vmm_add_range(rs, p)
  OBVIOUS
<1>8. ns = vmm_insert_range(rs, i, p)
  BY <1>4, <1>7 DEF vmm_add_range
<1>9. /\ ns \in Seq(Region) /\ ListSound(ns)
      /\ \A k \in 1 .. Len(ns) : \/ ns[k] = Joined(rs, i, p)
                                 \/ \E m \in 1 .. Len(rs) : ns[k] = rs[m]
  BY <1>5, <1>6, <1>8, InsertSound
<1>10. Joined(rs, i, p).stop <= q.start
  <2>1. CASE JoinsNext(rs, i, p)
    <3>1. i + 1 \in 1 .. Len(rs) /\ p.stop = rs[i + 1].start /\ Joined(rs, i, p).stop = rs[i + 1].stop
      BY <1>5, <2>1 DEF JoinsNext, Joined, Reg
    <3>2. rs[i + 1].stop <= p.start \/ q.stop <= rs[i + 1].start
      BY <3>1
    <3> QED BY <1>1, <1>2, <3>1, <3>2
  <2>2. CASE ~JoinsNext(rs, i, p)
    <3>1. Joined(rs, i, p).stop = p.stop
      BY <2>2 DEF Joined, Reg
    <3> QED BY <1>1, <3>1
  <2> QED BY <2>1, <2>2
<1>11. ASSUME NEW k \in 1 .. Len(ns) PROVE ns[k].stop <= q.start \/ q.stop <= ns[k].start
  <2>1. CASE ns[k] = Joined(rs, i, p)
    BY <1>10, <2>1
  <2>2. CASE \E m \in 1 .. Len(rs) : ns[k] = rs[m]
    <3>1. PICK m \in 1 .. Len(rs) : ns[k] = rs[m]
      BY <2>2
    <3>2. rs[m].stop <= p.start \/ q.stop <= rs[m].start
      OBVIOUS
    <3> QED BY <1>1, <1>2, <3>1, <3>2
  <2> QED BY <1>9, <2>1, <2>2
<1>12. ~Overlaps(ns, Slot(ns, q.start, q.stop), q.start, q.stop)
  BY <1>9, <1>11, SlotApart
<1>13. vmm_add_range(ns, q) \in Seq(Region) /\ ListSound(vmm_add_range(ns, q))
  BY <1>9, <1>12, AddSound
<1> QED BY Zenon, <1>7, <1>13

\* vmm_remove_range of pages of one region keeps the list sound.
LEMMA RemoveSound ==
    ASSUME NEW rs \in Seq(Region), ListSound(rs), NEW k \in 1 .. Len(rs),
           NEW start \in Nat, NEW stop \in Nat, start < stop,
           rs[k].start <= start, stop <= rs[k].stop
    PROVE  /\ vmm_remove_range(rs, k, start, stop) \in Seq(Region)
           /\ ListSound(vmm_remove_range(rs, k, start, stop))
<1>1. PICK others : others = SubSeq(rs, 1, k - 1) \o SubSeq(rs, k + 1, Len(rs))
  OBVIOUS
<1>2. /\ others \in Seq(Region) /\ ListSound(others)
      /\ \A m \in 1 .. Len(others) : \E q \in 1 .. Len(rs) \ {k} : others[m] = rs[q]
  <2> DEFINE Dropped(t) ==
             /\ t \in Seq(Region)
             /\ ListSound(t)
             /\ \A m \in 1 .. Len(t) : \E q \in 1 .. Len(rs) \ {k} : t[m] = rs[q]
  <2>1. \A t : t = SubSeq(rs, 1, k - 1) \o SubSeq(rs, k + 1, Len(rs)) => Dropped(t)
    BY Zenon, DropSound
  <2> HIDE DEF Dropped
  <2>2. Dropped(others)
    BY Zenon, <1>1, <2>1
  <2> QED BY Zenon, <2>2 DEF Dropped
<1>3. /\ rs[k] \in Region /\ rs[k].start \in Nat /\ rs[k].stop \in Nat /\ rs[k].flags \in Flags
      /\ rs[k] = Reg(rs[k].start, rs[k].stop, rs[k].flags)
  <2>1. rs[k] \in Region
    BY ElementOfSeq
  <2> QED BY <2>1 DEF Region, Reg
<1>4. PICK p : p = Reg(rs[k].start, start, rs[k].flags)
  OBVIOUS
<1>5. PICK q : q = Reg(stop, rs[k].stop, rs[k].flags)
  OBVIOUS
<1>6. /\ p.start = rs[k].start /\ p.stop = start /\ p.flags = rs[k].flags
      /\ q.start = stop /\ q.stop = rs[k].stop /\ q.flags = rs[k].flags
  BY <1>4, <1>5 DEF Reg
<1>7. p \in Region /\ q \in Region
  BY <1>3, <1>4, <1>5 DEF Region, Reg
<1>8. CASE rs[k].start = start /\ rs[k].stop = stop
  <2>1. vmm_remove_range(rs, k, start, stop) = others
    BY Zenon, <1>1, <1>8 DEF vmm_remove_range
  <2> QED BY Zenon, <1>2, <2>1
<1>9. CASE rs[k].start = start /\ rs[k].stop # stop
  <2>1. vmm_remove_range(rs, k, start, stop) = [rs EXCEPT ![k].start = stop]
    BY Zenon, <1>9 DEF vmm_remove_range
  <2>2. [rs[k] EXCEPT !.start = stop] = q
    BY <1>3, <1>5 DEF Reg
  <2>3. [rs EXCEPT ![k].start = stop] = [rs EXCEPT ![k] = q]
    BY <2>2
  <2>4. Proper(q)
    BY <1>3, <1>6, <1>7, <1>9 DEF Proper
  <2>5. rs[k].start <= q.start /\ q.stop <= rs[k].stop /\ q.flags = rs[k].flags
    BY <1>3, <1>6
  <2>6. [rs EXCEPT ![k] = q] \in Seq(Region) /\ ListSound([rs EXCEPT ![k] = q])
    BY Zenon, <2>4, <2>5, ShrinkSound
  <2> QED BY Zenon, <2>1, <2>3, <2>6
<1>10. CASE rs[k].start # start /\ rs[k].stop = stop
  <2>1. vmm_remove_range(rs, k, start, stop) = [rs EXCEPT ![k].stop = start]
    BY Zenon, <1>10 DEF vmm_remove_range
  <2>2. [rs[k] EXCEPT !.stop = start] = p
    BY <1>3, <1>4 DEF Reg
  <2>3. [rs EXCEPT ![k].stop = start] = [rs EXCEPT ![k] = p]
    BY <2>2
  <2>4. Proper(p)
    BY <1>3, <1>6, <1>7, <1>10 DEF Proper
  <2>5. rs[k].start <= p.start /\ p.stop <= rs[k].stop /\ p.flags = rs[k].flags
    BY <1>3, <1>6
  <2>6. [rs EXCEPT ![k] = p] \in Seq(Region) /\ ListSound([rs EXCEPT ![k] = p])
    BY Zenon, <2>4, <2>5, ShrinkSound
  <2> QED BY Zenon, <2>1, <2>3, <2>6
<1>11. CASE rs[k].start # start /\ rs[k].stop # stop
  <2>1. vmm_remove_range(rs, k, start, stop) = vmm_add_range(vmm_add_range(others, p), q)
    BY Zenon, <1>1, <1>4, <1>5, <1>11 DEF vmm_remove_range
  <2>2. Proper(p) /\ Proper(q) /\ p.stop < q.start
    BY <1>3, <1>6, <1>7, <1>11 DEF Proper
  <2>3. ASSUME NEW m \in 1 .. Len(others)
        PROVE  others[m].stop <= p.start \/ q.stop <= others[m].start
    <3>1. PICK j \in 1 .. Len(rs) \ {k} : others[m] = rs[j]
      BY <1>2
    <3>2. rs[j].stop <= rs[k].start \/ rs[k].stop <= rs[j].start
      BY RegionsApart
    <3> QED BY <1>6, <3>1, <3>2
  <2>4. /\ vmm_add_range(vmm_add_range(others, p), q) \in Seq(Region)
        /\ ListSound(vmm_add_range(vmm_add_range(others, p), q))
    BY <1>2, <2>2, <2>3, SplitSound
  <2> QED BY Zenon, <2>1, <2>4
<1> QED BY Zenon, <1>8, <1>9, <1>10, <1>11

-----------------------------------------------------------------------------
(* The jobs of a call.                                                     *)

\* The pages of a job, and the region or page its loop goes on with.
JobOK(j) ==
    /\ j.va \in Nat /\ j.stop \in Nat /\ j.flags \in Flags /\ j.next \in Nat
    /\ j.do \in {"range", "copy", "direct"} => j.va < j.stop
    /\ j.do = "copy" => j.next >= 1

\* A sequence of such jobs.
Good(w) == \E S : (\A j \in S : JobOK(j)) /\ w \in Seq(S)

LEMMA GoodOne ==
    ASSUME NEW j, JobOK(j)
    PROVE  Good(<<j>>)
<1>1. PICK S : S = {j}
  OBVIOUS
<1>2. <<j>> \in Seq(S)
  BY <1>1
<1>3. \A x \in S : JobOK(x)
  BY Zenon, <1>1
<1> QED BY Zenon, <1>2, <1>3 DEF Good

LEMMA GoodConcat ==
    ASSUME NEW v, Good(v), NEW w, Good(w)
    PROVE  Good(v \o w)
<1>1. PICK S : (\A j \in S : JobOK(j)) /\ v \in Seq(S)
  BY Zenon DEF Good
<1>2. PICK T : (\A j \in T : JobOK(j)) /\ w \in Seq(T)
  BY Zenon DEF Good
<1>3. v \in Seq(S \cup T) /\ w \in Seq(S \cup T)
  BY <1>1, <1>2
<1>4. v \o w \in Seq(S \cup T)
  BY <1>3, ConcatProperties
<1>5. \A j \in S \cup T : JobOK(j)
  BY Zenon, <1>1, <1>2
<1> QED BY Zenon, <1>4, <1>5 DEF Good

LEMMA GoodRest ==
    ASSUME NEW w, Good(w), w # <<>>
    PROVE  JobOK(Head(w)) /\ Good(Tail(w))
<1>1. PICK S : (\A j \in S : JobOK(j)) /\ w \in Seq(S)
  BY Zenon DEF Good
<1>2. Head(w) \in S /\ Tail(w) \in Seq(S)
  BY <1>1, HeadTailProperties
<1> QED BY Zenon, <1>1, <1>2 DEF Good

\* One job for each of n pages.
LEMMA GoodPages ==
    ASSUME NEW n \in Nat, NEW w, w = [i \in 1 .. n |-> w[i]], \A i \in 1 .. n : JobOK(w[i])
    PROVE  Good(w)
<1>1. PICK S : S = {w[i] : i \in 1 .. n}
  OBVIOUS
<1>2. \A j \in S : JobOK(j)
  BY <1>1
<1>3. \A i \in 1 .. n : w[i] \in S
  BY <1>1
<1>4. w \in Seq(S)
  BY <1>3
<1> QED BY Zenon, <1>2, <1>4 DEF Good

LEMMA KernelFlags == KRW \in Flags /\ KRO \in Flags
  BY DEF Flags

\* The jobs that concern one page.
LEMMA MapJobOK ==
    ASSUME NEW s, NEW va \in Nat, NEW pa, NEW flags \in Flags
    PROVE  JobOK(MapJob(s, va, pa, flags)) /\ JobOK(UnmapJob(s, va)) /\ JobOK(TestJob(s))
<1>1. /\ MapJob(s, va, pa, flags).do = "map" /\ MapJob(s, va, pa, flags).va = va
      /\ MapJob(s, va, pa, flags).stop = va + 1 /\ MapJob(s, va, pa, flags).flags = flags
      /\ MapJob(s, va, pa, flags).next = 0
  BY DEF MapJob, Job, Reg
<1>2. /\ UnmapJob(s, va).do = "unmap" /\ UnmapJob(s, va).va = va
      /\ UnmapJob(s, va).stop = va + 1 /\ UnmapJob(s, va).flags = KRW
      /\ UnmapJob(s, va).next = 0
  BY DEF UnmapJob, Job, Reg
<1>3. /\ TestJob(s).do = "test" /\ TestJob(s).va = 0 /\ TestJob(s).stop = 1
      /\ TestJob(s).flags = KRW /\ TestJob(s).next = 0
  BY DEF TestJob, Job, Reg
<1>4. va + 1 \in Nat
  OBVIOUS
<1> QED BY <1>1, <1>2, <1>3, <1>4, KernelFlags DEF JobOK

\* The job of a vmm_add_range.
LEMMA RegionJobOK ==
    ASSUME NEW do, NEW s, NEW r, Proper(r), NEW pa, NEW next \in Nat, do = "copy" => next >= 1
    PROVE  JobOK(Job(do, s, r, pa, next))
<1>1. r.start \in Nat /\ r.stop \in Nat /\ r.flags \in Flags /\ r.start < r.stop
  BY DEF Proper, Region
<1>2. /\ Job(do, s, r, pa, next).va = r.start /\ Job(do, s, r, pa, next).stop = r.stop
      /\ Job(do, s, r, pa, next).flags = r.flags /\ Job(do, s, r, pa, next).next = next
      /\ Job(do, s, r, pa, next).do = do
  BY DEF Job
<1> QED BY <1>1, <1>2 DEF JobOK

-----------------------------------------------------------------------------
(* The invariant.                                                          *)

\* Every space has a list, kspace exists, the jobs that wait are those of ranges
\* with a page, and callers hold pages.
VmmInv ==
    /\ regions \in [Spaces -> Seq(Region)] /\ KSPACE \in Spaces
    /\ RegionsSound
    /\ Good(work)
    /\ \A g \in given : g[2] \in Nat

\* A list of regions that is replaced by a sound one.
LEMMA UpdateSound ==
    ASSUME VmmInv, NEW s, NEW rs, s \in Spaces => rs \in Seq(Region) /\ ListSound(rs),
           regions' = [regions EXCEPT ![s] = rs]
    PROVE  regions' \in [Spaces' -> Seq(Region)] /\ KSPACE \in Spaces' /\ RegionsSound'
<1>1. /\ regions \in [Spaces -> Seq(Region)] /\ KSPACE \in Spaces
      /\ \A p \in Spaces : ListSound(regions[p])
  BY DEF VmmInv, RegionsSound
<1>2. Spaces' = Spaces
  BY DEF Spaces
<1>3. ASSUME NEW p \in Spaces PROVE regions'[p] \in Seq(Region) /\ ListSound(regions'[p])
  <2>1. CASE p = s
    <3>1. regions'[p] = rs
      BY <2>1 DEF Spaces
    <3> QED BY Zenon, <2>1, <3>1
  <2>2. CASE p # s
    <3>1. regions'[p] = regions[p]
      BY <2>2 DEF Spaces
    <3> QED BY <1>1, <3>1
  <2> QED BY <2>1, <2>2
<1>4. regions' = [p \in Spaces |-> regions'[p]]
  BY <1>2 DEF Spaces
<1>5. regions' \in [Spaces' -> Seq(Region)]
  BY <1>2, <1>3, <1>4
<1>6. \A p \in Spaces' : ListSound(regions'[p])
  BY <1>2, <1>3
<1>7. RegionsSound'
  BY <1>6 DEF RegionsSound, ListSound
<1> QED BY <1>1, <1>2, <1>5, <1>7

\* The loop of vmm_init_direct_mapping: the next page, or the test at its end.
LEMMA DirectGood ==
    ASSUME NEW pa \in Nat
    PROVE  Good(vmm_init_direct_mapping(pa))
<1>1. PICK later : later = {q \in DOMAIN PHYS : q > pa}
  OBVIOUS
<1>2. CASE later = {}
  <2>1. vmm_init_direct_mapping(pa) = <<TestJob(KSPACE)>>
    BY Zenon, <1>1, <1>2 DEF vmm_init_direct_mapping
  <2>2. JobOK(TestJob(KSPACE))
    BY MapJobOK, KernelFlags
  <2> QED BY Zenon, <2>1, <2>2, GoodOne
<1>3. CASE later # {}
  <2>1. later \in SUBSET Nat
    BY <1>1, VmmAssumption
  <2>2. PICK q \in Nat : q = Min(later)
    BY <1>3, <2>1, MinProperty
  <2>3. PICK r : r = Reg(DM_BASE + q, DM_BASE + q + 1, DirectFlags(q))
    OBVIOUS
  <2>4. vmm_init_direct_mapping(pa) = <<Job("direct", KSPACE, r, FRESH, q)>>
    BY Zenon, <1>1, <1>3, <2>2, <2>3 DEF vmm_init_direct_mapping
  <2>5. DirectFlags(q) \in Flags
    BY KernelFlags DEF DirectFlags
  <2>6. DM_BASE + q \in Nat /\ DM_BASE + q + 1 \in Nat /\ DM_BASE + q < DM_BASE + q + 1
    BY VmmAssumption
  <2>7. Proper(r)
    BY <2>3, <2>5, <2>6 DEF Proper, Region, Reg
  <2>8. JobOK(Job("direct", KSPACE, r, FRESH, q))
    BY <2>7, RegionJobOK
  <2> QED BY Zenon, <2>4, <2>8, GoodOne
<1> QED BY <1>2, <1>3

\* The loop of vmm_copy_regions: the next region, or the test behind it.
LEMMA CopyGood ==
    ASSUME VmmInv, NEW p, NEW k \in Nat, k >= 1
    PROVE  Good(vmm_copy_regions(p, k))
<1>1. /\ regions[KSPACE] \in Seq(Region) /\ ListSound(regions[KSPACE])
  BY DEF VmmInv, RegionsSound
<1>2. CASE k > Len(regions[KSPACE])
  <2>1. vmm_copy_regions(p, k) = <<TestJob(p)>>
    BY Zenon, <1>2 DEF vmm_copy_regions
  <2>2. JobOK(TestJob(p))
    BY MapJobOK, KernelFlags
  <2> QED BY Zenon, <2>1, <2>2, GoodOne
<1>3. CASE ~(k > Len(regions[KSPACE]))
  <2>1. vmm_copy_regions(p, k) = <<Job("copy", p, regions[KSPACE][k], FRESH, k + 1)>>
    BY Zenon, <1>3 DEF vmm_copy_regions
  <2>2. k \in 1 .. Len(regions[KSPACE])
    BY <1>1, <1>3
  <2>3. regions[KSPACE][k] \in Region
    BY <1>1, <2>2, ElementOfSeq
  <2>4. Proper(regions[KSPACE][k])
    BY <1>1, <2>2, <2>3 DEF Proper, ListSound
  <2>5. JobOK(Job("copy", p, regions[KSPACE][k], FRESH, k + 1))
    BY <2>4, RegionJobOK
  <2> QED BY Zenon, <2>1, <2>5, GoodOne
<1> QED BY <1>2, <1>3

\* What a job leaves behind.
LEMMA FollowGood ==
    ASSUME VmmInv, NEW j, JobOK(j)
    PROVE  Good(Follow(j))
<1>1. CASE j.do = "copy"
  <2>1. PICK w : w = mmu_copy_pages(j.space, Reg(j.va, j.stop, j.flags))
    OBVIOUS
  <2>2. /\ j.va \in Nat /\ j.stop \in Nat /\ j.flags \in Flags /\ j.next \in Nat
        /\ j.va < j.stop /\ j.next >= 1
    BY <1>1 DEF JobOK
  <2>3. w = [i \in 1 .. j.stop - j.va |->
               MapJob(j.space, j.va + i - 1, mmu_translate_4k(KSPACE, j.va + i - 1), j.flags)]
    BY <2>1 DEF mmu_copy_pages, Reg
  <2>4. PICK n \in Nat : n = j.stop - j.va
    BY <2>2
  <2>5. w = [i \in 1 .. n |-> w[i]]
    BY <2>3, <2>4
  <2>6. ASSUME NEW i \in 1 .. n
        PROVE  JobOK(w[i])
    <3>1. w[i] = MapJob(j.space, j.va + i - 1, mmu_translate_4k(KSPACE, j.va + i - 1), j.flags)
      BY <2>3, <2>4
    <3>2. j.va + i - 1 \in Nat
      BY <2>2
    <3> QED BY <2>2, <3>1, <3>2, MapJobOK
  <2>7. Good(w)
    BY <2>5, <2>6, GoodPages
  <2>8. Good(vmm_copy_regions(j.space, j.next))
    BY <2>2, CopyGood
  <2>9. Follow(j) = w \o vmm_copy_regions(j.space, j.next)
    BY Zenon, <1>1, <2>1 DEF Follow
  <2> QED BY Zenon, <2>7, <2>8, <2>9, GoodConcat
<1>2. CASE j.do = "direct"
  <2>1. j.va \in Nat /\ j.flags \in Flags /\ j.next \in Nat
    BY DEF JobOK
  <2>2. JobOK(MapJob(KSPACE, j.va, j.next, j.flags))
    BY <2>1, MapJobOK
  <2>3. Good(<<MapJob(KSPACE, j.va, j.next, j.flags)>>)
    BY Zenon, <2>2, GoodOne
  <2>4. Good(vmm_init_direct_mapping(j.next))
    BY <2>1, DirectGood
  <2>5. j.do # "copy"
    BY <1>2
  <2>6. Follow(j) = <<MapJob(KSPACE, j.va, j.next, j.flags)>> \o vmm_init_direct_mapping(j.next)
    BY Zenon, <1>2, <2>5 DEF Follow
  <2> QED BY Zenon, <2>3, <2>4, <2>6, GoodConcat
<1>3. CASE j.do # "copy" /\ j.do # "direct"
  <2>1. Follow(j) = <<>>
    BY Zenon, <1>3 DEF Follow
  <2>2. <<>> \in Seq({})
    OBVIOUS
  <2> QED BY Zenon, <2>1, <2>2 DEF Good
<1> QED BY Zenon, <1>1, <1>2, <1>3

\* The kernel's own part of kspace.
LEMMA InitGood == Good(vmm_init)
<1>1. /\ RO_START \in Nat /\ RO_STOP \in Nat /\ STOP \in Nat /\ KERNEL_VMA \in Nat
      /\ 0 < RO_START /\ RO_START < RO_STOP /\ RO_STOP < STOP
  BY VmmAssumption
<1>2. ASSUME NEW a \in Nat, NEW b \in Nat, a < b, NEW f \in Flags
      PROVE  /\ Good(<<RangeJob(KSPACE, KernelPart(a, b, f))>>)
             /\ Good(vmm_init_phys_contiguous_region(KernelPart(a, b, f)))
  <2>1. PICK r : r = KernelPart(a, b, f)
    OBVIOUS
  <2>2. r.start = KERNEL_VMA + a /\ r.stop = KERNEL_VMA + b /\ r.flags = f
    BY <2>1 DEF KernelPart, Reg
  <2>3. Proper(r)
    BY <1>1, <1>2, <2>1 DEF Proper, Region, KernelPart, Reg
  <2>4. JobOK(Job("range", KSPACE, r, FRESH, 0))
    BY <2>3, RegionJobOK
  <2>5. Good(<<RangeJob(KSPACE, r)>>)
    BY Zenon, <2>4, GoodOne DEF RangeJob
  <2>6. PICK w : w = vmm_init_phys_contiguous_region(r)
    OBVIOUS
  <2>7. w = [i \in 1 .. r.stop - r.start |->
               MapJob(KSPACE, r.start + i - 1, r.start + i - 1 - KERNEL_VMA, r.flags)]
    BY Zenon, <2>6 DEF vmm_init_phys_contiguous_region
  <2>8. r.start \in Nat /\ r.flags \in Flags /\ r.stop - r.start \in Nat
    BY <1>1, <1>2, <2>2
  <2>9. PICK n \in Nat : n = r.stop - r.start
    BY <2>8
  <2>10. w = [i \in 1 .. n |-> w[i]]
    BY <2>7, <2>9
  <2>11. ASSUME NEW i \in 1 .. n
         PROVE  JobOK(w[i])
    <3>1. w[i] = MapJob(KSPACE, r.start + i - 1, r.start + i - 1 - KERNEL_VMA, r.flags)
      BY <2>7, <2>9
    <3>2. r.start + i - 1 \in Nat
      BY <2>8
    <3> QED BY <2>8, <3>1, <3>2, MapJobOK
  <2>12. Good(w)
    BY <2>10, <2>11, GoodPages
  <2> QED BY Zenon, <2>1, <2>5, <2>6, <2>12
<1>3. /\ Good(<<RangeJob(KSPACE, kuefi)>>) /\ Good(vmm_init_phys_contiguous_region(kuefi))
      /\ Good(<<RangeJob(KSPACE, kcode)>>) /\ Good(vmm_init_phys_contiguous_region(kcode))
      /\ Good(<<RangeJob(KSPACE, kdata)>>) /\ Good(vmm_init_phys_contiguous_region(kdata))
  BY <1>1, <1>2, KernelFlags DEF kuefi, kcode, kdata
<1>4. Good(<<RangeJob(KSPACE, kuefi), RangeJob(KSPACE, kcode), RangeJob(KSPACE, kdata)>>)
  <2>1. <<RangeJob(KSPACE, kuefi), RangeJob(KSPACE, kcode), RangeJob(KSPACE, kdata)>>
        = <<RangeJob(KSPACE, kuefi)>> \o <<RangeJob(KSPACE, kcode)>> \o <<RangeJob(KSPACE, kdata)>>
    OBVIOUS
  <2>2. Good(<<RangeJob(KSPACE, kuefi)>> \o <<RangeJob(KSPACE, kcode)>> \o <<RangeJob(KSPACE, kdata)>>)
    BY Zenon, <1>3, GoodConcat
  <2> QED BY Zenon, <2>1, <2>2
<1>5. Good(vmm_init_direct_mapping(0))
  BY DirectGood
<1> QED BY Zenon, <1>3, <1>4, <1>5, GoodConcat DEF vmm_init

-----------------------------------------------------------------------------
(* Every step keeps it.                                                    *)

\* The conjuncts of VmmInv' one by one.
LEMMA Reassemble ==
    ASSUME regions' \in [Spaces' -> Seq(Region)], KSPACE \in Spaces', RegionsSound',
           Good(work'), \A g \in given' : g[2] \in Nat
    PROVE  VmmInv'
BY DEF VmmInv

\* The lists do not change.
LEMMA SameLists ==
    ASSUME VmmInv, UNCHANGED regions
    PROVE  regions' \in [Spaces' -> Seq(Region)] /\ KSPACE \in Spaces' /\ RegionsSound'
<1>1. Spaces' = Spaces
  BY DEF Spaces
<1>2. /\ regions \in [Spaces -> Seq(Region)] /\ KSPACE \in Spaces
      /\ \A p \in Spaces : ListSound(regions[p])
  BY DEF VmmInv, RegionsSound
<1>3. RegionsSound'
  BY <1>1, <1>2 DEF RegionsSound, ListSound
<1> QED BY <1>1, <1>2, <1>3

\* A job of the call in progress.
LEMMA WorkKeepsInv ==
    ASSUME VmmInv, Work
    PROVE  VmmInv'
<1>1. PICK j : j = Head(work)
  OBVIOUS
<1>2. JobOK(j) /\ Good(Tail(work))
  BY <1>1, GoodRest DEF VmmInv, Work
<1>3. Good(Follow(j))
  BY <1>2, FollowGood
<1>4. work' = Follow(j) \o Tail(work)
  BY <1>1 DEF Work
<1>5. Good(work')
  BY Zenon, <1>2, <1>3, <1>4, GoodConcat
<1>6. mmu_map_page(j) \/ mmu_unmap_page(j) \/ AddRange(j) \/ DebugTest(j)
  BY Zenon, <1>1 DEF Work
<1>7. CASE mmu_map_page(j)
  <2>1. UNCHANGED regions
    BY Zenon, <1>7 DEF mmu_map_page
  <2>2. given' = given \/ given' = given \cup {<<j.space, j.va>>}
    BY Zenon, <1>7 DEF mmu_map_page
  <2>3. \A g \in given' : g[2] \in Nat
    BY <1>2, <2>2 DEF VmmInv, JobOK
  <2> QED BY <1>5, <2>1, <2>3, SameLists, Reassemble
<1>8. CASE mmu_unmap_page(j)
  <2>1. UNCHANGED regions
    BY Zenon, <1>8 DEF mmu_unmap_page
  <2>2. given' = given \ {<<j.space, j.va>>}
    BY Zenon, <1>8 DEF mmu_unmap_page
  <2>3. \A g \in given' : g[2] \in Nat
    BY <2>2 DEF VmmInv
  <2> QED BY <1>5, <2>1, <2>3, SameLists, Reassemble
<1>9. CASE AddRange(j)
  <2>1. \A g \in given' : g[2] \in Nat
    BY <1>9 DEF AddRange, VmmInv
  <2>2. PICK rs : rs = regions[j.space]
    OBVIOUS
  <2>3. PICK r : r = Reg(j.va, j.stop, j.flags)
    OBVIOUS
  <2>4. r.start = j.va /\ r.stop = j.stop
    BY <2>3 DEF Reg
  <2>5. Proper(r)
    BY <1>2, <1>9, <2>3 DEF AddRange, JobOK, Proper, Region, Reg
  <2>6. CASE UNCHANGED regions
    BY <1>5, <2>1, <2>6, SameLists, Reassemble
  <2>7. CASE /\ ~Overlaps(rs, Slot(rs, r.start, r.stop), r.start, r.stop)
             /\ regions' = [regions EXCEPT ![j.space] = vmm_add_range(rs, r)]
    <3>1. ASSUME j.space \in Spaces
          PROVE  vmm_add_range(rs, r) \in Seq(Region) /\ ListSound(vmm_add_range(rs, r))
      <4>1. rs \in Seq(Region) /\ ListSound(rs)
        BY <2>2, <3>1 DEF VmmInv, RegionsSound
      <4> QED BY <2>5, <2>7, <4>1, AddSound
    <3>2. regions' \in [Spaces' -> Seq(Region)] /\ KSPACE \in Spaces' /\ RegionsSound'
      BY <2>7, <3>1, UpdateSound
    <3> QED BY <1>5, <2>1, <3>2, Reassemble
  <2> QED BY Zenon, <1>9, <2>2, <2>3, <2>4, <2>6, <2>7 DEF AddRange
<1>10. CASE DebugTest(j)
  <2>1. UNCHANGED regions /\ \A g \in given' : g[2] \in Nat
    BY <1>10 DEF DebugTest, VmmInv
  <2> QED BY <1>5, <2>1, SameLists, Reassemble
<1> QED BY Zenon, <1>6, <1>7, <1>8, <1>9, <1>10

\* Pages for a caller, behind region i of the list.
LEMMA AllocateKeeps ==
    ASSUME VmmInv, NEW s \in Spaces, NEW i \in 0 .. Len(regions[s]), NEW start \in Nat,
           NEW n \in Nat \ {0}, NEW flags \in Flags, Allocate(s, i, start, n, flags)
    PROVE  /\ regions' \in [Spaces' -> Seq(Region)] /\ KSPACE \in Spaces' /\ RegionsSound'
           /\ Good(work')
<1>1. PICK rs : rs = regions[s]
  OBVIOUS
<1>2. PICK r : r = Reg(start, start + n, flags)
  OBVIOUS
<1>3. rs \in Seq(Region) /\ ListSound(rs)
  BY <1>1 DEF VmmInv, RegionsSound
<1>4. r.start = start /\ r.stop = start + n /\ r.flags = flags
  BY <1>2 DEF Reg
<1>5. Proper(r)
  BY <1>2 DEF Proper, Region, Reg
<1>6. CASE UNCHANGED <<regions, work>>
  BY <1>6, SameLists DEF VmmInv
<1>7. CASE /\ ~Overlaps(rs, i, r.start, r.stop)
           /\ regions' = [regions EXCEPT ![s] = vmm_insert_range(rs, i, r)]
           /\ work' = MapNew(s, start, Joined(rs, i, r).stop, flags)
  <2>1. i \in 0 .. Len(rs)
    BY <1>1
  <2>2. vmm_insert_range(rs, i, r) \in Seq(Region) /\ ListSound(vmm_insert_range(rs, i, r))
    BY <1>3, <1>5, <1>7, <2>1, InsertSound
  <2>3. regions' \in [Spaces' -> Seq(Region)] /\ KSPACE \in Spaces' /\ RegionsSound'
    BY <1>7, <2>2, UpdateSound
  <2>4. Joined(rs, i, r).stop \in Nat
    <3>1. CASE JoinsNext(rs, i, r)
      <4>1. Joined(rs, i, r).stop = rs[i + 1].stop /\ i + 1 \in 1 .. Len(rs)
        BY <2>1, <3>1 DEF Joined, JoinsNext, Reg
      <4>2. rs[i + 1] \in Region
        BY <1>3, <4>1, ElementOfSeq
      <4> QED BY <4>1, <4>2 DEF Region
    <3>2. CASE ~JoinsNext(rs, i, r)
      BY <1>4, <3>2 DEF Joined, Reg
    <3> QED BY <3>1, <3>2
  <2>5. PICK m \in Nat : m = MAX(Joined(rs, i, r).stop - start, 0)
    BY <2>4 DEF MAX
  <2>6. work' = [q \in 1 .. m |-> MapJob(s, start + q - 1, FRESH, flags)]
    BY Zenon, <1>7, <2>5 DEF MapNew
  <2>7. work' = [q \in 1 .. m |-> work'[q]]
    BY <2>6
  <2>8. ASSUME NEW q \in 1 .. m PROVE JobOK(work'[q])
    <3>1. work'[q] = MapJob(s, start + q - 1, FRESH, flags)
      BY <2>6
    <3>2. start + q - 1 \in Nat
      OBVIOUS
    <3> QED BY <3>1, <3>2, MapJobOK
  <2>9. Good(work')
    BY <2>7, <2>8, GoodPages
  <2> QED BY <2>3, <2>9
<1> QED BY Zenon, <1>1, <1>2, <1>4, <1>6, <1>7 DEF Allocate

\* Where vmm_alloc_between puts a range.
LEMMA GapTypes ==
    ASSUME NEW rs \in Seq(Region), NEW n \in Nat
    PROVE  GapSlot(rs, n) \in 0 .. Len(rs) /\ FirstPage(rs, n) \in Nat
<1>1. PICK gaps : gaps = {k \in 1 .. Len(rs) : GapAt(rs, k, n)}
  OBVIOUS
<1>2. PICK i : i = GapSlot(rs, n)
  OBVIOUS
<1>3. i = IF gaps = {} THEN Len(rs) ELSE Min(gaps) - 1
  BY Zenon, <1>1, <1>2 DEF GapSlot
<1>4. gaps \in SUBSET Nat /\ gaps \subseteq 1 .. Len(rs)
  BY <1>1
<1>5. i \in 0 .. Len(rs)
  <2>1. CASE gaps = {}
    BY <1>3, <2>1
  <2>2. CASE gaps # {}
    <3>1. Min(gaps) \in gaps
      BY <1>4, <2>2, MinProperty
    <3>2. i = Min(gaps) - 1
      BY <1>3, <2>2
    <3>3. PICK q \in 1 .. Len(rs) : q = Min(gaps)
      BY <1>4, <3>1
    <3> QED BY <3>2, <3>3
  <2> QED BY <2>1, <2>2
<1>6. \A k \in 1 .. Len(rs) : rs[k].stop \in Nat
  <2>1. ASSUME NEW k \in 1 .. Len(rs) PROVE rs[k] \in Region
    BY ElementOfSeq
  <2> QED BY <2>1 DEF Region
<1>7. HEAP_START \in Nat
  BY VmmAssumption
<1>8. GapVa(rs, n) = IF rs = <<>> THEN HEAP_START
                     ELSE IF i = Len(rs) THEN rs[i].stop ELSE VaAt(rs, i + 1)
  BY Zenon, <1>2 DEF GapVa
<1>9. CASE rs = <<>>
  BY <1>2, <1>5, <1>7, <1>8, <1>9 DEF FirstPage
<1>10. CASE rs # <<>> /\ i = Len(rs)
  <2>1. Len(rs) \in 1 .. Len(rs)
    BY <1>10, EmptySeq
  <2>2. GapVa(rs, n) \in Nat
    BY SMTT(30), <1>6, <1>8, <1>10, <2>1
  <2> QED BY <1>2, <1>5, <2>2 DEF FirstPage
<1>11. CASE rs # <<>> /\ i # Len(rs)
  <2>1. i > 0 => i + 1 - 1 = i /\ i \in 1 .. Len(rs) /\ i + 1 # 1
    BY <1>5
  <2>2. VaAt(rs, i + 1) \in Nat
    BY SMTT(30), <1>5, <1>6, <1>7, <2>1 DEF VaAt, MAX
  <2>3. GapVa(rs, n) \in Nat
    BY SMTT(30), <1>8, <1>11, <2>2
  <2> QED BY <1>2, <1>5, <2>3 DEF FirstPage
<1> QED BY <1>9, <1>10, <1>11

\* The initial lists are empty.
LEMMA InitKeeps ==
    ASSUME Init
    PROVE  VmmInv
<1>1. regions = [k \in {KSPACE} |-> <<>>]
  <2>1. DOMAIN <<>> \cup {KSPACE} = {KSPACE}
    OBVIOUS
  <2>2. regions = [k \in DOMAIN <<>> \cup {KSPACE} |-> IF k = KSPACE THEN <<>> ELSE <<>>[k]]
    BY Zenon DEF Init, With
  <2> QED BY <2>1, <2>2
<1>2. Spaces = {KSPACE} /\ regions[KSPACE] = <<>>
  BY <1>1 DEF Spaces
<1>3. <<>> \in Seq(Region) /\ ListSound(<<>>)
  BY DEF ListSound
<1>4. regions \in [Spaces -> Seq(Region)]
  BY <1>1, <1>2, <1>3
<1>5. RegionsSound
  BY Zenon, <1>2, <1>3 DEF RegionsSound
<1>6. Good(work)
  BY Zenon, InitGood DEF Init
<1> QED BY <1>2, <1>4, <1>5, <1>6 DEF VmmInv, Init

\* vmm_free.
LEMMA FreeKeeps ==
    ASSUME VmmInv, NEW s, NEW va \in Nat, NEW n \in Nat \ {0}, vmm_free(s, va, n)
    PROVE  VmmInv'
<1>1. PICK rs : rs = regions[s]
  OBVIOUS
<1>2. PICK k : k = RegionOf(rs, va)
  OBVIOUS
<1>3. \A g \in given' : g[2] \in Nat
  BY DEF vmm_free, VmmInv
<1>4. CASE UNCHANGED <<regions, work>>
  <2>1. Good(work')
    BY <1>4 DEF VmmInv
  <2> QED BY <1>3, <1>4, <2>1, SameLists, Reassemble
<1>5. CASE /\ k # 0 /\ va + n <= rs[k].stop
           /\ regions' = [regions EXCEPT ![s] = vmm_remove_range(rs, k, va, va + n)]
           /\ work' = [i \in 1 .. n |-> UnmapJob(s, va + i - 1)]
  <2>1. ASSUME s \in Spaces
        PROVE  /\ vmm_remove_range(rs, k, va, va + n) \in Seq(Region)
               /\ ListSound(vmm_remove_range(rs, k, va, va + n))
    <3>1. rs \in Seq(Region) /\ ListSound(rs)
      BY <1>1, <2>1 DEF VmmInv, RegionsSound
    <3>2. PICK hits : hits = {m \in 1 .. Len(rs) : rs[m].start <= va /\ va < rs[m].stop}
      OBVIOUS
    <3>3. k = IF hits = {} THEN 0 ELSE Min(hits)
      BY Zenon, <1>2, <3>2 DEF RegionOf
    <3>4. hits # {} /\ k = Min(hits)
      BY <1>5, <3>3
    <3>5. hits \in SUBSET Nat
      BY <3>1, <3>2
    <3>6. k \in hits
      BY <3>4, <3>5, MinProperty
    <3>7. k \in 1 .. Len(rs) /\ rs[k].start <= va
      BY <3>2, <3>6
    <3>8. va + n \in Nat /\ va < va + n
      OBVIOUS
    <3> QED BY <1>5, <3>1, <3>7, <3>8, RemoveSound
  <2>2. regions' \in [Spaces' -> Seq(Region)] /\ KSPACE \in Spaces' /\ RegionsSound'
    BY <1>5, <2>1, UpdateSound
  <2>3. work' = [i \in 1 .. n |-> work'[i]]
    BY <1>5
  <2>4. ASSUME NEW i \in 1 .. n PROVE JobOK(work'[i])
    <3>1. work'[i] = UnmapJob(s, va + i - 1)
      BY <1>5
    <3>2. va + i - 1 \in Nat
      OBVIOUS
    <3> QED BY <3>1, <3>2, MapJobOK, KernelFlags
  <2>5. Good(work')
    BY <2>3, <2>4, GoodPages
  <2> QED BY <1>3, <2>2, <2>5, Reassemble
<1> QED BY Zenon, <1>1, <1>2, <1>4, <1>5 DEF vmm_free

\* vmm_create_space.
LEMMA CreateKeeps ==
    ASSUME VmmInv, NEW p, vmm_create_space(p)
    PROVE  VmmInv'
<1>1. p \notin Spaces /\ \A g \in given' : g[2] \in Nat
  BY DEF vmm_create_space, VmmInv
<1>2. CASE UNCHANGED <<regions, work>>
  <2>1. Good(work')
    BY <1>2 DEF VmmInv
  <2> QED BY <1>1, <1>2, <2>1, SameLists, Reassemble
<1>3. CASE regions' = With(regions, p, <<>>) /\ work' = vmm_copy_regions(p, 1)
  <2>1. regions' = [k \in Spaces \cup {p} |-> IF k = p THEN <<>> ELSE regions[k]]
    BY <1>3 DEF With, Spaces
  <2>2. Spaces' = Spaces \cup {p}
    BY <2>1 DEF Spaces
  <2>3. /\ regions \in [Spaces -> Seq(Region)] /\ KSPACE \in Spaces
        /\ \A k \in Spaces : ListSound(regions[k])
    BY DEF VmmInv, RegionsSound
  <2>4. <<>> \in Seq(Region) /\ ListSound(<<>>)
    BY DEF ListSound
  <2>5. regions' \in [Spaces' -> Seq(Region)] /\ KSPACE \in Spaces'
    BY <2>1, <2>2, <2>3, <2>4
  <2>6. ASSUME NEW k \in Spaces' PROVE ListSound(regions'[k])
    <3>1. CASE k = p
      <4>1. regions'[k] = <<>>
        BY <2>1, <2>2, <3>1
      <4> QED BY Zenon, <2>4, <4>1
    <3>2. CASE k # p
      <4>1. regions'[k] = regions[k] /\ k \in Spaces
        BY <2>1, <2>2, <3>2
      <4> QED BY Zenon, <2>3, <4>1
    <3> QED BY <3>1, <3>2
  <2>7. RegionsSound'
    BY <2>6 DEF RegionsSound, ListSound
  <2>8. Good(vmm_copy_regions(p, 1))
    BY CopyGood
  <2> QED BY SMTT(30), <1>1, <1>3, <2>5, <2>7, <2>8, Reassemble
<1> QED BY Zenon, <1>2, <1>3 DEF vmm_create_space

\* vmm_delete_space.
LEMMA DeleteKeeps ==
    ASSUME VmmInv, NEW p, vmm_delete_space(p)
    PROVE  VmmInv'
<1>1. /\ regions' = Without(regions, {p}) /\ p # KSPACE
      /\ work' = work /\ given' \subseteq given
  BY DEF vmm_delete_space
<1>2. regions' = [k \in Spaces \ {p} |-> regions[k]]
  BY <1>1 DEF Without, Spaces
<1>3. Spaces' = Spaces \ {p}
  BY <1>2 DEF Spaces
<1>4. /\ regions \in [Spaces -> Seq(Region)] /\ KSPACE \in Spaces
      /\ \A k \in Spaces : ListSound(regions[k])
  BY DEF VmmInv, RegionsSound
<1>5. regions' \in [Spaces' -> Seq(Region)] /\ KSPACE \in Spaces'
  BY <1>1, <1>2, <1>3, <1>4
<1>6. ASSUME NEW k \in Spaces' PROVE ListSound(regions'[k])
  <2>1. regions'[k] = regions[k] /\ k \in Spaces
    BY <1>2, <1>3
  <2> QED BY Zenon, <1>4, <2>1
<1>7. RegionsSound'
  BY <1>6 DEF RegionsSound, ListSound
<1>8. Good(work') /\ \A g \in given' : g[2] \in Nat
  BY <1>1 DEF VmmInv
<1> QED BY <1>5, <1>7, <1>8, Reassemble

\* vmm_alloc_between and vmm_alloc_at.
LEMMA AllocKeeps ==
    ASSUME VmmInv,
           \/ \E n \in Sizes : vmm_alloc_between(n)
           \/ \E s \in Spaces, u \in UserRanges : vmm_alloc_at(s, u)
    PROVE  VmmInv'
<1>1. CASE \E n \in Sizes : vmm_alloc_between(n)
  <2>1. PICK n \in Sizes : vmm_alloc_between(n)
    BY <1>1
  <2>2. n \in Nat \ {0}
    BY VmmAssumption
  <2>3. \A g \in given' : g[2] \in Nat
    BY <2>1 DEF vmm_alloc_between, VmmInv
  <2>4. CASE UNCHANGED <<regions, work>>
    <3>1. Good(work')
      BY <2>4 DEF VmmInv
    <3> QED BY <2>3, <2>4, <3>1, SameLists, Reassemble
  <2>5. CASE Allocate(KSPACE, GapSlot(regions[KSPACE], n), FirstPage(regions[KSPACE], n), n, KRW)
    <3>1. KSPACE \in Spaces /\ regions[KSPACE] \in Seq(Region)
      BY DEF VmmInv
    <3>2. /\ GapSlot(regions[KSPACE], n) \in 0 .. Len(regions[KSPACE])
          /\ FirstPage(regions[KSPACE], n) \in Nat
      BY <2>2, <3>1, GapTypes
    <3>3. /\ regions' \in [Spaces' -> Seq(Region)] /\ KSPACE \in Spaces' /\ RegionsSound'
          /\ Good(work')
      BY Zenon, <2>2, <2>5, <3>1, <3>2, KernelFlags, AllocateKeeps
    <3> QED BY <2>3, <3>3, Reassemble
  <2> QED BY Zenon, <2>1, <2>4, <2>5 DEF vmm_alloc_between
<1>2. CASE \E s \in Spaces, u \in UserRanges : vmm_alloc_at(s, u)
  <2>1. PICK s \in Spaces, u \in UserRanges : vmm_alloc_at(s, u)
    BY <1>2
  <2>2. u.va \in Nat /\ u.size \in Nat \ {0} /\ u.va + u.size \in Nat
    BY VmmAssumption
  <2>3. u.flags \in Flags
    BY Zenon DEF Flags
  <2>4. \A g \in given' : g[2] \in Nat
    BY <2>1 DEF vmm_alloc_at, VmmInv
  <2>5. regions[s] \in Seq(Region)
    BY DEF VmmInv
  <2>6. Slot(regions[s], u.va, u.va + u.size) \in 0 .. Len(regions[s])
    BY <2>2, <2>5, SlotIndex
  <2>7. CASE UNCHANGED <<regions, work>>
    <3>1. Good(work')
      BY <2>7 DEF VmmInv
    <3> QED BY <2>4, <2>7, <3>1, SameLists, Reassemble
  <2>8. CASE Allocate(s, Slot(regions[s], u.va, u.va + u.size), u.va, u.size, u.flags)
    <3>1. /\ regions' \in [Spaces' -> Seq(Region)] /\ KSPACE \in Spaces' /\ RegionsSound'
          /\ Good(work')
      BY Zenon, <2>2, <2>3, <2>6, <2>8, AllocateKeeps
    <3> QED BY <2>4, <3>1, Reassemble
  <2> QED BY Zenon, <2>1, <2>7, <2>8 DEF vmm_alloc_at
<1> QED BY <1>1, <1>2

\* vmm_map.
LEMMA MapKeeps ==
    ASSUME VmmInv, NEW pa \in Devices, vmm_map(pa)
    PROVE  VmmInv'
<1>1. UNCHANGED regions /\ \A g \in given' : g[2] \in Nat
  BY DEF vmm_map, VmmInv
<1>2. PICK r : r = Reg(DM_BASE + pa, DM_BASE + pa + 1, KRW)
  OBVIOUS
<1>3. DM_BASE + pa \in Nat /\ DM_BASE + pa + 1 \in Nat /\ DM_BASE + pa < DM_BASE + pa + 1
  BY VmmAssumption
<1>4. Proper(r)
  BY <1>2, <1>3, KernelFlags DEF Proper, Region, Reg
<1>5. JobOK(RangeJob(KSPACE, r))
  BY <1>4, RegionJobOK DEF RangeJob
<1>6. JobOK(MapJob(KSPACE, DM_BASE + pa, pa, KRW))
  BY <1>3, KernelFlags, MapJobOK
<1>7. work' = <<RangeJob(KSPACE, r), MapJob(KSPACE, DM_BASE + pa, pa, KRW)>>
  BY Zenon, <1>2 DEF vmm_map
<1>8. work' = <<RangeJob(KSPACE, r)>> \o <<MapJob(KSPACE, DM_BASE + pa, pa, KRW)>>
  BY <1>7
<1>9. Good(work')
  BY Zenon, <1>5, <1>6, <1>8, GoodOne, GoodConcat
<1> QED BY <1>1, <1>9, SameLists, Reassemble

LEMMA NextKeeps ==
    ASSUME VmmInv, [Next]_vars
    PROVE  VmmInv'
<1>1. CASE UNCHANGED vars
  <2>1. UNCHANGED <<regions, work, given>>
    BY Zenon, <1>1 DEF vars
  <2>2. Good(work') /\ \A g \in given' : g[2] \in Nat
    BY <2>1 DEF VmmInv
  <2> QED BY <2>1, <2>2, SameLists, Reassemble
<1>2. CASE Work
  BY <1>2, WorkKeepsInv
<1>3. CASE \/ \E n \in Sizes : vmm_alloc_between(n)
           \/ \E s \in Spaces, u \in UserRanges : vmm_alloc_at(s, u)
  BY <1>3, AllocKeeps
<1>4. CASE \E pa \in Devices : vmm_map(pa)
  BY <1>4, MapKeeps
<1>5. CASE \E g \in given, n \in Sizes :
             (\A i \in 0 .. n - 1 : <<g[1], g[2] + i>> \in given) /\ vmm_free(g[1], g[2], n)
  <2>1. PICK g \in given, n \in Sizes : vmm_free(g[1], g[2], n)
    BY <1>5
  <2>2. g[2] \in Nat /\ n \in Nat \ {0}
    BY VmmAssumption DEF VmmInv
  <2> QED BY <2>1, <2>2, FreeKeeps
<1>6. CASE \E p \in Procs : vmm_create_space(p)
  BY <1>6, CreateKeeps
<1>7. CASE \E p \in Spaces : vmm_delete_space(p)
  BY <1>7, DeleteKeeps
<1> QED BY Zenon, <1>1, <1>2, <1>3, <1>4, <1>5, <1>6, <1>7 DEF Next

\* The list of every space is in order, its regions are apart and what can be
\* merged is merged, after any calls of vmm_alloc_between, vmm_alloc_at, vmm_map,
\* vmm_free, vmm_create_space and vmm_delete_space, and between the steps of one.
THEOREM VmmListsSound == Spec => []RegionsSound
<1>1. Init => VmmInv
  BY InitKeeps
<1>2. VmmInv /\ [Next]_vars => VmmInv'
  BY NextKeeps
<1>3. VmmInv => RegionsSound
  BY DEF VmmInv
<1> QED BY <1>1, <1>2, <1>3, PTL DEF Spec
=============================================================================
