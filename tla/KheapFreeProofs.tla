-------------------------- MODULE KheapFreeProofs ---------------------------
(***************************************************************************)
(* Proofs about the kernel heap, second part: kfree keeps the inductive    *)
(* invariant HeapInv of Kheap, whether it removes a container or merges.   *)
(***************************************************************************)
EXTENDS KheapAllocProofs

-----------------------------------------------------------------------------
(* remove_container.                                                       *)

\* Division of natural numbers rounds down to one.
LEMMA DivNat ==
    ASSUME NEW x \in Nat, NEW y \in Nat \ {0}
    PROVE  x \div y \in Nat
  OBVIOUS

\* The last allocation of a container goes, and the container with it: nothing
\* live, and no listed block of another container, was in its pages.
LEMMA RemoveStep ==
    ASSUME HeapOK, NEW ptr \in DOMAIN live, NEW c,
           c = mem[DATA_BLOCK(ptr)].container,
           containers[c].used_blocks = 1, remove_container(c),
           live' = [p \in DOMAIN live \ {ptr} |-> live[p]],
           call = Idle, UNCHANGED <<call, calls, status, followed>>
    PROVE  HeapOK'
<1> DEFINE P == containers[c].prev
           N == containers[c].next
<1>1. /\ HDR \in Nat /\ HDR > 0 /\ CHDR \in Nat /\ PAGE \in Nat \ {0}
      /\ c \in DOMAIN containers /\ c \in Nat /\ c # NULL /\ ContainerEnd(c) \in Nat
      /\ c + CHDR + HDR <= ContainerEnd(c)
  BY Zenon, KheapAssumption, Extents DEF HeapOK, LiveInv
<1>2. \A k \in DOMAIN containers : k # c => ContainerEnd(k) <= c \/ ContainerEnd(c) <= k
  BY Zenon, <1>1 DEF HeapOK, ContainersInv
<1>3. /\ containers[c].size_in_bytes \in Nat
      /\ ContainerEnd(c) = c + CHDR + containers[c].size_in_bytes
  BY SMTT(30), <1>1 DEF HeapOK, TypeOK, ContainerEnd, CONTAINER_DATA
\* The listed blocks in the pages of c are the ones of c.
<1>4. \A a \in listed : Within(c, a) <=> mem[a].container = c
  <2>1. SUFFICES ASSUME NEW a \in listed
                 PROVE  Within(c, a) <=> mem[a].container = c
    BY Zenon
  <2> DEFINE k == mem[a].container
  <2>2. /\ a \in Nat /\ k \in DOMAIN containers /\ k + CHDR <= a
        /\ a + HDR <= BlockEnd(a) /\ BlockEnd(a) \in Nat
        /\ BlockEnd(a) <= ContainerEnd(k) /\ k \in Nat /\ ContainerEnd(k) \in Nat
    BY Zenon, Extents
  <2> HIDE DEF k
  <2>3. CASE k = c
    BY SMTT(30), <1>1, <1>3, <2>2, <2>3 DEF Within, k
  <2>4. CASE k # c
    <3>1. ContainerEnd(k) <= c \/ ContainerEnd(c) <= k
      BY Zenon, <1>2, <2>2, <2>4
    <3>2. a < c \/ ContainerEnd(c) <= a
      BY SMTT(30), <1>1, <2>2, <3>1
    <3> QED BY SMTT(30), <1>1, <1>3, <2>2, <2>4, <3>2 DEF Within, k
  <2> QED BY <2>3, <2>4
\* The effect of the step.
<1>5. /\ DOMAIN mem' \subseteq DOMAIN mem
      /\ \A a \in DOMAIN mem' : mem'[a] = mem[a]
      /\ listed' = {a \in listed : mem[a].container # c}
      /\ listed' \subseteq DOMAIN mem'
  <2>1. /\ mem' = [a \in {x \in DOMAIN mem : ~Within(c, x)} |-> mem[a]]
        /\ listed' = {x \in listed : ~Within(c, x)}
    BY Zenon DEF remove_container
  <2>2. listed' = {a \in listed : mem[a].container # c}
    BY Zenon, <1>4, <2>1
  <2> QED BY Zenon, <2>1, <2>2 DEF HeapOK, BlocksInv
<1>6. /\ DOMAIN containers' = DOMAIN containers \ {c}
      /\ \A k \in DOMAIN containers' :
           containers'[k] = [containers[k] EXCEPT !.next = IF k = P THEN N ELSE @,
                                                  !.prev = IF k = N THEN P ELSE @]
      /\ heap' = IF P = NULL THEN N ELSE heap
  BY Zenon DEF remove_container, NewHead
<1>7. /\ N \in DOMAIN containers \cup {NULL} /\ P \in DOMAIN containers \cup {NULL}
      /\ N # NULL => containers[N].prev = c
      /\ P # NULL => containers[P].next = c
      /\ heap \in DOMAIN containers \cup {NULL}
      /\ heap # NULL => containers[heap].prev = NULL
      /\ N = c <=> P = c
  BY Zenon, <1>1 DEF HeapOK, TypeOK, ContainersInv
<1> HIDE DEF P, N
<1>8. \A k \in DOMAIN containers' :
        /\ k \in DOMAIN containers /\ k # c /\ k # NULL /\ k \in Nat
        /\ containers[k] \in [size_in_bytes : Nat, used_blocks : Nat,
                              prev : DOMAIN containers \cup {NULL},
                              next : DOMAIN containers \cup {NULL}]
        /\ containers[k].next # NULL => containers[containers[k].next].prev = k
        /\ containers[k].prev # NULL => containers[containers[k].prev].next = k
  BY Zenon, <1>6 DEF HeapOK, TypeOK, ContainersInv, NULL
<1>9. \A k \in DOMAIN containers' :
        /\ containers'[k].size_in_bytes = containers[k].size_in_bytes
        /\ containers'[k].used_blocks = containers[k].used_blocks
        /\ containers'[k].next = IF k = P THEN N ELSE containers[k].next
        /\ containers'[k].prev = IF k = N THEN P ELSE containers[k].prev
  <2>1. SUFFICES ASSUME NEW k \in DOMAIN containers'
                 PROVE  /\ containers'[k].size_in_bytes = containers[k].size_in_bytes
                        /\ containers'[k].used_blocks = containers[k].used_blocks
                        /\ containers'[k].next = IF k = P THEN N ELSE containers[k].next
                        /\ containers'[k].prev = IF k = N THEN P ELSE containers[k].prev
    BY Zenon
  <2> DEFINE nx == IF k = P THEN N ELSE containers[k].next
             pv == IF k = N THEN P ELSE containers[k].prev
             D == DOMAIN containers \cup {NULL}
  <2>2. containers'[k] = [containers[k] EXCEPT !.next = nx, !.prev = pv]
    BY Zenon, <1>6
  <2>3. containers[k] \in [size_in_bytes : Nat, used_blocks : Nat, prev : D, next : D]
    BY <1>8
  <2>4. SUFFICES /\ containers'[k].size_in_bytes = containers[k].size_in_bytes
                 /\ containers'[k].used_blocks = containers[k].used_blocks
                 /\ containers'[k].next = nx /\ containers'[k].prev = pv
    OBVIOUS
  <2> HIDE DEF nx, pv, D
  <2> QED BY Zenon, <2>2, <2>3
<1>10. \A k \in DOMAIN containers' : ContainerEnd(k)' = ContainerEnd(k)
  BY <1>9 DEF ContainerEnd
<1>11. /\ DOMAIN live' = DOMAIN live \ {ptr}
       /\ \A p \in DOMAIN live' : /\ live'[p] = live[p]
                                  /\ DATA_BLOCK(p) \in listed'
                                  /\ mem'[DATA_BLOCK(p)] = mem[DATA_BLOCK(p)]
  <2>1. LiveIn(c) = {ptr}
    <3>1. IsFiniteSet(LiveIn(c)) /\ Cardinality(LiveIn(c)) = 1
      BY Zenon, <1>1, FS_Subset DEF HeapOK, LiveInv, ContainersInv, LiveIn
    <3>2. PICK x : LiveIn(c) = {x}
      BY Zenon, <3>1, FS_Singleton
    <3> QED BY Zenon, <3>2 DEF LiveIn
  <2>2. \A p \in DOMAIN live \ {ptr} : mem[DATA_BLOCK(p)].container # c
    BY SMTT(30), <2>1 DEF LiveIn
  <2>3. \A p \in DOMAIN live \ {ptr} : DATA_BLOCK(p) \in listed'
    BY <1>5, <2>2 DEF HeapOK, LiveInv
  <2> QED BY <1>5, <2>3
<1>12. LiveInv'
  <2>1. IsFiniteSet(DOMAIN live')
    BY Zenon, <1>11, FS_Subset DEF HeapOK, LiveInv
  <2> QED BY <1>11, <2>1 DEF HeapOK, LiveInv
<1>13. BlocksInv'
  <2>1. \A a \in listed' : a \in listed /\ mem'[a] = mem[a] /\ BlockEnd(a)' = BlockEnd(a)
    BY Zenon, <1>5 DEF BlockEnd
  <2>2. \A a \in listed' : mem[a].container \in DOMAIN containers'
    BY Zenon, <1>5, <1>6, Extents
  <2>3. ASSUME NEW a \in listed'
        PROVE  (BlockEnd(a) <= ContainerEnd(mem[a].container))'
    <3>1. \A k \in DOMAIN containers' : mem'[a].container = k =>
            ContainerEnd(mem[a].container)' = ContainerEnd(k)
      BY Zenon, <1>9 DEF ContainerEnd
    <3> QED BY Zenon, <2>1, <2>2, <2>3, <3>1 DEF HeapOK, BlocksInv
  <2> QED BY Zenon, <1>5, <2>1, <2>2, <2>3 DEF HeapOK, BlocksInv
<1>14. LinksInv'
  <2>1. \A a \in listed' : a \in listed /\ mem'[a] = mem[a] /\ mem[a].container # c
    BY Zenon, <1>5
  <2>2. \A a \in listed' : mem'[a].next # NULL =>
          /\ mem'[a].next \in listed' /\ a < mem'[a].next
          /\ mem'[mem'[a].next].container = mem'[a].container
          /\ \A x \in listed' : ~(a < x /\ x < mem'[a].next)
    BY SMTT(30), <1>5, <2>1 DEF HeapOK, LinksInv
  <2>3. \A b \in listed' : mem'[b].prev # NULL =>
          /\ mem'[b].prev < b
          /\ \E a \in listed' : mem'[a].next = b /\ a <= mem'[b].prev
    <3>1. SUFFICES ASSUME NEW b \in listed', mem'[b].prev # NULL
                   PROVE  /\ mem'[b].prev < b
                          /\ \E a \in listed' : mem'[a].next = b /\ a <= mem'[b].prev
      BY Zenon
    <3>2. PICK a \in listed : mem[b].prev < b /\ mem[a].next = b /\ a <= mem[b].prev
      BY Zenon, <2>1, <3>1 DEF HeapOK, LinksInv
    <3>3. b # NULL /\ b \in listed
      BY Zenon, <2>1, Extents
    <3>4. mem[b].container = mem[a].container
      BY Zenon, <3>2, <3>3 DEF HeapOK, LinksInv
    <3>5. a \in listed'
      BY Zenon, <1>5, <2>1, <3>4
    <3> QED BY <2>1, <3>2, <3>5
  <2> QED BY <2>2, <2>3 DEF LinksInv
\* vmm_free takes c out of held, and leaves the other containers' ranges.
<1>15. /\ \A r \in DOMAIN held' : r \in Nat /\ held'[r] \in Nat
       /\ \A k \in DOMAIN containers' : k \in DOMAIN held' /\ held'[k] = held[k]
  <2> DEFINE stop == c + PagesToFree(c) * PAGE
             kept == DOMAIN held \ {c}
  <2>1. stop \in Nat /\ c <= stop
    <3>1. PagesToFree(c) \in Nat
      <4>1. containers[c].size_in_bytes + CHDR \in Nat
        BY <1>1, <1>3
      <4> QED BY Zenon, <1>1, <4>1, DivNat DEF PagesToFree
    <3>2. PagesToFree(c) * PAGE \in Nat
      BY SMTT(30), <1>1, <3>1
    <3> QED BY <1>1, <3>2
  <2>2. /\ c \in DOMAIN held /\ held[c] = ContainerEnd(c)
        /\ \A r \in DOMAIN held : r \in Nat /\ held[r] \in Nat
    BY Zenon, <1>1 DEF HeapOK, ContainersInv, TypeOK
  <2>3. \A k \in DOMAIN containers' : k \in kept /\ ~(stop < held[c] /\ k = stop)
    <3>1. SUFFICES ASSUME NEW k \in DOMAIN containers'
                   PROVE  k \in kept /\ ~(stop < held[c] /\ k = stop)
      BY Zenon
    <3>2. k \in kept
      BY <1>8 DEF HeapOK, ContainersInv
    <3>3. ContainerEnd(k) <= c \/ ContainerEnd(c) <= k
      BY Zenon, <1>2, <1>8
    <3>4. k \in Nat /\ ContainerEnd(k) \in Nat /\ k + CHDR + HDR <= ContainerEnd(k)
      BY Zenon, <1>8, Extents
    <3> HIDE DEF stop
    <3> QED BY SMTT(60), <1>1, <2>1, <2>2, <3>2, <3>3, <3>4
  <2>4. held' = IF stop < held[c]
                THEN [r \in kept \cup {stop} |-> IF r = stop THEN held[c] ELSE held[r]]
                ELSE [r \in kept |-> held[r]]
    BY Zenon DEF remove_container, VmmFree
  <2> HIDE DEF stop
  <2> QED BY <2>1, <2>2, <2>3, <2>4
<1>16. TypeOK'
  <2>1. heap' \in DOMAIN containers' \cup {NULL}
    BY Zenon, <1>1, <1>6, <1>7 DEF P
  <2>2. ASSUME NEW k \in DOMAIN containers'
        PROVE  /\ k \in Nat \ {0}
               /\ containers'[k] \in [size_in_bytes : Nat, used_blocks : Nat,
                                      prev : DOMAIN containers' \cup {NULL},
                                      next : DOMAIN containers' \cup {NULL}]
    <3>1. /\ containers'[k].next \in DOMAIN containers' \cup {NULL}
          /\ containers'[k].prev \in DOMAIN containers' \cup {NULL}
      <4>1. containers[k].next = c => k = P
        BY Zenon, <1>1, <1>8 DEF P
      <4>2. containers[k].prev = c => k = N
        BY <1>1, <1>8 DEF N
      <4>3. /\ containers[k].next \in DOMAIN containers \cup {NULL}
            /\ containers[k].prev \in DOMAIN containers \cup {NULL}
            /\ k # c
        BY Zenon, <1>8
      <4>4. /\ k = P => N \in DOMAIN containers' \cup {NULL}
            /\ k = N => P \in DOMAIN containers' \cup {NULL}
        BY Zenon, <1>6, <1>7, <4>3
      <4> QED BY Zenon, <1>6, <1>9, <4>1, <4>2, <4>3, <4>4
    <3>2. containers'[k] = [containers[k] EXCEPT !.next = containers'[k].next,
                                                 !.prev = containers'[k].prev]
      BY ZenonT(40), <1>6, <1>8, <1>9
    <3> QED BY Zenon, <1>8, <3>1, <3>2 DEF NULL
  <2>3. \A a \in DOMAIN mem' : a \in Nat \ {0} /\ mem'[a] \in Header
    BY <1>5 DEF HeapOK, TypeOK
  <2>4. call' \in [op : {"idle", "scan"}, size : Nat,
                   cont : DOMAIN containers' \cup {NULL}, blk : Nat, fresh : BOOLEAN]
    BY DEF Idle, NULL
  <2>5. \A p \in DOMAIN live' : p \in Nat /\ live'[p] \in Nat
    BY Zenon, <1>11 DEF HeapOK, TypeOK
  <2>6. /\ calls' \in Nat /\ followed' \in BOOLEAN
        /\ status' \in {"run", "panic", "corrupt"}
    BY Zenon DEF HeapOK, TypeOK
  <2> QED BY Zenon, <1>15, <2>1, <2>2, <2>3, <2>4, <2>5, <2>6 DEF TypeOK
<1>17. ContainersInv'
  <2>1. \A k \in DOMAIN containers' : LiveIn(k)' = LiveIn(k)
    <3>1. ASSUME NEW k \in DOMAIN containers' PROVE LiveIn(k)' = LiveIn(k)
      BY <1>8, <1>11 DEF LiveIn
    <3> QED BY <3>1
  <2>2. \A k \in DOMAIN containers' : containers'[k].used_blocks = Cardinality(LiveIn(k)')
    <3>1. \A k \in DOMAIN containers' : Cardinality(LiveIn(k)') = Cardinality(LiveIn(k))
      BY Zenon, <2>1
    <3>2. \A k \in DOMAIN containers' : containers'[k].used_blocks = Cardinality(LiveIn(k))
      BY Zenon, <1>8, <1>9 DEF HeapOK, ContainersInv
    <3> QED BY <3>1, <3>2
  <2>3. (heap # NULL => containers[heap].prev = NULL)'
    <3>1. CASE P = NULL
      BY Zenon, <1>1, <1>6, <1>7, <1>9, <3>1
    <3>2. CASE P # NULL
      <4>1. heap' = heap /\ heap # c
        BY Zenon, <1>1, <1>6, <1>7, <3>2 DEF P
      <4>2. heap # NULL => heap # N
        BY Zenon, <1>1, <1>7
      <4>3. heap # NULL => heap \in DOMAIN containers'
        BY Zenon, <1>6, <1>7, <4>1
      <4> QED BY Zenon, <1>7, <1>9, <4>1, <4>2, <4>3
    <3> QED BY Zenon, <3>1, <3>2
  <2>4. ASSUME NEW k \in DOMAIN containers'
        PROVE  /\ containers'[k].next # NULL => containers'[containers'[k].next].prev = k
               /\ containers'[k].prev # NULL => containers'[containers'[k].prev].next = k
    <3> DEFINE nx == containers[k].next
               pv == containers[k].prev
    <3>1. /\ nx \in DOMAIN containers \cup {NULL} /\ pv \in DOMAIN containers \cup {NULL}
          /\ nx # NULL => containers[nx].prev = k
          /\ pv # NULL => containers[pv].next = k
          /\ k # c /\ k # NULL /\ k \in DOMAIN containers
      BY <1>8
    <3>2. /\ nx = c => P = k
          /\ pv = c => N = k
      BY Zenon, <1>1, <3>1 DEF P, N
    <3>3. /\ containers'[k].next = IF k = P THEN N ELSE nx
          /\ containers'[k].prev = IF k = N THEN P ELSE pv
      BY Zenon, <1>9
    <3> HIDE DEF nx, pv
    <3>4. containers'[k].next # NULL => containers'[containers'[k].next].prev = k
      <4>1. CASE k = P
        BY ZenonT(30), <1>6, <1>7, <1>9, <3>1, <3>3, <4>1
      <4>2. CASE k # P
        <5>1. SUFFICES ASSUME nx # NULL PROVE containers'[nx].prev = k
          BY Zenon, <3>3, <4>2
        <5>2. nx \in DOMAIN containers' /\ nx # N
          BY Zenon, <1>6, <1>7, <3>1, <3>2, <4>2, <5>1
        <5>3. containers'[nx].prev = containers[nx].prev
          BY <1>9, <5>2
        <5> QED BY <3>1, <5>1, <5>3
      <4> QED BY Zenon, <4>1, <4>2
    <3>5. containers'[k].prev # NULL => containers'[containers'[k].prev].next = k
      <4>1. CASE k = N
        BY Zenon, <1>6, <1>7, <1>9, <3>1, <3>3, <4>1
      <4>2. CASE k # N
        <5>1. SUFFICES ASSUME pv # NULL PROVE containers'[pv].next = k
          BY Zenon, <3>3, <4>2
        <5>2. pv \in DOMAIN containers' /\ pv # P
          BY Zenon, <1>6, <1>7, <3>1, <3>2, <4>2, <5>1
        <5>3. containers'[pv].next = containers[pv].next
          BY Zenon, <1>9, <5>2
        <5> QED BY <3>1, <5>1, <5>3
      <4> QED BY Zenon, <4>1, <4>2
    <3> QED BY Zenon, <3>4, <3>5
  <2>5. ASSUME NEW k \in DOMAIN containers'
        PROVE  /\ k \in DOMAIN held' /\ held'[k] = ContainerEnd(k)'
               /\ CONTAINER_DATA(k) \in listed'
    <3>1. /\ held[k] = ContainerEnd(k) /\ CONTAINER_DATA(k) \in listed
          /\ mem[CONTAINER_DATA(k)].container = k
      BY Zenon, <1>8, Extents DEF HeapOK, ContainersInv
    <3> QED BY Zenon, <1>5, <1>8, <1>10, <1>15, <3>1
  <2>6. \A k, d \in DOMAIN containers' :
          k # d => ContainerEnd(k)' <= d \/ ContainerEnd(d)' <= k
    BY SMTT(60), <1>8, <1>10 DEF HeapOK, ContainersInv
  <2> QED BY SMTT(30), <2>2, <2>3, <2>4, <2>5, <2>6 DEF ContainersInv
<1>18. call'.blk \in listed' \cup {NULL} /\ status' # "corrupt"
  BY DEF HeapOK, Idle
<1> QED BY Zenon, <1>12, <1>13, <1>14, <1>16, <1>17, <1>18 DEF HeapOK
-----------------------------------------------------------------------------
(* kfree.                                                                  *)

\* A listed block whose next is b is the only one: next skips no listed block.
LEMMA OnePredecessor ==
    ASSUME HeapOK, NEW b \in listed, NEW x \in listed, NEW y \in listed,
           mem[x].next = b, y < b, mem[y].next = b \/ x <= y
    PROVE  x = y
<1>1. b # NULL /\ x \in Nat /\ y \in Nat /\ b \in Nat
  BY Extents
<1>2. x < b /\ ~(x < y /\ y < b)
  BY <1>1 DEF HeapOK, LinksInv
<1>3. mem[y].next = b => ~(y < x /\ x < b)
  BY <1>1 DEF HeapOK, LinksInv
<1> QED BY <1>1, <1>2, <1>3

\* A kfree that leaves its container and merges only with listed neighbours.
LEMMA CoalesceStep ==
    ASSUME HeapOK, NEW ptr \in DOMAIN live, NEW b, b = DATA_BLOCK(ptr),
           NEW mp \in FreeReads(mem[b].prev), NEW mn \in FreeReads(mem[b].next),
           Coalesce(b, mp, mn), mp => mem[b].prev \in listed,
           containers' = DecUsed(mem[b].container),
           live' = [p \in DOMAIN live \ {ptr} |-> live[p]],
           call = Idle, followed = FALSE, UNCHANGED <<heap, held, call, calls>>
    PROVE  HeapOK'
<1> DEFINE h == mem[b]
           t == IF mp THEN h.prev ELSE b
           n == h.next
           nn == mem[n].next
           c == h.container
           merged == (IF mp THEN mem[t].size_in_bytes + h.size_in_bytes + HDR
                            ELSE h.size_in_bytes)
                     + (IF mn THEN mem[n].size_in_bytes + HDR ELSE 0)
           ln == IF mn THEN nn ELSE n
<1>1. /\ HDR \in Nat /\ HDR > 0 /\ CHDR \in Nat
      /\ b \in listed /\ h.used = TRUE
      /\ mp \in BOOLEAN /\ mn \in BOOLEAN
  <2>1. b \in listed /\ h.used
    BY Zenon DEF HeapOK, LiveInv
  <2>2. h \in Header
    BY Zenon, <2>1, Extents
  <2>3. mp \in BOOLEAN /\ mn \in BOOLEAN
    BY Zenon DEF FreeReads
  <2> QED BY Zenon, <2>1, <2>2, <2>3, KheapAssumption DEF Header
\* The blocks that take part: t, b and n follow each other.
<1>2. mp => /\ t \in listed /\ mem[t].next = b /\ t < b /\ mem[t].used = FALSE
            /\ mem[t].container = c
            /\ \A x \in listed : ~(t < x /\ x < b)
  <2>1. SUFFICES ASSUME mp
                 PROVE  /\ t \in listed /\ mem[t].next = b /\ t < b
                        /\ mem[t].used = FALSE /\ mem[t].container = c
                        /\ \A x \in listed : ~(t < x /\ x < b)
    BY Zenon
  <2>2. t = h.prev /\ t \in listed /\ h.prev # NULL
    BY Zenon, <2>1, Extents
  <2>3. PICK a \in listed : mem[a].next = b /\ a <= h.prev /\ h.prev < b
    BY Zenon, <1>1, <2>2 DEF HeapOK, LinksInv
  <2>4. a = t
    BY Zenon, <1>1, <2>2, <2>3, OnePredecessor
  <2>5. t \in DOMAIN mem /\ mem[t] \in Header /\ b # NULL
    BY Zenon, <1>1, <2>2, Extents
  <2>6. mem[t].used = FALSE
    BY Zenon, <2>1, <2>2, <2>5 DEF FreeReads, Header
  <2>7. mem[t].container = c /\ \A x \in listed : ~(t < x /\ x < b)
    BY SMTT(30), <2>3, <2>4, <2>5 DEF HeapOK, LinksInv
  <2> QED BY Zenon, <2>2, <2>3, <2>4, <2>6, <2>7
<1>3. n # NULL => /\ n \in listed /\ b < n /\ mem[n].container = c
                  /\ \A x \in listed : ~(b < x /\ x < n)
  BY Zenon, <1>1 DEF HeapOK, LinksInv
<1>4. mn => /\ n # NULL /\ n \in listed /\ mem[n].used = FALSE
            /\ nn # NULL => /\ nn \in listed /\ n < nn /\ mem[nn].container = c
                            /\ \A x \in listed : ~(n < x /\ x < nn)
  <2>1. SUFFICES ASSUME mn
                 PROVE  /\ n # NULL /\ n \in listed /\ mem[n].used = FALSE
                        /\ nn # NULL => /\ nn \in listed /\ n < nn
                                        /\ mem[nn].container = c
                                        /\ \A x \in listed : ~(n < x /\ x < nn)
    BY Zenon
  <2>2. n # NULL /\ n \in listed
    BY Zenon, <1>3, <2>1 DEF FreeReads
  <2>3. n \in DOMAIN mem /\ mem[n] \in Header
    BY Zenon, <2>2, Extents
  <2>4. mem[n].used = FALSE
    BY Zenon, <2>1, <2>2, <2>3 DEF FreeReads, Header
  <2>5. nn # NULL => /\ nn \in listed /\ n < nn /\ mem[nn].container = c
                     /\ \A x \in listed : ~(n < x /\ x < nn)
    BY Zenon, <1>3, <2>2 DEF HeapOK, LinksInv
  <2> QED BY Zenon, <2>2, <2>4, <2>5
<1>5. /\ t \in listed /\ t <= b /\ mem[t].container = c /\ t \in DOMAIN mem
      /\ ~mp => t = b
      /\ \A a \in listed : /\ a \in Nat /\ a # NULL /\ a \in DOMAIN mem
                           /\ mem[a] \in Header /\ BlockEnd(a) \in Nat
                           /\ BlockEnd(a) = a + HDR + mem[a].size_in_bytes
                           /\ mem[a].size_in_bytes \in Nat
  <2>1. \A a \in listed : /\ a \in Nat /\ a # NULL /\ a \in DOMAIN mem
                          /\ mem[a] \in Header /\ BlockEnd(a) \in Nat
    BY Zenon, Extents
  <2>2. \A a \in listed : /\ BlockEnd(a) = a + HDR + mem[a].size_in_bytes
                          /\ mem[a].size_in_bytes \in Nat
    BY Zenon, <2>1 DEF BlockEnd, BLOCK_DATA, Header
  <2>3. t \in listed /\ t <= b /\ mem[t].container = c /\ (~mp => t = b)
    BY SMTT(60), <1>1, <1>2, <2>1
  <2> QED BY Zenon, <2>1, <2>2, <2>3
\* What is left of the neighbours fits: the merged block ends where the last of
\* its parts ended, or before.
<1>6. /\ merged \in Nat
      /\ t + HDR + merged <= BlockEnd(IF mn THEN n ELSE b)
  <2>1. mp => t + HDR + mem[t].size_in_bytes <= b
    BY Zenon, <1>1, <1>2, <1>5 DEF HeapOK, BlocksInv
  <2>2. mn => b + HDR + h.size_in_bytes <= n
    BY Zenon, <1>1, <1>3, <1>4, <1>5 DEF HeapOK, BlocksInv
  <2>3. h.size_in_bytes \in Nat /\ mem[t].size_in_bytes \in Nat /\ b \in Nat /\ t \in Nat
    BY Zenon, <1>1, <1>5
  <2>4. mn => mem[n].size_in_bytes \in Nat /\ n \in Nat
    BY Zenon, <1>4, <1>5
  <2>5. /\ BlockEnd(b) = b + HDR + h.size_in_bytes
        /\ mn => BlockEnd(n) = n + HDR + mem[n].size_in_bytes
    BY Zenon, <1>1, <1>4, <1>5
  <2> DEFINE sh == h.size_in_bytes
             st == mem[t].size_in_bytes
             sn == mem[n].size_in_bytes
  <2>6. merged = (IF mp THEN st + sh + HDR ELSE sh) + (IF mn THEN sn + HDR ELSE 0)
    BY Zenon
  <2> HIDE DEF sh, st, sn, t, n, h, merged
  <2> QED BY SMTT(30), <1>1, <1>5, <2>1, <2>2, <2>3, <2>4, <2>5, <2>6 DEF sh, st, sn
\* The effect of the step.
<1>7. /\ DOMAIN mem' = DOMAIN mem
      /\ mem'[t] = [mem[t] EXCEPT !.used = FALSE, !.size_in_bytes = merged, !.next = ln]
      /\ \A a \in DOMAIN mem : a # t =>
           mem'[a] = IF a = b THEN [h EXCEPT !.used = FALSE]
                     ELSE IF mn /\ a = nn THEN [mem[a] EXCEPT !.prev = t]
                     ELSE mem[a]
      /\ listed' = listed \ ((IF mp THEN {b} ELSE {}) \cup (IF mn THEN {n} ELSE {}))
      /\ followed' = FALSE /\ status' = status
  <2>1. mn => n \in DOMAIN mem
    BY Zenon, <1>4, <1>5
  <2>2. DOMAIN mem' = DOMAIN mem
    BY Zenon DEF Coalesce
  <2>3. mem'[t] = [mem[t] EXCEPT !.used = FALSE, !.size_in_bytes = merged, !.next = ln]
    BY Zenon, <1>5, <2>1 DEF Coalesce
  <2>4. \A a \in DOMAIN mem : a # t =>
           mem'[a] = IF a = b THEN [h EXCEPT !.used = FALSE]
                     ELSE IF mn /\ a = nn THEN [mem[a] EXCEPT !.prev = t]
                     ELSE mem[a]
    BY Zenon, <1>5, <2>1 DEF Coalesce
  <2>5. listed' = listed \ ((IF mp THEN {b} ELSE {}) \cup (IF mn THEN {n} ELSE {}))
    BY Zenon, <1>5 DEF Coalesce
  <2>6. followed' = FALSE /\ status' = status
    BY Zenon, <1>1, <1>5, <2>1 DEF Coalesce, Clobbers
  <2> QED BY Zenon, <2>2, <2>3, <2>4, <2>5, <2>6
<1>8. /\ listed' \subseteq listed /\ t \in listed' /\ (mp => b \notin listed')
      /\ mn => n \notin listed'
      /\ \A x \in listed : x \notin listed' => (mp /\ x = b) \/ (mn /\ x = n)
  <2>1. /\ listed' \subseteq listed /\ (mp => b \notin listed') /\ (mn => n \notin listed')
        /\ \A x \in listed : x \notin listed' => (mp /\ x = b) \/ (mn /\ x = n)
    BY Zenon, <1>1, <1>7
  <2>2. (mp => t # b) /\ (mn => t # n)
    <3>1. /\ t \in Nat /\ b \in Nat /\ t <= b
          /\ mp => t < b
          /\ mn => n \in Nat /\ b < n
      BY Zenon, <1>1, <1>2, <1>3, <1>4, <1>5
    <3> HIDE DEF t, n
    <3> QED BY <3>1
  <2>3. t \in listed'
    BY Zenon, <1>5, <2>1, <2>2
  <2> QED BY <2>1, <2>3
<1>9. /\ ln # NULL => /\ ln \in listed' /\ t < ln /\ mem[ln].container = c
      /\ \A x \in listed' : t < x => BlockEnd(IF mn THEN n ELSE b) <= x
      /\ ln # NULL => \A x \in listed' : ~(t < x /\ x < ln)
  <2>1. ASSUME NEW x \in listed', t < x
        PROVE  (IF mn THEN n ELSE b) < x
    <3>1. x \in listed /\ x \in Nat /\ b \in Nat /\ (mp => x # b) /\ (mn => x # n)
      BY Zenon, <1>1, <1>5, <1>8
    <3>2. b < x
      BY SMTT(30), <1>2, <1>5, <2>1, <3>1
    <3>3. mn => n \in Nat /\ ~(b < x /\ x < n)
      BY Zenon, <1>3, <1>4, <1>5, <3>1
    <3> HIDE DEF n
    <3> QED BY SMTT(30), <3>1, <3>2, <3>3
  <2>2. (IF mn THEN n ELSE b) \in listed
    BY Zenon, <1>1, <1>4
  <2>3. \A x \in listed' : t < x => BlockEnd(IF mn THEN n ELSE b) <= x
    BY Zenon, <1>8, <2>1, <2>2 DEF HeapOK, BlocksInv
  <2>4. ln # NULL => /\ ln \in listed /\ (IF mn THEN n ELSE b) < ln
                     /\ mem[ln].container = c
                     /\ \A x \in listed : ~((IF mn THEN n ELSE b) < x /\ x < ln)
    <3>1. CASE mn
      <4>1. ln = nn /\ (IF mn THEN n ELSE b) = n
        BY Zenon, <3>1
      <4> HIDE DEF ln, nn, n
      <4> QED BY Zenon, <1>4, <3>1, <4>1
    <3>2. CASE ~mn
      <4>1. ln = n /\ (IF mn THEN n ELSE b) = b
        BY Zenon, <3>2
      <4> HIDE DEF ln, nn, n
      <4> QED BY Zenon, <1>3, <3>2, <4>1
    <3> QED BY Zenon, <3>1, <3>2
  <2>5. ln # NULL => ln \in Nat /\ t < ln /\ b < ln /\ (mn => n < ln)
    <3>1. SUFFICES ASSUME ln # NULL PROVE ln \in Nat /\ t < ln /\ b < ln /\ (mn => n < ln)
      BY Zenon
    <3>2. ln \in Nat /\ t \in Nat /\ b \in Nat /\ t <= b
      BY Zenon, <1>1, <1>5, <2>4, <3>1
    <3>3. mn => n \in Nat /\ b < n
      BY Zenon, <1>3, <1>4, <1>5
    <3> HIDE DEF ln, n, t
    <3> QED BY SMTT(30), <2>4, <3>1, <3>2, <3>3
  <2>6. ln # NULL => ln \in listed'
    <3>1. SUFFICES ASSUME ln # NULL PROVE ln # b /\ (mn => ln # n)
      BY Zenon, <1>8, <2>4
    <3>2. ln \in Nat /\ b \in Nat /\ (mn => n \in Nat)
      BY Zenon, <1>1, <1>4, <1>5, <2>4, <3>1
    <3> HIDE DEF ln, n
    <3> QED BY SMTT(60), <2>5, <3>1, <3>2
  <2>7. ln # NULL => \A x \in listed' : ~(t < x /\ x < ln)
    <3> HIDE DEF ln, n, t
    <3> QED BY Zenon, <1>8, <2>1, <2>4
  <2> QED BY Zenon, <2>3, <2>4, <2>5, <2>6, <2>7
<1>10. /\ mem'[t] \in Header /\ mem'[t].used = FALSE /\ mem'[t].size_in_bytes = merged
       /\ mem'[t].next = ln /\ mem'[t].container = mem[t].container
       /\ mem'[t].prev = mem[t].prev
  <2>1. ln \in Nat
    <3>1. n \in Nat /\ (mn => nn \in Nat)
      BY Zenon, <1>1, <1>4, <1>5 DEF Header
    <3> QED BY <3>1
  <2>2. mem[t] \in Header
    BY Zenon, <1>5
  <2> HIDE DEF merged, ln, t
  <2> QED BY Zenon, <1>6, <1>7, <2>1, <2>2 DEF Header
<1>11. \A a \in DOMAIN mem : a # t =>
          /\ mem'[a] \in Header
          /\ mem'[a].size_in_bytes = mem[a].size_in_bytes
          /\ mem'[a].next = mem[a].next /\ mem'[a].container = mem[a].container
          /\ a # b => mem'[a].used = mem[a].used
          /\ mem'[a].prev = IF a # b /\ mn /\ a = nn THEN t ELSE mem[a].prev
  <2>1. SUFFICES ASSUME NEW a \in DOMAIN mem, a # t
                 PROVE  /\ mem'[a] \in Header
                        /\ mem'[a].size_in_bytes = mem[a].size_in_bytes
                        /\ mem'[a].next = mem[a].next
                        /\ mem'[a].container = mem[a].container
                        /\ a # b => mem'[a].used = mem[a].used
                        /\ mem'[a].prev = IF a # b /\ mn /\ a = nn THEN t ELSE mem[a].prev
    BY Zenon
  <2>2. mem'[a] = IF a = b THEN [h EXCEPT !.used = FALSE]
                  ELSE IF mn /\ a = nn THEN [mem[a] EXCEPT !.prev = t]
                  ELSE mem[a]
    BY Zenon, <1>7, <2>1
  <2>3. mem[a] \in Header /\ h \in Header /\ t \in Nat
    BY <1>1, <1>5 DEF HeapOK, TypeOK
  <2> HIDE DEF nn, t
  <2>4. CASE a = b
    BY Zenon, <2>2, <2>3, <2>4 DEF Header
  <2>5. CASE a # b
    <3> HIDE DEF h
    <3> QED BY <2>2, <2>3, <2>5 DEF Header
  <2> QED BY Zenon, <2>4, <2>5
<1>12. /\ c \in DOMAIN containers
       /\ DOMAIN containers' = DOMAIN containers
       /\ containers' = [containers EXCEPT ![c].used_blocks = @ - 1]
       /\ containers[c].used_blocks = Cardinality(LiveIn(c))
       /\ IsFiniteSet(LiveIn(c)) /\ ptr \in LiveIn(c)
       /\ containers[c].used_blocks - 1 \in Nat
  <2>1. c \in DOMAIN containers
    BY <1>1, Extents
  <2>2. containers' = [containers EXCEPT ![c].used_blocks = @ - 1]
    BY Zenon DEF DecUsed
  <2>3. /\ containers[c].used_blocks = Cardinality(LiveIn(c))
        /\ IsFiniteSet(LiveIn(c)) /\ ptr \in LiveIn(c)
    BY Zenon, <2>1, FS_Subset DEF HeapOK, ContainersInv, LiveInv, LiveIn
  <2>4. Cardinality(LiveIn(c)) \in Nat /\ Cardinality(LiveIn(c)) # 0
    BY Zenon, <2>3, FS_CardinalityType, FS_EmptySet
  <2>5. containers[c].used_blocks - 1 \in Nat
    BY SMTT(30), <2>3, <2>4
  <2> QED BY SMTT(30), <2>1, <2>2, <2>3, <2>5
<1>13. \A k \in DOMAIN containers :
          /\ containers'[k].size_in_bytes = containers[k].size_in_bytes
          /\ containers'[k].next = containers[k].next
          /\ containers'[k].prev = containers[k].prev
          /\ containers'[k].used_blocks = IF k = c THEN containers[k].used_blocks - 1
                                                   ELSE containers[k].used_blocks
          /\ containers'[k] \in [size_in_bytes : Nat, used_blocks : Nat,
                                 prev : DOMAIN containers \cup {NULL},
                                 next : DOMAIN containers \cup {NULL}]
  <2> DEFINE D == DOMAIN containers \cup {NULL}
  <2>1. \A k \in DOMAIN containers :
          containers[k] \in [size_in_bytes : Nat, used_blocks : Nat, prev : D, next : D]
    BY DEF HeapOK, TypeOK
  <2> HIDE DEF D, c
  <2>2. \A k \in DOMAIN containers :
          /\ containers'[k].size_in_bytes = containers[k].size_in_bytes
          /\ containers'[k].next = containers[k].next
          /\ containers'[k].prev = containers[k].prev
          /\ containers'[k].used_blocks = IF k = c THEN containers[k].used_blocks - 1
                                                   ELSE containers[k].used_blocks
          /\ containers'[k] \in [size_in_bytes : Nat, used_blocks : Nat, prev : D, next : D]
    BY <1>12, <2>1
  <2> QED BY Zenon, <2>2 DEF D
<1> HIDE DEF t, n, nn, ln, merged, c, h
<1>14. \A a \in listed' : /\ a \in listed /\ a \in DOMAIN mem' /\ a \in DOMAIN mem
                          /\ mem'[a].container = mem[a].container
                          /\ a # t => BlockEnd(a)' = BlockEnd(a)
  BY ZenonT(40), <1>5, <1>7, <1>8, <1>10, <1>11 DEF BlockEnd
<1>15. TypeOK'
  <2>1. \A a \in DOMAIN mem' : a \in Nat \ {0} /\ mem'[a] \in Header
    BY <1>7, <1>10, <1>11 DEF HeapOK, TypeOK
  <2>2. \A k \in DOMAIN containers' :
          /\ k \in Nat \ {0}
          /\ containers'[k] \in [size_in_bytes : Nat, used_blocks : Nat,
                                 prev : DOMAIN containers' \cup {NULL},
                                 next : DOMAIN containers' \cup {NULL}]
    BY Zenon, <1>12, <1>13 DEF HeapOK, TypeOK
  <2>3. \A p \in DOMAIN live' : p \in Nat /\ live'[p] \in Nat
    BY Zenon DEF HeapOK, TypeOK
  <2>4. /\ heap' \in DOMAIN containers' \cup {NULL}
        /\ \A r \in DOMAIN held' : r \in Nat /\ held'[r] \in Nat
        /\ calls' \in Nat /\ followed' \in BOOLEAN
        /\ status' \in {"run", "panic", "corrupt"}
    BY ZenonT(40), <1>7, <1>12 DEF HeapOK, TypeOK
  <2>5. call' \in [op : {"idle", "scan"}, size : Nat,
                   cont : DOMAIN containers' \cup {NULL}, blk : Nat, fresh : BOOLEAN]
    BY ZenonT(40) DEF Idle, NULL
  <2> QED BY Zenon, <2>1, <2>2, <2>3, <2>4, <2>5 DEF TypeOK
<1>16. \A a \in listed' : a = t => /\ BlockEnd(a)' \in Nat
                                   /\ BlockEnd(a)' <= BlockEnd(IF mn THEN n ELSE b)
  <2>1. SUFFICES ASSUME NEW a \in listed', a = t
                 PROVE  /\ BlockEnd(a)' \in Nat
                        /\ BlockEnd(a)' <= BlockEnd(IF mn THEN n ELSE b)
    BY Zenon
  <2>2. BlockEnd(a)' = a + HDR + merged
    BY Zenon, <1>10, <2>1 DEF BlockEnd, BLOCK_DATA
  <2> QED BY <1>1, <1>5, <1>6, <2>1, <2>2
<1>17. BlocksInv'
  <2>1. listed' \subseteq DOMAIN mem'
    BY ZenonT(40), <1>14
  <2>2. /\ (IF mn THEN n ELSE b) \in listed
        /\ mem[IF mn THEN n ELSE b].container = c
    BY Zenon, <1>1, <1>3, <1>4 DEF c, h
  <2>3. ASSUME NEW a \in listed'
        PROVE  /\ mem'[a].container \in DOMAIN containers'
               /\ CONTAINER_DATA(mem'[a].container) <= a
               /\ (BlockEnd(a) <= ContainerEnd(mem[a].container))'
    <3> DEFINE k == mem[a].container
    <3>1. k \in DOMAIN containers /\ mem'[a].container = k /\ a \in listed
      BY Zenon, <1>14, Extents
    <3>2. ContainerEnd(mem[a].container)' = ContainerEnd(k)
      BY ZenonT(30), <1>13, <3>1 DEF ContainerEnd
    <3>3. CONTAINER_DATA(k) <= a
      BY Zenon, <3>1 DEF HeapOK, BlocksInv
    <3>4. BlockEnd(a)' <= ContainerEnd(k)
      <4>1. CASE a = t
        <5>1. k = c
          BY Zenon, <1>5, <4>1
        <5>2. BlockEnd(IF mn THEN n ELSE b) <= ContainerEnd(c)
          BY <2>2 DEF HeapOK, BlocksInv
        <5>3. BlockEnd(IF mn THEN n ELSE b) \in Nat /\ ContainerEnd(c) \in Nat
          BY Zenon, <1>5, <1>12, <2>2, Extents
        <5> QED BY SMTT(30), <1>16, <2>2, <4>1, <5>1, <5>2, <5>3
      <4>2. CASE a # t
        BY Zenon, <1>14, <3>1, <4>2 DEF HeapOK, BlocksInv
      <4> QED BY Zenon, <4>1, <4>2
    <3> QED BY Zenon, <1>12, <3>1, <3>2, <3>3, <3>4
  <2>4. ASSUME NEW a \in listed', NEW x \in listed', a < x
        PROVE  (BlockEnd(a) <= x)'
    <3>1. CASE a = t
      <4>1. BlockEnd(IF mn THEN n ELSE b) <= x /\ x \in Nat
        BY Zenon, <1>5, <1>9, <1>14, <2>4, <3>1
      <4>2. BlockEnd(IF mn THEN n ELSE b) \in Nat
        BY Zenon, <1>5, <2>2
      <4> QED BY SMTT(30), <1>16, <2>2, <3>1, <4>1, <4>2
    <3>2. CASE a # t
      BY Zenon, <1>14, <2>4, <3>2 DEF HeapOK, BlocksInv
    <3> QED BY Zenon, <3>1, <3>2
  <2> QED BY Zenon, <2>1, <2>3, <2>4 DEF BlocksInv
<1>18. LinksInv'
  <2>1. \A a \in listed' : a # t => mem'[a].next = mem[a].next
    BY Zenon, <1>11, <1>14
  <2>2. ASSUME NEW a \in listed', a # t, mem[a].next # NULL
        PROVE  /\ mem[a].next \in listed' /\ a < mem[a].next
               /\ mem[mem[a].next].container = mem[a].container
               /\ \A x \in listed' : ~(a < x /\ x < mem[a].next)
    <3>1. /\ mem[a].next \in listed /\ a < mem[a].next
          /\ mem[mem[a].next].container = mem[a].container
          /\ \A x \in listed : ~(a < x /\ x < mem[a].next)
      BY Zenon, <1>14, <2>2 DEF HeapOK, LinksInv
    <3>2. mp => mem[a].next # b
      BY Zenon, <1>1, <1>2, <1>14, <2>2, <3>1, OnePredecessor
    <3>3. mn => mem[a].next # n
      <4>1. SUFFICES ASSUME mn, mem[a].next = n PROVE FALSE
        BY Zenon
      <4>2. mem[b].next = n /\ n \in listed /\ b < n
        BY Zenon, <1>3, <1>4, <4>1 DEF n, h
      <4>3. a = b
        BY Zenon, <1>1, <1>14, <3>1, <4>1, <4>2, OnePredecessor
      <4> QED BY Zenon, <1>5, <1>8, <2>2, <4>3
    <3>4. mem[a].next \in listed'
      BY Zenon, <1>8, <3>1, <3>2, <3>3
    <3> QED BY Zenon, <1>8, <3>1, <3>4
  <2>3. \A a \in listed' : mem'[a].next # NULL =>
          /\ mem'[a].next \in listed' /\ a < mem'[a].next
          /\ mem'[mem'[a].next].container = mem'[a].container
          /\ \A x \in listed' : ~(a < x /\ x < mem'[a].next)
    <3>1. SUFFICES ASSUME NEW a \in listed', mem'[a].next # NULL
                   PROVE  /\ mem'[a].next \in listed' /\ a < mem'[a].next
                          /\ mem'[mem'[a].next].container = mem'[a].container
                          /\ \A x \in listed' : ~(a < x /\ x < mem'[a].next)
      BY Zenon
    <3>2. CASE a = t
      BY Zenon, <1>5, <1>9, <1>10, <1>14, <3>1, <3>2
    <3>3. CASE a # t
      <4>1. mem'[a].next = mem[a].next
        BY Zenon, <2>1, <3>1, <3>3
      <4>2. /\ mem[a].next \in listed' /\ a < mem[a].next
            /\ mem[mem[a].next].container = mem[a].container
            /\ \A x \in listed' : ~(a < x /\ x < mem[a].next)
        BY Zenon, <2>2, <3>1, <3>3, <4>1
      <4>3. /\ mem'[mem[a].next].container = mem[mem[a].next].container
            /\ mem'[a].container = mem[a].container
        BY Zenon, <1>14, <3>1, <4>2
      <4> QED BY Zenon, <4>1, <4>2, <4>3
    <3> QED BY Zenon, <3>2, <3>3
  <2>4. ASSUME NEW x \in listed', mem'[x].prev # NULL
        PROVE  /\ mem'[x].prev < x
               /\ \E a \in listed' : mem'[a].next = x /\ a <= mem'[x].prev
    <3>1. CASE mem'[x].prev # mem[x].prev
      <4>1. x # t /\ mn /\ x = nn /\ mem'[x].prev = t
        BY Zenon, <1>10, <1>11, <1>14, <3>1
      <4>2. ln = nn /\ nn # NULL
        BY Zenon, <1>5, <1>14, <4>1 DEF ln
      <4>3. t < x /\ mem'[t].next = x /\ t \in Nat
        BY Zenon, <1>5, <1>9, <1>10, <4>1, <4>2
      <4>4. t <= t
        BY <4>3
      <4> QED BY Zenon, <1>8, <4>1, <4>3, <4>4
    <3>2. CASE mem'[x].prev = mem[x].prev
      <4>1. PICK a \in listed : mem[x].prev < x /\ mem[a].next = x /\ a <= mem[x].prev
        BY Zenon, <1>14, <2>4, <3>2 DEF HeapOK, LinksInv
      <4>2. x \in listed /\ x # NULL /\ (mp => x # b) /\ (mn => x # n)
        BY Zenon, <1>5, <1>8
      <4>3. CASE a \in listed' /\ a # t
        BY Zenon, <2>1, <3>2, <4>1, <4>3
      <4>4. CASE a = t
        <5>1. ~mp /\ a = b
          BY Zenon, <1>2, <1>5, <4>1, <4>2, <4>4
        <5>2. x = n /\ ~mn
          BY Zenon, <4>1, <4>2, <5>1 DEF n, h
        <5>3. mem'[t].next = x
          BY Zenon, <1>10, <5>2 DEF ln
        <5> QED BY Zenon, <1>8, <3>2, <4>1, <4>4, <5>3
      <4>5. CASE a \notin listed'
        <5>1. (mp /\ a = b) \/ (mn /\ a = n)
          BY Zenon, <1>8, <4>5
        <5>2. CASE mp /\ a = b
          <6>1. x = n /\ ~mn
            BY ZenonT(40), <4>1, <4>2, <5>2 DEF n, h
          <6>2. mem'[t].next = x
            BY <1>10, <6>1 DEF ln
          <6>3. t <= mem[x].prev
            <7>1. mem[x].prev \in Nat /\ t \in Nat /\ b \in Nat
              BY Zenon, <1>1, <1>5, <4>2 DEF Header
            <7> QED BY SMTT(30), <1>5, <4>1, <5>2, <7>1
          <6> QED BY Zenon, <1>8, <3>2, <4>1, <6>2, <6>3
        <5>3. CASE mn /\ a = n
          <6>1. x = nn
            BY Zenon, <4>1, <5>3 DEF nn
          <6>2. mem'[x].prev = t \/ x = t \/ x = b
            BY Zenon, <1>11, <1>14, <5>3, <6>1
          <6>3. b < x /\ t < x
            <7>1. n < x /\ b < n /\ x \in Nat /\ n \in Nat /\ b \in Nat /\ t \in Nat
              BY Zenon, <1>1, <1>3, <1>4, <1>5, <4>2, <5>3, <6>1
            <7> QED BY SMTT(60), <1>5, <7>1
          <6>4. mem'[x].prev = t
            BY SMTT(60), <1>1, <1>5, <6>2, <6>3, <4>2
          <6>5. mem'[t].next = x /\ t \in Nat
            BY Zenon, <1>5, <1>10, <5>3, <6>1 DEF ln
          <6> QED BY SMTT(30), <1>8, <6>3, <6>4, <6>5
        <5> QED BY Zenon, <5>1, <5>2, <5>3
      <4> QED BY Zenon, <4>3, <4>4, <4>5
    <3> QED BY Zenon, <3>1, <3>2
  <2> QED BY Zenon, <2>3, <2>4 DEF LinksInv
<1>19. /\ DOMAIN live' = DOMAIN live \ {ptr}
       /\ \A p \in DOMAIN live' :
            /\ live'[p] = live[p] /\ DATA_BLOCK(p) \in listed'
            /\ mem'[DATA_BLOCK(p)].used = mem[DATA_BLOCK(p)].used
            /\ mem'[DATA_BLOCK(p)].size_in_bytes = mem[DATA_BLOCK(p)].size_in_bytes
            /\ mem'[DATA_BLOCK(p)].container = mem[DATA_BLOCK(p)].container
  <2>1. DOMAIN live' = DOMAIN live \ {ptr} /\ \A p \in DOMAIN live' : live'[p] = live[p]
    BY Zenon
  <2>2. ASSUME NEW p \in DOMAIN live'
        PROVE  /\ DATA_BLOCK(p) \in listed' /\ DATA_BLOCK(p) # t /\ DATA_BLOCK(p) # b
               /\ DATA_BLOCK(p) \in DOMAIN mem
    <3>1. p \in Nat /\ ptr \in Nat /\ p # ptr
      BY Zenon, <2>1 DEF HeapOK, TypeOK
    <3>2. DATA_BLOCK(p) # b
      BY SMTT(60), <1>1, <3>1 DEF DATA_BLOCK
    <3>3. DATA_BLOCK(p) \in listed /\ mem[DATA_BLOCK(p)].used = TRUE
      <4>1. DATA_BLOCK(p) \in listed /\ mem[DATA_BLOCK(p)].used
        BY Zenon, <2>1 DEF HeapOK, LiveInv
      <4>2. mem[DATA_BLOCK(p)] \in Header
        BY Zenon, <1>5, <4>1
      <4> QED BY Zenon, <4>1, <4>2 DEF Header
    <3>4. (mp => DATA_BLOCK(p) # t) /\ (mn => DATA_BLOCK(p) # n)
      BY Zenon, <1>2, <1>4, <3>3
    <3> QED BY Zenon, <1>5, <1>8, <3>2, <3>3, <3>4
  <2> QED BY Zenon, <1>11, <2>1, <2>2
<1>20. LiveInv'
  <2>1. IsFiniteSet(DOMAIN live')
    BY Zenon, <1>19, FS_RemoveElement DEF HeapOK, LiveInv
  <2> QED BY Zenon, <1>19, <2>1 DEF HeapOK, LiveInv
<1>21. ContainersInv'
  <2>1. ASSUME NEW k \in DOMAIN containers
        PROVE  LiveIn(k)' = IF k = c THEN LiveIn(k) \ {ptr} ELSE LiveIn(k)
    BY <1>12, <1>19 DEF LiveIn
  <2>2. Cardinality(LiveIn(c) \ {ptr}) = Cardinality(LiveIn(c)) - 1
    BY Zenon, <1>12, FS_RemoveElement
  <2>3. \A k \in DOMAIN containers :
          Cardinality(LiveIn(k)') = IF k = c THEN Cardinality(LiveIn(k)) - 1
                                             ELSE Cardinality(LiveIn(k))
    BY Zenon, <2>1, <2>2
  <2>4. \A k \in DOMAIN containers : containers'[k].used_blocks = Cardinality(LiveIn(k)')
    BY ZenonT(30), <1>13, <2>3 DEF HeapOK, ContainersInv
  <2>5. \A k \in DOMAIN containers : ContainerEnd(k)' = ContainerEnd(k)
    BY Zenon, <1>13 DEF ContainerEnd
  <2>6. (heap # NULL => containers[heap].prev = NULL)'
    BY Zenon, <1>12, <1>13 DEF HeapOK, ContainersInv, TypeOK
  <2>7. ASSUME NEW k \in DOMAIN containers
        PROVE  CONTAINER_DATA(k) \in listed'
    <3>1. /\ CONTAINER_DATA(k) \in listed /\ mem[CONTAINER_DATA(k)].container = k
      BY Zenon, Extents DEF HeapOK, ContainersInv
    <3>2. \A x \in listed : mem[x].container = k => CONTAINER_DATA(k) <= x
      BY Zenon DEF HeapOK, BlocksInv
    <3>3. mp => CONTAINER_DATA(k) # b
      <4>1. SUFFICES ASSUME mp, CONTAINER_DATA(k) = b PROVE FALSE
        BY Zenon
      <4>2. k = c /\ t < b /\ b <= t
        BY Zenon, <1>2, <1>5, <3>1, <3>2, <4>1 DEF c, h
      <4> QED BY SMTT(30), <1>1, <1>5, <4>2
    <3>4. mn => CONTAINER_DATA(k) # n
      <4>1. SUFFICES ASSUME mn, CONTAINER_DATA(k) = n PROVE FALSE
        BY Zenon
      <4>2. n \in listed /\ b < n /\ mem[n].container = c /\ mem[b].container = c
        BY Zenon, <1>3, <1>4, <4>1 DEF c, h
      <4>3. n <= b
        BY Zenon, <1>1, <3>1, <3>2, <4>1, <4>2
      <4> QED BY SMTT(30), <1>1, <1>5, <4>2, <4>3
    <3> QED BY Zenon, <1>8, <3>1, <3>3, <3>4
  <2>8. ASSUME NEW k \in DOMAIN containers'
        PROVE  /\ k \in DOMAIN held' /\ held'[k] = ContainerEnd(k)'
               /\ containers'[k].next # NULL => containers'[containers'[k].next].prev = k
               /\ containers'[k].prev # NULL => containers'[containers'[k].prev].next = k
    <3>1. /\ k \in DOMAIN containers
          /\ containers[k].next \in DOMAIN containers \cup {NULL}
          /\ containers[k].prev \in DOMAIN containers \cup {NULL}
      BY Zenon, <1>12 DEF HeapOK, TypeOK
    <3>2. k \in DOMAIN held' /\ held'[k] = ContainerEnd(k)'
      BY Zenon, <2>5, <3>1 DEF HeapOK, ContainersInv
    <3>3. /\ containers'[k].next # NULL => containers'[containers'[k].next].prev = k
          /\ containers'[k].prev # NULL => containers'[containers'[k].prev].next = k
      BY ZenonT(30), <1>13, <3>1 DEF HeapOK, ContainersInv
    <3> QED BY Zenon, <3>2, <3>3
  <2>9. \A k, d \in DOMAIN containers' :
          k # d => ContainerEnd(k)' <= d \/ ContainerEnd(d)' <= k
    BY <1>12, <2>5 DEF HeapOK, ContainersInv
  <2> QED BY <1>12, <2>4, <2>6, <2>7, <2>8, <2>9 DEF ContainersInv
<1>22. call'.blk \in listed' \cup {NULL} /\ status' # "corrupt"
  BY <1>7 DEF HeapOK, Idle
<1> QED BY Zenon, <1>15, <1>17, <1>18, <1>20, <1>21, <1>22 DEF HeapOK

\* A kfree that merges into no header off the list.
LEMMA KfreeStep ==
    ASSUME HeapOK, followed = FALSE, NEW ptr \in DOMAIN live, kfree(ptr), ~followed'
    PROVE  HeapOK'
<1> DEFINE b == DATA_BLOCK(ptr)
           c == mem[b].container
<1>1. /\ call = Idle /\ UNCHANGED <<call, calls>>
      /\ live' = [p \in DOMAIN live \ {ptr} |-> live[p]]
  BY Zenon DEF kfree
<1>2. CASE /\ containers[c].used_blocks = 1 /\ remove_container(c)
           /\ UNCHANGED <<status, followed>>
  BY Zenon, <1>1, <1>2, RemoveStep
<1>3. CASE /\ \E mp \in FreeReads(mem[b].prev), mn \in FreeReads(mem[b].next) :
                 Coalesce(b, mp, mn)
           /\ containers' = DecUsed(c) /\ UNCHANGED <<heap, held>>
  <2>1. PICK mp \in FreeReads(mem[b].prev), mn \in FreeReads(mem[b].next) :
               Coalesce(b, mp, mn)
    BY Zenon, <1>3
  <2>2. mp \in BOOLEAN
    BY Zenon DEF FreeReads
  <2>3. mp => mem[b].prev \in listed
    BY Zenon, <2>1, <2>2 DEF Coalesce
  <2> QED BY Zenon, <1>1, <1>3, <2>1, <2>3, CoalesceStep
<1> QED BY Zenon, <1>2, <1>3 DEF kfree
=============================================================================
