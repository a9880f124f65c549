-------------------------- MODULE KheapAllocProofs --------------------------
(***************************************************************************)
(* Proofs about the kernel heap, first part: kheap_init and every step of a *)
(* kmalloc keep the inductive invariant HeapInv of Kheap.                  *)
(***************************************************************************)
EXTENDS Kheap, FiniteSetTheorems, TLAPS

-----------------------------------------------------------------------------
(* Arithmetic.                                                             *)

\* ROUNDUP is strictly above its argument: a block that is cut off behind a
\* payload starts behind it.
LEMMA RoundUpAbove ==
    ASSUME NEW x \in Nat
    PROVE  ROUNDUP(x, ALIGN) \in Nat /\ ROUNDUP(x, ALIGN) > x
  BY KheapAssumption DEF ROUNDUP

\* A container is large enough for its two headers.
LEMMA ContainerHoldsHeaders ==
    ASSUME NEW s \in Nat
    PROVE  /\ ContainerPages(s) \in Nat
           /\ ContainerPages(s) * PAGE \in Nat
           /\ ContainerPages(s) * PAGE >= CHDR + HDR
<1>1. ContainerPages(s) \in Nat /\ ContainerPages(s) >= MIN_PAGES
  BY KheapAssumption DEF ContainerPages
<1>2. \A n, m, k \in Nat : n >= m => n * k >= m * k
  <2>1. SUFFICES ASSUME NEW n \in Nat, NEW m \in Nat, NEW k \in Nat, n >= m
                 PROVE  n * k >= m * k
    OBVIOUS
  <2>2. PICK d \in Nat : n = m + d
    <3>1. n - m \in Nat
      BY <2>1
    <3>2. n = m + (n - m)
      OBVIOUS
    <3> QED BY <3>1, <3>2
  <2>3. n * k = m * k + d * k /\ d * k \in Nat /\ m * k \in Nat
    BY <2>2
  <2> QED BY <2>3
<1>3. ContainerPages(s) * PAGE >= MIN_PAGES * PAGE
  BY <1>1, <1>2, KheapAssumption
<1>4. MIN_PAGES * PAGE = PAGE * MIN_PAGES
  BY KheapAssumption
<1>5. ContainerPages(s) * PAGE \in Nat
  BY <1>1, KheapAssumption
<1> QED BY <1>1, <1>3, <1>4, <1>5, KheapAssumption
-----------------------------------------------------------------------------
(* The initial state.                                                      *)

\* The heap kheap_init leaves, one container with one free block, is in order.
LEMMA InitHeapInv == Init => HeapInv
<1> SUFFICES ASSUME Init PROVE HeapOK
  BY DEF HeapInv
<1> DEFINE n == ContainerPages(INIT_PAGES)
<1>1. PICK c \in Bases :
        /\ heap = c
        /\ containers = [k \in {c} |-> [size_in_bytes |-> n * PAGE - CHDR,
                           used_blocks |-> 0, prev |-> NULL, next |-> NULL]]
        /\ mem = [a \in {CONTAINER_DATA(c)} |-> FirstBlock(c, n)]
        /\ held = [r \in {c} |-> c + n * PAGE]
        /\ listed = {CONTAINER_DATA(c)}
        /\ live = [p \in {} |-> 0]
        /\ call = Idle /\ calls = 0 /\ status = "run" /\ followed = FALSE
  BY DEF Init
<1>2. n * PAGE \in Nat /\ n * PAGE >= CHDR + HDR
  BY ContainerHoldsHeaders, KheapAssumption
<1> HIDE DEF n
<1>3. c \in Nat \ {0} /\ CHDR \in Nat /\ HDR \in Nat
  BY KheapAssumption
<1>4. TypeOK
  <2>1. mem[CONTAINER_DATA(c)] \in Header
    BY <1>1, <1>2, <1>3 DEF Header, FirstBlock, NULL
  <2>2. containers[c] \in [size_in_bytes : Nat, used_blocks : Nat,
                          prev : DOMAIN containers \cup {NULL},
                          next : DOMAIN containers \cup {NULL}]
    BY <1>1, <1>2, <1>3
  <2>3. call \in [op : {"idle", "scan"}, size : Nat, cont : DOMAIN containers \cup {NULL},
                 blk : Nat, fresh : BOOLEAN]
    BY <1>1 DEF Idle, NULL
  <2>4. /\ DOMAIN containers = {c} /\ DOMAIN mem = {CONTAINER_DATA(c)}
        /\ DOMAIN held = {c} /\ DOMAIN live = {}
        /\ heap = c /\ held[c] \in Nat /\ CONTAINER_DATA(c) \in Nat \ {0}
    BY <1>1, <1>2, <1>3 DEF CONTAINER_DATA
  <2>5. calls \in Nat /\ followed \in BOOLEAN /\ status \in {"run", "panic", "corrupt"}
    BY Zenon, <1>1
  <2> QED BY <1>3, <2>1, <2>2, <2>3, <2>4, <2>5 DEF TypeOK
<1>5. LiveInv /\ LiveIn(c) = {}
  BY <1>1, FS_EmptySet DEF LiveInv, LiveIn
<1>6. ContainersInv
  <2>1. Cardinality(LiveIn(c)) = 0
    BY <1>5, FS_EmptySet
  <2>2. /\ DOMAIN containers = {c}
        /\ containers[c].prev = NULL /\ containers[c].next = NULL
        /\ containers[c].used_blocks = 0
        /\ held[c] = ContainerEnd(c)
    BY <1>1, <1>2, <1>3 DEF ContainerEnd, CONTAINER_DATA
  <2> QED BY <1>1, <2>1, <2>2 DEF ContainersInv
<1>7. BlocksInv /\ LinksInv
  BY <1>1, <1>2, <1>3
     DEF BlocksInv, LinksInv, FirstBlock, BlockEnd, BLOCK_DATA, ContainerEnd,
         CONTAINER_DATA, NULL
<1> QED BY <1>1, <1>4, <1>5, <1>6, <1>7 DEF HeapOK, Idle, NULL
-----------------------------------------------------------------------------
(* Steps that only move the cursor of a kmalloc.                           *)

Cursor == [op : {"idle", "scan"}, size : Nat, cont : DOMAIN containers \cup {NULL},
           blk : Nat, fresh : BOOLEAN]

\* A step that leaves the heap alone and moves the cursor to a listed block, or
\* to no block, keeps the invariant.
LEMMA CursorStep ==
    ASSUME HeapOK,
           UNCHANGED <<heap, containers, mem, held, live, listed, followed>>,
           calls' \in Nat, call' \in Cursor, call'.blk \in listed \cup {NULL},
           status' \in {"run", "panic"}
    PROVE  HeapOK'
<1>1. TypeOK'
  BY DEF HeapOK, TypeOK, Cursor
<1>2. ContainersInv'
  BY Zenon DEF HeapOK, ContainersInv, ContainerEnd, LiveIn
<1>3. BlocksInv'
  BY DEF HeapOK, BlocksInv, BlockEnd, ContainerEnd
<1>4. LinksInv'
  BY DEF HeapOK, LinksInv
<1>5. LiveInv'
  BY DEF HeapOK, LiveInv
<1> QED BY <1>1, <1>2, <1>3, <1>4, <1>5 DEF HeapOK

\* The cursor a search starts with is one, for any container of the list.
LEMMA ScanIsCursor ==
    ASSUME HeapOK, NEW size \in Nat, NEW c \in DOMAIN containers \cup {NULL},
           NEW fresh \in BOOLEAN
    PROVE  /\ Scan(size, c, fresh) \in Cursor
           /\ Scan(size, c, fresh).blk \in listed \cup {NULL}
<1>1. CASE c = NULL
  BY <1>1 DEF Scan, Cursor, NULL
<1>2. CASE c \in DOMAIN containers /\ c # NULL
  <2>1. CONTAINER_DATA(c) \in listed /\ CONTAINER_DATA(c) \in Nat
    BY <1>2 DEF HeapOK, ContainersInv, BlocksInv, TypeOK
  <2> QED BY <1>2, <2>1 DEF Scan, Cursor
<1> QED BY <1>1, <1>2

\* Calling kmalloc puts the cursor at the first container.
LEMMA KmallocStep ==
    ASSUME HeapOK, NEW size \in Sizes, kmalloc(size)
    PROVE  HeapOK'
<1>1. heap \in DOMAIN containers \cup {NULL} /\ size \in Nat
  BY KheapAssumption DEF HeapOK, TypeOK
<1>2. call' \in Cursor /\ call'.blk \in listed \cup {NULL}
  BY Zenon, <1>1, ScanIsCursor DEF kmalloc
<1>3. /\ UNCHANGED <<heap, containers, mem, held, live, listed, followed>>
      /\ calls' \in Nat /\ status' \in {"run", "panic"}
  BY DEF kmalloc, HeapOK, TypeOK
<1> QED BY <1>2, <1>3, CursorStep

\* Passing over a block follows next, which leads to a listed block or ends.
LEMMA ScanBlockStep ==
    ASSUME HeapOK, ScanBlock
    PROVE  HeapOK'
<1>1. call.blk \in listed /\ call \in Cursor
  BY DEF HeapOK, TypeOK, Cursor, ScanBlock, NULL
<1>2. mem[call.blk].next \in listed \cup {NULL} /\ mem[call.blk].next \in Nat
  BY <1>1 DEF HeapOK, LinksInv, BlocksInv, TypeOK, Header
<1>3. call' \in Cursor /\ call'.blk \in listed \cup {NULL}
  BY <1>1, <1>2 DEF ScanBlock, Cursor
<1>4. /\ UNCHANGED <<heap, containers, mem, held, live, listed, followed>>
      /\ calls' \in Nat /\ status' \in {"run", "panic"}
  BY DEF ScanBlock, HeapOK, TypeOK
<1> QED BY <1>3, <1>4, CursorStep

\* Going on with the next container puts the cursor at its first block.
LEMMA ScanContainerStep ==
    ASSUME HeapOK, ScanContainer
    PROVE  HeapOK'
<1>1. call.cont \in DOMAIN containers /\ call.size \in Nat
  BY DEF HeapOK, TypeOK, ScanContainer
<1>2. containers[call.cont].next \in DOMAIN containers \cup {NULL}
  BY <1>1 DEF HeapOK, TypeOK
<1>3. call' \in Cursor /\ call'.blk \in listed \cup {NULL}
  BY Zenon, <1>1, <1>2, ScanIsCursor DEF ScanContainer
<1>4. /\ UNCHANGED <<heap, containers, mem, held, live, listed, followed>>
      /\ calls' \in Nat /\ status' \in {"run", "panic"}
  BY DEF ScanContainer, HeapOK, TypeOK
<1> QED BY <1>3, <1>4, CursorStep

\* The panic of kmalloc leaves the heap as it is.
LEMMA ScanPanicStep ==
    ASSUME HeapOK, ScanPanic
    PROVE  HeapOK'
<1>1. call \in Cursor /\ call.blk \in listed \cup {NULL} /\ calls \in Nat
  BY DEF HeapOK, TypeOK, Cursor
<1> QED BY <1>1, CursorStep DEF ScanPanic
-----------------------------------------------------------------------------
(* found_block: a free block is handed out and, with room to spare, cut in *)
(* two.                                                                    *)

\* Handing out a free block that is large enough keeps the heap in order: the
\* payload and the block cut off behind it stay inside the block that was free.
LEMMA FoundBlockStep ==
    ASSUME HeapOK, NEW b \in listed, NEW size \in Nat, Fits(b, size),
           found_block(b, size), call' = Idle, status = "run",
           UNCHANGED <<heap, held, calls, followed>>
    PROVE  HeapOK'
<1> DEFINE h == mem[b]
           nse == NextBlockStructEnd(b, size)
           nb == nse - HDR
           be == BLOCK_DATA(b) + h.size_in_bytes
           split == nse < be
           Lost(a) == \/ Overlap(a, a + HDR, BLOCK_DATA(b), BLOCK_DATA(b) + size)
                      \/ split /\ Overlap(a, a + HDR, nb, nb + HDR)
<1>1. /\ b \in Nat \ {0} /\ h \in Header /\ h.used = FALSE /\ h.size_in_bytes >= size
      /\ b \in DOMAIN mem /\ HDR \in Nat \ {0} /\ CHDR \in Nat
  BY KheapAssumption DEF HeapOK, TypeOK, BlocksInv, Fits
<1>2. nse \in Nat /\ nse > b + HDR + size + HDR
  BY <1>1, RoundUpAbove DEF NextBlockStructEnd, BLOCK_DATA
<1>3. /\ be \in Nat /\ nb \in Nat \ {0} /\ nb > b + HDR + size /\ nb # b
      /\ be = b + HDR + h.size_in_bytes /\ h.size_in_bytes \in Nat
      /\ split => nb + HDR < be
  BY <1>1, <1>2 DEF BLOCK_DATA, Header
<1> HIDE DEF nse
\* A listed block other than b lies wholly before or behind the bytes of b.
<1>4. \A a \in listed : a # b => a + HDR <= b \/ be <= a
  BY <1>1, <1>3 DEF HeapOK, TypeOK, BlocksInv, BlockEnd, BLOCK_DATA, Header
<1>5. \A a \in listed : a = b \/ ~Lost(a)
  BY <1>1, <1>2, <1>3, <1>4 DEF Overlap, BLOCK_DATA, HeapOK, TypeOK, BlocksInv
<1>6. split => nb \notin listed
  BY <1>1, <1>2, <1>3, <1>4
<1>7. h.next \in listed \cup {NULL} /\ (h.next # NULL => b < h.next)
      /\ (split => h.next # nb)
  BY <1>1, <1>3, <1>6 DEF HeapOK, LinksInv, NULL
\* What the step does to the headers.
<1> DEFINE dom == {a \in DOMAIN mem : a = b \/ ~Lost(a)} \cup (IF split THEN {nb} ELSE {})
           bRec == IF split THEN [h EXCEPT !.used = TRUE, !.next = nb,
                                           !.size_in_bytes = size]
                            ELSE [h EXCEPT !.used = TRUE]
           val(a) == IF a = b THEN bRec
                     ELSE IF split /\ a = nb THEN SplitOff(b, nb)
                     ELSE IF split /\ a = h.next THEN [mem[a] EXCEPT !.prev = nb]
                     ELSE mem[a]
<1>8. /\ mem' = [a \in dom |-> val(a)]
      /\ listed' = IF split THEN listed \cup {nb} ELSE listed
      /\ containers' = [containers EXCEPT ![h.container].used_blocks = @ + 1]
      /\ live' = [p \in DOMAIN live \cup {BLOCK_DATA(b)} |->
                     IF p = BLOCK_DATA(b) THEN size ELSE live[p]]
  BY DEF found_block, nse
<1>9. /\ DOMAIN mem' = dom
      /\ \A a \in dom : mem'[a] = val(a)
  BY <1>8
<1>10. listed \subseteq dom
  BY <1>5 DEF HeapOK, BlocksInv
<1>11. /\ mem'[b].used = TRUE /\ mem'[b].container = h.container
       /\ mem'[b].prev = h.prev /\ mem'[b] \in Header
       /\ mem'[b].size_in_bytes = IF split THEN size ELSE h.size_in_bytes
       /\ mem'[b].next = IF split THEN nb ELSE h.next
  BY ZenonT(40), <1>1, <1>3, <1>9, <1>10 DEF Header
<1>12. split => /\ mem'[nb] \in Header
                /\ mem'[nb].size_in_bytes = be - nse
                /\ mem'[nb].used = FALSE /\ mem'[nb].prev = b
                /\ mem'[nb].next = h.next /\ mem'[nb].container = h.container
  <2>1. SUFFICES ASSUME split
                 PROVE  /\ mem'[nb] \in Header
                        /\ mem'[nb].size_in_bytes = be - nse
                        /\ mem'[nb].used = FALSE /\ mem'[nb].prev = b
                        /\ mem'[nb].next = h.next /\ mem'[nb].container = h.container
    BY Zenon
  <2>2. mem'[nb] = SplitOff(b, nb)
    BY Zenon, <1>3, <1>9, <2>1
  <2>3. b + h.size_in_bytes - nb = be - nse /\ be - nse \in Nat
    BY <1>1, <1>2, <1>3, <2>1
  <2>4. SplitOff(b, nb) = [size_in_bytes |-> be - nse, used |-> FALSE, prev |-> b,
                           next |-> h.next, container |-> h.container]
    BY Zenon, <2>3 DEF SplitOff
  <2>5. b \in Nat /\ h.next \in Nat /\ h.container \in Nat
    BY <1>1 DEF Header
  <2> HIDE DEF nb, be, split, h
  <2> QED BY <2>2, <2>3, <2>4, <2>5 DEF Header
<1>13. \A a \in DOMAIN mem' : a # b /\ ~(split /\ a = nb) =>
          /\ a \in DOMAIN mem /\ mem'[a] \in Header
          /\ mem'[a].size_in_bytes = mem[a].size_in_bytes
          /\ mem'[a].used = mem[a].used /\ mem'[a].next = mem[a].next
          /\ mem'[a].container = mem[a].container
          /\ mem'[a].prev = IF split /\ a = h.next THEN nb ELSE mem[a].prev
  <2>1. SUFFICES ASSUME NEW a \in DOMAIN mem', a # b, ~(split /\ a = nb)
                 PROVE  /\ a \in DOMAIN mem /\ mem'[a] \in Header
                        /\ mem'[a].size_in_bytes = mem[a].size_in_bytes
                        /\ mem'[a].used = mem[a].used /\ mem'[a].next = mem[a].next
                        /\ mem'[a].container = mem[a].container
                        /\ mem'[a].prev = IF split /\ a = h.next THEN nb ELSE mem[a].prev
    OBVIOUS
  <2>2. a \in DOMAIN mem /\ mem[a] \in Header
    BY <1>9, <2>1 DEF HeapOK, TypeOK
  <2>3. mem'[a] = IF split /\ a = h.next THEN [mem[a] EXCEPT !.prev = nb] ELSE mem[a]
    BY <1>9, <2>1
  <2> HIDE DEF nb, split, h
  <2> QED BY <1>3, <2>2, <2>3 DEF Header
<1> DEFINE k == h.container
<1>14. k \in DOMAIN containers
  BY DEF HeapOK, BlocksInv
<1>15. /\ DOMAIN containers' = DOMAIN containers
       /\ \A c \in DOMAIN containers :
             /\ containers'[c].size_in_bytes = containers[c].size_in_bytes
             /\ containers'[c].prev = containers[c].prev
             /\ containers'[c].next = containers[c].next
             /\ containers'[c].used_blocks
                  = IF c = k THEN containers[c].used_blocks + 1
                             ELSE containers[c].used_blocks
             /\ containers'[c] \in [size_in_bytes : Nat, used_blocks : Nat,
                                    prev : DOMAIN containers \cup {NULL},
                                    next : DOMAIN containers \cup {NULL}]
  BY <1>8, <1>14 DEF HeapOK, TypeOK
<1>16. /\ DOMAIN live' = DOMAIN live \cup {b + HDR}
       /\ live'[b + HDR] = size
       /\ \A p \in DOMAIN live : p # b + HDR => live'[p] = live[p]
  BY Zenon, <1>8 DEF BLOCK_DATA
<1>17. DOMAIN mem' = dom /\ listed' \subseteq DOMAIN mem' /\ DOMAIN mem' \subseteq Nat \ {0}
  BY <1>3, <1>8, <1>9, <1>10 DEF HeapOK, TypeOK
<1>18. listed' = IF split THEN listed \cup {nb} ELSE listed
  BY <1>8
<1> HIDE DEF dom, val, bRec, Lost, h, nb, be, split, k
<1>19. TypeOK'
  <2>1. \A a \in DOMAIN mem' : a \in Nat \ {0} /\ mem'[a] \in Header
    BY <1>11, <1>12, <1>13, <1>17
  <2>2. \A p \in DOMAIN live' : p \in Nat /\ live'[p] \in Nat
    BY <1>1, <1>16 DEF HeapOK, TypeOK
  <2>3. call' \in [op : {"idle", "scan"}, size : Nat,
                   cont : DOMAIN containers' \cup {NULL}, blk : Nat, fresh : BOOLEAN]
    BY DEF Idle, NULL
  <2>4. status' \in {"run", "panic", "corrupt"}
    BY DEF found_block
  <2>5. heap' \in DOMAIN containers' \cup {NULL}
    BY <1>15 DEF HeapOK, TypeOK
  <2>6. \A c \in DOMAIN containers' :
          /\ c \in Nat \ {0}
          /\ containers'[c] \in [size_in_bytes : Nat, used_blocks : Nat,
                                 prev : DOMAIN containers' \cup {NULL},
                                 next : DOMAIN containers' \cup {NULL}]
    BY <1>15 DEF HeapOK, TypeOK
  <2>7. /\ \A r \in DOMAIN held' : r \in Nat /\ held'[r] \in Nat
        /\ calls' \in Nat /\ followed' \in BOOLEAN
    BY DEF HeapOK, TypeOK
  <2> QED BY <2>1, <2>2, <2>3, <2>4, <2>5, <2>6, <2>7 DEF TypeOK
\* The bytes of the old blocks other than b, of b, and of the new block.
<1>20. /\ \A a \in listed : a \in Nat /\ mem[a] \in Header /\ mem[a].size_in_bytes \in Nat
       /\ \A a \in listed : a # b => /\ BlockEnd(a)' = BlockEnd(a)
                                    /\ BlockEnd(a) = a + HDR + mem[a].size_in_bytes
       /\ BlockEnd(b) = be
       /\ BlockEnd(b)' = IF split THEN b + HDR + size ELSE be
       /\ split => BlockEnd(nb)' = be
  <2>1. \A a \in listed : a \in Nat /\ mem[a] \in Header /\ mem[a].size_in_bytes \in Nat
    BY DEF HeapOK, TypeOK, BlocksInv, Header
  <2>2. \A a \in listed : a # b => mem'[a].size_in_bytes = mem[a].size_in_bytes
    BY <1>6, <1>13, <1>17, <1>18
  <2>3. BlockEnd(b) = be
    BY DEF BlockEnd, be, h
  <2>4. BlockEnd(b)' = IF split THEN b + HDR + size ELSE be
    BY <1>1, <1>3, <1>11 DEF BlockEnd, BLOCK_DATA
  <2>5. split => BlockEnd(nb)' = be
    BY <1>1, <1>2, <1>3, <1>12 DEF BlockEnd, BLOCK_DATA, nb
  <2> QED BY <2>1, <2>2, <2>3, <2>4, <2>5 DEF BlockEnd, BLOCK_DATA
<1>21. BlocksInv'
  <2>1. \A c \in DOMAIN containers : ContainerEnd(c)' = ContainerEnd(c)
    BY <1>15 DEF ContainerEnd
  <2>2. \A a \in listed' : IF split /\ a = nb THEN mem'[a].container = k
                          ELSE a \in listed /\ mem'[a].container = mem[a].container
    BY SMTT(30), <1>11, <1>12, <1>13, <1>17, <1>18 DEF h, k
  <2>3. /\ CONTAINER_DATA(k) <= b /\ be <= ContainerEnd(k)
        /\ ContainerEnd(k) \in Nat /\ CONTAINER_DATA(k) \in Nat
    BY <1>1, <1>14, <1>20 DEF HeapOK, BlocksInv, TypeOK, ContainerEnd, CONTAINER_DATA, h, k
  <2>4. ASSUME NEW a \in listed'
        PROVE  (/\ mem[a].container \in DOMAIN containers
                /\ CONTAINER_DATA(mem[a].container) <= a
                /\ BlockEnd(a) <= ContainerEnd(mem[a].container))'
    <3> DEFINE d == mem'[a].container
    <3>1. SUFFICES /\ d \in DOMAIN containers /\ CONTAINER_DATA(d) <= a
                   /\ BlockEnd(a)' <= ContainerEnd(d)
      BY <1>15 DEF ContainerEnd, CONTAINER_DATA
    <3>2. CASE split /\ a = nb
      BY <1>1, <1>2, <1>3, <1>14, <1>20, <2>2, <2>3, <3>2
    <3>3. CASE ~(split /\ a = nb) /\ a = b
      BY SMTT(30), <1>1, <1>3, <1>14, <1>20, <2>2, <2>3, <3>3 DEF h, k
    <3>4. CASE ~(split /\ a = nb) /\ a # b
      BY <1>14, <1>20, <2>2, <3>4 DEF HeapOK, BlocksInv
    <3> QED BY <3>2, <3>3, <3>4
  <2>5. ASSUME NEW a \in listed', NEW c \in listed', a < c
        PROVE  BlockEnd(a)' <= c
    <3>1. \A x \in listed : x # b => BlockEnd(x) <= b \/ be <= x
      BY <1>1, <1>20 DEF HeapOK, BlocksInv
    <3>2. CASE split /\ a = nb
      BY <1>1, <1>2, <1>3, <1>18, <1>20, <2>2, <2>5, <3>1, <3>2
    <3>3. CASE split /\ c = nb /\ a # nb
      BY SMTT(30), <1>1, <1>2, <1>3, <1>18, <1>20, <2>2, <2>5, <3>1, <3>3
    <3>4. CASE ~(split /\ a = nb) /\ ~(split /\ c = nb)
      BY SMTT(30), <1>1, <1>2, <1>3, <1>18, <1>20, <2>2, <2>5, <3>1, <3>4 DEF HeapOK, BlocksInv
    <3> QED BY <3>2, <3>3, <3>4
  <2> QED BY <1>17, <2>4, <2>5 DEF BlocksInv
<1>22. LinksInv'
  <2>1. \A a \in listed : a # b =>
           /\ mem'[a].next = mem[a].next /\ mem'[a].container = mem[a].container
           /\ mem'[a].prev = IF split /\ a = h.next THEN nb ELSE mem[a].prev
    BY <1>6, <1>13, <1>17, <1>18
  <2>2. \A x \in listed : x # b => x + HDR <= b \/ be <= x
    BY <1>4
  <2>3. \A a \in listed : mem[a].next # NULL =>
           /\ mem[a].next \in listed /\ a < mem[a].next
           /\ mem[mem[a].next].container = mem[a].container
           /\ \A x \in listed : ~(a < x /\ x < mem[a].next)
    BY DEF HeapOK, LinksInv
  <2>4. \A c \in listed : mem[c].prev # NULL =>
           /\ mem[c].prev < c
           /\ \E a \in listed : mem[a].next = c /\ a <= mem[c].prev
    BY DEF HeapOK, LinksInv
  <2>5. /\ h = mem[b] /\ b \in listed /\ (split => nb < be /\ b < nb)
        /\ be \in Nat /\ nb \in Nat /\ b \in Nat /\ HDR \in Nat
        /\ \A a \in listed' : a \in Nat /\ a # NULL
        /\ \A a \in listed : a \in Nat /\ a # NULL
    <3>1. \A a \in listed' : a \in Nat /\ a # NULL
      BY <1>17 DEF NULL
    <3>2. listed \subseteq listed'
      BY <1>18
    <3>3. h = mem[b] /\ (split => nb < be /\ b < nb)
      BY <1>1, <1>3 DEF h
    <3> QED BY <1>1, <1>3, <3>1, <3>2, <3>3
  <2>6. ASSUME NEW a \in listed', mem'[a].next # NULL
        PROVE  /\ mem'[a].next \in listed' /\ a < mem'[a].next
               /\ mem'[mem'[a].next].container = mem'[a].container
               /\ \A x \in listed' : ~(a < x /\ x < mem'[a].next)
    <3>1. CASE split /\ a = nb
      <4>1. mem'[a].next = h.next /\ h.next \in listed /\ b < h.next
        BY <1>7, <1>12, <2>6, <3>1
      <4>2. be <= h.next /\ h.next # b
        <5>1. /\ h.next \in listed /\ b < h.next /\ h.next \in Nat
              /\ b \in Nat /\ be \in Nat /\ HDR \in Nat
          BY Zenon, <2>5, <4>1
        <5>2. h.next # b
          BY <5>1
        <5>3. h.next + HDR <= b \/ be <= h.next
          BY Zenon, <1>4, <5>1, <5>2
        <5> QED BY <5>1, <5>2, <5>3
      <4>3. mem'[h.next].container = mem'[a].container
        BY Zenon, <1>12, <2>1, <2>3, <2>5, <3>1, <4>1, <4>2 DEF k
      <4>4. \A x \in listed' : ~(a < x /\ x < h.next)
        <5>1. \A x \in listed : ~(b < x /\ x < h.next)
          BY Zenon, <2>3, <2>5, <4>1
        <5>2. \A x \in listed' : x = nb \/ x \in listed
          BY <1>18
        <5>3. SUFFICES ASSUME NEW x \in listed', a < x, x < h.next
                       PROVE  FALSE
          BY Zenon
        <5>4. a = nb /\ b < nb /\ x \in Nat /\ nb \in Nat /\ b \in Nat
          BY Zenon, <2>5, <3>1
        <5>5. x # nb /\ b < x
          BY <5>3, <5>4
        <5>6. x \in listed
          BY Zenon, <5>2, <5>5
        <5> QED BY Zenon, <5>1, <5>3, <5>5, <5>6
      <4>5. h.next \in listed' /\ h.next \in Nat /\ a < h.next
        <5>1. listed' = listed \cup {nb} /\ nb < be
          BY <1>18, <2>5, <3>1
        <5>2. h.next \in Nat
          BY Zenon, <2>5, <4>1
        <5>3. nb < h.next
          BY <1>3, <4>2, <5>1, <5>2
        <5> QED BY <3>1, <4>1, <5>1, <5>2, <5>3
      <4> QED BY <4>1, <4>3, <4>4, <4>5
    <3>2. CASE split /\ a = b
      <4>1. mem'[a].next = nb /\ nb \in listed' /\ mem'[nb].container = mem'[a].container
        BY <1>11, <1>12, <1>18, <3>2
      <4>2. \A x \in listed' : ~(b < x /\ x < nb)
        BY <1>18, <2>2, <2>5, <3>2
      <4> QED BY <2>5, <3>2, <4>1, <4>2
    <3>3. CASE ~split /\ a = b
      <4>1. mem'[b].next = h.next /\ h.next # NULL /\ listed' = listed
        BY <1>11, <1>18, <2>6, <3>3
      <4>2. /\ h.next \in listed /\ b < h.next /\ h.next # b
            /\ mem[h.next].container = mem[b].container
            /\ \A x \in listed : ~(b < x /\ x < h.next)
        BY <2>3, <2>5, <4>1
      <4>3. mem'[h.next].container = mem'[b].container
        BY Zenon, <1>11, <2>1, <2>5, <4>2
      <4> QED BY <3>3, <4>1, <4>2, <4>3
    <3>4. CASE a \in listed /\ a # b
      <4>1. mem'[a].next = mem[a].next /\ mem[a].next \in listed /\ a < mem[a].next
        BY <2>1, <2>3, <2>6, <3>4
      <4>2. mem'[mem[a].next].container = mem[mem[a].next].container
        BY Zenon, <1>11, <2>1, <2>5, <4>1
      <4>3. split => ~(a < nb /\ nb < mem[a].next)
        <5>1. ~(a < b /\ b < mem[a].next) /\ mem[a].next \in Nat /\ a \in Nat
          BY Zenon, <1>20, <2>3, <2>5, <4>1, <3>4
        <5> QED BY <2>2, <2>5, <3>4, <4>1, <5>1
      <4> QED BY SMTT(30), <1>18, <2>1, <2>3, <2>6, <3>4, <4>1, <4>2, <4>3
    <3> QED BY <1>18, <3>1, <3>2, <3>3, <3>4
  <2>7. ASSUME NEW c \in listed', mem'[c].prev # NULL
        PROVE  /\ mem'[c].prev < c
               /\ \E a \in listed' : mem'[a].next = c /\ a <= mem'[c].prev
    <3>1. CASE split /\ c = nb
      BY <1>11, <1>12, <1>18, <1>20, <2>5, <3>1, <1>1, <1>3
    <3>2. CASE split /\ c = h.next /\ c # nb
      <4>1. c \in listed /\ c # b /\ mem'[c].prev = nb /\ be <= c
        <5>1. c \in listed /\ c # NULL /\ c \in Nat
          BY <1>18, <2>5, <3>2
        <5>2. b < c /\ c # b
          BY <1>7, <2>5, <3>2, <5>1
        <5> QED BY SMTT(30), <2>1, <2>2, <2>5, <3>2, <5>1, <5>2
      <4>2. mem'[nb].next = c /\ nb \in listed' /\ nb < c
        BY <1>12, <1>18, <2>5, <3>2, <4>1
      <4> QED BY <2>5, <4>1, <4>2
    <3>3. CASE ~(split /\ c = nb) /\ ~(split /\ c = h.next)
      <4>1. c \in listed /\ mem'[c].prev = mem[c].prev
        BY <1>11, <1>18, <2>1, <2>5, <3>3
      <4>2. PICK a \in listed : mem[a].next = c /\ a <= mem[c].prev
        BY <2>4, <2>7, <4>1
      <4>3. mem'[a].next = c /\ a \in listed'
        BY Zenon, <1>11, <1>18, <2>1, <2>5, <3>3, <4>2
      <4> QED BY <2>4, <2>7, <4>1, <4>2, <4>3
    <3> QED BY <3>1, <3>2, <3>3
  <2> QED BY <2>6, <2>7 DEF LinksInv
<1>23. /\ b + HDR \notin DOMAIN live
       /\ \A p \in DOMAIN live : /\ p \in Nat /\ DATA_BLOCK(p) \in listed
                                 /\ DATA_BLOCK(p) # b
       /\ DATA_BLOCK(b + HDR) = b
  <2>1. DATA_BLOCK(b + HDR) = b
    BY SMTT(30), <1>1 DEF DATA_BLOCK
  <2>2. \A p \in DOMAIN live : mem[DATA_BLOCK(p)].used = TRUE
    BY DEF HeapOK, LiveInv, TypeOK, BlocksInv, Header
  <2>3. mem[b].used = FALSE
    BY <1>1 DEF h
  <2> QED BY <2>1, <2>2, <2>3 DEF HeapOK, LiveInv, TypeOK
<1>24. \A p \in DOMAIN live :
          /\ mem'[DATA_BLOCK(p)].used = mem[DATA_BLOCK(p)].used
          /\ mem'[DATA_BLOCK(p)].container = mem[DATA_BLOCK(p)].container
          /\ mem'[DATA_BLOCK(p)].size_in_bytes = mem[DATA_BLOCK(p)].size_in_bytes
  BY <1>6, <1>13, <1>17, <1>18, <1>23
<1>25. LiveInv'
  <2>1. IsFiniteSet(DOMAIN live')
    BY <1>16, FS_AddElement DEF HeapOK, LiveInv
  <2>2. ASSUME NEW p \in DOMAIN live'
        PROVE  /\ DATA_BLOCK(p) \in listed'
               /\ mem'[DATA_BLOCK(p)].used
               /\ live'[p] <= mem'[DATA_BLOCK(p)].size_in_bytes
    <3>1. CASE p = b + HDR
      BY SMTT(30), <1>1, <1>11, <1>16, <1>18, <1>23, <3>1 DEF Header
    <3>2. CASE p # b + HDR
      BY SMTT(30), <1>16, <1>18, <1>23, <1>24, <3>2 DEF HeapOK, LiveInv
    <3> QED BY <3>1, <3>2
  <2> QED BY Zenon, <2>1, <2>2 DEF LiveInv
<1>26. ContainersInv'
  <2>1. \A c \in DOMAIN containers :
          LiveIn(c)' = IF c = k THEN LiveIn(c) \cup {b + HDR} ELSE LiveIn(c)
    BY Zenon, <1>11, <1>16, <1>23, <1>24 DEF LiveIn, k, h
  <2>2. \A c \in DOMAIN containers : IsFiniteSet(LiveIn(c)) /\ b + HDR \notin LiveIn(c)
    BY <1>23, FS_Subset DEF HeapOK, LiveInv, LiveIn
  <2>3. \A c \in DOMAIN containers :
          Cardinality(LiveIn(c)') = IF c = k THEN Cardinality(LiveIn(c)) + 1
                                             ELSE Cardinality(LiveIn(c))
    BY ZenonT(30), <2>1, <2>2, FS_AddElement
  <2>4. \A c \in DOMAIN containers : containers'[c].used_blocks = Cardinality(LiveIn(c)')
    BY ZenonT(40), <1>15, <2>3 DEF HeapOK, ContainersInv
  <2>5. \A c \in DOMAIN containers : ContainerEnd(c)' = ContainerEnd(c)
    BY <1>15 DEF ContainerEnd
  <2>6. (heap # NULL => containers[heap].prev = NULL)'
    BY Zenon, <1>15 DEF HeapOK, ContainersInv, TypeOK
  <2>7. ASSUME NEW c \in DOMAIN containers'
        PROVE  (/\ c \in DOMAIN held /\ held[c] = ContainerEnd(c)
                /\ containers[c].next # NULL => containers[containers[c].next].prev = c
                /\ containers[c].prev # NULL => containers[containers[c].prev].next = c
                /\ CONTAINER_DATA(c) \in listed
                /\ containers[c].used_blocks = Cardinality(LiveIn(c)))'
    <3>1. c \in DOMAIN containers
      BY <1>15
    <3>2. /\ containers[c].next \in DOMAIN containers \cup {NULL}
          /\ containers[c].prev \in DOMAIN containers \cup {NULL}
      BY ZenonT(30), <3>1 DEF HeapOK, TypeOK
    <3>3. /\ containers'[c].next # NULL => containers'[containers'[c].next].prev = c
          /\ containers'[c].prev # NULL => containers'[containers'[c].prev].next = c
      BY SMTT(30), <1>15, <3>1, <3>2 DEF HeapOK, ContainersInv
    <3>4. CONTAINER_DATA(c) \in listed' /\ c \in DOMAIN held' /\ held'[c] = ContainerEnd(c)
      BY ZenonT(30), <1>18, <3>1 DEF HeapOK, ContainersInv
    <3> QED BY Zenon, <2>4, <2>5, <3>1, <3>3, <3>4
  <2>8. \A c, d \in DOMAIN containers' :
          c # d => ContainerEnd(c)' <= d \/ ContainerEnd(d)' <= c
    BY <1>15, <2>5 DEF HeapOK, ContainersInv
  <2> QED BY <2>6, <2>7, <2>8 DEF ContainersInv
<1>27. status' # "corrupt"
  <2>1. \A p \in DOMAIN live : /\ live[p] \in Nat
                               /\ p + live[p] <= BlockEnd(DATA_BLOCK(p))
                               /\ DATA_BLOCK(p) \in Nat /\ p = DATA_BLOCK(p) + HDR
    <3>1. SUFFICES ASSUME NEW p \in DOMAIN live
                   PROVE  /\ live[p] \in Nat
                          /\ p + live[p] <= BlockEnd(DATA_BLOCK(p))
                          /\ DATA_BLOCK(p) \in Nat /\ p = DATA_BLOCK(p) + HDR
      OBVIOUS
    <3>2. live[p] \in Nat /\ p \in Nat /\ DATA_BLOCK(p) \in listed
      BY Zenon, <1>23 DEF HeapOK, TypeOK
    <3>3. live[p] <= mem[DATA_BLOCK(p)].size_in_bytes
      BY DEF HeapOK, LiveInv
    <3>4. DATA_BLOCK(p) \in Nat /\ mem[DATA_BLOCK(p)].size_in_bytes \in Nat
      BY <3>2 DEF HeapOK, BlocksInv, TypeOK, Header
    <3>5. p = DATA_BLOCK(p) + HDR
      BY SMTT(30), <1>1, <3>2 DEF DATA_BLOCK
    <3> QED BY <1>1, <3>2, <3>3, <3>4, <3>5 DEF BlockEnd, BLOCK_DATA
  <2>2. \A x \in listed : x # b => BlockEnd(x) <= b \/ be <= x
    BY SMTT(30), <1>1, <1>20 DEF HeapOK, BlocksInv
  <2>3. \A x \in listed : BlockEnd(x) \in Nat
    BY SMTT(30), <1>1, <1>20 DEF BlockEnd, BLOCK_DATA
  <2>4. \A lo, hi \in Nat : b <= lo /\ hi <= be => ~HitsLive(lo, hi)
    BY <1>1, <1>3, <1>23, <2>1, <2>2, <2>3 DEF HitsLive, Overlap
  <2>5. ~HitsLive(b, BLOCK_DATA(b) + size)
    BY <1>1, <1>3, <2>4 DEF BLOCK_DATA
  <2>6. split => ~HitsLive(nb, nb + HDR)
    BY <1>1, <1>3, <2>4
  <2>7. h.next # NULL => h.next \in DOMAIN mem
    BY <1>7 DEF HeapOK, BlocksInv
  <2> QED BY <2>5, <2>6, <2>7 DEF found_block, h, nb, split, be, nse
<1> QED
  BY <1>19, <1>21, <1>22, <1>25, <1>26, <1>27 DEF HeapOK, Idle

\* The search hands out the block it stopped at.
LEMMA ScanFoundStep ==
    ASSUME HeapOK, ScanFound
    PROVE  HeapOK'
<1>1. call.blk \in listed /\ call.size \in Nat
  BY DEF HeapOK, TypeOK, ScanFound, NULL
<1> QED BY <1>1, FoundBlockStep DEF ScanFound
-----------------------------------------------------------------------------
(* create_container.                                                       *)

\* A container starts with a block of its own, so it is not empty, and the
\* listed blocks lie inside the pages the VMM gave for their container.
LEMMA Extents ==
    ASSUME HeapOK
    PROVE  /\ \A c \in DOMAIN containers :
                 /\ c \in Nat /\ c # NULL /\ ContainerEnd(c) \in Nat
                 /\ mem[CONTAINER_DATA(c)].container = c
                 /\ c + CHDR + HDR <= ContainerEnd(c)
           /\ \A a \in listed :
                 /\ a \in Nat /\ a # NULL /\ mem[a] \in Header /\ a \in DOMAIN mem
                 /\ mem[a].container \in DOMAIN containers
                 /\ mem[a].container + CHDR <= a
                 /\ a + HDR <= BlockEnd(a) /\ BlockEnd(a) \in Nat
                 /\ BlockEnd(a) <= ContainerEnd(mem[a].container)
<1>1. /\ HDR \in Nat /\ HDR > 0 /\ CHDR \in Nat
  BY KheapAssumption
<1>2. \A c \in DOMAIN containers :
        /\ c \in Nat /\ c # NULL /\ ContainerEnd(c) \in Nat
        /\ c + CHDR <= ContainerEnd(c)
  BY <1>1 DEF HeapOK, TypeOK, ContainerEnd, CONTAINER_DATA, NULL
<1>3. \A a \in listed :
        /\ a \in Nat /\ a # NULL /\ mem[a] \in Header /\ a \in DOMAIN mem
  BY DEF HeapOK, TypeOK, BlocksInv, NULL
<1>4. \A a \in listed : BlockEnd(a) \in Nat /\ a + HDR <= BlockEnd(a)
  BY <1>1, <1>3 DEF BlockEnd, BLOCK_DATA, Header
<1>5. \A a \in listed :
        /\ mem[a].container \in DOMAIN containers
        /\ mem[a].container + CHDR <= a
        /\ BlockEnd(a) <= ContainerEnd(mem[a].container)
  BY DEF HeapOK, BlocksInv, CONTAINER_DATA
<1>6. ASSUME NEW c \in DOMAIN containers
      PROVE  /\ mem[CONTAINER_DATA(c)].container = c
             /\ c + CHDR + HDR <= ContainerEnd(c)
  <2> DEFINE a == CONTAINER_DATA(c)
             d == mem[a].container
  <2>1. a \in listed /\ a = c + CHDR
    BY DEF HeapOK, ContainersInv, CONTAINER_DATA
  <2>2. c # d => ContainerEnd(c) <= d \/ ContainerEnd(d) <= c
    BY <1>5, <2>1 DEF HeapOK, ContainersInv
  <2>3. /\ d \in DOMAIN containers /\ d + CHDR <= a /\ a + HDR <= ContainerEnd(d)
    BY <1>1, <1>2, <1>3, <1>4, <1>5, <2>1
  <2> HIDE DEF a, d
  <2>4. d = c
    BY <1>1, <1>2, <2>1, <2>2, <2>3
  <2>5. c + CHDR + HDR <= ContainerEnd(c)
    BY <1>1, <1>2, <2>1, <2>3, <2>4
  <2> QED BY <2>4, <2>5 DEF a, d
<1> QED BY <1>2, <1>3, <1>4, <1>5, <1>6

\* A fresh range of pages meets no container, so a container can be made of it.
LEMMA CreateStep ==
    ASSUME HeapOK, NEW n \in Nat, n * PAGE \in Nat, n * PAGE >= CHDR + HDR,
           NEW c \in FreshBases(n), create_container(c, n),
           NEW size \in Nat, call' = Scan(size, c, TRUE),
           UNCHANGED <<calls, status, live, followed>>
    PROVE  HeapOK'
<1> DEFINE cd == CONTAINER_DATA(c)
           stop == c + n * PAGE
<1>1. /\ HDR \in Nat /\ HDR > 0 /\ CHDR \in Nat
      /\ c \in Nat /\ c # NULL /\ cd = c + CHDR /\ cd \in Nat /\ cd # NULL
      /\ stop \in Nat /\ cd + HDR <= stop
  BY KheapAssumption DEF FreshBases, CONTAINER_DATA, NULL
<1>2. \A k \in DOMAIN containers : k # c /\ (ContainerEnd(k) <= c \/ stop <= k)
  <2>1. SUFFICES ASSUME NEW k \in DOMAIN containers
                 PROVE  k # c /\ (ContainerEnd(k) <= c \/ stop <= k)
    OBVIOUS
  <2>2. k \in DOMAIN held /\ held[k] = ContainerEnd(k)
    BY DEF HeapOK, ContainersInv
  <2>3. ~Overlap(c, stop, k, ContainerEnd(k))
    BY <2>2 DEF FreshBases
  <2>4. k \in Nat /\ ContainerEnd(k) \in Nat /\ k + CHDR + HDR <= ContainerEnd(k)
    BY Extents
  <2> HIDE DEF stop
  <2> QED BY <1>1, <2>3, <2>4 DEF Overlap
<1>3. \A a \in listed : /\ a # cd
                        /\ BlockEnd(a) <= c \/ stop <= mem[a].container
  <2>1. SUFFICES ASSUME NEW a \in listed
                 PROVE  a # cd /\ (BlockEnd(a) <= c \/ stop <= mem[a].container)
    OBVIOUS
  <2> DEFINE k == mem[a].container
  <2>2. /\ a \in Nat /\ k \in DOMAIN containers /\ k + CHDR <= a
        /\ a + HDR <= BlockEnd(a) /\ BlockEnd(a) \in Nat
        /\ BlockEnd(a) <= ContainerEnd(k) /\ k \in Nat /\ ContainerEnd(k) \in Nat
    BY Extents
  <2>3. ContainerEnd(k) <= c \/ stop <= k
    BY <1>2, <2>2
  <2> HIDE DEF k, stop, cd
  <2>4. a # cd /\ (BlockEnd(a) <= c \/ stop <= k)
    BY <1>1, <2>2, <2>3
  <2> QED BY Zenon, <2>4 DEF k
<1> HIDE DEF cd, stop
\* The effect of the step.
<1>4. /\ DOMAIN mem' = DOMAIN mem \cup {cd} /\ mem'[cd] = FirstBlock(c, n)
      /\ \A a \in DOMAIN mem : a # cd => mem'[a] = mem[a]
      /\ listed' = listed \cup {cd}
      /\ heap' = c
  BY DEF create_container, cd
<1>5. /\ DOMAIN held' = DOMAIN held \cup {c} /\ held'[c] = stop
      /\ \A r \in DOMAIN held : r # c => held'[r] = held[r]
  BY DEF create_container, stop
<1>6. /\ DOMAIN containers' = DOMAIN containers \cup {c}
      /\ containers'[c] = NewContainer(n)
      /\ \A k \in DOMAIN containers :
           containers'[k] = IF k = heap THEN [containers[k] EXCEPT !.prev = c]
                                        ELSE containers[k]
  BY <1>2 DEF create_container
<1>7. /\ containers'[c].size_in_bytes = n * PAGE - CHDR
      /\ n * PAGE - CHDR \in Nat
      /\ containers'[c].used_blocks = 0
      /\ containers'[c].prev = NULL /\ containers'[c].next = heap
  BY <1>1, <1>6 DEF NewContainer, stop
<1>8. \A k \in DOMAIN containers :
        /\ containers'[k].size_in_bytes = containers[k].size_in_bytes
        /\ containers'[k].used_blocks = containers[k].used_blocks
        /\ containers'[k].next = containers[k].next
        /\ containers'[k].prev = IF k = heap THEN c ELSE containers[k].prev
  BY <1>6 DEF HeapOK, TypeOK
<1>9. /\ mem'[cd] \in Header /\ mem'[cd].container = c
      /\ mem'[cd].size_in_bytes = n * PAGE - CHDR - HDR
      /\ mem'[cd].next = NULL /\ mem'[cd].prev = NULL
  BY <1>1, <1>4 DEF FirstBlock, Header, NULL, stop
<1>10. /\ ContainerEnd(c)' = stop /\ BlockEnd(cd)' = stop
       /\ \A k \in DOMAIN containers : ContainerEnd(k)' = ContainerEnd(k)
       /\ \A a \in listed : BlockEnd(a)' = BlockEnd(a)
  <2>1. ContainerEnd(c)' = stop
    BY <1>1, <1>7 DEF ContainerEnd, CONTAINER_DATA, stop
  <2>2. BlockEnd(cd)' = stop
    BY <1>1, <1>7, <1>9 DEF BlockEnd, BLOCK_DATA, stop
  <2>3. \A k \in DOMAIN containers : ContainerEnd(k)' = ContainerEnd(k)
    BY Zenon, <1>8 DEF ContainerEnd
  <2>4. \A a \in listed : BlockEnd(a)' = BlockEnd(a)
    BY Zenon, <1>3, <1>4, Extents DEF BlockEnd
  <2> QED BY <2>1, <2>2, <2>3, <2>4
<1>11. TypeOK'
  <2>1. heap \in DOMAIN containers \cup {NULL}
    BY DEF HeapOK, TypeOK
  <2>2. ASSUME NEW k \in DOMAIN containers'
        PROVE  /\ k \in Nat \ {0}
               /\ containers'[k] \in [size_in_bytes : Nat, used_blocks : Nat,
                                      prev : DOMAIN containers' \cup {NULL},
                                      next : DOMAIN containers' \cup {NULL}]
    <3>1. CASE k = c
      BY <1>1, <1>6, <1>7, <2>1, <3>1 DEF NewContainer, NULL
    <3>2. CASE k # c
      <4>1. /\ k \in DOMAIN containers /\ k \in Nat \ {0}
            /\ containers[k] \in [size_in_bytes : Nat, used_blocks : Nat,
                                  prev : DOMAIN containers \cup {NULL},
                                  next : DOMAIN containers \cup {NULL}]
        BY <1>6, <3>2 DEF HeapOK, TypeOK
      <4> QED BY <1>6, <4>1
    <3> QED BY <3>1, <3>2
  <2>3. \A a \in DOMAIN mem' : a \in Nat \ {0} /\ mem'[a] \in Header
    BY Zenon, <1>1, <1>4, <1>9 DEF HeapOK, TypeOK, NULL
  <2>4. \A r \in DOMAIN held' : r \in Nat /\ held'[r] \in Nat
    BY <1>1, <1>5 DEF HeapOK, TypeOK
  <2>5. call' \in [op : {"idle", "scan"}, size : Nat,
                   cont : DOMAIN containers' \cup {NULL}, blk : Nat, fresh : BOOLEAN]
    BY <1>1, <1>6 DEF Scan, cd
  <2>6. heap' \in DOMAIN containers' \cup {NULL}
    BY <1>4, <1>6
  <2>7. /\ \A p \in DOMAIN live' : p \in Nat /\ live'[p] \in Nat
        /\ calls' \in Nat /\ followed' \in BOOLEAN
        /\ status' \in {"run", "panic", "corrupt"}
    BY Zenon DEF HeapOK, TypeOK
  <2> QED BY Zenon, <2>2, <2>3, <2>4, <2>5, <2>6, <2>7 DEF TypeOK
<1>12. \A p \in DOMAIN live' :
          /\ DATA_BLOCK(p) \in listed /\ DATA_BLOCK(p) # cd
          /\ mem'[DATA_BLOCK(p)] = mem[DATA_BLOCK(p)]
  BY Zenon, <1>3, <1>4, Extents DEF HeapOK, LiveInv
<1>13. LiveInv'
  BY Zenon, <1>4, <1>12 DEF HeapOK, LiveInv
<1>14. ContainersInv'
  <2>1. LiveIn(c)' = {}
    <3>1. \A p \in DOMAIN live : mem[DATA_BLOCK(p)].container # c
      BY Zenon, <1>2, <1>12, Extents
    <3> QED BY <1>12, <3>1 DEF LiveIn
  <2>2. \A k \in DOMAIN containers : LiveIn(k)' = LiveIn(k)
    BY <1>12 DEF LiveIn
  <2>3. \A k \in DOMAIN containers' : containers'[k].used_blocks = Cardinality(LiveIn(k)')
    <3>1. containers'[c].used_blocks = Cardinality(LiveIn(c)')
      BY <1>7, <2>1, FS_EmptySet
    <3>2. \A k \in DOMAIN containers : Cardinality(LiveIn(k)') = Cardinality(LiveIn(k))
      BY Zenon, <2>2
    <3>3. \A k \in DOMAIN containers : containers'[k].used_blocks = Cardinality(LiveIn(k))
      BY Zenon, <1>8 DEF HeapOK, ContainersInv
    <3>4. \A k \in DOMAIN containers : containers'[k].used_blocks = Cardinality(LiveIn(k)')
      BY Zenon, <3>2, <3>3
    <3> QED BY Zenon, <1>6, <3>1, <3>4
  <2>4. \A k \in DOMAIN containers : /\ containers[k].next \in DOMAIN containers \cup {NULL}
                                     /\ containers[k].prev \in DOMAIN containers \cup {NULL}
                                     /\ k # NULL /\ k # c
    BY Zenon, <1>2 DEF HeapOK, TypeOK, NULL
  <2>5. /\ heap \in DOMAIN containers \cup {NULL}
        /\ heap # NULL => containers[heap].prev = NULL
        /\ \A k \in DOMAIN containers :
             /\ containers[k].next # NULL => containers[containers[k].next].prev = k
             /\ containers[k].prev # NULL => containers[containers[k].prev].next = k
    BY Zenon DEF HeapOK, TypeOK, ContainersInv
  <2>6. ASSUME NEW k \in DOMAIN containers'
        PROVE  /\ containers'[k].next # NULL => containers'[containers'[k].next].prev = k
               /\ containers'[k].prev # NULL => containers'[containers'[k].prev].next = k
    <3>1. CASE k = c
      BY Zenon, <1>7, <1>8, <2>5, <3>1
    <3>2. CASE k \in DOMAIN containers
      <4>1. containers[k].next # NULL =>
              /\ containers[k].next \in DOMAIN containers
              /\ containers[k].next # heap
        BY SMTT(30), <2>4, <2>5, <3>2
      <4>2. containers'[k].next # NULL => containers'[containers'[k].next].prev = k
        BY SMTT(30), <1>8, <2>5, <3>2, <4>1
      <4>3. containers'[k].prev # NULL => containers'[containers'[k].prev].next = k
        BY <1>7, <1>8, <2>4, <2>5, <3>2
      <4> QED BY <4>2, <4>3
    <3> QED BY Zenon, <1>6, <3>1, <3>2
  <2>7. ASSUME NEW k \in DOMAIN containers'
        PROVE  /\ k \in DOMAIN held' /\ held'[k] = ContainerEnd(k)'
               /\ CONTAINER_DATA(k) \in listed'
    <3>1. CASE k = c
      BY Zenon, <1>4, <1>5, <1>10, <3>1 DEF cd
    <3>2. CASE k \in DOMAIN containers
      BY ZenonT(40), <1>4, <1>5, <1>10, <2>4, <3>2 DEF HeapOK, ContainersInv
    <3> QED BY Zenon, <1>6, <3>1, <3>2
  <2>8. \A k, d \in DOMAIN containers' :
          k # d => ContainerEnd(k)' <= d \/ ContainerEnd(d)' <= k
    <3>1. \A k, d \in DOMAIN containers :
            k # d => ContainerEnd(k) <= d \/ ContainerEnd(d) <= k
      BY DEF HeapOK, ContainersInv
    <3>2. \A k \in DOMAIN containers : ContainerEnd(k) <= c \/ ContainerEnd(c)' <= k
      BY <1>2, <1>10
    <3> QED BY SMTT(30), <1>6, <1>10, <3>1, <3>2
  <2>9. (heap # NULL => containers[heap].prev = NULL)'
    BY <1>4, <1>7
  <2> QED BY Zenon, <2>3, <2>6, <2>7, <2>8, <2>9 DEF ContainersInv
<1>15. BlocksInv'
  <2>1. listed' \subseteq DOMAIN mem'
    BY <1>4 DEF HeapOK, BlocksInv
  <2>2. \A a \in listed : mem'[a] = mem[a] /\ a # cd
    BY Zenon, <1>3, <1>4, Extents
  <2>3. ASSUME NEW a \in listed'
        PROVE  /\ mem'[a].container \in DOMAIN containers'
               /\ CONTAINER_DATA(mem'[a].container) <= a
               /\ (BlockEnd(a) <= ContainerEnd(mem[a].container))'
    <3>1. CASE a = cd
      BY <1>1, <1>6, <1>9, <1>10, <3>1 DEF cd
    <3>2. CASE a \in listed
      <4>1. mem[a].container \in DOMAIN containers /\ mem'[a] = mem[a]
        BY Zenon, <2>2, <3>2 DEF HeapOK, BlocksInv
      <4>2. /\ BlockEnd(a)' = BlockEnd(a)
            /\ ContainerEnd(mem[a].container)' = ContainerEnd(mem[a].container)
        <5>1. \A k \in DOMAIN containers : ContainerEnd(k)' = ContainerEnd(k)
          BY SMTT(30), <1>10
        <5>2. \A k \in DOMAIN containers : mem'[a].container = k =>
                  ContainerEnd(mem[a].container)' = ContainerEnd(k)
          BY <1>8, <4>1 DEF ContainerEnd
        <5> QED BY <1>10, <3>2, <4>1, <5>2
      <4> QED BY <1>6, <3>2, <4>1, <4>2 DEF HeapOK, BlocksInv
    <3> QED BY <1>4, <3>1, <3>2
  <2>4. ASSUME NEW a \in listed', NEW b \in listed', a < b
        PROVE  (BlockEnd(a) <= b)'
    <3>1. CASE a \in listed /\ b \in listed
      BY <1>10, <2>4, <3>1 DEF HeapOK, BlocksInv
    <3>2. CASE a = cd /\ b \in listed
      <4>1. /\ b \in Nat /\ mem[b].container \in Nat /\ mem[b].container + CHDR <= b
            /\ b + HDR <= BlockEnd(b) /\ BlockEnd(b) \in Nat
        BY <3>2, Extents
      <4>2. BlockEnd(b) <= c \/ stop <= mem[b].container
        BY <1>3, <3>2
      <4>3. stop <= b
        BY <1>1, <2>4, <3>2, <4>1, <4>2
      <4> QED BY <1>10, <3>2, <4>3
    <3>3. CASE a \in listed /\ b = cd
      <4>1. /\ a \in Nat /\ mem[a].container \in Nat /\ mem[a].container + CHDR <= a
            /\ BlockEnd(a) \in Nat
        BY <3>3, Extents
      <4>2. BlockEnd(a) <= c \/ stop <= mem[a].container
        BY <1>3, <3>3
      <4>3. BlockEnd(a) <= cd
        BY <1>1, <2>4, <3>3, <4>1, <4>2
      <4> QED BY <1>10, <3>3, <4>3
    <3>4. ~(a = cd /\ b = cd)
      BY <1>1, <2>4
    <3> QED BY <1>4, <3>1, <3>2, <3>3, <3>4
  <2> QED BY Zenon, <2>1, <2>3, <2>4 DEF BlocksInv
<1>16. LinksInv'
  <2>1. \A a \in listed : mem'[a] = mem[a] /\ a # cd
    BY <1>3, <1>4, Extents
  <2>2. ASSUME NEW a \in listed, mem[a].next # NULL
        PROVE  ~(a < cd /\ cd < mem[a].next)
    <3> DEFINE x == mem[a].next
               k == mem[a].container
    <3>1. x \in listed /\ mem[x].container = k
      BY SMTT(30), <2>2 DEF HeapOK, LinksInv
    <3>2. /\ a \in Nat /\ k \in Nat /\ k + CHDR <= a
          /\ a + HDR <= BlockEnd(a) /\ BlockEnd(a) \in Nat
          /\ x \in Nat /\ x + HDR <= BlockEnd(x) /\ BlockEnd(x) \in Nat
      BY <3>1, Extents
    <3>3. k \in DOMAIN containers /\ BlockEnd(x) <= ContainerEnd(k) /\ ContainerEnd(k) \in Nat
      BY ZenonT(30), <3>1, Extents
    <3>4. ContainerEnd(k) <= c \/ stop <= k
      BY <1>2, <3>3
    <3> HIDE DEF x, k
    <3>5. ~(a < cd /\ cd < x)
      <4>1. CASE ContainerEnd(k) <= c
        BY SMTT(30), <1>1, <3>2, <3>3, <4>1
      <4>2. CASE stop <= k
        BY SMTT(30), <1>1, <3>2, <4>2
      <4> QED BY Zenon, <3>4, <4>1, <4>2
    <3> QED BY <3>5 DEF x
  <2>3. \A a \in listed' : mem'[a].next # NULL =>
          /\ mem'[a].next \in listed' /\ a < mem'[a].next
          /\ mem'[mem'[a].next].container = mem'[a].container
          /\ \A x \in listed' : ~(a < x /\ x < mem'[a].next)
    BY SMTT(60), <1>4, <1>9, <2>1, <2>2 DEF HeapOK, LinksInv
  <2>4. \A b \in listed' : mem'[b].prev # NULL =>
          /\ mem'[b].prev < b
          /\ \E a \in listed' : mem'[a].next = b /\ a <= mem'[b].prev
    BY SMTT(30), <1>4, <1>9, <2>1 DEF HeapOK, LinksInv
  <2> QED BY SMTT(30), <2>3, <2>4 DEF LinksInv
<1>17. call'.blk \in listed' \cup {NULL} /\ status' # "corrupt"
  BY <1>1, <1>4 DEF Scan, cd, HeapOK
<1> QED BY Zenon, <1>11, <1>13, <1>14, <1>15, <1>16, <1>17 DEF HeapOK

\* A kmalloc that grows the heap, or finds that it cannot.
LEMMA ScanGrowStep ==
    ASSUME HeapOK, ScanGrow
    PROVE  HeapOK'
<1> DEFINE n == ContainerPages(PagesFor(call.size))
<1>1. call.size \in Nat /\ PagesFor(call.size) \in Nat
  BY KheapAssumption DEF HeapOK, TypeOK, PagesFor
<1>2. n \in Nat /\ n * PAGE \in Nat /\ n * PAGE >= CHDR + HDR
  BY <1>1, ContainerHoldsHeaders
<1> HIDE DEF n
<1>3. UNCHANGED <<calls, status, live, followed>>
  BY DEF ScanGrow
<1>4. CASE \E c \in FreshBases(n) : create_container(c, n) /\ call' = Scan(call.size, c, TRUE)
  <2>1. PICK c \in FreshBases(n) : create_container(c, n) /\ call' = Scan(call.size, c, TRUE)
    BY Zenon, <1>4
  <2> QED BY Zenon, <1>1, <1>2, <1>3, <2>1, CreateStep
<1>5. CASE call' = Idle /\ UNCHANGED <<held, heap, containers, mem, listed>>
  <2>1. call' \in Cursor /\ call'.blk \in listed \cup {NULL}
    BY <1>5 DEF Idle, Cursor, NULL
  <2>2. calls' \in Nat /\ status' \in {"run", "panic"}
    BY <1>3 DEF HeapOK, TypeOK
  <2> QED BY <1>3, <1>5, <2>1, <2>2, CursorStep
<1> QED BY Zenon, <1>4, <1>5 DEF ScanGrow, n
=============================================================================
