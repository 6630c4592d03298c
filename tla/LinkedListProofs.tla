-------------------------- MODULE LinkedListProofs --------------------------
(***************************************************************************)
(* Proofs about LinkedList, for any addresses, data and keys: no pointer   *)
(* into freed memory is followed, nothing is freed twice or lost except    *)
(* where a name lookup fails, a reader beside an appending writer sees a   *)
(* whole list, and the pointer operations implement ListSpec.              *)
(*                                                                         *)
(* Nodes, the list as a sequence, is found by following pointers.  It is   *)
(* known in every state because the pointers describe one sequence only    *)
(* (FollowsList), and each assignment to a pointer turns a list into       *)
(* another whose sequence is known (ListPrepend, ListAppend, ListRemove).  *)
(***************************************************************************)
EXTENDS LinkedList, FiniteSetTheorems, SequenceTheorems,
        WellFoundedInduction, TLAPS

\* From first on, the pointers in nodes lead through q, without a repetition,
\* to Null.
IsList(q, first, nodes) ==
  /\ q \in Seq(Node)
  /\ \A i, j \in 1..Len(q) : q[i] = q[j] => i = j
  /\ first = IF Len(q) = 0 THEN Null ELSE q[1]
  /\ \A i \in 1..Len(q) :
       nodes[q[i]].next = IF i = Len(q) THEN Null ELSE q[i + 1]

\* Where the i-th pointer of the list leads, and the data behind it.
At(i) == IF i <= Len(Nodes) THEN Nodes[i] ELSE Null
DataAt(i) == node[Nodes[i]].data

\* The nodes of the list.
Linked == {Nodes[i] : i \in 1..Len(Nodes)}

\* Values of the program counters and results.
WriterPC == {"idle", "create", "append", "last", "alloc", "link",
             "remove_first", "find", "destroy", "expire", "return"}
ReaderPC == {"idle", "count", "copy", "done"}
Result == {"none", "pending", "SUCCESS", "FAILURE_COULD_NOT_MALLOC",
           "FAILURE_LINKED_LIST_EMPTY", "FAILURE_NETWORK_FUNCTION"}
            \cup Data \cup {Null}

\* Types, of the heap and of the locals of both threads.
HeapOK ==
  /\ shared \in BOOLEAN
  /\ list \in {"none", "live", "freed"}
  /\ node \in [Node -> [data: Data \cup {Null}, next: Pointer]]
  /\ lost \subseteq Node
  /\ held \subseteq Data /\ freed \subseteq Data

LocalsOK ==
  /\ w \in [pc: WriterPC, op: Abstract!Op \cup {"none"}, data: Data \cup {Null},
            stale: SUBSET Data, ptr: Pointer, prev: Pointer, new: Pointer,
            result: Result]
  /\ r \in [pc: ReaderPC, ptr: Pointer, count: Nat, copied: Seq(Data),
            start: Seq(Data)]

\* Every allocated node is in the list, lost, or about to be linked.
NodesAreOwned ==
  /\ live = Linked \cup lost \cup (IF w.pc = "link" THEN {w.new} ELSE {})
  /\ Linked \cap lost = {}
  /\ w.pc = "link" => w.new \in Node /\ w.new \notin Linked \cup lost

\* Every datum has one owner: the caller, a node of the list, a lost node, or
\* nobody because it was freed.
DataIsOwned ==
  /\ \A n \in Linked \cup lost : node[n].data \in Data \ (held \cup freed)
  /\ \A n, o \in Linked \cup lost : node[n].data = node[o].data => n = o
  /\ held \cap freed = {}
  /\ Data = held \cup freed \cup {node[n].data : n \in Linked \cup lost}
  /\ w.pc \in {"append", "last", "alloc", "link"} => w.data \in held

\* How far the writer's call has got.
WriterPlace ==
  /\ w.pc = "idle" => w = Rest
  /\ w.pc = "return" => w.op # "none" /\ w.result # "pending"
  /\ w.pc \notin {"idle", "return"} => w.result = "pending"
  /\ w.pc \in {"create", "append", "remove_first", "find", "destroy", "expire"}
       => w.op = w.pc
  /\ w.pc = "create" => list = "none"
  /\ w.pc \notin {"idle", "create", "return"} => list = "live"
  /\ list # "live" => Nodes = <<>>
  /\ w.pc = "append" => w.ptr = Null
  /\ w.pc = "last" => w.op = "append" /\ w.ptr \in Linked
  /\ w.pc \in {"alloc", "link"} =>
       \/ w.op = "append" /\ w.ptr = Null /\ Nodes = <<>>
       \/ w.op = "append" /\ Nodes # <<>> /\ w.ptr = Nodes[Len(Nodes)]
       \/ w.op = "prepend" /\ w.ptr = Null /\ ~shared
  /\ w.pc = "link" =>
       node[w.new] = [data |-> w.data,
                      next |-> IF w.ptr = Null THEN head ELSE Null]
  /\ w.pc = "find" => \E i \in 1..(Len(Nodes) + 1) :
       /\ w.ptr = At(i)
       /\ \A j \in 1..(i - 1) : Key(DataAt(j)) # Key(w.data)
  /\ w.pc = "expire" => \E i \in 1..(Len(Nodes) + 1) :
       /\ w.ptr = At(i)
       /\ w.prev = IF i = 1 THEN Null ELSE Nodes[i - 1]
       /\ \A j \in 1..(i - 1) : DataAt(j) \notin w.stale

\* A sequence of data that the list begins with.
IsStart(s) == /\ Len(s) <= Len(Nodes)
              /\ \A i \in 1..Len(s) : s[i] = DataAt(i)

\* How far the reader has got.  A shared list is only appended to.
ReaderPlace ==
  /\ shared => w.pc \notin {"remove_first", "destroy", "expire"}
  /\ r.pc # "idle" => /\ shared /\ r.count <= Len(Nodes)
                      /\ IsStart(r.start) /\ IsStart(r.copied)
  /\ r.pc = "idle" => r.count = 0 /\ r.ptr = Null
  /\ r.pc = "count" =>
       /\ r.copied = <<>>
       /\ IF r.ptr = Null THEN Len(r.start) <= r.count
          ELSE r.count < Len(Nodes) /\ r.ptr = Nodes[r.count + 1]
  /\ r.pc = "copy" =>
       /\ Len(r.start) <= r.count
       /\ IF r.ptr = Null THEN r.count <= Len(r.copied)
          ELSE Len(r.copied) < Len(Nodes) /\ r.ptr = Nodes[Len(r.copied) + 1]
  /\ r.pc = "done" =>
       Len(r.start) <= r.count /\ r.count <= Len(r.copied) /\ r.ptr = Null

\* The inductive invariant.
ListInv ==
  /\ HeapOK /\ LocalsOK /\ fault = FALSE
  /\ IsList(Nodes, head, node)
  /\ NodesAreOwned /\ DataIsOwned /\ WriterPlace /\ ReaderPlace

\* A set of numbers has a least one.
LEMMA LeastNumber ==
  ASSUME NEW I \in SUBSET Nat, I # {}
  PROVE  \E i \in I : \A j \in I : i <= j
<1>1. PICK i \in I : \A j \in I : ~(<<j, i>> \in OpToRel(<, Nat))
  BY NatLessThanWellFounded, WFMin
<1>2. \A j \in I : ~(j < i)
  BY <1>1, Zenon DEF OpToRel
<1>3. \A j \in I : i <= j
  BY <1>2
<1> QED
  BY <1>3

\* A sequence of different nodes is no longer than there are nodes.
LEMMA ListFits ==
  ASSUME NEW q \in Seq(Node), \A i, j \in 1..Len(q) : q[i] = q[j] => i = j
  PROVE  Len(q) <= Cardinality(Node)
<1>1. q \in Injection(1..Len(q), Node)
  BY DEF Injection, IsInjective
<1>2. Cardinality(1..Len(q)) <= Cardinality(Node)
  BY <1>1, FS_Injection, LinkedListAssumption
<1>3. Cardinality(1..Len(q)) = Len(q)
  BY FS_Interval
<1> QED
  BY <1>2, <1>3

\* Following the pointers of a list gives its sequence.  The recursive function
\* of Follow exists since the sequence satisfies its equation, and agrees with
\* it since a least step where they differ would follow one where they agree.
LEMMA FollowsList ==
  ASSUME NEW q, NEW first, NEW nodes, IsList(q, first, nodes)
  PROVE  Follow(first, nodes) = q
<1> DEFINE N == Cardinality(Node)
           D == 0..N
           step(f) == [k \in D |->
                        IF k = 0 THEN first
                        ELSE IF f[k - 1] = Null THEN Null
                             ELSE nodes[f[k - 1]].next]
           at == CHOOSE f : f = step(f)
           qf == [k \in D |-> IF k < Len(q) THEN q[k + 1] ELSE Null]
<1>1. N \in Nat /\ Len(q) \in Nat /\ Len(q) <= N
  BY FS_CardinalityType, ListFits, LinkedListAssumption DEF IsList
<1>2. Follow(first, nodes) = [k \in 1..Cardinality({i \in D : at[i] # Null})
                                |-> at[k - 1]]
  BY Zenon DEF Follow
<1>3. qf = step(qf)
  <2> SUFFICES ASSUME NEW k \in D
               PROVE  qf[k] = IF k = 0 THEN first
                              ELSE IF qf[k - 1] = Null THEN Null
                                   ELSE nodes[qf[k - 1]].next
    OBVIOUS
  <2>1. CASE k = 0
    BY <1>1, <2>1 DEF IsList
  <2>2. CASE k # 0
    <3>1. k \in Nat /\ k - 1 \in D /\ k <= N
      BY <1>1, <2>2
    <3>2. CASE k - 1 >= Len(q)
      BY <1>1, <3>1, <3>2, <2>2
    <3>3. CASE k - 1 < Len(q)
      <4>1. k \in 1..Len(q) /\ qf[k - 1] = q[k] /\ q[k] # Null
        BY <1>1, <2>2, <3>1, <3>3, LinkedListAssumption DEF IsList
      <4>2. nodes[q[k]].next = IF k = Len(q) THEN Null ELSE q[k + 1]
        BY <4>1 DEF IsList
      <4> QED
        BY <1>1, <2>2, <3>1, <4>1, <4>2
    <3> QED
      BY <1>1, <3>1, <3>2, <3>3
  <2> QED
    BY <2>1, <2>2
<1>4. at = step(at)
  <2> HIDE DEF qf
  <2> QED
    BY <1>3
<1>5. at = qf
  <2> DEFINE bad == {k \in D : at[k] # qf[k]}
  <2>1. ASSUME bad # {} PROVE FALSE
    <3>1. bad \in SUBSET Nat
      BY <1>1
    <3>2. PICK k \in bad : \A j \in bad : k <= j
      BY <2>1, <3>1, LeastNumber
    <3> HIDE DEF at, qf
    <3>3. k \in D /\ at[k] # qf[k] /\ k \in Nat
      BY <3>2, <1>1
    <3>4. k # 0 => k - 1 \in D /\ at[k - 1] = qf[k - 1]
      BY <3>2, <3>3, <1>1
    <3>5. at[k] = qf[k]
      <4>1. at[k] = IF k = 0 THEN first
                    ELSE IF at[k - 1] = Null THEN Null
                         ELSE nodes[at[k - 1]].next
        BY <1>4, <3>3
      <4>2. qf[k] = IF k = 0 THEN first
                    ELSE IF qf[k - 1] = Null THEN Null
                         ELSE nodes[qf[k - 1]].next
        BY <1>3, <3>3
      <4> QED
        BY <3>4, <4>1, <4>2
    <3> QED
      BY <3>3, <3>5
  <2>2. \A k \in D : at[k] = qf[k]
    BY <2>1
  <2> HIDE DEF at
  <2> QED
    BY <1>4, <2>2
<1> HIDE DEF at, qf
<1>6. {i \in D : qf[i] # Null} = 0..(Len(q) - 1)
  BY <1>1, LinkedListAssumption DEF qf, IsList
<1>7. Cardinality({i \in D : qf[i] # Null}) = Len(q)
  <2>1. Cardinality(0..(Len(q) - 1)) = Len(q)
    <3>1. 0 \in Int /\ Len(q) - 1 \in Int
      BY <1>1
    <3>2. Cardinality(0..(Len(q) - 1)) = IF 0 > Len(q) - 1 THEN 0
                                          ELSE (Len(q) - 1) - 0 + 1
      BY <3>1, FS_Interval
    <3> QED
      BY <1>1, <3>2
  <2> QED
    BY <1>6, <2>1
<1>8. \A k \in 1..Len(q) : qf[k - 1] = q[k]
  BY <1>1 DEF qf
<1>9. q = [k \in 1..Len(q) |-> q[k]]
  BY DEF IsList
<1> QED
  BY <1>2, <1>5, <1>7, <1>8, <1>9
-----------------------------------------------------------------------------
(***************************************************************************)
(* What the pointer assignments of linked_list.c do to a list.             *)
(***************************************************************************)
Without(q, i) == [k \in 1..(Len(q) - 1) |-> IF k < i THEN q[k] ELSE q[k + 1]]
Before(x, q) == [k \in 1..(Len(q) + 1) |-> IF k = 1 THEN x ELSE q[k - 1]]

\* Without is RemoveAt, and Tail for the first element, pointwise.
LEMMA WithoutIsRemoveAt ==
  ASSUME NEW S, NEW q \in Seq(S), NEW i \in 1..Len(q)
  PROVE  /\ Without(q, i) \in Seq(S)
         /\ Len(Without(q, i)) = Len(q) - 1
         /\ RemoveAt(q, i) = Without(q, i)
         /\ Tail(q) = Without(q, 1)
<1>1. Len(q) - 1 \in Nat
  OBVIOUS
<1>2. ASSUME NEW j \in 1..Len(q)
      PROVE  Without(q, j) \in Seq(S) /\ Len(Without(q, j)) = Len(q) - 1
  <2>1. \A k \in 1..(Len(q) - 1) : (IF k < j THEN q[k] ELSE q[k + 1]) \in S
    OBVIOUS
  <2> QED
    BY <1>1, <2>1 DEF Without
<1>3. RemoveAt(q, i) = Without(q, i)
  <2> DEFINE a == SubSeq(q, 1, i - 1)
             b == SubSeq(q, i + 1, Len(q))
  <2>1. /\ a \in Seq(S) /\ Len(a) = i - 1
        /\ \A k \in 1..(i - 1) : a[k] = q[k]
    OBVIOUS
  <2>2. /\ b \in Seq(S) /\ Len(b) = Len(q) - i
        /\ \A k \in 1..(Len(q) - i) : b[k] = q[k + i]
    OBVIOUS
  <2> HIDE DEF a, b
  <2>3. /\ a \o b \in Seq(S) /\ Len(a \o b) = Len(q) - 1
        /\ \A k \in 1..(Len(q) - 1) :
             (a \o b)[k] = IF k < i THEN q[k] ELSE q[k + 1]
    <3>1. /\ a \o b \in Seq(S) /\ Len(a \o b) = Len(a) + Len(b)
          /\ \A k \in 1..(Len(a) + Len(b)) :
               (a \o b)[k] = IF k <= Len(a) THEN a[k] ELSE b[k - Len(a)]
      BY <2>1, <2>2, ConcatProperties
    <3>2. Len(a) + Len(b) = Len(q) - 1
      BY <2>1, <2>2
    <3>3. ASSUME NEW k \in 1..(Len(q) - 1)
          PROVE  (a \o b)[k] = IF k < i THEN q[k] ELSE q[k + 1]
      <4>1. CASE k < i
        <5>1. k \in 1..(i - 1)
          BY <4>1
        <5> QED
          BY <2>1, <3>1, <3>2, <4>1, <5>1
      <4>2. CASE ~(k < i)
        <5>1. k - (i - 1) \in 1..(Len(q) - i) /\ (k - (i - 1)) + i = k + 1
          BY <4>2
        <5>2. b[k - (i - 1)] = q[k + 1]
          BY <2>2, <5>1
        <5> QED
          BY <2>1, <3>1, <3>2, <4>2, <5>2
      <4> QED
        BY <4>1, <4>2
    <3> QED
      BY <3>1, <3>2, <3>3
  <2>4. a \o b = Without(q, i)
    <3>1. \A k \in 1..(Len(q) - 1) :
            Without(q, i)[k] = IF k < i THEN q[k] ELSE q[k + 1]
      BY DEF Without
    <3> QED
      BY <1>2, <2>3, <3>1, SeqEqual
  <2> QED
    BY <2>4 DEF RemoveAt, a, b
<1>4. Tail(q) = Without(q, 1)
  <2>1. /\ Tail(q) \in Seq(S) /\ Len(Tail(q)) = Len(q) - 1
        /\ \A k \in 1..(Len(q) - 1) : Tail(q)[k] = q[k + 1]
    BY HeadTailProperties
  <2>2. /\ Without(q, 1) \in Seq(S) /\ Len(Without(q, 1)) = Len(q) - 1
        /\ \A k \in 1..(Len(q) - 1) : Without(q, 1)[k] = q[k + 1]
    BY <1>1, <1>2 DEF Without
  <2> QED
    BY <2>1, <2>2, SeqEqual
<1> QED
  BY <1>2, <1>3, <1>4

\* Before puts an element in front.
LEMMA BeforeIsConcat ==
  ASSUME NEW S, NEW q \in Seq(S), NEW x \in S
  PROVE  /\ Before(x, q) \in Seq(S)
         /\ Len(Before(x, q)) = Len(q) + 1
         /\ <<x>> \o q = Before(x, q)
BY DEF Before

\* A list does not depend on pointers outside of it.
LEMMA ListFrame ==
  ASSUME NEW q, NEW first, NEW nodes, NEW new, IsList(q, first, nodes),
         \A i \in 1..Len(q) : new[q[i]].next = nodes[q[i]].next
  PROVE  IsList(q, first, new)
BY DEF IsList

\* new->next = head; head = new.
LEMMA ListPrepend ==
  ASSUME NEW q, NEW first, NEW nodes, IsList(q, first, nodes),
         NEW n \in Node, \A i \in 1..Len(q) : q[i] # n,
         nodes[n].next = first
  PROVE  IsList(Before(n, q), n, nodes)
<1> DEFINE p == Before(n, q)
<1>1. q \in Seq(Node) /\ Len(q) \in Nat
  BY DEF IsList
<1>2. p \in Seq(Node) /\ Len(p) = Len(q) + 1
  BY <1>1, BeforeIsConcat
<1>3. \A k \in 1..Len(p) : p[k] = IF k = 1 THEN n ELSE q[k - 1]
  BY <1>1, <1>2 DEF Before
<1> HIDE DEF p
<1>4. ASSUME NEW i \in 1..Len(p), NEW j \in 1..Len(p), p[i] = p[j]
      PROVE  i = j
  <2>1. i # 1 => i - 1 \in 1..Len(q) /\ p[i] = q[i - 1]
    BY <1>1, <1>2, <1>3
  <2>2. j # 1 => j - 1 \in 1..Len(q) /\ p[j] = q[j - 1]
    BY <1>1, <1>2, <1>3
  <2>3. i = 1 \/ j = 1 => i = j
    BY <1>1, <1>2, <1>3, <1>4, <2>1, <2>2
  <2>4. i # 1 /\ j # 1 => i - 1 = j - 1
    BY <1>4, <2>1, <2>2 DEF IsList
  <2> QED
    BY <1>1, <1>2, <2>3, <2>4
<1>5. ASSUME NEW i \in 1..Len(p)
      PROVE  nodes[p[i]].next = IF i = Len(p) THEN Null ELSE p[i + 1]
  <2>1. CASE i = 1
    BY <1>1, <1>2, <1>3, <2>1 DEF IsList
  <2>2. CASE i # 1
    <3>1. i - 1 \in 1..Len(q) /\ p[i] = q[i - 1]
          /\ (i # Len(p) => p[i + 1] = q[i])
      BY <1>1, <1>2, <1>3, <2>2
    <3>2. nodes[q[i - 1]].next = IF i - 1 = Len(q) THEN Null ELSE q[i - 1 + 1]
      BY <3>1 DEF IsList
    <3> QED
      BY <1>1, <1>2, <3>1, <3>2
  <2> QED
    BY <2>1, <2>2
<1> QED
  BY <1>1, <1>2, <1>3, <1>4, <1>5 DEF IsList, p

\* last->next = new, where new->next is NULL.
LEMMA ListAppend ==
  ASSUME NEW q, NEW first, NEW nodes, IsList(q, first, nodes), Len(q) # 0,
         NEW n \in Node, \A i \in 1..Len(q) : q[i] # n,
         NEW new, new[q[Len(q)]].next = n, new[n].next = Null,
         \A i \in 1..(Len(q) - 1) : new[q[i]].next = nodes[q[i]].next
  PROVE  IsList(Append(q, n), first, new)
<1> DEFINE p == Append(q, n)
<1>1. q \in Seq(Node) /\ Len(q) \in Nat
  BY DEF IsList
<1>2. /\ p \in Seq(Node) /\ Len(p) = Len(q) + 1
      /\ \A k \in 1..Len(q) : p[k] = q[k]
      /\ p[Len(p)] = n
  BY <1>1
<1> HIDE DEF p
<1>3. \A i, j \in 1..Len(p) : p[i] = p[j] => i = j
  BY <1>1, <1>2 DEF IsList
<1>4. ASSUME NEW i \in 1..Len(p)
      PROVE  new[p[i]].next = IF i = Len(p) THEN Null ELSE p[i + 1]
  <2>1. CASE i = Len(p)
    BY <1>2, <2>1
  <2>2. CASE i = Len(q)
    BY <1>1, <1>2, <2>2
  <2>3. CASE i \in 1..(Len(q) - 1)
    <3>1. nodes[q[i]].next = q[i + 1] /\ i \in 1..Len(q) /\ i + 1 \in 1..Len(q)
      BY <1>1, <2>3 DEF IsList
    <3> QED
      BY <1>1, <1>2, <2>3, <3>1
  <2> QED
    BY <1>1, <1>2, <2>1, <2>2, <2>3
<1>5. first = p[1]
  BY <1>1, <1>2 DEF IsList
<1> QED
  BY <1>1, <1>2, <1>3, <1>4, <1>5 DEF IsList, p

\* head = node->next for the first node, prev->next = node->next for another.
LEMMA ListRemove ==
  ASSUME NEW q, NEW first, NEW nodes, IsList(q, first, nodes),
         NEW i \in 1..Len(q), NEW first2, NEW new,
         first2 = IF i = 1 THEN nodes[q[1]].next ELSE first,
         i # 1 => new[q[i - 1]].next = nodes[q[i]].next,
         \A k \in 1..Len(q) : k # i - 1 => new[q[k]].next = nodes[q[k]].next
  PROVE  IsList(Without(q, i), first2, new)
<1> DEFINE p == Without(q, i)
<1>1. q \in Seq(Node) /\ Len(q) \in Nat
  BY DEF IsList
<1>2. p \in Seq(Node) /\ Len(p) = Len(q) - 1
  BY <1>1, WithoutIsRemoveAt
<1>3. \A k \in 1..Len(p) : p[k] = IF k < i THEN q[k] ELSE q[k + 1]
  BY <1>1, <1>2 DEF Without
<1> HIDE DEF p
<1>4. \A k \in 1..Len(q) :
        nodes[q[k]].next = IF k = Len(q) THEN Null ELSE q[k + 1]
  BY DEF IsList
<1>5. \A k, j \in 1..Len(p) : p[k] = p[j] => k = j
  BY <1>1, <1>2, <1>3 DEF IsList
<1>6. ASSUME NEW k \in 1..Len(p)
      PROVE  new[p[k]].next = IF k = Len(p) THEN Null ELSE p[k + 1]
  <2>1. CASE k < i - 1
    BY <1>1, <1>2, <1>3, <1>4, <2>1
  <2>2. CASE k = i - 1
    BY <1>1, <1>2, <1>3, <1>4, <2>2
  <2>3. CASE k > i - 1
    <3>1. k + 1 \in 1..Len(q) /\ k + 1 # i - 1 /\ p[k] = q[k + 1]
      BY <1>1, <1>2, <1>3, <2>3
    <3>2. new[q[k + 1]].next = IF k + 1 = Len(q) THEN Null ELSE q[(k + 1) + 1]
      BY <1>4, <3>1
    <3>3. k # Len(p) => p[k + 1] = q[(k + 1) + 1]
      BY <1>1, <1>2, <1>3, <2>3
    <3> QED
      BY <1>1, <1>2, <3>1, <3>2, <3>3
  <2> QED
    BY <1>1, <1>2, <2>1, <2>2, <2>3
<1>7. first2 = IF Len(p) = 0 THEN Null ELSE p[1]
  BY <1>1, <1>2, <1>3, <1>4 DEF IsList
<1> QED
  BY <1>2, <1>5, <1>6, <1>7 DEF IsList, p
-----------------------------------------------------------------------------
\* The invariant implies the type invariant.
LEMMA InvIsType == ListInv => TypeOK
<1> SUFFICES ASSUME ListInv PROVE TypeOK
  OBVIOUS
<1>1. /\ Nodes \in Seq(Node) /\ Len(Nodes) \in Nat
      /\ head = IF Len(Nodes) = 0 THEN Null ELSE Nodes[1]
  BY DEF ListInv, IsList
<1>2. head \in Pointer
  BY <1>1 DEF Pointer
<1>3. live \subseteq Node /\ lost \subseteq live
  BY <1>1 DEF ListInv, NodesAreOwned, Linked, HeapOK
<1>4. {w.ptr, w.prev, w.new, r.ptr} \subseteq Pointer
  BY DEF ListInv, LocalsOK
<1>5. r.count \in 0..Cardinality(Node)
  <2>1. Len(Nodes) <= Cardinality(Node) /\ Cardinality(Node) \in Nat
    BY <1>1, ListFits, FS_CardinalityType, LinkedListAssumption
    DEF ListInv, IsList
  <2>2. r.count \in Nat /\ r.count <= Len(Nodes)
    BY <1>1 DEF ListInv, LocalsOK, ReaderPlace
  <2> QED
    BY <1>1, <2>1, <2>2
<1>6. fault \in BOOLEAN
  BY Zenon DEF ListInv
<1> QED
  BY <1>2, <1>3, <1>4, <1>5, <1>6, Zenon DEF ListInv, HeapOK, TypeOK

\* It holds before linked_list_create.
LEMMA InitInv == Init => ListInv
<1> SUFFICES ASSUME Init PROVE ListInv
  OBVIOUS
<1>1. IsList(<<>>, head, node)
  BY DEF Init, IsList
<1>2. Nodes = <<>> /\ Len(Nodes) = 0 /\ Linked = {}
  BY <1>1, FollowsList DEF Nodes, Linked
<1>3. HeapOK
  <2>1. node \in [Node -> [data: Data \cup {Null}, next: Pointer]]
    BY DEF Init, Unfilled, Pointer
  <2> QED
    BY <2>1, Zenon DEF Init, HeapOK
<1>4. LocalsOK
  BY DEF Init, LocalsOK, Rest, NotReading, WriterPC, ReaderPC, Result, Pointer,
     Abstract!Op
<1>5. NodesAreOwned /\ DataIsOwned
  BY <1>2 DEF Init, NodesAreOwned, DataIsOwned, Rest
<1>6. WriterPlace
  BY <1>2 DEF Init, WriterPlace, Rest
<1>7. ReaderPlace
  BY <1>2 DEF Init, ReaderPlace, Rest, NotReading
<1> QED
  BY <1>1, <1>2, <1>3, <1>4, <1>5, <1>6, <1>7 DEF ListInv, Init

\* A step that changes no node keeps what is said about the heap.
LEMMA QuietStep ==
  ASSUME ListInv,
         UNCHANGED <<shared, list, head, node, live, held, freed, lost>>,
         fault' = FALSE, LocalsOK', WriterPlace', ReaderPlace',
         \/ w' = w
         \/ /\ w.pc # "link" /\ w'.pc # "link"
            /\ w'.pc \in {"append", "last", "alloc"} => w'.data \in held
  PROVE  ListInv'
<1>1. Nodes' = Nodes
  BY DEF Nodes
<1>2. Linked' = Linked
  BY <1>1 DEF Linked
<1>3. HeapOK' /\ IsList(Nodes, head, node)'
  BY <1>1 DEF ListInv, HeapOK, IsList
<1>4. NodesAreOwned'
  BY <1>2 DEF ListInv, NodesAreOwned
<1>5. DataIsOwned'
  BY <1>2 DEF ListInv, DataIsOwned
<1> QED
  BY <1>3, <1>4, <1>5 DEF ListInv

\* A pointer into the list leads to a live node.
LEMMA LinkedIsLive ==
  ASSUME ListInv, NEW n \in Linked, Use(n)
  PROVE  fault' = FALSE
BY DEF ListInv, NodesAreOwned, Use

\* What the shape of the list says of a node and of the pointer in it.
LEMMA NextOf ==
  ASSUME ListInv
  PROVE  /\ Nodes \in Seq(Node) /\ Len(Nodes) \in Nat
         /\ Nodes = <<>> <=> Len(Nodes) = 0
         /\ head = At(1)
         /\ \A i \in 1..Len(Nodes) : /\ Nodes[i] \in Node /\ Nodes[i] # Null
                                     /\ Nodes[i] \in Linked
                                     /\ node[Nodes[i]].next = At(i + 1)
         /\ \A i \in Nat : i > Len(Nodes) => At(i) = Null
         /\ \A i \in 1..Len(Nodes) : At(i) = Nodes[i]
         /\ \A i \in Nat \ {0} : At(i) \in Pointer
<1>1. IsList(Nodes, head, node)
  BY DEF ListInv
<1> QED
  BY <1>1, LinkedListAssumption DEF IsList, At, Linked, Pointer

\* What a call begins with.
LEMMA BeginFields ==
  ASSUME NEW op \in Abstract!Op, NEW pc \in WriterPC,
         NEW data \in Data \cup {Null},
         NEW stale \in SUBSET Data, NEW ptr \in Pointer,
         Begin(op, pc, data, stale, ptr)
  PROVE  /\ w' \in [pc: WriterPC, op: Abstract!Op \cup {"none"},
                    data: Data \cup {Null}, stale: SUBSET Data, ptr: Pointer,
                    prev: Pointer, new: Pointer, result: Result]
         /\ w'.pc = pc /\ w'.op = op /\ w'.data = data /\ w'.stale = stale
         /\ w'.ptr = ptr /\ w'.prev = Null /\ w'.result = "pending"
BY DEF Begin, Rest, Result, Pointer

\* The writer calls an operation.
LEMMA CallInv ==
  ASSUME ListInv, Call
  PROVE  ListInv'
<1>1. /\ UNCHANGED <<shared, list, head, node, live, held, freed, lost>>
      /\ fault' = FALSE /\ r' = r /\ w.pc = "idle"
  BY DEF Call, CallCreate, CallAppend, CallOther, heapVars, ListInv
<1>2. Nodes' = Nodes
  BY <1>1 DEF Nodes
<1>3. /\ Null \in Pointer /\ head \in Pointer /\ head = At(1)
      /\ held \subseteq Data
  <2>1. head = At(1) /\ At(1) \in Pointer
    BY NextOf
  <2> QED
    BY <2>1 DEF ListInv, HeapOK, Pointer
<1>4. ASSUME NEW op \in Abstract!Op,
             NEW pc \in WriterPC \ {"idle", "link", "last", "return"},
             NEW data \in Data \cup {Null},
             NEW stale \in SUBSET Data, NEW ptr \in {Null, head},
             Begin(op, pc, data, stale, ptr),
             \/ op = "prepend" /\ pc = "alloc" /\ ptr = Null
             \/ pc # "alloc" /\ op = pc,
             op = "create" => list = "none",
             op # "create" => list = "live",
             op \in {"create", "append"} \/ ~shared,
             op \in {"append", "prepend"} => data \in held,
             op \in {"find", "expire"} => ptr = head,
             op = "append" => ptr = Null
      PROVE  ListInv'
  <2>1. /\ w' \in [pc: WriterPC, op: Abstract!Op \cup {"none"},
                   data: Data \cup {Null}, stale: SUBSET Data, ptr: Pointer,
                   prev: Pointer, new: Pointer, result: Result]
        /\ w'.pc = pc /\ w'.op = op /\ w'.data = data /\ w'.stale = stale
        /\ w'.ptr = ptr /\ w'.prev = Null /\ w'.result = "pending"
    BY <1>3, <1>4, BeginFields
  <2>2. LocalsOK'
    BY <1>1, <2>1 DEF ListInv, LocalsOK
  <2>3. ReaderPlace'
    BY <1>1, <1>2, <1>4, <2>1 DEF ListInv, ReaderPlace, IsStart, DataAt
  <2>4. \E i \in 1..(Len(Nodes) + 1) : i = 1
    BY NextOf
  <2>5. WriterPlace'
    BY <1>1, <1>2, <1>3, <1>4, <2>1, <2>4 DEF ListInv, WriterPlace, At, DataAt
  <2> QED
    BY <1>1, <1>4, <2>1, <2>2, <2>3, <2>5, QuietStep
<1> USE DEF WriterPC, Abstract!Op
<1>5. CASE CallCreate
  BY <1>4, <1>5 DEF CallCreate
<1>6. CASE CallAppend
  <2>1. PICK d \in held : Begin("append", "append", d, {}, Null)
    BY <1>6 DEF CallAppend
  <2> QED
    BY <1>3, <1>4, <1>6, <2>1 DEF CallAppend
<1>7. CASE CallOther
  <2>1. list = "live" /\ ~shared
    BY <1>7 DEF CallOther
  <2>2. CASE \E d \in held : Begin("prepend", "alloc", d, {}, Null)
    <3>1. PICK d \in held : Begin("prepend", "alloc", d, {}, Null)
      BY <2>2
    <3> QED
      BY <1>3, <1>4, <2>1, <3>1
  <2>3. CASE Begin("remove_first", "remove_first", Null, {}, Null)
    BY <1>4, <2>1, <2>3
  <2>4. CASE \E d \in Data : Begin("find", "find", d, {}, head)
    <3>1. PICK d \in Data : Begin("find", "find", d, {}, head)
      BY <2>4
    <3> QED
      BY <1>4, <2>1, <3>1
  <2>5. CASE \E u \in SUBSET Data : Begin("expire", "expire", Null, u, head)
    <3>1. PICK u \in SUBSET Data : Begin("expire", "expire", Null, u, head)
      BY <2>5
    <3> QED
      BY <1>4, <2>1, <3>1
  <2>6. CASE Begin("destroy", "destroy", Null, {}, Null)
    BY <1>4, <2>1, <2>6
  <2> QED
    BY <1>7, <2>2, <2>3, <2>4, <2>5, <2>6 DEF CallOther
<1> QED
  BY <1>5, <1>6, <1>7 DEF Call

\* The steps of a call that only move on.
LEMMA WalkInv ==
  ASSUME ListInv,
         \/ CallFails \/ linked_list_append \/ linked_list_get_last
         \/ linked_list_find \/ CallReturns \/ ExpireEnds \/ ExpireKeeps
         \/ linked_list_remove_first /\ head = Null
  PROVE  ListInv'
<1> DEFINE Locals == [pc: WriterPC, op: Abstract!Op \cup {"none"},
                      data: Data \cup {Null}, stale: SUBSET Data, ptr: Pointer,
                      prev: Pointer, new: Pointer, result: Result]
<1>1. w \in Locals /\ fault = FALSE /\ WriterPlace
  BY DEF ListInv, LocalsOK
<1>2. /\ UNCHANGED <<shared, list, head, node, live, held, freed, lost>>
      /\ r' = r
  BY DEF CallFails, linked_list_append, linked_list_get_last, linked_list_find,
     CallReturns, ExpireEnds, ExpireKeeps, linked_list_remove_first, heapVars
<1>3. Nodes' = Nodes
  BY <1>2 DEF Nodes
<1>4. ASSUME w' \in Locals, fault' = FALSE, WriterPlace', w.pc # "link",
             w'.pc \notin {"link", "remove_first", "destroy"},
             w'.pc = "expire" => w.pc = "expire",
             w'.pc \in {"append", "last", "alloc"}
               => w'.data = w.data /\ w.pc \in {"append", "last", "alloc"}
      PROVE  ListInv'
  <2>1. LocalsOK'
    BY <1>2, <1>4 DEF ListInv, LocalsOK
  <2>2. ReaderPlace'
    BY <1>2, <1>3, <1>4 DEF ListInv, ReaderPlace, IsStart, DataAt
  <2>3. w'.pc \in {"append", "last", "alloc"} => w'.data \in held
    BY <1>4 DEF ListInv, DataIsOwned
  <2> QED
    BY <1>2, <1>4, <2>1, <2>2, <2>3, QuietStep
<1>5. ASSUME NEW res \in Result \ {"pending"}, fault' = FALSE,
             w' = [w EXCEPT !.pc = "return", !.result = res],
             w.pc \notin {"idle", "return", "link"}
      PROVE  ListInv'
  <2>1. w' \in Locals /\ w'.pc = "return" /\ w'.result = res /\ w'.op = w.op
    BY <1>1, <1>5 DEF WriterPC
  <2>2. WriterPlace'
    BY <1>1, <1>2, <1>3, <1>5, <2>1 DEF WriterPlace, WriterPC
  <2> QED
    BY <1>4, <1>5, <2>1, <2>2
<1>6. CASE CallFails
  <2>1. "FAILURE_COULD_NOT_MALLOC" \in Result \ {"pending"}
    BY DEF Result
  <2>2. fault' = FALSE /\ w.pc \in {"create", "alloc"}
    BY <1>1, <1>6 DEF CallFails, heapVars
  <2> QED
    BY <1>5, <1>6, <2>1, <2>2 DEF CallFails, Return
<1>7. CASE linked_list_append
  <2>1. fault' = FALSE /\ w.pc = "append" /\ w.op = "append"
    BY <1>1, <1>7 DEF linked_list_append, heapVars, WriterPlace
  <2>2. CASE head = Null
    <3>1. w' = [w EXCEPT !.pc = "alloc"]
      BY <1>7, <2>2 DEF linked_list_append
    <3>2. /\ w' \in Locals /\ w'.pc = "alloc" /\ w'.data = w.data
          /\ w'.op = w.op /\ w'.ptr = w.ptr /\ w'.result = w.result
      BY <1>1, <3>1 DEF WriterPC
    <3>3. Nodes = <<>> /\ w.ptr = Null
      <4>1. Len(Nodes) = 0
        <5>1. Len(Nodes) # 0 => 1 \in 1..Len(Nodes)
          BY NextOf
        <5> QED
          BY <2>2, <5>1, NextOf
      <4> QED
        BY <1>1, <2>1, <4>1, NextOf DEF WriterPlace
    <3>4. WriterPlace'
      BY <1>1, <1>2, <1>3, <2>1, <3>2, <3>3 DEF WriterPlace
    <3> QED
      BY <1>4, <2>1, <3>2, <3>4
  <2>3. CASE head # Null
    <3>1. w' = [w EXCEPT !.pc = "last", !.ptr = head]
      BY <1>7, <2>3 DEF linked_list_append
    <3>2. head \in Linked /\ head \in Pointer
      BY <2>3, NextOf
    <3>3. /\ w' \in Locals /\ w'.pc = "last" /\ w'.data = w.data
          /\ w'.op = w.op /\ w'.ptr = head /\ w'.result = w.result
      BY <1>1, <3>1, <3>2 DEF WriterPC
    <3>4. WriterPlace'
      BY <1>1, <1>2, <1>3, <2>1, <3>2, <3>3 DEF WriterPlace, Linked
    <3> QED
      BY <1>4, <2>1, <3>3, <3>4
  <2> QED
    BY <2>2, <2>3
<1>8. CASE linked_list_get_last
  <2>1. w.pc = "last" /\ w.op = "append" /\ w.ptr \in Linked
    BY <1>1, <1>8 DEF linked_list_get_last, WriterPlace
  <2>2. fault' = FALSE
    BY <1>8, <2>1, LinkedIsLive DEF linked_list_get_last
  <2>3. PICK i \in 1..Len(Nodes) : w.ptr = Nodes[i]
    BY <2>1 DEF Linked
  <2>4. /\ node[w.ptr].next = At(i + 1) /\ Len(Nodes) \in Nat /\ Nodes # <<>>
        /\ At(i + 1) \in Pointer
        /\ IF i = Len(Nodes) THEN At(i + 1) = Null
           ELSE At(i + 1) # Null /\ At(i + 1) \in Linked
    <3>1. i + 1 \in Nat \ {0} /\ (i = Len(Nodes) => i + 1 > Len(Nodes))
          /\ (i # Len(Nodes) => i + 1 \in 1..Len(Nodes))
      BY NextOf
    <3> QED
      BY <2>3, <3>1, NextOf
  <2>5. CASE i = Len(Nodes)
    <3>1. w' = [w EXCEPT !.pc = "alloc"]
      BY <1>8, <2>4, <2>5 DEF linked_list_get_last
    <3>2. /\ w' \in Locals /\ w'.pc = "alloc" /\ w'.data = w.data
          /\ w'.op = w.op /\ w'.ptr = w.ptr /\ w'.result = w.result
      BY <1>1, <3>1 DEF WriterPC
    <3>3. WriterPlace'
      BY <1>1, <1>2, <1>3, <2>1, <2>3, <2>4, <2>5, <3>2 DEF WriterPlace
    <3> QED
      BY <1>4, <2>1, <2>2, <3>2, <3>3
  <2>6. CASE i # Len(Nodes)
    <3>1. w' = [w EXCEPT !.ptr = At(i + 1)]
      BY <1>8, <2>4, <2>6 DEF linked_list_get_last
    <3>2. /\ w' \in Locals /\ w'.pc = "last" /\ w'.data = w.data
          /\ w'.op = w.op /\ w'.ptr = At(i + 1) /\ w'.result = w.result
      BY <1>1, <2>1, <2>4, <3>1 DEF WriterPC
    <3>3. WriterPlace'
      BY <1>1, <1>2, <1>3, <2>1, <2>4, <2>6, <3>2 DEF WriterPlace, Linked
    <3> QED
      BY <1>4, <2>1, <2>2, <3>2, <3>3
  <2> QED
    BY <2>5, <2>6
<1>9. CASE linked_list_find
  <2>1. w.pc = "find" /\ w.op = "find"
    BY <1>1, <1>9 DEF linked_list_find, WriterPlace
  <2>2. PICK i \in 1..(Len(Nodes) + 1) :
          /\ w.ptr = At(i)
          /\ \A j \in 1..(i - 1) : Key(DataAt(j)) # Key(w.data)
    BY <1>1, <2>1 DEF WriterPlace
  <2>3. CASE w.ptr = Null
    <3>1. fault' = FALSE /\ w' = [w EXCEPT !.pc = "return", !.result = Null]
      BY <1>1, <1>9, <2>3 DEF linked_list_find, Return
    <3>2. Null \in Result \ {"pending"}
      BY LinkedListAssumption DEF Result
    <3> QED
      BY <1>5, <2>1, <3>1, <3>2
  <2>4. CASE w.ptr # Null
    <3>1. /\ i \in 1..Len(Nodes) /\ w.ptr = Nodes[i] /\ w.ptr \in Linked
          /\ node[w.ptr].next = At(i + 1) /\ Len(Nodes) \in Nat
      <4>1. i \in Nat /\ (i <= Len(Nodes) => i \in 1..Len(Nodes))
        BY NextOf
      <4> QED
        BY <2>2, <2>4, <4>1, NextOf DEF At
    <3>2. fault' = FALSE
      BY <1>9, <2>4, <3>1, LinkedIsLive DEF linked_list_find
    <3>3. CASE Key(node[w.ptr].data) = Key(w.data)
      <4>1. w' = [w EXCEPT !.pc = "return", !.result = node[w.ptr].data]
        BY <1>9, <2>4, <3>3 DEF linked_list_find, Return
      <4>2. node[w.ptr].data \in Data
        BY <3>1 DEF ListInv, DataIsOwned
      <4>3. node[w.ptr].data \in Result \ {"pending"}
        BY <4>2, LinkedListAssumption DEF Result
      <4> QED
        BY <1>5, <2>1, <3>2, <4>1, <4>3
    <3>4. CASE Key(node[w.ptr].data) # Key(w.data)
      <4>1. w' = [w EXCEPT !.ptr = At(i + 1)]
        BY <1>9, <2>4, <3>1, <3>4 DEF linked_list_find
      <4>2. i + 1 \in 1..(Len(Nodes) + 1) /\ At(i + 1) \in Pointer
        BY <3>1, NextOf
      <4>3. /\ w' \in Locals /\ w'.pc = "find" /\ w'.data = w.data
            /\ w'.op = w.op /\ w'.ptr = At(i + 1) /\ w'.result = w.result
        BY <1>1, <2>1, <4>1, <4>2 DEF WriterPC
      <4>4. \A j \in 1..((i + 1) - 1) : Key(DataAt(j)) # Key(w.data)
        BY <2>2, <3>1, <3>4 DEF DataAt
      <4>5. WriterPlace'
        <5> DEFINE k == i + 1
        <5>1. /\ k \in 1..(Len(Nodes) + 1) /\ w'.ptr = At(k)'
              /\ \A j \in 1..(k - 1) : Key(DataAt(j)') # Key(w'.data)
          BY <1>2, <1>3, <4>2, <4>3, <4>4 DEF At, DataAt
        <5> HIDE DEF k
        <5> QED
          BY <1>1, <1>2, <1>3, <2>1, <4>3, <5>1 DEF WriterPlace
      <4> QED
        BY <1>4, <2>1, <3>2, <4>3, <4>5
    <3> QED
      BY <3>3, <3>4
  <2> QED
    BY <2>3, <2>4
<1>10. CASE CallReturns
  <2>1. fault' = FALSE /\ w.pc = "return" /\ w' = Rest
    BY <1>1, <1>10 DEF CallReturns, heapVars
  <2>2. w' \in Locals /\ w'.pc = "idle"
    BY <2>1 DEF Rest, WriterPC, Pointer, Result
  <2>3. WriterPlace'
    BY <1>1, <1>2, <1>3, <2>1, <2>2 DEF WriterPlace, Rest
  <2> QED
    BY <1>4, <2>1, <2>2, <2>3
<1>11. CASE ExpireEnds
  <2>1. fault' = FALSE /\ w.pc = "expire"
    BY <1>1, <1>11 DEF ExpireEnds, heapVars
  <2>2. "SUCCESS" \in Result \ {"pending"}
    BY DEF Result
  <2> QED
    BY <1>5, <1>11, <2>1, <2>2 DEF ExpireEnds, Return
<1>12. CASE ExpireKeeps
  <2>1. w.pc = "expire" /\ w.op = "expire" /\ w.ptr # Null
        /\ node[w.ptr].data \notin w.stale
    BY <1>1, <1>12 DEF ExpireKeeps, WriterPlace
  <2>2. PICK i \in 1..(Len(Nodes) + 1) :
          /\ w.ptr = At(i)
          /\ w.prev = IF i = 1 THEN Null ELSE Nodes[i - 1]
          /\ \A j \in 1..(i - 1) : DataAt(j) \notin w.stale
    BY <1>1, <2>1 DEF WriterPlace
  <2>3. /\ i \in 1..Len(Nodes) /\ w.ptr = Nodes[i] /\ w.ptr \in Linked
        /\ node[w.ptr].next = At(i + 1) /\ Len(Nodes) \in Nat
    <3>1. i \in Nat /\ (i <= Len(Nodes) => i \in 1..Len(Nodes))
      BY NextOf
    <3> QED
      BY <2>1, <2>2, <3>1, NextOf DEF At
  <2>4. fault' = FALSE
    BY <1>12, <2>3, LinkedIsLive DEF ExpireKeeps
  <2>5. w' = [w EXCEPT !.prev = w.ptr, !.ptr = At(i + 1)]
    BY <1>2, <1>12, <2>1, <2>3 DEF ExpireKeeps, AfterNode
  <2> DEFINE k == i + 1
  <2>6. /\ k \in 1..(Len(Nodes) + 1) /\ At(k) \in Pointer /\ k # 1
        /\ k - 1 = i
    BY <2>3, NextOf
  <2>7. /\ w' \in Locals /\ w'.pc = "expire" /\ w'.op = w.op /\ w'.ptr = At(k)
        /\ w'.prev = Nodes[k - 1] /\ w'.stale = w.stale /\ w'.result = w.result
    BY <1>1, <2>1, <2>3, <2>5, <2>6
  <2>8. \A j \in 1..(k - 1) : DataAt(j) \notin w.stale
    BY <2>1, <2>2, <2>3 DEF DataAt
  <2> HIDE DEF k
  <2>9. /\ w'.ptr = At(k)' /\ w'.prev = IF k = 1 THEN Null ELSE Nodes'[k - 1]
        /\ \A j \in 1..(k - 1) : DataAt(j)' \notin w'.stale
    BY <1>2, <1>3, <2>6, <2>7, <2>8 DEF At, DataAt
  <2>10. WriterPlace'
    BY <1>1, <1>2, <1>3, <2>1, <2>6, <2>7, <2>9 DEF WriterPlace
  <2> QED
    BY <1>4, <2>1, <2>4, <2>7, <2>10
<1>13. CASE linked_list_remove_first /\ head = Null
  <2>1. fault' = FALSE /\ w.pc = "remove_first"
    BY <1>1, <1>13 DEF linked_list_remove_first, heapVars
  <2>2. "FAILURE_LINKED_LIST_EMPTY" \in Result \ {"pending"}
    BY DEF Result
  <2> QED
    BY <1>5, <1>13, <2>1, <2>2 DEF linked_list_remove_first, Return
<1> QED
  BY <1>6, <1>7, <1>8, <1>9, <1>10, <1>11, <1>12, <1>13

\* The data of the list, first to last.
LEMMA ContentIsData ==
  ASSUME ListInv
  PROVE  /\ ContentData \in Seq(Data) /\ Len(ContentData) = Len(Nodes)
         /\ \A i \in 1..Len(Nodes) : /\ ContentData[i] = DataAt(i)
                                     /\ DataAt(i) \in Data
<1>1. /\ Len(Nodes) \in Nat
      /\ \A i \in 1..Len(Nodes) : Nodes[i] \in Linked
  BY NextOf
<1>2. \A i \in 1..Len(Nodes) : DataAt(i) \in Data
  BY <1>1 DEF ListInv, DataIsOwned, DataAt
<1> QED
  BY <1>1, <1>2 DEF ContentData, DataAt

\* The reader's steps.
LEMMA ReaderInv ==
  ASSUME ListInv, ReadStart \/ ReaderNext
  PROVE  ListInv'
<1> DEFINE Locals == [pc: ReaderPC, ptr: Pointer, count: Nat,
                      copied: Seq(Data), start: Seq(Data)]
<1>1. r \in Locals /\ fault = FALSE /\ ReaderPlace
  BY DEF ListInv, LocalsOK
<1>2. /\ UNCHANGED <<shared, list, head, node, live, held, freed, lost>>
      /\ w' = w
  BY DEF ReadStart, ReaderNext, linked_list_length, ReadCopy, ReadEnds, heapVars
<1>3. Nodes' = Nodes
  BY <1>2 DEF Nodes
<1>4. /\ Nodes \in Seq(Node) /\ Len(Nodes) \in Nat /\ head = At(1)
      /\ At(1) \in Pointer /\ At(1) = IF Len(Nodes) = 0 THEN Null ELSE Nodes[1]
      /\ \A i \in 1..Len(Nodes) :
           Nodes[i] # Null /\ Nodes[i] \in Linked /\ DataAt(i) \in Data
  <2>1. /\ Nodes \in Seq(Node) /\ Len(Nodes) \in Nat /\ head = At(1)
        /\ At(1) \in Pointer
        /\ \A i \in 1..Len(Nodes) : Nodes[i] # Null /\ Nodes[i] \in Linked
    BY NextOf
  <2>2. \A i \in 1..Len(Nodes) : DataAt(i) \in Data
    BY ContentIsData
  <2> QED
    BY <2>1, <2>2 DEF At
<1>5. ASSUME r' \in Locals, fault' = FALSE, ReaderPlace'
      PROVE  ListInv'
  <2>1. LocalsOK'
    BY <1>2, <1>5 DEF ListInv, LocalsOK
  <2>2. WriterPlace'
    BY <1>2, <1>3 DEF ListInv, WriterPlace, At, DataAt, Linked
  <2> QED
    BY <1>2, <1>5, <2>1, <2>2, QuietStep
<1>6. CASE ReadStart
  <2>1. /\ fault' = FALSE /\ shared /\ r.pc = "idle"
        /\ r' = [NotReading EXCEPT !.pc = "count", !.ptr = head,
                                   !.start = ContentData]
    BY <1>1, <1>6 DEF ReadStart, heapVars
  <2>2. /\ ContentData \in Seq(Data) /\ Len(ContentData) = Len(Nodes)
        /\ \A i \in 1..Len(Nodes) : ContentData[i] = DataAt(i)
    BY ContentIsData
  <2> HIDE DEF ContentData
  <2>3. /\ r' \in Locals /\ r'.pc = "count" /\ r'.ptr = head
        /\ r'.start = ContentData /\ r'.count = 0 /\ r'.copied = <<>>
    <3>1. <<>> \in Seq(Data) /\ head \in Pointer /\ 0 \in Nat
      BY <1>4
    <3> QED
      BY <2>1, <2>2, <3>1 DEF NotReading, ReaderPC
  <2>4. IsStart(r.start)' /\ IsStart(r.copied)'
    BY <1>2, <1>3, <1>4, <2>2, <2>3 DEF IsStart, DataAt
  <2>5. IF r'.ptr = Null THEN Len(r'.start) <= r'.count
        ELSE r'.count < Len(Nodes) /\ r'.ptr = Nodes[r'.count + 1]
    BY <1>4, <2>2, <2>3
  <2>6. ReaderPlace'
    BY <1>1, <1>2, <1>3, <1>4, <2>1, <2>3, <2>4, <2>5 DEF ReaderPlace
  <2> QED
    BY <1>5, <2>1, <2>3, <2>6
<1>7. ASSUME NEW n \in Nat, n < Len(Nodes), r.ptr = Nodes[n + 1]
      PROVE  /\ r.ptr # Null /\ r.ptr \in Linked /\ n + 1 \in 1..Len(Nodes)
             /\ node[r.ptr].data = DataAt(n + 1) /\ DataAt(n + 1) \in Data
             /\ node[r.ptr].next \in Pointer
             /\ IF node[r.ptr].next = Null THEN n + 1 = Len(Nodes)
                ELSE n + 1 < Len(Nodes) /\ node[r.ptr].next = Nodes[(n + 1) + 1]
  <2>1. n + 1 \in 1..Len(Nodes)
    BY <1>4, <1>7
  <2>2. node[r.ptr].next = At((n + 1) + 1) /\ At((n + 1) + 1) \in Pointer
    <3>1. (n + 1) + 1 \in Nat \ {0}
      OBVIOUS
    <3> QED
      BY <1>7, <2>1, <3>1, NextOf
  <2>3. n + 1 < Len(Nodes) => (n + 1) + 1 \in 1..Len(Nodes)
    BY <1>4
  <2> QED
    BY <1>4, <1>7, <2>1, <2>2, <2>3 DEF At, DataAt
<1>8. CASE linked_list_length
  <2>1. r.pc = "count" /\ r.copied = <<>> /\ shared
    BY <1>1, <1>8 DEF linked_list_length, ReaderPlace
  <2>2. IsStart(r.start) /\ IsStart(r.copied) /\ r.count <= Len(Nodes)
    BY <1>1, <2>1 DEF ReaderPlace
  <2>3. CASE r.ptr = Null
    <3>1. fault' = FALSE /\ r' = [r EXCEPT !.pc = "copy", !.ptr = head]
      BY <1>1, <1>8, <2>3 DEF linked_list_length
    <3>2. /\ r' \in Locals /\ r'.pc = "copy" /\ r'.ptr = head
          /\ r'.start = r.start /\ r'.count = r.count /\ r'.copied = <<>>
      BY <1>1, <1>4, <2>1, <3>1 DEF ReaderPC
    <3>3. IsStart(r.start)' /\ IsStart(r.copied)'
      BY <1>2, <1>3, <2>1, <2>2, <3>2 DEF IsStart, DataAt
    <3>4. Len(r.start) <= r.count
      BY <1>1, <2>1, <2>3 DEF ReaderPlace
    <3>5. IF r'.ptr = Null THEN r'.count <= Len(r'.copied)
          ELSE Len(r'.copied) < Len(Nodes) /\ r'.ptr = Nodes[Len(r'.copied) + 1]
      BY <1>1, <1>4, <2>2, <3>2
    <3>6. ReaderPlace'
      BY <1>1, <1>2, <1>3, <2>1, <2>2, <3>2, <3>3, <3>4, <3>5 DEF ReaderPlace
    <3> QED
      BY <1>5, <3>1, <3>2, <3>6
  <2>4. CASE r.ptr # Null
    <3>1. r.count \in Nat /\ r.count < Len(Nodes) /\ r.ptr = Nodes[r.count + 1]
      BY <1>1, <2>1, <2>4 DEF ReaderPlace
    <3>2. /\ r.ptr \in Linked /\ node[r.ptr].next \in Pointer
          /\ r.count + 1 \in 1..Len(Nodes)
          /\ IF node[r.ptr].next = Null THEN r.count + 1 = Len(Nodes)
             ELSE /\ r.count + 1 < Len(Nodes)
                  /\ node[r.ptr].next = Nodes[(r.count + 1) + 1]
      BY <1>7, <3>1
    <3>3. fault' = FALSE
      BY <1>8, <2>4, <3>2, LinkedIsLive DEF linked_list_length
    <3>4. r' = [r EXCEPT !.ptr = node[r.ptr].next, !.count = r.count + 1]
      BY <1>8, <2>4 DEF linked_list_length
    <3>5. /\ r' \in Locals /\ r'.pc = "count" /\ r'.ptr = node[r.ptr].next
          /\ r'.start = r.start /\ r'.count = r.count + 1 /\ r'.copied = <<>>
      <4>1. r.count + 1 \in Nat
        BY <3>1
      <4> QED
        BY <1>1, <2>1, <3>2, <3>4, <4>1
    <3>6. IsStart(r.start)' /\ IsStart(r.copied)'
      BY <1>2, <1>3, <2>1, <2>2, <3>5 DEF IsStart, DataAt
    <3>7. r'.count <= Len(Nodes)
      BY <1>4, <3>2, <3>5
    <3>8. IF r'.ptr = Null THEN Len(r'.start) <= r'.count
          ELSE r'.count < Len(Nodes) /\ r'.ptr = Nodes[r'.count + 1]
      BY <1>1, <1>4, <2>2, <3>2, <3>5 DEF IsStart
    <3>9. ReaderPlace'
      BY <1>1, <1>2, <1>3, <2>1, <3>5, <3>6, <3>7, <3>8 DEF ReaderPlace
    <3> QED
      BY <1>5, <3>3, <3>5, <3>9
  <2> QED
    BY <2>3, <2>4
<1>9. CASE ReadCopy
  <2>1. r.pc = "copy" /\ shared /\ Len(r.start) <= r.count
    BY <1>1, <1>9 DEF ReadCopy, ReaderPlace
  <2>2. IsStart(r.start) /\ IsStart(r.copied) /\ r.count <= Len(Nodes)
    BY <1>1, <2>1 DEF ReaderPlace
  <2>3. CASE r.ptr = Null
    <3>1. fault' = FALSE /\ r' = [r EXCEPT !.pc = "done"]
      BY <1>1, <1>9, <2>3 DEF ReadCopy
    <3>2. /\ r' \in Locals /\ r'.pc = "done" /\ r'.ptr = Null
          /\ r'.start = r.start /\ r'.count = r.count /\ r'.copied = r.copied
      BY <1>1, <2>3, <3>1 DEF ReaderPC
    <3>3. IsStart(r.start)' /\ IsStart(r.copied)'
      BY <1>2, <1>3, <2>2, <3>2 DEF IsStart, DataAt
    <3>4. r.count <= Len(r.copied)
      BY <1>1, <2>1, <2>3 DEF ReaderPlace
    <3>5. ReaderPlace'
      BY <1>1, <1>2, <1>3, <2>1, <2>2, <3>2, <3>3, <3>4 DEF ReaderPlace
    <3> QED
      BY <1>5, <3>1, <3>2, <3>5
  <2>4. CASE r.ptr # Null
    <3> DEFINE m == Len(r.copied)
               c == Append(r.copied, node[r.ptr].data)
    <3>1. m \in Nat /\ m < Len(Nodes) /\ r.ptr = Nodes[m + 1]
      BY <1>1, <2>1, <2>4 DEF ReaderPlace
    <3>2. /\ r.ptr \in Linked /\ m + 1 \in 1..Len(Nodes)
          /\ node[r.ptr].data = DataAt(m + 1) /\ DataAt(m + 1) \in Data
          /\ node[r.ptr].next \in Pointer
          /\ IF node[r.ptr].next = Null THEN m + 1 = Len(Nodes)
             ELSE /\ m + 1 < Len(Nodes)
                  /\ node[r.ptr].next = Nodes[(m + 1) + 1]
      BY <1>7, <3>1
    <3>3. fault' = FALSE
      BY <1>9, <2>4, <3>2, LinkedIsLive DEF ReadCopy
    <3>4. /\ c \in Seq(Data) /\ Len(c) = m + 1
          /\ \A i \in 1..m : c[i] = r.copied[i]
          /\ c[m + 1] = DataAt(m + 1)
      BY <1>1, <3>2
    <3>5. r' = [r EXCEPT !.ptr = node[r.ptr].next, !.copied = c]
      BY <1>9, <2>4 DEF ReadCopy
    <3> HIDE DEF c
    <3>6. /\ r' \in Locals /\ r'.pc = "copy" /\ r'.ptr = node[r.ptr].next
          /\ r'.start = r.start /\ r'.count = r.count /\ r'.copied = c
      BY <1>1, <2>1, <3>2, <3>4, <3>5
    <3>7. IsStart(c)
      <4>1. \A i \in 1..m : c[i] = DataAt(i)
        BY <2>2, <3>4 DEF IsStart
      <4>2. \A i \in 1..(m + 1) : c[i] = DataAt(i)
        <5>1. \A i \in 1..(m + 1) : i \in 1..m \/ i = m + 1
          BY <3>1
        <5> QED
          BY <3>4, <4>1, <5>1
      <4> QED
        BY <1>4, <3>1, <3>2, <3>4, <4>2 DEF IsStart
    <3>8. IsStart(r.start)' /\ IsStart(r.copied)'
      BY <1>2, <1>3, <2>2, <3>6, <3>7 DEF IsStart, DataAt
    <3>9. IF r'.ptr = Null THEN r'.count <= Len(r'.copied)
          ELSE /\ Len(r'.copied) < Len(Nodes)
               /\ r'.ptr = Nodes[Len(r'.copied) + 1]
      BY <1>1, <1>4, <2>2, <3>2, <3>4, <3>6
    <3>10. ReaderPlace'
      BY <1>1, <1>2, <1>3, <2>1, <2>2, <3>6, <3>8, <3>9 DEF ReaderPlace
    <3> QED
      BY <1>5, <3>3, <3>6, <3>10
  <2> QED
    BY <2>3, <2>4
<1>10. CASE ReadEnds
  <2>1. fault' = FALSE /\ r' = NotReading
    BY <1>1, <1>10 DEF ReadEnds, heapVars
  <2>2. /\ r' \in Locals /\ r'.pc = "idle" /\ r'.count = 0 /\ r'.ptr = Null
    BY <2>1 DEF NotReading, ReaderPC, Pointer
  <2>3. ReaderPlace'
    BY <1>1, <1>2, <2>2 DEF ReaderPlace
  <2> QED
    BY <1>5, <2>1, <2>2, <2>3
<1> QED
  BY <1>6, <1>8, <1>9, <1>10 DEF ReaderNext

\* The call under way returns.
LEMMA ReturnFields ==
  ASSUME ListInv, w.pc \notin {"idle", "return"},
         NEW res \in Result \ {"pending"}, Return(res)
  PROVE  /\ w' \in [pc: WriterPC, op: Abstract!Op \cup {"none"},
                    data: Data \cup {Null}, stale: SUBSET Data, ptr: Pointer,
                    prev: Pointer, new: Pointer, result: Result]
         /\ w'.pc = "return" /\ w'.result = res /\ w'.op = w.op
         /\ w'.op # "none"
         /\ w'.data = w.data /\ w'.stale = w.stale
<1>1. /\ w \in [pc: WriterPC, op: Abstract!Op \cup {"none"},
                data: Data \cup {Null}, stale: SUBSET Data, ptr: Pointer,
                prev: Pointer, new: Pointer, result: Result]
      /\ WriterPlace
  BY DEF ListInv, LocalsOK
<1>2. w.op # "none"
  BY <1>1 DEF WriterPlace, WriterPC
<1> QED
  BY <1>1, <1>2 DEF Return, WriterPC

\* The list itself is allocated or freed: it has no nodes then.
LEMMA ListItselfInv ==
  ASSUME ListInv, linked_list_create \/ (linked_list_destroy /\ head = Null)
  PROVE  ListInv'
<1>1. /\ Nodes \in Seq(Node) /\ Len(Nodes) \in Nat
      /\ Nodes = <<>> <=> Len(Nodes) = 0
      /\ head = At(1) /\ \A i \in 1..Len(Nodes) : Nodes[i] # Null
  BY NextOf
<1>2. w.pc \in {"create", "destroy"} /\ Nodes = <<>> /\ head = Null
  <2>1. CASE linked_list_create
    <3>1. w.pc = "create" /\ Nodes = <<>>
      BY <2>1 DEF ListInv, WriterPlace, linked_list_create
    <3> QED
      BY <1>1, <3>1 DEF At
  <2>2. CASE linked_list_destroy /\ head = Null
    <3>1. Len(Nodes) = 0
      BY <1>1, <2>2 DEF At
    <3> QED
      BY <1>1, <2>2, <3>1 DEF linked_list_destroy
  <2> QED
    BY <2>1, <2>2
<1>3. /\ UNCHANGED <<shared, node, live, held, freed, lost, fault, head, r>>
      /\ list' \in {"live", "freed"} /\ Return("SUCCESS")
  BY <1>2 DEF linked_list_create, linked_list_destroy
<1>4. Nodes' = Nodes /\ Linked' = Linked
  BY <1>3 DEF Nodes, Linked
<1>5. "SUCCESS" \in Result \ {"pending"}
  BY DEF Result
<1>6. /\ w' \in [pc: WriterPC, op: Abstract!Op \cup {"none"},
                 data: Data \cup {Null}, stale: SUBSET Data, ptr: Pointer,
                 prev: Pointer, new: Pointer, result: Result]
      /\ w'.pc = "return" /\ w'.result = "SUCCESS" /\ w'.op # "none"
  BY <1>2, <1>3, <1>5, ReturnFields
<1>7. HeapOK' /\ IsList(Nodes, head, node)' /\ fault' = FALSE
  BY <1>3, <1>4 DEF ListInv, HeapOK, IsList
<1>8. LocalsOK'
  BY <1>3, <1>6 DEF ListInv, LocalsOK
<1>9. NodesAreOwned'
  BY <1>2, <1>3, <1>4, <1>6 DEF ListInv, NodesAreOwned
<1>10. DataIsOwned'
  BY <1>2, <1>3, <1>4, <1>6 DEF ListInv, DataIsOwned
<1>11. WriterPlace'
  BY <1>2, <1>3, <1>4, <1>6 DEF WriterPlace
<1>12. ReaderPlace'
  BY <1>3, <1>4, <1>6 DEF ListInv, ReaderPlace, IsStart, DataAt
<1> QED
  BY <1>7, <1>8, <1>9, <1>10, <1>11, <1>12 DEF ListInv

\* A node is allocated and filled: the list does not change.
LEMMA AllocateInv ==
  ASSUME ListInv, Allocate
  PROVE  ListInv'
<1> DEFINE Locals == [pc: WriterPC, op: Abstract!Op \cup {"none"},
                      data: Data \cup {Null}, stale: SUBSET Data, ptr: Pointer,
                      prev: Pointer, new: Pointer, result: Result]
           filled == [data |-> w.data,
                      next |-> IF w.ptr = Null THEN head ELSE Null]
<1>1. /\ w.pc = "alloc" /\ w \in Locals /\ w.data \in held /\ w.data \in Data
      /\ node \in [Node -> [data: Data \cup {Null}, next: Pointer]]
  BY DEF Allocate, ListInv, LocalsOK, DataIsOwned, HeapOK
<1>2. PICK n \in Fresh : /\ live' = live \cup {n}
                         /\ node' = [node EXCEPT ![n] = filled]
                         /\ w' = [w EXCEPT !.pc = "link", !.new = n]
  BY DEF Allocate
<1>3. UNCHANGED <<shared, list, head, held, freed, lost, fault, r>>
  BY DEF Allocate
<1>4. n \in Node /\ n \notin Linked \cup lost
  BY <1>1 DEF Fresh, ListInv, NodesAreOwned
<1>5. /\ w' \in Locals /\ w'.pc = "link" /\ w'.new = n /\ w'.op = w.op
      /\ w'.data = w.data /\ w'.ptr = w.ptr /\ w'.result = w.result
  BY <1>1, <1>2, <1>4 DEF WriterPC, Pointer
<1>6. filled \in [data: Data \cup {Null}, next: Pointer]
  <2>1. head \in Pointer /\ Null \in Pointer
    BY InvIsType DEF TypeOK, Pointer
  <2> QED
    BY <1>1, <2>1
<1> HIDE DEF filled
<1>7. /\ node' \in [Node -> [data: Data \cup {Null}, next: Pointer]]
      /\ node'[n] = filled
      /\ \A o \in Node : o # n => node'[o] = node[o]
  BY <1>1, <1>2, <1>4, <1>6
<1>8. /\ Nodes \in Seq(Node)
      /\ \A i \in 1..Len(Nodes) : /\ Nodes[i] \in Node /\ Nodes[i] # n
                                  /\ Nodes[i] \in Linked
  BY <1>4, NextOf DEF Linked
<1>9. IsList(Nodes, head', node')
  <2>1. \A i \in 1..Len(Nodes) : node'[Nodes[i]].next = node[Nodes[i]].next
    BY <1>7, <1>8
  <2>2. IsList(Nodes, head, node)
    BY DEF ListInv
  <2> QED
    BY <1>3, <2>1, <2>2, ListFrame
<1>10. Nodes' = Nodes /\ Linked' = Linked
  BY <1>9, FollowsList DEF Nodes, Linked
<1>11. \A i \in 1..Len(Nodes) : DataAt(i)' = DataAt(i)
  BY <1>7, <1>8, <1>10 DEF DataAt
<1>12. \A o \in Linked \cup lost : node'[o] = node[o]
  BY <1>4, <1>7, <1>8 DEF ListInv, HeapOK, Linked
<1>13. HeapOK' /\ IsList(Nodes, head, node)' /\ fault' = FALSE
  BY <1>3, <1>7, <1>9, <1>10 DEF ListInv, HeapOK
<1>14. LocalsOK'
  BY <1>3, <1>5 DEF ListInv, LocalsOK
<1>15. NodesAreOwned'
  BY <1>1, <1>2, <1>3, <1>4, <1>5, <1>10 DEF ListInv, NodesAreOwned
<1>16. DataIsOwned'
  <2>1. {node'[o].data : o \in Linked \cup lost}
          = {node[o].data : o \in Linked \cup lost}
    BY <1>12
  <2> QED
    BY <1>1, <1>3, <1>5, <1>10, <1>12, <2>1 DEF ListInv, DataIsOwned
<1>17. WriterPlace'
  BY <1>1, <1>3, <1>5, <1>7, <1>10 DEF ListInv, WriterPlace, filled
<1>18. ReaderPlace'
  BY <1>1, <1>3, <1>5, <1>10, <1>11 DEF ListInv, ReaderPlace, IsStart
<1> QED
  BY <1>13, <1>14, <1>15, <1>16, <1>17, <1>18 DEF ListInv

\* What Link does to the list: the new node is its first or its last one.
LEMMA LinkGrows ==
  ASSUME ListInv, Link
  PROVE  /\ IsList(Nodes', head', node')
         /\ Len(Nodes') = Len(Nodes) + 1
         /\ Linked' = Linked \cup {w.new}
         /\ node' \in [Node -> [data: Data \cup {Null}, next: Pointer]]
         /\ \A n \in Node : node'[n].data = node[n].data
         /\ \/ /\ w.op = "append" /\ Nodes' = Append(Nodes, w.new)
            \/ /\ w.op = "prepend" /\ ~shared /\ Nodes' = Before(w.new, Nodes)
         /\ fault' = FALSE
<1>1. /\ w.pc = "link" /\ w.new \in Node /\ w.new \in Pointer
      /\ node \in [Node -> [data: Data \cup {Null}, next: Pointer]]
      /\ node[w.new] = [data |-> w.data,
                        next |-> IF w.ptr = Null THEN head ELSE Null]
      /\ \/ w.op = "append" /\ w.ptr = Null /\ Nodes = <<>>
         \/ w.op = "append" /\ Nodes # <<>> /\ w.ptr = Nodes[Len(Nodes)]
         \/ w.op = "prepend" /\ w.ptr = Null /\ ~shared
      /\ IsList(Nodes, head, node) /\ fault = FALSE
  BY DEF Link, ListInv, NodesAreOwned, HeapOK, WriterPlace, Pointer
<1>2. /\ Nodes \in Seq(Node) /\ Len(Nodes) \in Nat
      /\ Nodes = <<>> <=> Len(Nodes) = 0
      /\ \A i \in 1..Len(Nodes) : /\ Nodes[i] \in Node /\ Nodes[i] # Null
                                  /\ Nodes[i] \in Linked
  BY NextOf
<1>3. w.new \notin Linked
  BY <1>1 DEF ListInv, NodesAreOwned
<1>4. \A i \in 1..Len(Nodes) : Nodes[i] # w.new
  BY <1>2, <1>3
<1>5. CASE w.ptr = Null
  <2>1. head' = w.new /\ node' = node /\ fault' = fault
    BY <1>5 DEF Link
  <2>2. IsList(Before(w.new, Nodes), head', node')
    <3>1. node[w.new].next = head
      BY <1>1, <1>5
    <3> QED
      BY <1>1, <1>4, <2>1, <3>1, ListPrepend
  <2>3. Nodes' = Before(w.new, Nodes)
    BY <2>2, FollowsList DEF Nodes
  <2>4. /\ Len(Nodes') = Len(Nodes) + 1
        /\ \A k \in 1..(Len(Nodes) + 1) :
             Nodes'[k] = IF k = 1 THEN w.new ELSE Nodes[k - 1]
    <3>1. Len(Before(w.new, Nodes)) = Len(Nodes) + 1
      BY <1>1, <1>2, BeforeIsConcat
    <3> QED
      BY <2>3, <3>1 DEF Before
  <2>5. Linked' = Linked \cup {w.new}
    <3>1. \A x : x \in Linked' <=> \E k \in 1..(Len(Nodes) + 1) : x = Nodes'[k]
      BY <2>4 DEF Linked
    <3>2. \A x \in Linked \cup {w.new} : x \in Linked'
      <4>1. w.new \in Linked'
        <5>1. 1 \in 1..(Len(Nodes) + 1)
          BY <1>2
        <5> QED
          BY <2>4, <3>1, <5>1
      <4>2. ASSUME NEW i \in 1..Len(Nodes) PROVE Nodes[i] \in Linked'
        <5>1. i + 1 \in 1..(Len(Nodes) + 1) /\ (i + 1) - 1 = i /\ i + 1 # 1
          BY <1>2
        <5>2. Nodes'[i + 1] = Nodes[i]
          BY <2>4, <5>1
        <5> QED
          BY <3>1, <5>1, <5>2
      <4> QED
        BY <4>1, <4>2 DEF Linked
    <3>3. ASSUME NEW k \in 1..(Len(Nodes) + 1)
          PROVE  Nodes'[k] \in Linked \cup {w.new}
      <4>1. k # 1 => k - 1 \in 1..Len(Nodes)
        BY <1>2
      <4> QED
        BY <1>2, <2>4, <4>1
    <3> QED
      BY <3>1, <3>2, <3>3
  <2>6. \/ /\ w.op = "append" /\ Nodes' = Append(Nodes, w.new)
        \/ /\ w.op = "prepend" /\ ~shared /\ Nodes' = Before(w.new, Nodes)
    <3>1. Nodes = <<>> => Before(w.new, Nodes) = Append(Nodes, w.new)
      <4> SUFFICES ASSUME Nodes = <<>>
                   PROVE  Before(w.new, <<>>) = Append(<<>>, w.new)
        OBVIOUS
      <4> QED
        BY DEF Before
    <3> QED
      BY <1>1, <1>2, <1>5, <2>3, <3>1
  <2> QED
    BY <1>1, <2>1, <2>2, <2>3, <2>4, <2>5, <2>6
<1>6. CASE w.ptr # Null
  <2>1. /\ w.op = "append" /\ Len(Nodes) # 0 /\ w.ptr = Nodes[Len(Nodes)]
        /\ Len(Nodes) \in 1..Len(Nodes)
        /\ w.ptr \in Linked /\ w.ptr \in Node
    BY <1>1, <1>2, <1>6
  <2>2. /\ head' = head /\ Use(w.ptr)
        /\ node' = [node EXCEPT ![w.ptr].next = w.new]
    BY <1>6 DEF Link
  <2>3. fault' = FALSE
    BY <2>1, <2>2, LinkedIsLive
  <2>4. /\ node' \in [Node -> [data: Data \cup {Null}, next: Pointer]]
        /\ \A n \in Node : node'[n].data = node[n].data
        /\ node'[w.ptr].next = w.new
        /\ \A n \in Node : n # w.ptr => node'[n] = node[n]
    BY <1>1, <2>1, <2>2
  <2>5. IsList(Append(Nodes, w.new), head', node')
    <3>1. node'[w.new].next = Null
      BY <1>1, <1>3, <1>6, <2>1, <2>4
    <3>2. \A i \in 1..(Len(Nodes) - 1) :
            node'[Nodes[i]].next = node[Nodes[i]].next
      <4>1. \A i \in 1..(Len(Nodes) - 1) : /\ i \in 1..Len(Nodes)
                                           /\ i # Len(Nodes)
        BY <1>2
      <4>2. \A i \in 1..(Len(Nodes) - 1) : Nodes[i] # Nodes[Len(Nodes)]
        BY <1>1, <2>1, <4>1 DEF IsList
      <4> QED
        BY <1>2, <2>1, <2>4, <4>1, <4>2
    <3>3. node'[Nodes[Len(Nodes)]].next = w.new
      BY <2>1, <2>4
    <3>4. IsList(Nodes, head, node) /\ Len(Nodes) # 0 /\ w.new \in Node
      BY <1>1, <2>1
    <3>5. IsList(Append(Nodes, w.new), head, node')
      BY <1>4, <3>1, <3>2, <3>3, <3>4, ListAppend
    <3> QED
      BY <2>2, <3>5
  <2>6. Nodes' = Append(Nodes, w.new)
    BY <2>5, FollowsList DEF Nodes
  <2>7. /\ Len(Nodes') = Len(Nodes) + 1
        /\ \A k \in 1..Len(Nodes) : Nodes'[k] = Nodes[k]
        /\ Nodes'[Len(Nodes) + 1] = w.new
    BY <1>1, <1>2, <2>6
  <2>8. Linked' = Linked \cup {w.new}
    <3>1. \A k \in 1..(Len(Nodes) + 1) : k \in 1..Len(Nodes) \/ k = Len(Nodes) + 1
      BY <1>2
    <3>2. /\ \A k \in 1..Len(Nodes) : k \in 1..(Len(Nodes) + 1)
          /\ Len(Nodes) + 1 \in 1..(Len(Nodes) + 1)
      BY <1>2
    <3> QED
      BY <2>7, <3>1, <3>2 DEF Linked
  <2> QED
    BY <2>1, <2>3, <2>4, <2>5, <2>6, <2>7, <2>8
<1> QED
  BY <1>5, <1>6

\* The new node is linked, and the list owns the data.
LEMMA LinkInv ==
  ASSUME ListInv, Link
  PROVE  ListInv'
<1>1. /\ IsList(Nodes', head', node')
      /\ Len(Nodes') = Len(Nodes) + 1
      /\ Linked' = Linked \cup {w.new}
      /\ node' \in [Node -> [data: Data \cup {Null}, next: Pointer]]
      /\ \A n \in Node : node'[n].data = node[n].data
      /\ \/ /\ w.op = "append" /\ Nodes' = Append(Nodes, w.new)
         \/ /\ w.op = "prepend" /\ ~shared /\ Nodes' = Before(w.new, Nodes)
      /\ fault' = FALSE
  BY LinkGrows
<1>2. /\ w.pc = "link" /\ held' = held \ {w.data} /\ Return("SUCCESS")
      /\ UNCHANGED <<shared, list, live, freed, lost, r>>
  BY DEF Link
<1>3. "SUCCESS" \in Result \ {"pending"}
  BY DEF Result
<1>4. /\ w' \in [pc: WriterPC, op: Abstract!Op \cup {"none"},
                 data: Data \cup {Null}, stale: SUBSET Data, ptr: Pointer,
                 prev: Pointer, new: Pointer, result: Result]
      /\ w'.pc = "return" /\ w'.result = "SUCCESS" /\ w'.op # "none"
  BY <1>2, <1>3, ReturnFields
<1>5. /\ w.new \in Node /\ w.new \notin Linked \cup lost
      /\ live = Linked \cup lost \cup {w.new} /\ Linked \cap lost = {}
      /\ node[w.new].data = w.data /\ w.data \in held /\ list = "live"
  BY <1>2 DEF ListInv, NodesAreOwned, DataIsOwned, WriterPlace
<1>6. /\ Nodes \in Seq(Node) /\ Len(Nodes) \in Nat
      /\ \A i \in 1..Len(Nodes) : Nodes[i] \in Node
      /\ Linked \subseteq Node /\ lost \subseteq Node
  BY NextOf, ZenonT(30) DEF Linked, ListInv, HeapOK
<1>7. HeapOK'
  BY <1>1, <1>2 DEF ListInv, HeapOK
<1>8. LocalsOK'
  BY <1>2, <1>4 DEF ListInv, LocalsOK
<1>9. NodesAreOwned'
  BY <1>1, <1>2, <1>4, <1>5 DEF NodesAreOwned
<1>10. DataIsOwned'
  <2> DEFINE S == Linked \cup lost
             T == S \cup {w.new}
  <2>1. Linked' \cup lost' = T /\ T \subseteq Node
    BY <1>1, <1>2, <1>5, <1>6
  <2>2. /\ \A n \in S : node[n].data \in Data \ (held \cup freed)
        /\ \A n, o \in S : node[n].data = node[o].data => n = o
        /\ held \cap freed = {} /\ held \subseteq Data
        /\ Data = held \cup freed \cup {node[n].data : n \in S}
    BY DEF ListInv, DataIsOwned, HeapOK
  <2>3. \A n \in T : node'[n].data = node[n].data
    BY <1>1, <2>1
  <2>4. {node'[n].data : n \in T} = {node[n].data : n \in S} \cup {w.data}
    BY <1>5, <2>3
  <2>5. \A n \in T : node'[n].data \in Data \ (held' \cup freed')
    BY <1>2, <1>5, <2>2, <2>3
  <2>6. \A n, o \in T : node'[n].data = node'[o].data => n = o
    BY <1>2, <1>5, <2>2, <2>3
  <2>7. /\ held' \cap freed' = {}
        /\ Data = held' \cup freed' \cup {node'[n].data : n \in T}
    BY <1>2, <1>5, <2>2, <2>4
  <2> QED
    BY <1>4, <2>1, <2>5, <2>6, <2>7 DEF DataIsOwned
<1>11. WriterPlace'
  BY <1>2, <1>4, <1>5 DEF WriterPlace
<1>12. ReaderPlace'
  <2>1. CASE r.pc = "idle"
    BY <1>2, <1>4, <2>1 DEF ListInv, ReaderPlace
  <2>2. CASE r.pc # "idle"
    <3>1. shared /\ Nodes' = Append(Nodes, w.new)
      BY <1>1, <2>2 DEF ListInv, ReaderPlace
    <3>2. \A k \in 1..Len(Nodes) : Nodes'[k] = Nodes[k]
      BY <1>5, <1>6, <3>1
    <3>3. \A k \in 1..Len(Nodes) : DataAt(k)' = DataAt(k)
      BY <1>1, <1>6, <3>2 DEF DataAt
    <3>4. ASSUME NEW s \in Seq(Data), IsStart(s)
          PROVE  /\ Len(s) <= Len(Nodes')
                 /\ \A i \in 1..Len(s) : s[i] = DataAt(i)'
      <4>1. /\ Len(s) \in Nat /\ Len(s) <= Len(Nodes)
            /\ \A i \in 1..Len(s) : s[i] = DataAt(i) /\ i \in 1..Len(Nodes)
        BY <1>6, <3>4 DEF IsStart
      <4> QED
        BY <1>1, <1>6, <3>3, <4>1
    <3>5. /\ r.count \in Nat /\ r.start \in Seq(Data) /\ r.copied \in Seq(Data)
          /\ r.count <= Len(Nodes) /\ IsStart(r.start) /\ IsStart(r.copied)
          /\ ReaderPlace
      BY <2>2 DEF ListInv, ReaderPlace, LocalsOK
    <3>6. IsStart(r.start)' /\ IsStart(r.copied)'
      BY <1>2, <3>4, <3>5 DEF IsStart
    <3>7. /\ r.count <= Len(Nodes')
          /\ \A k \in Nat : k < Len(Nodes) => k < Len(Nodes')
          /\ \A k \in Nat : k < Len(Nodes) => k + 1 \in 1..Len(Nodes)
      BY <1>1, <1>6, <3>5
    <3>8. Len(r.copied) \in Nat
      BY <3>5
    <3> QED
      BY <1>2, <1>4, <2>2, <3>1, <3>2, <3>5, <3>6, <3>7, <3>8 DEF ReaderPlace
  <2> QED
    BY <2>1, <2>2
<1> QED
  BY <1>1, <1>7, <1>8, <1>9, <1>10, <1>11, <1>12 DEF ListInv

\* Freeing a node of the list, with the help of others of the list, is safe.
LEMMA FreeIsSafe ==
  ASSUME ListInv, NEW n \in Linked, NEW used \in SUBSET Linked, Free(n, used)
  PROVE  /\ fault' = FALSE
         /\ freed' = freed \cup {node[n].data} /\ live' = live \ {n}
<1>1. fault = FALSE /\ used \cup {n} \subseteq live
  BY DEF ListInv, NodesAreOwned
<1>2. node[n].data \notin freed
  BY DEF ListInv, DataIsOwned
<1> QED
  BY <1>1, <1>2 DEF Free

\* The nodes of a list without its i-th one.
LEMMA NodesWithout ==
  ASSUME ListInv, NEW i \in 1..Len(Nodes),
         IsList(Without(Nodes, i), head', node')
  PROVE  /\ Nodes' = Without(Nodes, i) /\ Len(Nodes') = Len(Nodes) - 1
         /\ \A k \in 1..(Len(Nodes) - 1) :
              Nodes'[k] = IF k < i THEN Nodes[k] ELSE Nodes[k + 1]
         /\ Linked' = Linked \ {Nodes[i]}
<1>1. /\ Nodes \in Seq(Node) /\ Len(Nodes) \in Nat
      /\ \A j, k \in 1..Len(Nodes) : Nodes[j] = Nodes[k] => j = k
  BY DEF ListInv, IsList
<1>2. Nodes' = Without(Nodes, i)
  BY FollowsList DEF Nodes
<1>3. Len(Nodes') = Len(Nodes) - 1
  BY <1>1, <1>2, WithoutIsRemoveAt
<1>4. \A k \in 1..(Len(Nodes) - 1) :
        Nodes'[k] = IF k < i THEN Nodes[k] ELSE Nodes[k + 1]
  BY <1>2 DEF Without
<1>5. Linked' = {Nodes'[k] : k \in 1..(Len(Nodes) - 1)}
  BY <1>3 DEF Linked
<1>6. ASSUME NEW k \in 1..(Len(Nodes) - 1)
      PROVE  Nodes'[k] \in Linked /\ Nodes'[k] # Nodes[i]
  <2>1. k \in 1..Len(Nodes) /\ k + 1 \in 1..Len(Nodes)
    BY <1>1
  <2>2. CASE k < i
    BY <1>1, <1>4, <2>1, <2>2 DEF Linked
  <2>3. CASE ~(k < i)
    <3>1. k + 1 # i
      BY <1>1, <2>3
    <3> QED
      BY <1>1, <1>4, <2>1, <2>3, <3>1 DEF Linked
  <2> QED
    BY <2>2, <2>3
<1>7. ASSUME NEW k \in 1..Len(Nodes), k # i
      PROVE  Nodes[k] \in Linked'
  <2>1. CASE k < i
    <3>1. k \in 1..(Len(Nodes) - 1)
      BY <1>1, <2>1
    <3> QED
      BY <1>4, <1>5, <2>1, <3>1
  <2>2. CASE k > i
    <3>1. k - 1 \in 1..(Len(Nodes) - 1) /\ ~(k - 1 < i) /\ (k - 1) + 1 = k
      BY <1>1, <2>2
    <3>2. Nodes'[k - 1] = Nodes[k]
      BY <1>4, <3>1
    <3> QED
      BY <1>5, <3>1, <3>2
  <2> QED
    BY <1>1, <1>7, <2>1, <2>2
<1>8. Linked' = Linked \ {Nodes[i]}
  <2>1. \A x \in Linked' : x \in Linked /\ x # Nodes[i]
    BY <1>5, <1>6
  <2>2. \A x \in Linked : x # Nodes[i] => x \in Linked'
    BY <1>7 DEF Linked
  <2> QED
    BY <2>1, <2>2
<1> QED
  BY <1>2, <1>3, <1>4, <1>8

\* A node that leaves the list is freed together with its data, or lost.
LEMMA RemovalInv ==
  ASSUME ListInv, NEW i \in 1..Len(Nodes), shared = FALSE, w.pc # "link",
         IsList(Without(Nodes, i), head', node'),
         node' \in [Node -> [data: Data \cup {Null}, next: Pointer]],
         \A n \in Node : node'[n].data = node[n].data,
         UNCHANGED <<shared, list, held, r>>,
         \/ /\ live' = live \ {Nodes[i]} /\ lost' = lost
            /\ freed' = freed \cup {node[Nodes[i]].data}
         \/ live' = live /\ freed' = freed /\ lost' = lost \cup {Nodes[i]},
         fault' = FALSE,
         w' \in [pc: WriterPC, op: Abstract!Op \cup {"none"},
                 data: Data \cup {Null}, stale: SUBSET Data, ptr: Pointer,
                 prev: Pointer, new: Pointer, result: Result],
         w'.pc \in {"return", "destroy", "expire"}, WriterPlace'
  PROVE  ListInv'
<1> DEFINE n == Nodes[i]
<1>1. /\ n \in Node /\ n \in Linked /\ Linked \subseteq Node
      /\ lost \subseteq Node
  <2>1. n \in Node /\ n \in Linked /\ Linked \subseteq Node
    BY NextOf DEF Linked
  <2> QED
    BY <2>1 DEF ListInv, HeapOK
<1>2. Linked' = Linked \ {n} /\ IsList(Nodes', head', node')
  BY NodesWithout
<1>3. /\ live = Linked \cup lost /\ Linked \cap lost = {}
      /\ node[n].data \in Data \ (held \cup freed)
  BY <1>1 DEF ListInv, NodesAreOwned, DataIsOwned
<1> HIDE DEF n
<1>4. HeapOK'
  BY <1>1, <1>3 DEF ListInv, HeapOK, n
<1>5. LocalsOK'
  BY DEF ListInv, LocalsOK
<1>6. NodesAreOwned'
  BY <1>1, <1>2, <1>3 DEF NodesAreOwned, n
<1>7. DataIsOwned'
  <2> DEFINE S == Linked \cup lost
             T == Linked' \cup lost'
  <2>1. /\ \A o \in S : node[o].data \in Data \ (held \cup freed)
        /\ \A o, p \in S : node[o].data = node[p].data => o = p
        /\ held \cap freed = {} /\ held \subseteq Data
        /\ Data = held \cup freed \cup {node[o].data : o \in S}
    BY DEF ListInv, DataIsOwned, HeapOK
  <2>2. T \subseteq S /\ S \subseteq Node
    BY <1>1, <1>2, <1>3 DEF n
  <2>3. \A o \in T : node'[o].data = node[o].data
    BY <2>2
  <2>4. /\ T = IF lost' = lost THEN S \ {n} ELSE S
        /\ freed' = IF lost' = lost THEN freed \cup {node[n].data} ELSE freed
    BY <1>1, <1>2, <1>3 DEF n
  <2> HIDE DEF S, T
  <2>5. \A o \in T : node'[o].data \in Data \ (held' \cup freed')
    <3>1. \A o \in T : lost' = lost => node[o].data # node[n].data
      BY <1>1, <2>1, <2>2, <2>4 DEF S
    <3> QED
      BY <2>1, <2>2, <2>3, <2>4, <3>1
  <2>6. \A o, p \in T : node'[o].data = node'[p].data => o = p
    BY <2>1, <2>2, <2>3
  <2>7. held' \cap freed' = {}
    BY <1>3, <2>1, <2>4
  <2>8. Data = held' \cup freed' \cup {node'[o].data : o \in T}
    <3>1. {node'[o].data : o \in T} = {node[o].data : o \in T}
      BY <2>3
    <3>2. CASE lost' = lost
      <4>1. {node[o].data : o \in S}
              = {node[o].data : o \in T} \cup {node[n].data}
        BY <1>1, <2>4, <3>2 DEF S
      <4> QED
        BY <2>1, <2>4, <3>1, <3>2, <4>1
    <3>3. CASE lost' # lost
      BY <2>1, <2>4, <3>1, <3>3
    <3> QED
      BY <3>2, <3>3
  <2> QED
    BY <2>5, <2>6, <2>7, <2>8 DEF DataIsOwned, T
<1>8. ReaderPlace'
  BY DEF ListInv, ReaderPlace
<1> QED
  BY <1>2, <1>4, <1>5, <1>6, <1>7, <1>8 DEF ListInv

\* linked_list_remove_first and the loop of linked_list_destroy.
LEMMA RemoveFirstInv ==
  ASSUME ListInv, linked_list_remove_first \/ linked_list_destroy, head # Null
  PROVE  ListInv' /\ IsList(Without(Nodes, 1), head', node')
<1>1. /\ Len(Nodes) \in Nat /\ 1 \in 1..Len(Nodes) /\ head = Nodes[1]
      /\ head \in Linked
  BY NextOf DEF At
<1>2. /\ head' = node[head].next /\ node' = node /\ Free(head, {})
      /\ UNCHANGED <<shared, list, held, lost, r>>
      /\ \/ w.pc = "remove_first" /\ Return("SUCCESS")
         \/ w.pc = "destroy" /\ w' = w
  BY DEF linked_list_remove_first, linked_list_destroy
<1>3. fault' = FALSE /\ freed' = freed \cup {node[head].data}
      /\ live' = live \ {head}
  BY <1>1, <1>2, FreeIsSafe
<1>4. IsList(Without(Nodes, 1), head', node')
  <2>1. IsList(Nodes, head, node)
    BY DEF ListInv
  <2> QED
    BY <1>1, <1>2, <2>1, ListRemove
<1>5. /\ node \in [Node -> [data: Data \cup {Null}, next: Pointer]]
      /\ list = "live" /\ shared = FALSE
      /\ w \in [pc: WriterPC, op: Abstract!Op \cup {"none"},
                data: Data \cup {Null}, stale: SUBSET Data, ptr: Pointer,
                prev: Pointer, new: Pointer, result: Result]
      /\ WriterPlace
  BY <1>2 DEF ListInv, HeapOK, WriterPlace, ReaderPlace, LocalsOK
<1>6. /\ w' \in [pc: WriterPC, op: Abstract!Op \cup {"none"},
                 data: Data \cup {Null}, stale: SUBSET Data, ptr: Pointer,
                 prev: Pointer, new: Pointer, result: Result]
      /\ w'.pc \in {"return", "destroy"} /\ WriterPlace'
  <2>1. CASE w.pc = "remove_first" /\ Return("SUCCESS")
    <3>1. "SUCCESS" \in Result \ {"pending"}
      BY DEF Result
    <3>2. /\ w' \in [pc: WriterPC, op: Abstract!Op \cup {"none"},
                     data: Data \cup {Null}, stale: SUBSET Data, ptr: Pointer,
                     prev: Pointer, new: Pointer, result: Result]
          /\ w'.pc = "return" /\ w'.result = "SUCCESS" /\ w'.op # "none"
      BY <2>1, <3>1, ReturnFields
    <3> QED
      BY <1>2, <1>5, <3>2 DEF WriterPlace
  <2>2. CASE w.pc = "destroy" /\ w' = w
    BY <1>2, <1>5, <2>2 DEF WriterPlace
  <2> QED
    BY <1>2, <2>1, <2>2
<1>7. ListInv'
  BY <1>1, <1>2, <1>3, <1>4, <1>5, <1>6, RemovalInv
<1> QED
  BY <1>4, <1>7

\* Where the expiry loop is.
LEMMA ExpirePosition ==
  ASSUME ListInv, w.pc = "expire", w.ptr # Null
  PROVE  \E i \in 1..Len(Nodes) :
           /\ w.ptr = Nodes[i] /\ w.ptr \in Linked
           /\ w.prev = IF i = 1 THEN Null ELSE Nodes[i - 1]
           /\ \A j \in 1..(i - 1) : DataAt(j) \notin w.stale
<1>1. PICK i \in 1..(Len(Nodes) + 1) :
        /\ w.ptr = At(i)
        /\ w.prev = IF i = 1 THEN Null ELSE Nodes[i - 1]
        /\ \A j \in 1..(i - 1) : DataAt(j) \notin w.stale
  BY DEF ListInv, WriterPlace
<1>2. i \in 1..Len(Nodes) /\ w.ptr = Nodes[i]
  <2>1. Len(Nodes) \in Nat
    BY NextOf
  <2> QED
    BY <1>1, <2>1 DEF At
<1> QED
  BY <1>1, <1>2, NextOf

\* What Unlink does to the list.
LEMMA UnlinkRemoves ==
  ASSUME ListInv, NEW i \in 1..Len(Nodes), w.ptr = Nodes[i],
         w.prev = IF i = 1 THEN Null ELSE Nodes[i - 1], Unlink
  PROVE  /\ IsList(Without(Nodes, i), head', node')
         /\ node' \in [Node -> [data: Data \cup {Null}, next: Pointer]]
         /\ \A n \in Node : node'[n].data = node[n].data
         /\ i # 1 => w.prev \in Linked /\ node'[w.prev].next = At(i + 1)
<1>1. /\ node \in [Node -> [data: Data \cup {Null}, next: Pointer]]
      /\ IsList(Nodes, head, node)
  BY DEF ListInv, HeapOK
<1>2. /\ Len(Nodes) \in Nat /\ Nodes \in Seq(Node)
      /\ \A k \in 1..Len(Nodes) : /\ Nodes[k] \in Node /\ Nodes[k] # Null
                                  /\ Nodes[k] \in Linked
                                  /\ node[Nodes[k]].next = At(k + 1)
  BY NextOf
<1>3. node[Nodes[i]].next \in Pointer
  BY <1>1, <1>2
<1>4. CASE i = 1
  <2>1. head' = node[Nodes[1]].next /\ node' = node
    BY <1>4 DEF Unlink
  <2>2. 1 \in 1..Len(Nodes)
    BY <1>4
  <2>3. IsList(Without(Nodes, 1), head', node')
    BY <1>1, <2>1, <2>2, ListRemove
  <2> QED
    BY <1>1, <1>4, <2>1, <2>3
<1>5. CASE i # 1
  <2>1. i - 1 \in 1..Len(Nodes) /\ i \in Nat
    BY <1>2, <1>5
  <2>2. /\ w.prev = Nodes[i - 1] /\ w.prev # Null /\ w.prev \in Node
        /\ w.prev \in Linked
    BY <1>2, <1>5, <2>1
  <2>3. /\ head' = head
        /\ node' = [node EXCEPT ![w.prev].next = node[Nodes[i]].next]
    BY <2>2 DEF Unlink
  <2>4. /\ node' \in [Node -> [data: Data \cup {Null}, next: Pointer]]
        /\ \A n \in Node : node'[n].data = node[n].data
        /\ node'[w.prev].next = node[Nodes[i]].next
        /\ \A n \in Node : n # w.prev => node'[n] = node[n]
    BY <1>1, <1>3, <2>2, <2>3
  <2>5. node'[Nodes[i - 1]].next = node[Nodes[i]].next
    BY <2>2, <2>4
  <2>6. \A k \in 1..Len(Nodes) :
          k # i - 1 => node'[Nodes[k]].next = node[Nodes[k]].next
    <3>1. \A k \in 1..Len(Nodes) : k # i - 1 => Nodes[k] # Nodes[i - 1]
      BY <1>1, <2>1 DEF IsList
    <3> QED
      BY <1>2, <2>2, <2>4, <3>1
  <2>7. IsList(Without(Nodes, i), head, node')
    <3> DEFINE first2 == head
    <3>1. first2 = IF i = 1 THEN node[Nodes[1]].next ELSE head
      BY <1>5
    <3> HIDE DEF first2
    <3>2. IsList(Without(Nodes, i), first2, node')
      BY <1>1, <2>5, <2>6, <3>1, ListRemove
    <3> QED
      BY <3>2 DEF first2
  <2> QED
    BY <1>2, <2>2, <2>3, <2>4, <2>7
<1> QED
  BY <1>4, <1>5

\* The expiry loop removes a node, or loses it and gives up.
LEMMA ExpireInv ==
  ASSUME ListInv, ExpireRemoves \/ ExpireLoses
  PROVE  ListInv'
<1> DEFINE Locals == [pc: WriterPC, op: Abstract!Op \cup {"none"},
                      data: Data \cup {Null}, stale: SUBSET Data, ptr: Pointer,
                      prev: Pointer, new: Pointer, result: Result]
<1>1. /\ w.pc = "expire" /\ w.ptr # Null /\ Unlink
      /\ UNCHANGED <<shared, list, held, r>>
  BY DEF ExpireRemoves, ExpireLoses
<1>2. PICK i \in 1..Len(Nodes) :
           /\ w.ptr = Nodes[i] /\ w.ptr \in Linked
           /\ w.prev = IF i = 1 THEN Null ELSE Nodes[i - 1]
           /\ \A j \in 1..(i - 1) : DataAt(j) \notin w.stale
  BY <1>1, ExpirePosition
<1>3. /\ IsList(Without(Nodes, i), head', node')
      /\ node' \in [Node -> [data: Data \cup {Null}, next: Pointer]]
      /\ \A n \in Node : node'[n].data = node[n].data
      /\ i # 1 => w.prev \in Linked /\ node'[w.prev].next = At(i + 1)
  BY <1>1, <1>2, UnlinkRemoves
<1>4. /\ w \in Locals /\ WriterPlace /\ shared = FALSE /\ list = "live"
  BY <1>1 DEF ListInv, LocalsOK, WriterPlace, ReaderPlace, HeapOK
<1>5. CASE ExpireLoses
  <2>1. /\ lost' = lost \cup {Nodes[i]} /\ live' = live /\ freed' = freed
        /\ Use(w.ptr) /\ Return("FAILURE_NETWORK_FUNCTION")
    BY <1>2, <1>5 DEF ExpireLoses
  <2>2. fault' = FALSE
    BY <1>2, <2>1, LinkedIsLive
  <2>3. "FAILURE_NETWORK_FUNCTION" \in Result \ {"pending"}
    BY DEF Result
  <2>4. /\ w' \in Locals /\ w'.pc = "return"
        /\ w'.result = "FAILURE_NETWORK_FUNCTION" /\ w'.op # "none"
    BY <1>1, <2>1, <2>3, ReturnFields
  <2>5. WriterPlace'
    BY <1>1, <1>4, <2>4 DEF WriterPlace
  <2> QED
    BY <1>1, <1>3, <1>4, <2>1, <2>2, <2>4, <2>5, RemovalInv
<1>6. CASE ExpireRemoves
  <2>1. /\ Free(w.ptr, {w.prev} \ {Null}) /\ lost' = lost
        /\ w' = AfterNode(w.prev, head')
    BY <1>6 DEF ExpireRemoves
  <2>2. /\ fault' = FALSE /\ freed' = freed \cup {node[Nodes[i]].data}
        /\ live' = live \ {Nodes[i]}
    <3>1. {w.prev} \ {Null} \in SUBSET Linked
      BY <1>2, <1>3
    <3> QED
      BY <1>2, <2>1, <3>1, FreeIsSafe
  <2>3. /\ Len(Nodes) \in Nat /\ Len(Nodes') = Len(Nodes) - 1
        /\ \A k \in 1..(Len(Nodes) - 1) :
             Nodes'[k] = IF k < i THEN Nodes[k] ELSE Nodes[k + 1]
        /\ \A k \in 1..Len(Nodes) : Nodes[k] \in Node /\ Nodes[k] # Null
    <3>1. /\ Len(Nodes') = Len(Nodes) - 1
          /\ \A k \in 1..(Len(Nodes) - 1) :
               Nodes'[k] = IF k < i THEN Nodes[k] ELSE Nodes[k + 1]
      BY <1>3, NodesWithout
    <3> QED
      BY <3>1, NextOf
  <2>4. /\ i \in 1..(Len(Nodes') + 1)
        /\ At(i)' = At(i + 1) /\ At(i + 1) \in Pointer
        /\ i # 1 => Nodes'[i - 1] = Nodes[i - 1]
        /\ \A j \in 1..(i - 1) : Nodes'[j] = Nodes[j] /\ Nodes[j] \in Node
    BY <2>3 DEF At, Pointer
  <2>5. \A j \in 1..(i - 1) : DataAt(j)' \notin w.stale
    BY <1>2, <1>3, <2>4 DEF DataAt
  <2>6. /\ w' \in Locals /\ w'.pc = "expire" /\ w'.op = w.op
        /\ w'.stale = w.stale /\ w'.result = w.result /\ w'.ptr = At(i)'
        /\ w'.prev = IF i = 1 THEN Null ELSE Nodes'[i - 1]
    <3>1. CASE i = 1
      <4>1. head' = At(1)'
        BY <1>3, <2>3, <2>4, NodesWithout, SMTT(30) DEF IsList, At
      <4>2. w' = [w EXCEPT !.ptr = At(i)']
        BY <1>2, <2>1, <3>1, <4>1 DEF AfterNode
      <4> QED
        BY <1>1, <1>2, <1>4, <2>4, <3>1, <4>2
    <3>2. CASE i # 1
      <4>1. i - 1 \in 1..Len(Nodes)
        BY <2>3, <3>2
      <4>2. w.prev = Nodes[i - 1] /\ w.prev # Null
        BY <1>2, <2>3, <3>2, <4>1
      <4>3. w' = [w EXCEPT !.prev = w.prev, !.ptr = At(i)']
        BY <1>3, <2>1, <2>4, <3>2, <4>2 DEF AfterNode
      <4> QED
        BY <1>1, <1>4, <2>4, <3>2, <4>2, <4>3
    <3> QED
      BY <3>1, <3>2
  <2>7. WriterPlace'
    BY <1>1, <1>4, <2>4, <2>5, <2>6 DEF WriterPlace
  <2> QED
    BY <1>1, <1>3, <1>4, <2>1, <2>2, <2>6, <2>7, RemovalInv
<1> QED
  BY <1>5, <1>6
-----------------------------------------------------------------------------
\* The invariant is inductive.
LEMMA NextInv ==
  ASSUME ListInv, [Next]_vars
  PROVE  ListInv'
<1>1. CASE Call
  BY <1>1, CallInv
<1>2. CASE \/ CallFails \/ linked_list_append \/ linked_list_get_last
           \/ linked_list_find \/ CallReturns \/ ExpireEnds \/ ExpireKeeps
  BY <1>2, WalkInv
<1>3. CASE linked_list_create
  BY <1>3, ListItselfInv
<1>4. CASE Allocate
  BY <1>4, AllocateInv
<1>5. CASE Link
  BY <1>5, LinkInv
<1>6. CASE linked_list_remove_first
  BY <1>6, WalkInv, RemoveFirstInv
<1>7. CASE linked_list_destroy
  BY <1>7, ListItselfInv, RemoveFirstInv
<1>8. CASE ExpireRemoves \/ ExpireLoses
  BY <1>8, ExpireInv
<1>9. CASE ReadStart \/ ReaderNext
  BY <1>9, ReaderInv
<1>10. CASE UNCHANGED vars
  <2>1. Nodes' = Nodes
    BY <1>10 DEF Nodes, vars, heapVars
  <2> QED
    BY <1>10, <2>1
    DEF vars, heapVars, ListInv, HeapOK, LocalsOK, IsList, NodesAreOwned,
        DataIsOwned, WriterPlace, ReaderPlace, Linked, At, DataAt, IsStart
<1> QED
  BY <1>1, <1>2, <1>3, <1>4, <1>5, <1>6, <1>7, <1>8, <1>9, <1>10
  DEF Next, WriterNext

\* The invariant holds in every reachable state.
LEMMA InvHolds == Spec => []ListInv
<1>1. ListInv /\ [Next]_vars => ListInv'
  BY NextInv
<1> QED
  BY <1>1, InitInv, PTL DEF Spec

(***************************************************************************)
(* Type correctness: the locals of linked_list.c point to nodes or NULL, and *)
(* linked_list_length counts no further than there are nodes.              *)
(***************************************************************************)
THEOREM TypeCorrect == Spec => []TypeOK
BY InvHolds, InvIsType, PTL

(***************************************************************************)
(* No operation of linked_list.c, no round of the expiry loop of the       *)
(* bootstrap server and no reader follows a pointer to a freed node, and   *)
(* nothing is freed twice.                                                 *)
(***************************************************************************)
THEOREM NoFreedMemoryIsUsed == Spec => []NoUseAfterFree
<1>1. ListInv => NoUseAfterFree
  BY DEF ListInv, NoUseAfterFree
<1> QED
  BY <1>1, InvHolds, PTL

(***************************************************************************)
(* Between calls every node and every datum is in the list, was freed, or  *)
(* was lost by a name lookup that failed in the expiry loop; after         *)
(* linked_list_destroy none is in the list.                                *)
(***************************************************************************)
THEOREM MemoryIsAccountedFor == Spec => []NothingLeaks
<1>1. ListInv => NothingLeaks
  <2> SUFFICES ASSUME ListInv, w.pc = "idle"
               PROVE  /\ Cardinality(live \ lost)
                           = (IF list = "live" THEN Len(Nodes) ELSE 0)
                      /\ Data = held \cup freed \cup {node[n].data : n \in lost}
                           \cup (IF list = "live" THEN ToSet(ContentData) ELSE {})
    BY DEF NothingLeaks
  <2>1. /\ Len(Nodes) \in Nat /\ Nodes \in Seq(Node)
        /\ \A i, j \in 1..Len(Nodes) : Nodes[i] = Nodes[j] => i = j
    BY DEF ListInv, IsList
  <2>2. /\ live \ lost = Linked
        /\ list # "live" => Len(Nodes) = 0
    BY DEF ListInv, NodesAreOwned, WriterPlace
  <2>3. Cardinality(Linked) = Len(Nodes)
    <3>1. [i \in 1..Len(Nodes) |-> Nodes[i]] \in Bijection(1..Len(Nodes), Linked)
      BY <2>1 DEF Linked, Bijection, Injection, Surjection, IsInjective
    <3>2. IsFiniteSet(1..Len(Nodes)) /\ Cardinality(1..Len(Nodes)) = Len(Nodes)
      <4>1. /\ 1 \in Int /\ Len(Nodes) \in Int /\ Len(Nodes) >= 0
        BY <2>1
      <4>2. /\ IsFiniteSet(1..Len(Nodes))
            /\ Cardinality(1..Len(Nodes))
                 = IF 1 > Len(Nodes) THEN 0 ELSE Len(Nodes) - 1 + 1
        BY <4>1, FS_Interval
      <4> QED
        BY <4>1, <4>2
    <3>3. ExistsBijection(1..Len(Nodes), Linked)
      BY <3>1 DEF ExistsBijection
    <3> QED
      BY <3>2, <3>3, FS_Bijection
  <2>4. ToSet(ContentData) = {node[n].data : n \in Linked}
    <3>1. /\ Len(ContentData) = Len(Nodes)
          /\ \A i \in 1..Len(Nodes) : ContentData[i] = node[Nodes[i]].data
      BY ContentIsData DEF DataAt
    <3> QED
      BY <3>1 DEF ToSet, Linked
  <2>5. list # "live" => Linked = {}
    BY <2>2 DEF Linked
  <2>6. Data = held \cup freed \cup {node[n].data : n \in Linked \cup lost}
    BY DEF ListInv, DataIsOwned
  <2>7. {node[n].data : n \in Linked \cup lost}
          = {node[n].data : n \in lost} \cup {node[n].data : n \in Linked}
    OBVIOUS
  <2> QED
    BY <2>2, <2>3, <2>4, <2>5, <2>6, <2>7
<1> QED
  BY <1>1, InvHolds, PTL

(***************************************************************************)
(* blockchain_serialize, walking a list that the miner appends to, copies  *)
(* a beginning of the list that has all that was there at the start, and   *)
(* the count it wrote first is no more than what follows.                  *)
(***************************************************************************)
THEOREM ReaderSeesAWholeList == Spec => []ReaderSeesTheList
<1>1. ListInv => ReaderSeesTheList
  <2> SUFFICES ASSUME ListInv, r.pc = "done"
               PROVE  /\ IsPrefix(r.start, r.copied)
                      /\ IsPrefix(r.copied, ContentData)
                      /\ r.count \in Len(r.start)..Len(r.copied)
    BY DEF ReaderSeesTheList
  <2>1. /\ Len(r.start) <= r.count /\ r.count <= Len(r.copied)
        /\ IsStart(r.start) /\ IsStart(r.copied)
        /\ r.start \in Seq(Data) /\ r.copied \in Seq(Data) /\ r.count \in Nat
    BY DEF ListInv, ReaderPlace, LocalsOK
  <2>2. /\ ContentData \in Seq(Data) /\ Len(ContentData) = Len(Nodes)
        /\ \A i \in 1..Len(Nodes) : ContentData[i] = DataAt(i)
    BY ContentIsData
  <2> HIDE DEF ContentData
  <2>3. ASSUME NEW s \in Seq(Data), NEW t \in Seq(Data), Len(s) <= Len(t),
               \A i \in 1..Len(s) : s[i] = t[i]
        PROVE  IsPrefix(s, t)
    <3>1. SubSeq(t, 1, Len(s)) = s
      <4>1. /\ SubSeq(t, 1, Len(s)) \in Seq(Data)
            /\ Len(SubSeq(t, 1, Len(s))) = Len(s)
            /\ \A i \in 1..Len(s) : SubSeq(t, 1, Len(s))[i] = t[i]
        BY <2>3
      <4> QED
        BY <2>3, <4>1, SeqEqual
    <3>2. SubSeq(s, 1, Len(s)) = s
      <4>1. /\ SubSeq(s, 1, Len(s)) \in Seq(Data)
            /\ Len(SubSeq(s, 1, Len(s))) = Len(s)
            /\ \A i \in 1..Len(s) : SubSeq(s, 1, Len(s))[i] = s[i]
        BY <2>3
      <4> QED
        BY <2>3, <4>1, SeqEqual
    <3> QED
      BY <2>3, <3>1, <3>2 DEF IsPrefix
  <2>4. IsPrefix(r.start, r.copied)
    <3>1. \A i \in 1..Len(r.start) : r.start[i] = r.copied[i]
      <4>1. \A i \in 1..Len(r.start) : i \in 1..Len(r.copied)
        BY <2>1
      <4> QED
        BY <2>1, <4>1 DEF IsStart
    <3> QED
      BY <2>1, <2>3, <3>1
  <2>5. IsPrefix(r.copied, ContentData)
    <3>1. /\ \A i \in 1..Len(r.copied) : r.copied[i] = ContentData[i]
          /\ Len(r.copied) <= Len(ContentData)
      <4>1. Len(r.copied) <= Len(Nodes) /\ Len(Nodes) \in Nat
        BY <2>1, NextOf DEF IsStart
      <4>2. \A i \in 1..Len(r.copied) : i \in 1..Len(Nodes)
        BY <2>1, <4>1
      <4> QED
        BY <2>1, <2>2, <4>1, <4>2 DEF IsStart
    <3> QED
      BY <2>1, <2>2, <2>3, <3>1
  <2> QED
    BY <2>1, <2>4, <2>5
<1> QED
  BY <1>1, InvHolds, PTL

-----------------------------------------------------------------------------
(***************************************************************************)
(* The operations on nodes implement the operations on sequences.          *)
(***************************************************************************)
\* A step that leaves the contents and the call alone is none of ListSpec.
LEMMA IsStutter ==
  ASSUME list' = list, ContentData' = ContentData, w'.op = w.op,
         w'.data = w.data, w'.stale = w.stale, w'.result = w.result
  PROVE  UNCHANGED Abstract!vars
BY DEF Abstract!vars

\* The call under way returns res.
LEMMA IsResult ==
  ASSUME ListInv, w.pc \notin {"idle", "return"},
         NEW res \in Result \ {"pending"}, Return(res)
  PROVE  /\ Abstract!Result(res)
         /\ \A op : w.op = op => Abstract!Doing(op)
<1>1. /\ w'.result = res /\ w'.op = w.op /\ w'.data = w.data
      /\ w'.stale = w.stale
  BY ReturnFields
<1>2. w.result = "pending"
  BY DEF ListInv, WriterPlace
<1> QED
  BY <1>1, <1>2 DEF Abstract!Result, Abstract!Doing, Abstract!Pending

\* Steps that change no node leave the contents alone.
LEMMA SameContents ==
  ASSUME UNCHANGED <<head, node>>
  PROVE  ContentData' = ContentData
BY DEF ContentData, Nodes

\* The caller of a list calls an operation of ListSpec.
LEMMA CallStep ==
  ASSUME ListInv, Call
  PROVE  Abstract!Call
<1>1. w = Rest /\ UNCHANGED <<list, head, node>>
  BY DEF ListInv, WriterPlace, Call, CallCreate, CallAppend, CallOther, heapVars
<1>2. ContentData' = ContentData
  BY <1>1, SameContents
<1>3. \A d \in held : d \in Data \ ToSet(ContentData)
  <2>1. \A i \in 1..Len(ContentData) : ContentData[i] \notin held
    <3>1. /\ Len(ContentData) = Len(Nodes)
          /\ \A i \in 1..Len(Nodes) : /\ Nodes[i] \in Linked
                                      /\ ContentData[i] = DataAt(i)
      BY ContentIsData, NextOf
    <3>2. \A n \in Linked : node[n].data \notin held
      BY DEF ListInv, DataIsOwned
    <3> QED
      BY <3>1, <3>2 DEF DataAt
  <2>2. held \subseteq Data
    BY DEF ListInv, HeapOK
  <2> QED
    BY <2>1, <2>2 DEF ToSet
<1>4. ASSUME NEW op, NEW pc, NEW data, NEW stale, NEW ptr,
             Begin(op, pc, data, stale, ptr),
             op \in IF list = "live" THEN Abstract!Op \ {"create"}
                    ELSE {"create"},
             [data |-> data, stale |-> stale] \in Abstract!Arguments(op)
      PROVE  Abstract!Call
  <2>1. /\ w'.op = op /\ w'.data = data /\ w'.stale = stale
        /\ w'.result = "pending"
    BY <1>4 DEF Begin, Rest
  <2>2. [op |-> w.op, data |-> w.data, stale |-> w.stale, result |-> w.result]
          = Abstract!Idle
    BY <1>1 DEF Rest, Abstract!Idle
  <2>3. (list = "live")' = (list = "live")
    BY <1>1
  <2> DEFINE a == [data |-> data, stale |-> stale]
  <2>4. [op |-> w'.op, data |-> w'.data, stale |-> w'.stale,
         result |-> w'.result]
          = [op |-> op, data |-> a.data, stale |-> a.stale,
             result |-> Abstract!Pending]
    BY <2>1 DEF Abstract!Pending
  <2> HIDE DEF a
  <2> QED
    BY <1>2, <1>4, <2>2, <2>3, <2>4 DEF Abstract!Call, a
<1>5. CASE CallCreate
  <2>1. /\ list = "none" /\ Begin("create", "create", Null, {}, Null)
    BY <1>5 DEF CallCreate
  <2>2. [data |-> Null, stale |-> {}] \in Abstract!Arguments("create")
    BY DEF Abstract!Arguments
  <2> QED
    BY <1>4, <2>1, <2>2
<1>6. ASSUME NEW d \in held
      PROVE  /\ [data |-> d, stale |-> {}] \in Abstract!Arguments("append")
             /\ [data |-> d, stale |-> {}] \in Abstract!Arguments("prepend")
  <2>1. d \in Data \ Abstract!ToSet(ContentData)
    BY <1>3 DEF ToSet, Abstract!ToSet
  <2> QED
    BY <2>1 DEF Abstract!Arguments
<1>7. CASE CallAppend
  <2>1. list = "live"
    BY <1>7 DEF CallAppend
  <2>2. PICK d \in held : Begin("append", "append", d, {}, Null)
    BY <1>7 DEF CallAppend
  <2>3. "append" \in Abstract!Op \ {"create"}
    BY DEF Abstract!Op
  <2> QED
    BY <1>4, <1>6, <2>1, <2>2, <2>3
<1>8. CASE CallOther
  <2>1. list = "live"
    BY <1>8 DEF CallOther
  <2>2. /\ {"prepend", "remove_first", "find", "expire", "destroy"}
             \subseteq Abstract!Op \ {"create"}
    BY DEF Abstract!Op
  <2>3. CASE \E d \in held : Begin("prepend", "alloc", d, {}, Null)
    BY <1>4, <1>6, <2>1, <2>2, <2>3
  <2>4. CASE Begin("remove_first", "remove_first", Null, {}, Null)
    <3>1. [data |-> Null, stale |-> {}] \in Abstract!Arguments("remove_first")
      BY DEF Abstract!Arguments
    <3> QED
      BY <1>4, <2>1, <2>2, <2>4, <3>1
  <2>5. CASE \E d \in Data : Begin("find", "find", d, {}, head)
    <3>1. \A d \in Data :
            [data |-> d, stale |-> {}] \in Abstract!Arguments("find")
      BY DEF Abstract!Arguments
    <3> QED
      BY <1>4, <2>1, <2>2, <2>5, <3>1
  <2>6. CASE \E u \in SUBSET Data : Begin("expire", "expire", Null, u, head)
    <3>1. \A u \in SUBSET Data :
            [data |-> Null, stale |-> u] \in Abstract!Arguments("expire")
      BY DEF Abstract!Arguments
    <3> QED
      BY <1>4, <2>1, <2>2, <2>6, <3>1
  <2>7. CASE Begin("destroy", "destroy", Null, {}, Null)
    <3>1. [data |-> Null, stale |-> {}] \in Abstract!Arguments("destroy")
      BY DEF Abstract!Arguments
    <3> QED
      BY <1>4, <2>1, <2>2, <2>7, <3>1
  <2> QED
    BY <1>8, <2>3, <2>4, <2>5, <2>6, <2>7 DEF CallOther
<1> QED
  BY <1>5, <1>7, <1>8 DEF Call

\* Insertion: the datum becomes the first or the last of the contents.
LEMMA LinkStep ==
  ASSUME ListInv, Link
  PROVE  Abstract!Insert
<1>1. /\ w.pc = "link" /\ list' = list /\ Return("SUCCESS")
      /\ node[w.new].data = w.data /\ w.new \in Node
  BY DEF Link, ListInv, WriterPlace, NodesAreOwned
<1>2. w.data \in Data
  BY <1>1 DEF ListInv, DataIsOwned, HeapOK
<1>3. "SUCCESS" \in Result \ {"pending"}
  BY DEF Result
<1>4. /\ Abstract!Result("SUCCESS")
      /\ \A op : w.op = op => Abstract!Doing(op)
  BY <1>1, <1>3, IsResult
<1>5. /\ Len(Nodes') = Len(Nodes) + 1
      /\ \A n \in Node : node'[n].data = node[n].data
      /\ \/ /\ w.op = "append" /\ Nodes' = Append(Nodes, w.new)
         \/ /\ w.op = "prepend" /\ Nodes' = Before(w.new, Nodes)
  BY LinkGrows
<1>6. /\ Nodes \in Seq(Node) /\ Len(Nodes) \in Nat
      /\ \A i \in 1..Len(Nodes) : Nodes[i] \in Node
  BY NextOf
<1>7. /\ ContentData \in Seq(Data) /\ Len(ContentData) = Len(Nodes)
      /\ \A i \in 1..Len(Nodes) : ContentData[i] = node[Nodes[i]].data
  BY ContentIsData DEF DataAt
<1>8. ContentData' = [k \in 1..(Len(Nodes) + 1) |-> node'[Nodes'[k]].data]
  BY <1>5 DEF ContentData
<1>9. (list = "live")' = (list = "live")
  BY <1>1
<1>10. CASE w.op = "append" /\ Nodes' = Append(Nodes, w.new)
  <2>1. /\ \A i \in 1..Len(Nodes) : Nodes'[i] = Nodes[i]
        /\ Nodes'[Len(Nodes) + 1] = w.new
    BY <1>1, <1>6, <1>10
  <2>2. ContentData' = Append(ContentData, w.data)
    <3> DEFINE c == ContentData
               d == [k \in 1..(Len(Nodes) + 1) |-> node'[Nodes'[k]].data]
    <3>1. /\ Append(c, w.data) \in Seq(Data)
          /\ Len(Append(c, w.data)) = Len(Nodes) + 1
          /\ \A i \in 1..Len(Nodes) : Append(c, w.data)[i] = node[Nodes[i]].data
          /\ Append(c, w.data)[Len(Nodes) + 1] = w.data
      BY <1>2, <1>6, <1>7
    <3>2. \A i \in 1..(Len(Nodes) + 1) :
            /\ node'[Nodes'[i]].data = Append(c, w.data)[i]
            /\ Append(c, w.data)[i] \in Data
      <4>1. \A i \in 1..(Len(Nodes) + 1) :
              i \in 1..Len(Nodes) \/ i = Len(Nodes) + 1
        BY <1>6
      <4>2. \A i \in 1..Len(Nodes) : /\ node[Nodes[i]].data \in Data
                                    /\ node'[Nodes'[i]].data = node[Nodes[i]].data
        BY <1>5, <1>6, <1>7, <2>1
      <4>3. node'[Nodes'[Len(Nodes) + 1]].data = w.data
        BY <1>1, <1>5, <2>1
      <4> QED
        BY <1>2, <3>1, <4>1, <4>2, <4>3
    <3>3. d \in Seq(Data) /\ Len(d) = Len(Nodes) + 1
      <4> DEFINE a == Append(c, w.data)
      <4>1. \A i \in 1..(Len(Nodes) + 1) :
              node'[Nodes'[i]].data = a[i] /\ a[i] \in Data
        BY <3>2
      <4> HIDE DEF a
      <4>2. \A i \in 1..(Len(Nodes) + 1) : node'[Nodes'[i]].data \in Data
        BY <4>1
      <4>3. Len(Nodes) + 1 \in Nat
        BY <1>6
      <4> QED
        BY <4>2, <4>3
    <3>4. \A i \in 1..Len(d) : d[i] = Append(c, w.data)[i]
      BY <3>2, <3>3
    <3> HIDE DEF c, d
    <3>5. d = Append(c, w.data)
      BY <3>1, <3>3, <3>4, SeqEqual
    <3> QED
      BY <1>8, <3>5 DEF c, d
  <2>3. ContentData' = Append(ContentData,
             [op |-> w.op, data |-> w.data, stale |-> w.stale,
              result |-> w.result].data)
    BY <2>2
  <2> QED
    BY <1>4, <1>9, <1>10, <2>3 DEF Abstract!Insert
<1>11. CASE w.op = "prepend" /\ Nodes' = Before(w.new, Nodes)
  <2>1. \A k \in 1..(Len(Nodes) + 1) :
          Nodes'[k] = IF k = 1 THEN w.new ELSE Nodes[k - 1]
    BY <1>11 DEF Before
  <2>2. ContentData' = Before(w.data, ContentData)
    <3>1. ASSUME NEW k \in 1..(Len(Nodes) + 1)
          PROVE  node'[Nodes'[k]].data
                   = IF k = 1 THEN w.data ELSE ContentData[k - 1]
      <4>1. k # 1 => k - 1 \in 1..Len(Nodes)
        BY <1>6
      <4> QED
        BY <1>1, <1>5, <1>6, <1>7, <2>1, <4>1
    <3> QED
      BY <1>7, <1>8, <3>1 DEF Before
  <2>3. ContentData' = <<[op |-> w.op, data |-> w.data, stale |-> w.stale,
                          result |-> w.result].data>> \o ContentData
    <3>1. <<w.data>> \o ContentData = Before(w.data, ContentData)
      BY <1>2, <1>7, BeforeIsConcat
    <3> QED
      BY <2>2, <3>1
  <2> QED
    BY <1>4, <1>9, <1>11, <2>3 DEF Abstract!Insert
<1> QED
  BY <1>5, <1>10, <1>11

\* Removal: the contents lose the datum of the node that was unlinked.
LEMMA RemovalStep ==
  ASSUME ListInv, NEW i \in 1..Len(Nodes),
         IsList(Without(Nodes, i), head', node'),
         \A n \in Node : node'[n].data = node[n].data
  PROVE  /\ ContentData' = RemoveAt(ContentData, i)
         /\ i = 1 => ContentData' = Tail(ContentData)
<1>1. /\ Len(Nodes') = Len(Nodes) - 1
      /\ \A k \in 1..(Len(Nodes) - 1) :
           Nodes'[k] = IF k < i THEN Nodes[k] ELSE Nodes[k + 1]
  BY NodesWithout
<1>2. /\ Len(Nodes) \in Nat /\ \A k \in 1..Len(Nodes) : Nodes[k] \in Node
  BY NextOf
<1>3. /\ ContentData \in Seq(Data) /\ Len(ContentData) = Len(Nodes)
      /\ \A k \in 1..Len(Nodes) : ContentData[k] = node[Nodes[k]].data
  BY ContentIsData DEF DataAt
<1>4. ContentData' = [k \in 1..(Len(Nodes) - 1) |-> node'[Nodes'[k]].data]
  BY <1>1 DEF ContentData
<1>5. ASSUME NEW k \in 1..(Len(Nodes) - 1)
      PROVE  node'[Nodes'[k]].data
               = IF k < i THEN ContentData[k] ELSE ContentData[k + 1]
  <2>1. k \in 1..Len(Nodes) /\ k + 1 \in 1..Len(Nodes)
    BY <1>2
  <2> QED
    BY <1>1, <1>2, <1>3, <2>1
<1>6. ContentData' = Without(ContentData, i)
  BY <1>3, <1>4, <1>5 DEF Without
<1>7. /\ RemoveAt(ContentData, i) = Without(ContentData, i)
      /\ Tail(ContentData) = Without(ContentData, 1)
  BY <1>3, WithoutIsRemoveAt
<1> QED
  BY <1>6, <1>7

\* linked_list_remove_first and linked_list_destroy.
LEMMA RemoveFirstStep ==
  ASSUME ListInv, linked_list_remove_first \/ linked_list_destroy
  PROVE  Abstract!TakeFirst \/ Abstract!Destroy
<1>1. /\ Len(Nodes) \in Nat /\ head = IF Len(Nodes) = 0 THEN Null ELSE Nodes[1]
      /\ \A k \in 1..Len(Nodes) : Nodes[k] # Null
      /\ ContentData \in Seq(Data) /\ Len(ContentData) = Len(Nodes)
  BY NextOf, ContentIsData DEF At
<1>2. head = Null <=> ContentData = <<>>
  BY <1>1
<1>3. head # Null => /\ 1 \in 1..Len(Nodes)
                     /\ IsList(Without(Nodes, 1), head', node')
                     /\ node' = node
  <2>1. head # Null => node' = node /\ 1 \in 1..Len(Nodes)
    BY <1>1 DEF linked_list_remove_first, linked_list_destroy
  <2> QED
    BY <2>1, RemoveFirstInv
<1>4. head # Null => ContentData' = Tail(ContentData)
  <2> SUFFICES ASSUME head # Null PROVE ContentData' = Tail(ContentData)
    OBVIOUS
  <2>1. /\ 1 \in 1..Len(Nodes) /\ IsList(Without(Nodes, 1), head', node')
        /\ \A n \in Node : node'[n].data = node[n].data
    BY <1>3
  <2> QED
    BY <2>1, RemovalStep
<1>5. {"SUCCESS", "FAILURE_LINKED_LIST_EMPTY"} \subseteq Result \ {"pending"}
  BY DEF Result
<1>6. /\ w.pc \in {"remove_first", "destroy"} => w.op = w.pc
      /\ w.pc \in {"remove_first", "destroy"} => w.result = "pending"
      /\ w.pc \in {"remove_first", "destroy"} => list = "live"
  BY DEF ListInv, WriterPlace
<1>7. CASE linked_list_remove_first
  <2>1. w.pc = "remove_first" /\ list' = list
    BY <1>7 DEF linked_list_remove_first, heapVars
  <2>2. (list = "live")' = (list = "live")
    BY <2>1
  <2>3. CASE head = Null
    <3>1. Return("FAILURE_LINKED_LIST_EMPTY") /\ UNCHANGED <<head, node>>
      BY <1>7, <2>3 DEF linked_list_remove_first, heapVars
    <3>2. /\ Abstract!Result("FAILURE_LINKED_LIST_EMPTY")
          /\ Abstract!Doing("remove_first")
      BY <1>5, <1>6, <2>1, <3>1, IsResult
    <3>3. ContentData' = ContentData
      BY <3>1, SameContents
    <3> QED
      BY <1>2, <2>2, <2>3, <3>2, <3>3 DEF Abstract!TakeFirst
  <2>4. CASE head # Null
    <3>1. Return("SUCCESS")
      BY <1>7, <2>4 DEF linked_list_remove_first
    <3>2. Abstract!Result("SUCCESS") /\ Abstract!Doing("remove_first")
      BY <1>5, <1>6, <2>1, <3>1, IsResult
    <3> QED
      BY <1>2, <1>4, <2>2, <2>4, <3>2 DEF Abstract!TakeFirst
  <2> QED
    BY <2>3, <2>4
<1>8. CASE linked_list_destroy
  <2>1. w.pc = "destroy"
    BY <1>8 DEF linked_list_destroy
  <2>2. CASE head = Null
    <3>1. Return("SUCCESS") /\ UNCHANGED <<head, node>> /\ list' = "freed"
      BY <1>8, <2>2 DEF linked_list_destroy
    <3>2. /\ Abstract!Result("SUCCESS")
          /\ Abstract!Doing("destroy")
      BY <1>5, <1>6, <2>1, <3>1, IsResult
    <3>3. ContentData' = ContentData
      BY <3>1, SameContents
    <3>4. (list = "live")' = FALSE
      BY <3>1
    <3> QED
      BY <1>2, <2>2, <3>2, <3>3, <3>4 DEF Abstract!Destroy
  <2>3. CASE head # Null
    <3>1. w' = w /\ list' = list
      BY <1>8, <2>3 DEF linked_list_destroy
    <3>2. Abstract!Doing("destroy")
      BY <1>6, <2>1 DEF Abstract!Doing, Abstract!Pending
    <3> QED
      BY <1>2, <1>4, <2>3, <3>1, <3>2 DEF Abstract!Destroy
  <2> QED
    BY <2>2, <2>3
<1> QED
  BY <1>7, <1>8

\* linked_list_find returns what it has found, or has seen the whole list.
LEMMA FindStep ==
  ASSUME ListInv, linked_list_find
  PROVE  Abstract!Find \/ UNCHANGED Abstract!vars
<1> DEFINE matches == {i \in 1..Len(ContentData) :
                         Key(ContentData[i]) = Key(w.data)}
<1>1. /\ w.pc = "find" /\ w.op = "find" /\ UNCHANGED <<list, head, node>>
  BY DEF linked_list_find, ListInv, WriterPlace
<1>2. ContentData' = ContentData /\ (list = "live")' = (list = "live")
  BY <1>1, SameContents
<1>3. PICK i \in 1..(Len(Nodes) + 1) :
        /\ w.ptr = At(i)
        /\ \A j \in 1..(i - 1) : Key(DataAt(j)) # Key(w.data)
  BY <1>1 DEF ListInv, WriterPlace
<1>4. /\ Len(Nodes) \in Nat /\ Len(ContentData) = Len(Nodes)
      /\ \A k \in 1..Len(Nodes) : /\ ContentData[k] = DataAt(k)
                                  /\ DataAt(k) \in Data /\ Nodes[k] # Null
  BY NextOf, ContentIsData
<1>5. ASSUME NEW res \in Result \ {"pending"}, Return(res),
             IF matches = {} THEN res = Null
             ELSE \E k \in matches : /\ \A j \in matches : k <= j
                                     /\ res = ContentData[k]
      PROVE  Abstract!Find
  <2>1. Abstract!Result(res) /\ Abstract!Doing("find")
    BY <1>1, <1>5, IsResult
  <2> DEFINE call == [op |-> w.op, data |-> w.data, stale |-> w.stale,
                      result |-> w.result]
  <2>2. matches = {k \in 1..Len(ContentData) :
                     Key(ContentData[k]) = Key(call.data)}
    OBVIOUS
  <2> HIDE DEF matches
  <2>3. IF matches = {} THEN Abstract!Result(Null)
        ELSE \E k \in matches : /\ \A j \in matches : k <= j
                                /\ Abstract!Result(ContentData[k])
    BY <1>5, <2>1
  <2> QED
    BY <1>2, <2>1, <2>2, <2>3 DEF Abstract!Find
<1>6. CASE w.ptr = Null
  <2>1. Return(Null) /\ Null \in Result \ {"pending"}
    BY <1>6, LinkedListAssumption DEF linked_list_find, Result
  <2>2. i = Len(Nodes) + 1
    BY <1>3, <1>4, <1>6 DEF At
  <2>3. matches = {}
    BY <1>3, <1>4, <2>2
  <2> QED
    BY <1>5, <2>1, <2>3
<1>7. CASE w.ptr # Null
  <2>1. /\ i \in 1..Len(Nodes) /\ w.ptr = Nodes[i]
        /\ node[w.ptr].data = DataAt(i)
    BY <1>3, <1>4, <1>7 DEF At, DataAt
  <2>2. CASE Key(node[w.ptr].data) = Key(w.data)
    <3>1. Return(DataAt(i))
      BY <1>7, <2>1, <2>2 DEF linked_list_find
    <3>2. DataAt(i) \in Result \ {"pending"}
      BY <1>4, <2>1, LinkedListAssumption DEF Result
    <3>3. i \in matches /\ DataAt(i) = ContentData[i]
      BY <1>4, <2>1, <2>2
    <3>4. \A j \in matches : i <= j
      BY <1>3, <1>4, <2>1
    <3>5. matches # {}
      BY <3>3
    <3> HIDE DEF matches
    <3> QED
      BY <1>5, <3>1, <3>2, <3>3, <3>4, <3>5
  <2>3. CASE Key(node[w.ptr].data) # Key(w.data)
    <3>1. w' = [w EXCEPT !.ptr = node[w.ptr].next]
      BY <1>7, <2>3 DEF linked_list_find
    <3>2. /\ w'.op = w.op /\ w'.data = w.data /\ w'.stale = w.stale
          /\ w'.result = w.result
      BY <3>1 DEF ListInv, LocalsOK
    <3> QED
      BY <1>1, <1>2, <3>2, IsStutter
  <2> QED
    BY <2>2, <2>3
<1> QED
  BY <1>6, <1>7

\* The expiry loop: the removals are of the earliest stale datum each time,
\* and when the loop ends there is none left.
LEMMA ExpireStep ==
  ASSUME ListInv, ExpireRemoves \/ ExpireLoses \/ ExpireEnds
  PROVE  Abstract!Expire
<1> DEFINE stale == {i \in 1..Len(ContentData) : ContentData[i] \in w.stale}
           call == [op |-> w.op, data |-> w.data, stale |-> w.stale,
                    result |-> w.result]
<1>1. /\ w.pc = "expire" /\ w.op = "expire" /\ list' = list
      /\ w.result = "pending"
  BY DEF ListInv, WriterPlace, ExpireRemoves, ExpireLoses, ExpireEnds, heapVars
<1>2. (list = "live")' = (list = "live") /\ Abstract!Doing("expire")
  BY <1>1 DEF Abstract!Doing, Abstract!Pending
<1>3. /\ Len(Nodes) \in Nat /\ Len(ContentData) = Len(Nodes)
      /\ \A k \in 1..Len(Nodes) : /\ ContentData[k] = DataAt(k)
                                  /\ Nodes[k] # Null
  BY NextOf, ContentIsData
<1>4. stale = {i \in 1..Len(ContentData) : ContentData[i] \in call.stale}
  OBVIOUS
<1>5. CASE ExpireEnds
  <2>1. w.ptr = Null /\ Return("SUCCESS") /\ UNCHANGED <<head, node>>
    BY <1>5 DEF ExpireEnds, heapVars
  <2>2. PICK i \in 1..(Len(Nodes) + 1) :
          /\ w.ptr = At(i)
          /\ \A j \in 1..(i - 1) : DataAt(j) \notin w.stale
    BY <1>1 DEF ListInv, WriterPlace
  <2>3. i = Len(Nodes) + 1
    BY <1>3, <2>1, <2>2 DEF At
  <2>4. stale = {}
    BY <1>3, <2>2, <2>3
  <2>5. "SUCCESS" \in Result \ {"pending"}
    BY DEF Result
  <2>6. Abstract!Result("SUCCESS")
    BY <1>1, <2>1, <2>5, IsResult
  <2>7. ContentData' = ContentData
    BY <2>1, SameContents
  <2> HIDE DEF stale
  <2> QED
    BY <1>2, <1>4, <2>4, <2>6, <2>7 DEF Abstract!Expire
<1>6. CASE ExpireRemoves \/ ExpireLoses
  <2>1. w.ptr # Null /\ Unlink /\ node[w.ptr].data \in w.stale
    BY <1>6 DEF ExpireRemoves, ExpireLoses
  <2>2. PICK i \in 1..Len(Nodes) :
           /\ w.ptr = Nodes[i]
           /\ w.prev = IF i = 1 THEN Null ELSE Nodes[i - 1]
           /\ \A j \in 1..(i - 1) : DataAt(j) \notin w.stale
    BY <1>1, <2>1, ExpirePosition
  <2>3. /\ IsList(Without(Nodes, i), head', node')
        /\ \A n \in Node : node'[n].data = node[n].data
    BY <2>1, <2>2, UnlinkRemoves
  <2>4. ContentData' = Abstract!RemoveAt(ContentData, i)
    <3>1. ContentData' = RemoveAt(ContentData, i)
      BY <2>3, RemovalStep
    <3> QED
      BY <3>1 DEF RemoveAt, Abstract!RemoveAt
  <2>5. i \in stale
    BY <1>3, <2>1, <2>2 DEF DataAt
  <2>6. \A j \in stale : i <= j
    BY <1>3, <2>2
  <2>7. UNCHANGED call \/ Abstract!Result("FAILURE_NETWORK_FUNCTION")
    <3>1. CASE ExpireRemoves
      <4>1. w' = AfterNode(w.prev, head')
        BY <3>1 DEF ExpireRemoves
      <4>2. /\ w'.op = w.op /\ w'.data = w.data /\ w'.stale = w.stale
            /\ w'.result = w.result
        BY <4>1 DEF AfterNode, ListInv, LocalsOK
      <4> QED
        BY <4>2
    <3>2. CASE ExpireLoses
      <4>1. "FAILURE_NETWORK_FUNCTION" \in Result \ {"pending"}
        BY DEF Result
      <4> QED
        BY <1>1, <3>2, <4>1, IsResult DEF ExpireLoses
    <3> QED
      BY <1>6, <3>1, <3>2
  <2>8. stale # {}
    BY <2>5
  <2> HIDE DEF stale
  <2> QED
    BY <1>2, <1>4, <2>4, <2>5, <2>6, <2>7, <2>8 DEF Abstract!Expire
<1> QED
  BY <1>5, <1>6

\* Every step of the pointer operations is one of ListSpec, or none.
LEMMA NextStep ==
  ASSUME ListInv, [Next]_vars
  PROVE  [Abstract!Next]_(Abstract!vars)
<1>1. w \in [pc: WriterPC, op: Abstract!Op \cup {"none"},
             data: Data \cup {Null}, stale: SUBSET Data, ptr: Pointer,
             prev: Pointer, new: Pointer, result: Result]
  BY DEF ListInv, LocalsOK
<1>2. CASE Call
  BY <1>2, CallStep DEF Abstract!Next
<1>3. CASE CallFails
  <2>1. /\ w.pc \in {"create", "alloc"} /\ Return("FAILURE_COULD_NOT_MALLOC")
        /\ UNCHANGED <<list, head, node>>
    BY <1>3 DEF CallFails, heapVars
  <2>2. w.op \in {"create", "prepend", "append"}
    BY <2>1 DEF ListInv, WriterPlace
  <2>3. "FAILURE_COULD_NOT_MALLOC" \in Result \ {"pending"}
    BY DEF Result
  <2>4. Abstract!Result("FAILURE_COULD_NOT_MALLOC") /\ Abstract!Doing(w.op)
    BY <2>1, <2>3, IsResult
  <2>5. ContentData' = ContentData /\ (list = "live")' = (list = "live")
    BY <2>1, SameContents
  <2>6. Abstract!Fail
    BY <2>2, <2>4, <2>5 DEF Abstract!Fail
  <2> QED
    BY <2>6 DEF Abstract!Next
<1>4. CASE linked_list_create
  <2>1. /\ w.pc = "create" /\ Return("SUCCESS") /\ list' = "live"
        /\ head' = Null /\ node' = node
    BY <1>4 DEF linked_list_create
  <2>2. w.op = "create" /\ Nodes = <<>>
    BY <2>1 DEF ListInv, WriterPlace
  <2>3. head = Null
    BY <2>2, NextOf DEF At
  <2>4. "SUCCESS" \in Result \ {"pending"}
    BY DEF Result
  <2>5. Abstract!Result("SUCCESS") /\ Abstract!Doing("create")
    BY <2>1, <2>2, <2>4, IsResult
  <2>6. ContentData' = ContentData /\ (list = "live")' = TRUE
    BY <2>1, <2>3, SameContents
  <2>7. Abstract!Create
    BY <2>5, <2>6 DEF Abstract!Create
  <2> QED
    BY <2>7 DEF Abstract!Next
<1>5. CASE linked_list_append \/ linked_list_get_last \/ ExpireKeeps
  <2>1. UNCHANGED <<list, head, node>>
    BY <1>5 DEF linked_list_append, linked_list_get_last, ExpireKeeps, heapVars
  <2>2. /\ w'.op = w.op /\ w'.data = w.data /\ w'.stale = w.stale
        /\ w'.result = w.result
    BY <1>1, <1>5 DEF linked_list_append, linked_list_get_last, ExpireKeeps,
       AfterNode
  <2> QED
    BY <2>1, <2>2, SameContents, IsStutter
<1>6. CASE Allocate
  <2>1. PICK n \in Fresh :
          /\ node' = [node EXCEPT ![n] =
                        [data |-> w.data,
                         next |-> IF w.ptr = Null THEN head ELSE Null]]
          /\ w' = [w EXCEPT !.pc = "link", !.new = n]
    BY <1>6 DEF Allocate
  <2>2. head' = head /\ list' = list /\ n \notin Linked
    BY <1>6, <2>1 DEF Allocate, Fresh, ListInv, NodesAreOwned
  <2>3. \A i \in 1..Len(Nodes) : node'[Nodes[i]] = node[Nodes[i]]
    <3>1. \A i \in 1..Len(Nodes) : Nodes[i] \in Node /\ Nodes[i] # n
      BY <2>2, NextOf
    <3>2. node \in [Node -> [data: Data \cup {Null}, next: Pointer]]
      BY DEF ListInv, HeapOK
    <3> QED
      BY <2>1, <3>1, <3>2
  <2>4. Nodes' = Nodes
    <3>1. IsList(Nodes, head, node)
      BY DEF ListInv
    <3>2. \A i \in 1..Len(Nodes) : node'[Nodes[i]].next = node[Nodes[i]].next
      BY <2>3
    <3>3. IsList(Nodes, head', node')
      BY <2>2, <3>1, <3>2, ListFrame
    <3> QED
      BY <3>3, FollowsList DEF Nodes
  <2>5. ContentData' = ContentData
    BY <2>3, <2>4 DEF ContentData
  <2>6. /\ w'.op = w.op /\ w'.data = w.data /\ w'.stale = w.stale
        /\ w'.result = w.result
    BY <1>1, <2>1
  <2> QED
    BY <2>2, <2>5, <2>6, IsStutter
<1>7. CASE Link
  BY <1>7, LinkStep DEF Abstract!Next
<1>8. CASE linked_list_remove_first \/ linked_list_destroy
  BY <1>8, RemoveFirstStep DEF Abstract!Next
<1>9. CASE linked_list_find
  BY <1>9, FindStep DEF Abstract!Next
<1>10. CASE ExpireRemoves \/ ExpireLoses \/ ExpireEnds
  BY <1>10, ExpireStep DEF Abstract!Next
<1>11. CASE CallReturns
  <2>1. w.pc = "return" /\ w' = Rest /\ UNCHANGED <<list, head, node>>
    BY <1>11 DEF CallReturns, heapVars
  <2>2. w.op # "none" /\ w.result # "pending"
    BY <2>1 DEF ListInv, WriterPlace
  <2>3. ContentData' = ContentData /\ (list = "live")' = (list = "live")
    BY <2>1, SameContents
  <2> DEFINE call == [op |-> w.op, data |-> w.data, stale |-> w.stale,
                      result |-> w.result]
  <2>4. call.op = w.op /\ call.result = w.result /\ Abstract!Idle.op = "none"
    BY DEF Abstract!Idle
  <2>5. call # Abstract!Idle /\ call.result # Abstract!Pending
    BY <2>2, <2>4 DEF Abstract!Pending
  <2>6. call' = Abstract!Idle
    BY <2>1 DEF Rest, Abstract!Idle
  <2>7. Abstract!Return
    BY <2>3, <2>5, <2>6 DEF Abstract!Return
  <2> QED
    BY <2>7 DEF Abstract!Next
<1>12. CASE ReadStart \/ ReaderNext
  <2>1. UNCHANGED <<list, head, node, w>>
    BY <1>12 DEF ReadStart, ReaderNext, linked_list_length, ReadCopy, ReadEnds,
       heapVars
  <2> QED
    BY <2>1, SameContents, IsStutter
<1>13. CASE UNCHANGED vars
  BY <1>13, SameContents, IsStutter DEF vars, heapVars
<1> QED
  BY <1>2, <1>3, <1>4, <1>5, <1>6, <1>7, <1>8, <1>9, <1>10, <1>11, <1>12, <1>13
  DEF Next, WriterNext

\* Before linked_list_create there is no list.
LEMMA InitStep == Init => Abstract!Init
<1> SUFFICES ASSUME Init PROVE Abstract!Init
  OBVIOUS
<1>1. IsList(<<>>, head, node)
  BY DEF Init, IsList
<1>2. Nodes = <<>>
  BY <1>1, FollowsList DEF Nodes
<1>3. ContentData = <<>>
  BY <1>2 DEF ContentData
<1>4. (list = "live") = FALSE
  BY DEF Init
<1>5. [op |-> w.op, data |-> w.data, stale |-> w.stale, result |-> w.result]
        = Abstract!Idle
  BY DEF Init, Rest, Abstract!Idle
<1> QED
  BY <1>3, <1>4, <1>5 DEF Abstract!Init

(***************************************************************************)
(* linked_list.c does what linked_list.h says on sequences: insertion,     *)
(* removal, search and the expiry loop, through pointers, are the steps of *)
(* ListSpec.                                                               *)
(***************************************************************************)
THEOREM ListIsASequence == Spec => ImplementsListSpec
<1>1. ListInv /\ [Next]_vars => [Abstract!Next]_(Abstract!vars)
  BY NextStep
<1> QED
  BY <1>1, InitStep, InvHolds, PTL DEF Spec, ImplementsListSpec, Abstract!Spec
=============================================================================
