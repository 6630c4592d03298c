----------------------------- MODULE LinkedList -----------------------------
(***************************************************************************)
(* linked_list.c at the level of nodes and pointers, with the loop of the  *)
(* bootstrap server that unlinks expired peers from the middle.            *)
(*                                                                         *)
(* One thread, the writer, calls the operations; every load of a pointer   *)
(* from the list in a loop is a step.  A list can also be read by another  *)
(* thread without a lock, as blockchain_serialize does with a chain that   *)
(* the miner appends to; such a list is only appended to.  A node is       *)
(* filled before it is linked: the stores reach the reader in that order.  *)
(* Addresses are not used again after free.                                *)
(***************************************************************************)
EXTENDS Integers, Sequences, FiniteSets, SequencesExt

CONSTANTS Node,         \* addresses for nodes; bound: how many there are
          Data,         \* what the caller can put in the list, once each
          Key(_),       \* equal keys: compare_function returns 0
          Null

\* What linked_list_find returns is not mistaken for a call under way.
ASSUME LinkedListAssumption ==
  /\ Null \notin Node /\ Null \notin Data
  /\ "pending" \notin Data \cup {Null}
  /\ IsFiniteSet(Node)

VARIABLES shared,   \* another thread reads the list
          list,     \* the linked_list_t: none, live or freed
          head,     \* linked_list->head
          node,     \* address -> data, next
          live,     \* nodes that are allocated
          held,     \* data the caller owns
          freed,    \* data passed to free_function
          lost,     \* nodes that were unlinked but not freed
          fault,    \* something freed was used or freed again
          w,        \* the writer: program counter, arguments and locals
          r         \* the reader: program counter and locals

heapVars == <<shared, list, head, node, live, held, freed, lost, fault>>
vars == <<heapVars, w, r>>

Pointer == Node \cup {Null}
Unfilled == [data |-> Null, next |-> Null]

Rest == [pc |-> "idle", op |-> "none", data |-> Null, stale |-> {},
         ptr |-> Null, prev |-> Null, new |-> Null, result |-> "none"]
NotReading == [pc |-> "idle", ptr |-> Null, count |-> 0, copied |-> <<>>,
               start |-> <<>>]

Init ==
  /\ shared \in BOOLEAN
  /\ list = "none" /\ head = Null
  /\ node = [n \in Node |-> Unfilled]
  /\ live = {} /\ lost = {}
  /\ held = Data /\ freed = {}
  /\ fault = FALSE
  /\ w = Rest /\ r = NotReading

\* The nodes from first on; as many as there are addresses, should they loop.
Follow(first, nodes) ==
  LET at[k \in 0..Cardinality(Node)] ==
        IF k = 0 THEN first
        ELSE IF at[k - 1] = Null THEN Null ELSE nodes[at[k - 1]].next
  IN  [k \in 1..Cardinality({i \in 0..Cardinality(Node) : at[i] # Null})
         |-> at[k - 1]]

Nodes == Follow(head, node)

ContentData == [k \in 1..Len(Nodes) |-> node[Nodes[k]].data]

\* No address of this list has been used yet.
Fresh == {n \in Node : n \notin live /\ node[n] = Unfilled}

TypeOK ==
  /\ shared \in BOOLEAN
  /\ list \in {"none", "live", "freed"}
  /\ head \in Pointer
  /\ node \in [Node -> [data: Data \cup {Null}, next: Pointer]]
  /\ live \subseteq Node /\ lost \subseteq live
  /\ held \subseteq Data /\ freed \subseteq Data
  /\ fault \in BOOLEAN
  /\ {w.ptr, w.prev, w.new, r.ptr} \subseteq Pointer
  /\ r.count \in 0..Cardinality(Node)
-----------------------------------------------------------------------------
Return(result) == w' = [w EXCEPT !.pc = "return", !.result = result]

\* A pointer is followed.
Use(n) == fault' = (fault \/ n \notin live)

\* malloc fails.
CallFails ==
  /\ w.pc \in {"create", "alloc"}
  /\ Return("FAILURE_COULD_NOT_MALLOC")
  /\ UNCHANGED <<heapVars, r>>

linked_list_create ==
  /\ w.pc = "create"
  /\ list' = "live" /\ head' = Null
  /\ Return("SUCCESS")
  /\ UNCHANGED <<shared, node, live, held, freed, lost, fault, r>>

\* Begins with is_empty: if so, the rest is linked_list_prepend.
linked_list_append ==
  /\ w.pc = "append"
  /\ w' = IF head = Null THEN [w EXCEPT !.pc = "alloc"]
          ELSE [w EXCEPT !.pc = "last", !.ptr = head]
  /\ UNCHANGED <<heapVars, r>>

linked_list_get_last ==
  /\ w.pc = "last"
  /\ Use(w.ptr)
  /\ w' = IF node[w.ptr].next = Null THEN [w EXCEPT !.pc = "alloc"]
          ELSE [w EXCEPT !.ptr = node[w.ptr].next]
  /\ UNCHANGED <<shared, list, head, node, live, held, freed, lost, r>>

\* The new node of prepend (ptr is Null) and append.
Allocate ==
  /\ w.pc = "alloc"
  /\ \E n \in Fresh :
       /\ live' = live \cup {n}
       /\ node' = [node EXCEPT ![n] =
                     [data |-> w.data,
                      next |-> IF w.ptr = Null THEN head ELSE Null]]
       /\ w' = [w EXCEPT !.pc = "link", !.new = n]
  /\ UNCHANGED <<shared, list, head, held, freed, lost, fault, r>>

\* Mutant: the new node is linked in front although there is a last one.
Link_Front ==
  /\ w.pc = "link"
  /\ head' = w.new
  /\ held' = held \ {w.data}
  /\ Return("SUCCESS")
  /\ UNCHANGED <<shared, list, node, live, freed, lost, fault, r>>

Link ==
  /\ w.pc = "link"
  /\ IF w.ptr = Null
     THEN head' = w.new /\ UNCHANGED <<node, fault>>
     ELSE /\ Use(w.ptr)
          /\ node' = [node EXCEPT ![w.ptr].next = w.new]
          /\ UNCHANGED head
  /\ held' = held \ {w.data}
  /\ Return("SUCCESS")
  /\ UNCHANGED <<shared, list, live, freed, lost, r>>

\* The node n has been unlinked with the help of the nodes in used: its data
\* and the node are freed.
Free(n, used) ==
  /\ fault' = (fault \/ ~(used \cup {n} \subseteq live)
                    \/ node[n].data \in freed)
  /\ freed' = freed \cup {node[n].data}
  /\ live' = live \ {n}

\* get_first fails on an empty list.
linked_list_remove_first ==
  /\ w.pc = "remove_first"
  /\ IF head = Null
     THEN Return("FAILURE_LINKED_LIST_EMPTY") /\ UNCHANGED heapVars
     ELSE /\ head' = node[head].next
          /\ Free(head, {})
          /\ Return("SUCCESS")
          /\ UNCHANGED <<shared, list, node, held, lost>>
  /\ UNCHANGED r

linked_list_find ==
  /\ w.pc = "find"
  /\ IF w.ptr = Null THEN Return(Null) /\ UNCHANGED fault
     ELSE /\ Use(w.ptr)
          /\ IF Key(node[w.ptr].data) = Key(w.data)
             THEN Return(node[w.ptr].data)
             ELSE w' = [w EXCEPT !.ptr = node[w.ptr].next]
  /\ UNCHANGED <<shared, list, head, node, live, held, freed, lost, r>>

\* Mutant: the list is freed while it has one node left.
linked_list_destroy_Early ==
  /\ w.pc = "destroy"
  /\ IF head = Null \/ node[head].next = Null
     THEN /\ list' = "freed"
          /\ Return("SUCCESS")
          /\ UNCHANGED <<shared, head, node, live, held, freed, lost, fault>>
     ELSE /\ head' = node[head].next
          /\ Free(head, {})
          /\ UNCHANGED <<shared, list, node, held, lost, w>>
  /\ UNCHANGED r

\* remove_first until the list is empty, then the list itself.
linked_list_destroy ==
  /\ w.pc = "destroy"
  /\ IF head = Null
     THEN /\ list' = "freed"
          /\ Return("SUCCESS")
          /\ UNCHANGED <<shared, head, node, live, held, freed, lost, fault>>
     ELSE /\ head' = node[head].next
          /\ Free(head, {})
          /\ UNCHANGED <<shared, list, node, held, lost, w>>
  /\ UNCHANGED r
-----------------------------------------------------------------------------
(***************************************************************************)
(* The bootstrap server's loop over the list: "expire".                    *)
(***************************************************************************)
\* Mutants: a removed node stays prev; the loop does not move on.
AfterNode_Removed(kept, first) ==
  [w EXCEPT !.prev = w.ptr, !.ptr = node[w.ptr].next]
AfterNode_Stays(kept, first) ==
  IF kept = Null THEN [w EXCEPT !.ptr = first]
  ELSE [w EXCEPT !.prev = kept, !.ptr = kept]

\* kept: the node of this round, or if that was removed the one before it.
AfterNode(kept, first) ==
  IF kept = Null THEN [w EXCEPT !.ptr = first]
  ELSE [w EXCEPT !.prev = kept, !.ptr = node'[kept].next]

\* The node of this round is unlinked.
Unlink ==
  IF w.prev = Null
  THEN head' = node[w.ptr].next /\ UNCHANGED node
  ELSE node' = [node EXCEPT ![w.prev].next = node[w.ptr].next] /\ UNCHANGED head

ExpireEnds ==
  /\ w.pc = "expire" /\ w.ptr = Null
  /\ Return("SUCCESS")
  /\ UNCHANGED <<heapVars, r>>

ExpireKeeps ==
  /\ w.pc = "expire" /\ w.ptr # Null
  /\ node[w.ptr].data \notin w.stale
  /\ Use(w.ptr)
  /\ UNCHANGED <<head, node>>
  /\ w' = AfterNode(w.ptr, head)
  /\ UNCHANGED <<shared, list, live, held, freed, lost, r>>

ExpireRemoves ==
  /\ w.pc = "expire" /\ w.ptr # Null
  /\ node[w.ptr].data \in w.stale
  /\ Unlink
  /\ Free(w.ptr, {w.prev} \ {Null})
  /\ w' = AfterNode(w.prev, head')
  /\ UNCHANGED <<shared, list, held, lost, r>>

\* The name of the peer cannot be looked up: the handler returns between
\* unlinking the node and freeing it.
ExpireLoses ==
  /\ w.pc = "expire" /\ w.ptr # Null
  /\ node[w.ptr].data \in w.stale
  /\ Unlink
  /\ lost' = lost \cup {w.ptr}
  /\ Use(w.ptr)
  /\ Return("FAILURE_NETWORK_FUNCTION")
  /\ UNCHANGED <<shared, list, live, held, freed, r>>
-----------------------------------------------------------------------------
(***************************************************************************)
(* The writer's calls, and the reader.                                     *)
(***************************************************************************)
Begin(op, pc, data, stale, ptr) ==
  w' = [Rest EXCEPT !.pc = pc, !.op = op, !.data = data, !.stale = stale,
                    !.ptr = ptr, !.result = "pending"]

CallCreate ==
  /\ w.pc = "idle" /\ list = "none"
  /\ Begin("create", "create", Null, {}, Null)
  /\ UNCHANGED <<heapVars, r>>

CallAppend ==
  /\ w.pc = "idle" /\ list = "live" /\ Fresh # {}
  /\ \E d \in held : Begin("append", "append", d, {}, Null)
  /\ UNCHANGED <<heapVars, r>>

CallOther ==
  /\ w.pc = "idle" /\ list = "live" /\ ~shared
  /\ \/ Fresh # {} /\ \E d \in held : Begin("prepend", "alloc", d, {}, Null)
     \/ Begin("remove_first", "remove_first", Null, {}, Null)
     \/ \E d \in Data : Begin("find", "find", d, {}, head)
     \/ \E t \in SUBSET Data : Begin("expire", "expire", Null, t, head)
     \/ Begin("destroy", "destroy", Null, {}, Null)
  /\ UNCHANGED <<heapVars, r>>

CallReturns ==
  /\ w.pc = "return"
  /\ w' = Rest
  /\ UNCHANGED <<heapVars, r>>

Call == CallCreate \/ CallAppend \/ CallOther

WriterNext ==
  \/ CallFails \/ linked_list_create \/ linked_list_append
  \/ linked_list_get_last \/ Allocate \/ Link \/ linked_list_remove_first
  \/ linked_list_find \/ linked_list_destroy \/ CallReturns
  \/ ExpireEnds \/ ExpireKeeps \/ ExpireRemoves \/ ExpireLoses

ReadStart ==
  /\ r.pc = "idle" /\ list = "live" /\ shared
  /\ r' = [NotReading EXCEPT !.pc = "count", !.ptr = head, !.start = ContentData]
  /\ UNCHANGED <<heapVars, w>>

\* Mutant: a node is counted before it is reached.
linked_list_length_Ahead ==
  /\ r.pc = "count"
  /\ IF r.ptr = Null
     THEN r' = [r EXCEPT !.pc = "copy", !.ptr = head, !.count = @ + 1]
          /\ UNCHANGED fault
     ELSE /\ Use(r.ptr)
          /\ r' = [r EXCEPT !.ptr = node[r.ptr].next, !.count = @ + 1]
  /\ UNCHANGED <<shared, list, head, node, live, held, freed, lost, w>>

linked_list_length ==
  /\ r.pc = "count"
  /\ IF r.ptr = Null
     THEN r' = [r EXCEPT !.pc = "copy", !.ptr = head] /\ UNCHANGED fault
     ELSE /\ Use(r.ptr)
          /\ r' = [r EXCEPT !.ptr = node[r.ptr].next, !.count = @ + 1]
  /\ UNCHANGED <<shared, list, head, node, live, held, freed, lost, w>>

\* The loop of blockchain_serialize over the blocks.
ReadCopy ==
  /\ r.pc = "copy"
  /\ IF r.ptr = Null THEN r' = [r EXCEPT !.pc = "done"] /\ UNCHANGED fault
     ELSE /\ Use(r.ptr)
          /\ r' = [r EXCEPT !.ptr = node[r.ptr].next,
                            !.copied = Append(@, node[r.ptr].data)]
  /\ UNCHANGED <<shared, list, head, node, live, held, freed, lost, w>>

ReadEnds ==
  /\ r.pc = "done"
  /\ r' = NotReading
  /\ UNCHANGED <<heapVars, w>>

ReaderNext == linked_list_length \/ ReadCopy \/ ReadEnds

Next == Call \/ WriterNext \/ ReadStart \/ ReaderNext

\* Both threads run; nobody has to call anything.
Spec == /\ Init /\ [][Next]_vars
        /\ WF_vars(WriterNext) /\ WF_vars(ReaderNext)
-----------------------------------------------------------------------------
(***************************************************************************)
(* The pointer operations implement the operations on sequences that       *)
(* linked_list.h describes and that the other modules use; the expiry loop *)
(* removes the stale entries and no others.                                *)
(***************************************************************************)
Abstract == INSTANCE ListSpec
  WITH exists   <- list = "live",
       contents <- ContentData,
       call     <- [op |-> w.op, data |-> w.data, stale |-> w.stale,
                    result |-> w.result]
ImplementsListSpec == Abstract!Spec

(***************************************************************************)
(* No operation follows a pointer to a freed node, or frees a node or its  *)
(* data twice, whatever was called before.                                 *)
(***************************************************************************)
NoUseAfterFree == ~fault

(***************************************************************************)
(* Between calls every allocated node is in the list, except those whose   *)
(* name lookup failed, and every datum handed over is in the list or was   *)
(* freed: linked_list_destroy "Frees all memory associated with" the list. *)
(***************************************************************************)
NothingLeaks ==
  w.pc = "idle" =>
    /\ Cardinality(live \ lost) = (IF list = "live" THEN Len(Nodes) ELSE 0)
    /\ Data = held \cup freed \cup {node[n].data : n \in lost}
                \cup (IF list = "live" THEN ToSet(ContentData) ELSE {})

(***************************************************************************)
(* blockchain_serialize against an appending miner: it copies everything   *)
(* that was there when it began and nothing that is not in the list, and   *)
(* the count it wrote first is covered by what follows.                    *)
(***************************************************************************)
ReaderSeesTheList ==
  r.pc = "done" => /\ IsPrefix(r.start, r.copied)
                   /\ IsPrefix(r.copied, ContentData)
                   /\ r.count \in Len(r.start)..Len(r.copied)

(***************************************************************************)
(* Every call returns and every reader finishes: the loops have an end,    *)
(* also the expiry loop, which starts again at head after removing the     *)
(* first node.                                                             *)
(***************************************************************************)
CallsEnd == /\ (w.pc # "idle") ~> (w.pc = "idle")
            /\ (r.pc # "idle") ~> (r.pc = "idle")
=============================================================================
