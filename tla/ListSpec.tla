------------------------------ MODULE ListSpec ------------------------------
(***************************************************************************)
(* What linked_list.h promises, on a sequence of data: every operation of  *)
(* its one user takes effect at a single moment between its call and its   *)
(* return, or, where it can remove many, as a series of single removals.   *)
(***************************************************************************)
EXTENDS Integers, Sequences, FiniteSets, SequencesExt

CONSTANTS Data,       \* what nodes can point to
          Key(_),     \* equal keys: compare_function returns 0
          Null

VARIABLES exists,     \* is there a list?
          contents,   \* its data, first to last
          call        \* the operation under way: its arguments and its result

vars == <<exists, contents, call>>

Pending == "pending"
Idle == [op |-> "none", data |-> Null, stale |-> {}, result |-> "none"]

Op == {"create", "prepend", "append", "remove_first", "find", "expire",
       "destroy"}

Init == exists = FALSE /\ contents = <<>> /\ call = Idle

Arguments(op) ==
  CASE op \in {"prepend", "append"} ->
         {[data |-> d, stale |-> {}] : d \in Data \ ToSet(contents)}
    [] op = "find" -> {[data |-> d, stale |-> {}] : d \in Data}
    [] op = "expire" -> {[data |-> Null, stale |-> t] : t \in SUBSET Data}
    [] OTHER -> {[data |-> Null, stale |-> {}]}

Call ==
  /\ call = Idle
  /\ \E op \in IF exists THEN Op \ {"create"} ELSE {"create"} :
       \E a \in Arguments(op) :
         call' = [op |-> op, data |-> a.data, stale |-> a.stale,
                  result |-> Pending]
  /\ UNCHANGED <<exists, contents>>

Result(r) == call' = [call EXCEPT !.result = r]

Doing(op) == call.op = op /\ call.result = Pending

Fail ==
  /\ \E op \in {"create", "prepend", "append"} : Doing(op)
  /\ Result("FAILURE_COULD_NOT_MALLOC")
  /\ UNCHANGED <<exists, contents>>

Create ==
  /\ Doing("create")
  /\ exists' = TRUE
  /\ Result("SUCCESS")
  /\ UNCHANGED contents

Insert ==
  /\ \/ Doing("prepend") /\ contents' = <<call.data>> \o contents
     \/ Doing("append") /\ contents' = Append(contents, call.data)
  /\ Result("SUCCESS")
  /\ UNCHANGED exists

TakeFirst ==
  /\ Doing("remove_first")
  /\ IF contents = <<>>
     THEN Result("FAILURE_LINKED_LIST_EMPTY") /\ UNCHANGED contents
     ELSE Result("SUCCESS") /\ contents' = Tail(contents)
  /\ UNCHANGED exists

\* The first of the data with that key, if there is one.
Find ==
  LET matches == {i \in 1..Len(contents) : Key(contents[i]) = Key(call.data)} IN
  /\ Doing("find")
  /\ IF matches = {} THEN Result(Null)
     ELSE \E i \in matches : /\ \A j \in matches : i <= j
                             /\ Result(contents[i])
  /\ UNCHANGED <<exists, contents>>

\* Stale data goes, the earliest first, until none is left or a lookup fails.
Expire ==
  LET stale == {i \in 1..Len(contents) : contents[i] \in call.stale} IN
  /\ Doing("expire")
  /\ \/ /\ stale # {}
        /\ \E i \in stale : /\ \A j \in stale : i <= j
                            /\ contents' = RemoveAt(contents, i)
        /\ call' = call \/ Result("FAILURE_NETWORK_FUNCTION")
     \/ /\ stale = {}
        /\ Result("SUCCESS")
        /\ UNCHANGED contents
  /\ UNCHANGED exists

Destroy ==
  /\ Doing("destroy")
  /\ \/ /\ contents # <<>>
        /\ contents' = Tail(contents)
        /\ UNCHANGED <<exists, call>>
     \/ /\ contents = <<>>
        /\ exists' = FALSE
        /\ Result("SUCCESS")
        /\ UNCHANGED contents

Return ==
  /\ call # Idle /\ call.result # Pending
  /\ call' = Idle
  /\ UNCHANGED <<exists, contents>>

Next == \/ Call \/ Fail \/ Create \/ Insert \/ TakeFirst \/ Find \/ Expire
        \/ Destroy \/ Return

Spec == Init /\ [][Next]_vars
=============================================================================
