------------------------------ MODULE IntList -------------------------------
(***************************************************************************)
(* The list of integers of src/linkedList.c, by node and pointer.  One     *)
(* thread uses it, so a call is one step; list_RemoveFromEnd and           *)
(* list_RemoveFromFront read through the front of the list, so nobody      *)
(* calls them for an empty one.                                            *)
(***************************************************************************)
EXTENDS Integers, Sequences, SequencesExt

CONSTANTS
    Addr,           (* what calloc may return                              *)
    Values          (* the integers considered                             *)

NULL == 0                           (* not among the addresses *)

VARIABLES
    front, rear,                (* the linkedList                          *)
    data, next, allocated,      (* the nodes                               *)
    content,                    (* for reference: what the calls ask for   *)
    owed                        (* removals asked for but not carried out  *)

listVars == <<front, rear, data, next, allocated, content, owed>>

Init ==
    /\ front = NULL /\ rear = NULL
    /\ data = [a \in Addr |-> 0]
    /\ next = [a \in Addr |-> NULL]
    /\ allocated = {}
    /\ content = <<>>
    /\ owed = 0

(* Where Traverse stops: at the first node from a on whose next is NULL,   *)
(* or is in stops, where the loop has a break.                             *)
TraverseUntil(a, stops) ==
    LET from[n \in Addr] == IF next[n] \in stops \cup {NULL} THEN n ELSE from[next[n]]
    IN  from[a]

list_add(a, v) ==
    /\ a \in Addr \ allocated
    /\ allocated' = allocated \cup {a}
    /\ data' = [data EXCEPT ![a] = v]
    /\ content' = Append(content, v)
    /\ UNCHANGED owed
    /\ IF front = NULL
       THEN front' = a /\ next' = [next EXCEPT ![a] = NULL] /\ UNCHANGED rear
       ELSE /\ next' = [next EXCEPT ![a] = NULL, ![TraverseUntil(front, {})] = a]
            /\ rear' = a
            /\ UNCHANGED front

Freed(a) ==
    /\ allocated' = allocated \ {a}
    /\ data' = [data EXCEPT ![a] = 0]

(* What the calls ask for: the last, or the first, integer is to go.       *)
AskLast == content' = SubSeq(content, 1, Len(content) - 1)
AskFirst == content' = SubSeq(content, 2, Len(content))

(* Fault: the loop looks one node ahead too few. *)
list_RemoveFromEnd_dangling ==
    /\ front # NULL /\ next[front] # NULL
    /\ AskLast
    /\ LET last == TraverseUntil(front, {})
       IN  rear' = last /\ Freed(last) /\ UNCHANGED next
    /\ UNCHANGED <<front, owed>>

(* The traversal stops before the last node, which goes.  A list of one    *)
(* node keeps it, as there is none behind it: it now owes a removal.       *)
list_RemoveFromEnd ==
    /\ front # NULL
    /\ AskLast
    /\ IF next[front] = NULL
       THEN rear' = front /\ owed' = 1 /\ UNCHANGED <<data, next, allocated>>
       ELSE LET ends == {a \in allocated : next[a] = NULL}
                tnode == TraverseUntil(front, ends)
            IN  /\ rear' = tnode
                /\ Freed(next[tnode])
                /\ next' = [next EXCEPT ![tnode] = NULL]
                /\ UNCHANGED owed
    /\ UNCHANGED front

(* The front node goes, wanted or not.  Where nothing was asked for any    *)
(* more, that settles what the list owes.                                  *)
list_RemoveFromFront ==
    /\ front # NULL
    /\ AskFirst
    /\ owed' = IF content = <<>> THEN 0 ELSE owed
    /\ front' = next[front]
    /\ Freed(front)
    /\ next' = [next EXCEPT ![front] = NULL]
    /\ UNCHANGED rear

Next ==
    \/ \E a \in Addr, v \in Values : list_add(a, v)
    \/ list_RemoveFromEnd \/ list_RemoveFromFront

Spec == Init /\ [][Next]_listVars
-----------------------------------------------------------------------------
nodes == Len(content) + owed

(* s is the list: from front along next to a last node, every allocated    *)
(* node once; behind the node it owes it holds what was asked for.  rear,  *)
(* which only the list's users may read, is the last node of two or more;  *)
(* of a list of one node it may be NULL or a node freed long ago.          *)
Chain(s) ==
    /\ IF nodes = 0 THEN front = NULL ELSE front = s[1] /\ next[s[nodes]] = NULL
    /\ \A k \in 1 .. nodes - 1 : next[s[k]] = s[k + 1]
    /\ nodes > 1 => rear = s[nodes]
    /\ \A k \in 1 .. Len(content) : data[s[k + owed]] = content[k]
    /\ allocated = {s[k] : k \in 1 .. nodes}
    /\ IsInjective(s)

(* What validate_list compares, as far as the code keeps it: the list      *)
(* holds the integers added and not removed, in order, whatever the calls  *)
(* before; no node leaks and rear is right where there is more than one.   *)
(* The exception is at its front: after list_RemoveFromEnd on a list of    *)
(* one node, and until the list is next empty, it holds one node too many. *)
HoldsContent == owed \in {0, 1} /\ \E s \in [1 .. nodes -> Addr] : Chain(s)
=============================================================================
