------------------------------- MODULE Lists -------------------------------
(***************************************************************************)
(* The LIST macros of inc/queue.h: a doubly linked list in which an        *)
(* element points back at the pointer that points at it, and a traversal   *)
(* by LIST_FOREACH whose body changes the list.                            *)
(*                                                                         *)
(* A forward pointer is named by the element it is in; HEAD is lh_first.   *)
(* So next is all the forward pointers of memory, and le_prev, a pointer   *)
(* to a pointer, is one of their names.                                    *)
(***************************************************************************)
EXTENDS Naturals, Sequences, SequencesExt

CONSTANTS
  Elem,       (* the elements                                              *)
  HEAD, NULL

ASSUME ListsAssumption == HEAD \notin Elem /\ NULL \notin Elem /\ HEAD # NULL

VARIABLES
  next,       (* lh_first and the le_next of the elements                  *)
  le_prev,
  list,       (* ghost: the list that the caller means                     *)
  var,        (* the variable of LIST_FOREACH; NULL when it is over        *)
  due,        (* ghost: the list when the traversal began                  *)
  gone,       (* ghost: elements removed since                             *)
  visited     (* ghost: the elements of due visited, gone ones left out    *)

linkVars == <<next, le_prev>>
loopVars == <<var, due, visited>>
listVars == <<linkVars, list, loopVars, gone>>

ListInit ==
  /\ next = [p \in Elem \cup {HEAD} |-> NULL]
  /\ le_prev = [e \in Elem |-> NULL]
  /\ list = << >>
  /\ var = NULL /\ due = << >> /\ gone = {} /\ visited = << >>

InList(e) == \E i \in DOMAIN list : list[i] = e
InDue(e) == e \in ToSet(due) \ gone
Place(e) == CHOOSE i \in DOMAIN list : list[i] = e

(* What a caller has to keep to.  An element is in the list once; the      *)
(* links of an element that the body of a loop has taken out are still     *)
(* needed, so it is not put back, nor another taken out, before the loop   *)
(* goes on.                                                                *)
MayInsert(e) == ~InList(e) /\ e # var
MayRemove(e) == InList(e) /\ (var # NULL => InList(var))

---------------------------------------------------------------------------
\* LIST_INIT
Clear ==
  /\ var = NULL
  /\ next' = [next EXCEPT ![HEAD] = NULL]
  /\ list' = << >>
  /\ UNCHANGED <<le_prev, loopVars, gone>>

(* The two macros that put an element behind a pointer p, lh_first or an   *)
(* le_next.  The element that p pointed at now has the new one before it.  *)
InsertBehind(p, e) ==
  /\ next' = [next EXCEPT ![e] = next[p], ![p] = e]
  /\ le_prev' = IF next[p] = NULL THEN [le_prev EXCEPT ![e] = p]
                ELSE [le_prev EXCEPT ![next[p]] = e, ![e] = p]
  /\ UNCHANGED <<loopVars, gone>>

LIST_INSERT_HEAD(e) ==
  /\ MayInsert(e)
  /\ InsertBehind(HEAD, e)
  /\ list' = <<e>> \o list

LIST_INSERT_AFTER(l, e) ==
  /\ InList(l) /\ MayInsert(e)
  /\ InsertBehind(l, e)
  /\ list' = InsertAt(list, Place(l) + 1, e)

\* Faulty variant: the element behind still points back past the new one.
InsertBeforeHalf(l, e) ==
  /\ InList(l) /\ MayInsert(e)
  /\ next' = [next EXCEPT ![e] = l, ![le_prev[l]] = e]
  /\ le_prev' = [le_prev EXCEPT ![e] = le_prev[l]]
  /\ list' = InsertAt(list, Place(l), e)
  /\ UNCHANGED <<loopVars, gone>>

LIST_INSERT_BEFORE(l, e) ==
  /\ InList(l) /\ MayInsert(e)
  /\ next' = [next EXCEPT ![e] = l, ![le_prev[l]] = e]
  /\ le_prev' = [le_prev EXCEPT ![e] = le_prev[l], ![l] = e]
  /\ list' = InsertAt(list, Place(l), e)
  /\ UNCHANGED <<loopVars, gone>>

\* Faulty variant: the links of the element are cleared.
RemoveAndClear(e) ==
  /\ MayRemove(e)
  /\ le_prev' = IF next[e] = NULL THEN le_prev
                ELSE [le_prev EXCEPT ![next[e]] = le_prev[e]]
  /\ next' = [next EXCEPT ![le_prev[e]] = next[e], ![e] = NULL]
  /\ list' = RemoveAt(list, Place(e))
  /\ gone' = IF var = NULL THEN gone ELSE gone \cup {e}
  /\ UNCHANGED loopVars

LIST_REMOVE(e) ==
  /\ MayRemove(e)
  /\ le_prev' = IF next[e] = NULL THEN le_prev
                ELSE [le_prev EXCEPT ![next[e]] = le_prev[e]]
  /\ next' = [next EXCEPT ![le_prev[e]] = next[e]]
  /\ list' = RemoveAt(list, Place(e))
  /\ gone' = IF var = NULL THEN gone ELSE gone \cup {e}
  /\ UNCHANGED loopVars

---------------------------------------------------------------------------
(* LIST_FOREACH: at an element, its body runs; then the next one.          *)
Foreach ==
  /\ var = NULL
  /\ var' = next[HEAD]
  /\ due' = list /\ gone' = {}
  /\ visited' = IF var' = NULL THEN << >> ELSE <<var'>>
  /\ UNCHANGED <<linkVars, list>>

LIST_NEXT ==
  /\ var # NULL
  /\ var' = next[var]
  /\ visited' = IF InDue(var') THEN Append(visited, var') ELSE visited
  /\ UNCHANGED <<linkVars, list, due, gone>>

ListNext ==
  \/ Clear \/ Foreach \/ LIST_NEXT
  \/ \E e \in Elem : LIST_INSERT_HEAD(e) \/ LIST_REMOVE(e)
  \/ \E l, e \in Elem : LIST_INSERT_AFTER(l, e) \/ LIST_INSERT_BEFORE(l, e)

ListSpec == ListInit /\ [][ListNext]_listVars

---------------------------------------------------------------------------
\* The pointer at the k-th element of a list.
Pointer(s, k) == IF k = 1 THEN HEAD ELSE s[k - 1]

(* The links are those of the list: forward from the head through every    *)
(* element to NULL, and from every element back to the pointer that points *)
(* at it, whatever stale links the elements outside have.                  *)
Linked ==
  /\ \A k \in DOMAIN list : /\ next[Pointer(list, k)] = list[k]
                            /\ le_prev[list[k]] = Pointer(list, k)
  /\ next[Pointer(list, Len(list) + 1)] = NULL

Precedes(s, a, b) == \E j, k \in DOMAIN s : j < k /\ s[j] = a /\ s[k] = b

(* A traversal whose body inserts and removes elements, the one it is at   *)
(* included, visits every element that stays in the list, and visits in    *)
(* the order of the list, nothing twice.                                   *)
VisitsAll ==
  var = NULL =>
    /\ ToSet(due) \ gone \subseteq ToSet(visited) /\ ToSet(visited) \subseteq ToSet(due)
    /\ \A j, k \in DOMAIN visited : j < k => Precedes(due, visited[j], visited[k])
=============================================================================
