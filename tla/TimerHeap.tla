----------------------------- MODULE TimerHeap -----------------------------
(***************************************************************************)
(* timer_state_data: the intrusive pairing heap of active timer slots and  *)
(* the intrusive list of inactive ones, on the pointers of the slots.      *)
(*                                                                         *)
(* The state is a record h with the roots heap and inactive, the pointer   *)
(* fields previous, child and next of every slot, and active and expiry.   *)
(* Every member function is an operator from one state to the next; meld() *)
(* and merge_pairs() return <<state, root>>.                               *)
(***************************************************************************)
EXTENDS Integers, FiniteSets, Sequences, SequencesExt

CONSTANTS Slots, None, Never   \* Never is time_point::max()

ASSUME HeapAssumption == None \notin Slots /\ Never \in Nat

NoLinks == [s \in Slots |-> None]

EmptyHeap(expiry) ==
  [heap |-> None, inactive |-> None, previous |-> NoLinks, child |-> NoLinks,
   next |-> NoLinks, active |-> {}, expiry |-> expiry]

\* An assignment through a pointer that may be null.
Set(f, p, v) == IF p = None THEN f ELSE [f EXCEPT ![p] = v]

timer_less(h, first, second) == h.expiry[first] < h.expiry[second]

heap_deadline(h) == IF h.heap = None THEN Never ELSE h.expiry[h.heap]

\* Link low as the first child of top.
Link(h, top, low) ==
  [h EXCEPT !.previous = Set([@ EXCEPT ![low] = top], h.child[top], low),
            !.next[low] = h.child[top],
            !.child[top] = low]

meld(h, first, second) ==
  IF first = None THEN <<h, second>>
  ELSE IF second = None THEN <<h, first>>
  ELSE IF timer_less(h, second, first) THEN <<Link(h, second, first), second>>
  ELSE <<Link(h, first, second), first>>

Rooted(m) == [m[1] EXCEPT !.heap = m[2]]

\* The slots of the list that starts at s.
Followed(h, list) ==
  IF h.next[Last(list)] = None THEN list ELSE Append(list, h.next[Last(list)])

ListFrom(h, s) ==
  IF s = None THEN <<>>
  ELSE FoldLeft(LAMBDA list, i : Followed(h, list), <<s>>,
                [i \in 1..(Cardinality(Slots) - 1) |-> i])

\* merge_pairs(): meld the siblings two by two, each pair into the result.
Cut(h, s) == [h EXCEPT !.previous = Set(@, s, None), !.next = Set(@, s, None)]

MeldPair(h, a, b) == meld(Cut(Cut(h, a), b), a, b)

MeldInto(root, m) == meld(m[1], root, m[2])

MergeList(h, list) ==
  LET At(i) == IF i <= Len(list) THEN list[i] ELSE None
  IN FoldLeft(LAMBDA m, i : MeldInto(m[2], MeldPair(m[1], At(2 * i - 1), At(2 * i))),
              <<h, None>>, [i \in 1..((Len(list) + 1) \div 2) |-> i])

merge_pairs(h, first) == MergeList(h, ListFrom(h, first))

\* The slot with its pointers cleared.
Alone(h, s) == [h EXCEPT !.previous[s] = None, !.child[s] = None, !.next[s] = None]

push_heap(h, s) ==
  IF s \in h.active THEN h
  ELSE Rooted(meld([Alone(h, s) EXCEPT !.active = @ \cup {s}], h.heap, s))

\* erase_heap(): cut the slot out of its sibling list or take it off the
\* root, ...
CutOut(h, s, prev, next) ==
  IF prev = None THEN [h EXCEPT !.heap = next, !.previous = Set(@, next, None)]
  ELSE [h EXCEPT !.child = IF h.child[prev] = s THEN Set(@, prev, next) ELSE @,
                 !.next = IF h.child[prev] = s THEN @ ELSE Set(@, prev, next),
                 !.previous = Set(@, next, prev)]

\* ... merge its children and meld them with the root.
MergeChildren(h, s) == merge_pairs(h, h.child[s])

Retire(m, s) == <<[Alone(m[1], s) EXCEPT !.active = @ \ {s}], m[2]>>

MeldRoot(m) == Rooted(meld(m[1], m[1].heap, m[2]))

erase_heap(h, s) ==
  IF s \notin h.active \/ (h.previous[s] = None /\ h.heap # s) THEN h
  ELSE MeldRoot(Retire(MergeChildren(CutOut(h, s, h.previous[s], h.next[s]), s), s))

pop_heap(h) == erase_heap(h, h.heap)

push_inactive(h, s) ==
  IF s \in h.active \/ s = h.inactive \/ h.previous[s] # None \/ h.next[s] # None
  THEN h
  ELSE [h EXCEPT !.child[s] = None,
                 !.next[s] = h.inactive,
                 !.previous = Set([@ EXCEPT ![s] = None], h.inactive, s),
                 !.inactive = s]

\* Mutant: the successor keeps its back link to the erased slot.
erase_inactive_stale(h, s) ==
  LET prev == h.previous[s]
      next == h.next[s]
  IN IF s \in h.active \/ (prev = None /\ h.inactive # s) THEN h
     ELSE [h EXCEPT !.inactive = IF prev = None THEN next ELSE @,
                    !.next = [Set(@, prev, next) EXCEPT ![s] = None],
                    !.previous[s] = None,
                    !.child[s] = None]

erase_inactive(h, s) ==
  LET prev == h.previous[s]
      next == h.next[s]
  IN IF s \in h.active \/ (prev = None /\ h.inactive # s) THEN h
     ELSE [h EXCEPT !.inactive = IF prev = None THEN next ELSE @,
                    !.next = [Set(@, prev, next) EXCEPT ![s] = None],
                    !.previous = [Set(@, next, prev) EXCEPT ![s] = None],
                    !.child[s] = None]

(***************************************************************************)
(* The shape the two containers should have.                               *)
(***************************************************************************)
Children(h, s) == ToSet(ListFrom(h, h.child[s]))

Inactive(h) == ToSet(ListFrom(h, h.inactive))

\* Slots reachable from the root through child lists.
Reachable(h) ==
  LET level[i \in 0..Cardinality(Slots)] ==
        IF i = 0 THEN {h.heap} \ {None}
        ELSE LET l == level[i - 1] IN l \cup UNION {Children(h, s) : s \in l}
  IN level[Cardinality(Slots)]

\* previous leads back along every link: to the parent from a first child, to
\* the neighbour from another sibling.
BackLinked(h) ==
  \A s \in Slots :
    /\ h.child[s] # None => h.previous[h.child[s]] = s
    /\ h.next[s] # None => h.previous[h.next[s]] = s

\* One root, no slot below two slots, and expiries that never decrease on the
\* way down.
HeapShaped(h) ==
  /\ Reachable(h) = h.active
  /\ h.heap # None => h.previous[h.heap] = None /\ h.next[h.heap] = None
  /\ \A s \in h.active : \A c \in Children(h, s) :
       /\ h.expiry[s] <= h.expiry[c]
       /\ \A r \in h.active \ {s} : c \notin Children(h, r)
=============================================================================
