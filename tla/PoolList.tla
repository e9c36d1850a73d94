------------------------------ MODULE PoolList ------------------------------
(***************************************************************************)
(* The lists of route.c.  Each is a Contiki list whose elements come from  *)
(* a memory pool of fixed size; it is a sequence here, the head of the     *)
(* list first.  Every element of a pool is either free or in its list, so  *)
(* memb_alloc fails exactly when the sequence is as long as the pool.  A   *)
(* pointer to an element is its index, NULL is 0.                          *)
(***************************************************************************)
EXTENDS Integers, Sequences, SequencesExt, FiniteSetsExt

(* What the three *_add functions share: the element that will hold the    *)
(* new entry is the old entry i that it replaces, or a free one of the     *)
(* pool, or else the tail of the list; then the entry is pushed in front.  *)
(* Mutant: the pool is taken for full one element early.                   *)
VacateEarly(s, i, pool) ==
  IF i # 0 THEN RemoveAt(s, i)
  ELSE IF Len(s) >= pool - 1 /\ s # <<>> THEN Front(s) ELSE s

Vacate(s, i, pool) ==
  IF i # 0 THEN RemoveAt(s, i)
  ELSE IF Len(s) = pool THEN Front(s) ELSE s

PushReusing(s, i, pool, e) == Cons(e, Vacate(s, i, pool))
=============================================================================
