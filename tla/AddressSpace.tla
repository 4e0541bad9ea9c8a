---------------------------- MODULE AddressSpace ----------------------------
(***************************************************************************)
(* The synthetic device addresses hip-stub hands to the game, and how an   *)
(* address that comes back, perhaps from the middle of an allocation, is   *)
(* turned into the daemon's handle and an offset.                          *)
(*                                                                         *)
(* AddressSpace is behind one mutex, held for one operation at a time, so  *)
(* the threads of a game are a sequence of operations here.  A range is    *)
(* only allocated for memory that hipMalloc has granted, so next_base does *)
(* not come near 2^64 and is a natural number.                             *)
(***************************************************************************)
EXTENDS Integers

CONSTANTS
  Page,       \* 4096
  FirstBase,  \* 0x0000_7000_0000_0000
  Sizes,      \* the sizes asked for
  Handles     \* the daemon's handles: a run's bound on allocations

ASSUME SpaceAssumption ==
  /\ Page \in Nat \ {0}
  /\ FirstBase \in Nat
  /\ FirstBase % Page = 0
  /\ Sizes \subseteq Nat

VARIABLES
  next_base,
  ranges,  \* the BTreeMap, as the set of its entries
  issued,  \* history: every range ever allocated
  freed    \* history: those freed since

vars == <<next_base, ranges, issued, freed>>

Range == [base : Nat, size : Nat, handle : Handles]

Init ==
  /\ next_base = FirstBase
  /\ ranges = {}
  /\ issued = {}
  /\ freed = {}

(* size.max(1) *)
AtLeastOne(size) == IF size = 0 THEN 1 ELSE size

-----------------------------------------------------------------------------
(* Plausible wrong versions of the code, for the mutation runs. *)

Unrounded(n) == n
NoGuardPage(size) == IF size = 0 THEN Page ELSE Page * ((size + Page - 1) \div Page)
UpToTheEnd(r, ptr) == ptr - r.base <= r.size

-----------------------------------------------------------------------------
NextMultiple(n) == IF n % Page = 0 THEN n ELSE n + (Page - (n % Page))

Reserved(size) == NextMultiple(AtLeastOne(size)) + Page

(* hipMalloc, once the daemon has answered with a handle; its handles are never
   given out twice on one connection. *)
Allocate(handle, size) ==
  /\ \A r \in issued : r.handle # handle
  /\ LET new == [base |-> next_base, size |-> size, handle |-> handle] IN
       /\ ranges' = {r \in ranges : r.base # next_base} \cup {new}
       /\ issued' = issued \cup {new}
  /\ next_base' = next_base + Reserved(size)
  /\ UNCHANGED freed

(* hipFree: remove_exact.  An address that is no base changes nothing. *)
Free(ptr) ==
  /\ ranges' = {r \in ranges : r.base # ptr}
  /\ freed' = freed \cup {r \in issued : r.base = ptr}
  /\ UNCHANGED <<next_base, issued>>

(* ranges.range(..=ptr).next_back(): the entry with the last base up to ptr. *)
Floor(ptr) ==
  {r \in ranges : r.base <= ptr /\ \A s \in ranges : s.base <= ptr => s.base <= r.base}

InRange(r, ptr) == ptr - r.base < AtLeastOne(r.size)

(* Some((handle, offset)) as a singleton, None as the empty set. *)
Resolve(ptr) ==
  {[handle |-> r.handle, offset |-> ptr - r.base] : r \in {f \in Floor(ptr) : InRange(f, ptr)}}

Next ==
  \/ \E handle \in Handles, size \in Sizes : Allocate(handle, size)
  \/ \E ptr \in 0 .. next_base : Free(ptr)

Spec == Init /\ [][Next]_vars

-----------------------------------------------------------------------------
(* Addresses start on a page, whatever sizes came before. *)
TypeOK ==
  /\ next_base \in Nat
  /\ ranges \subseteq Range
  /\ issued \subseteq Range
  /\ freed \subseteq issued
  /\ next_base % Page = 0
  /\ \A r \in issued : r.base % Page = 0

(* An address of an allocation: one of its bytes, or its base if it has none. *)
Covers(r, ptr) == r.base <= ptr /\ (ptr = r.base \/ ptr < r.base + r.size)

(* An address belongs to one allocation at most, of all that were ever made,
   and resolves exactly while that one is not freed, to its handle and the
   distance from its base: looking only at the closest base below is enough. *)
PointerMeaning ==
  \A ptr \in 0 .. next_base :
    /\ \A r, s \in issued : Covers(r, ptr) /\ Covers(s, ptr) => r = s
    /\ Resolve(ptr) = {[handle |-> r.handle, offset |-> ptr - r.base] :
                         r \in {i \in issued \ freed : Covers(i, ptr)}}

(* The comment on allocate: arithmetic on an address of an allocation, even one
   already freed, that stays within a page of its end never reaches another. *)
NoSpill ==
  \A r \in issued : \A ptr \in r.base .. r.base + r.size + Page - 1 :
    \A x \in Resolve(ptr) : x.handle = r.handle
=============================================================================
