------------------------- MODULE AddressSpaceProofs -------------------------
(***************************************************************************)
(* For any page size, base address, sizes and sequence of allocations and  *)
(* frees: every synthetic address keeps the one meaning it was given, and  *)
(* none spills into the next allocation.                                   *)
(***************************************************************************)
EXTENDS AddressSpace, TLAPS

(* What the next allocation steps over. *)
End(r) == r.base + Reserved(r.size)

(* All that was ever issued lies below next_base, one range after another. *)
IssuedBelow == \A r \in issued : End(r) <= next_base
IssuedApart == \A r, s \in issued : r # s => End(r) <= s.base \/ End(s) <= r.base

LiveRanges == ranges = issued \ freed

IInv == TypeOK /\ IssuedBelow /\ IssuedApart /\ LiveRanges

-----------------------------------------------------------------------------
(* Arithmetic of pages. *)
LEMMA Division ==
  ASSUME NEW n \in Nat
  PROVE  n % Page \in 0 .. Page - 1 /\ n \div Page \in Nat /\ n % Page = n - Page * (n \div Page)
<1>1. n % Page \in 0 .. Page - 1
  BY SpaceAssumption
<1>2. n \div Page \in Nat
  BY SpaceAssumption
<1>3. n % Page = n - Page * (n \div Page)
  BY SpaceAssumption, Z3
<1> QED
  BY <1>1, <1>2, <1>3

LEMMA MultipleIsAligned ==
  ASSUME NEW k \in Nat PROVE (Page * k) % Page = 0
BY SpaceAssumption

LEMMA SumIsAligned ==
  ASSUME NEW a \in Nat, NEW b \in Nat, a % Page = 0, b % Page = 0
  PROVE  (a + b) % Page = 0
<1>1. a = Page * (a \div Page) /\ b = Page * (b \div Page)
  BY Division, SpaceAssumption
<1>2. a \div Page \in Nat /\ b \div Page \in Nat
  BY Division
<1>3. a + b = Page * (a \div Page + b \div Page)
  BY <1>1, <1>2, SpaceAssumption
<1> QED
  BY <1>2, <1>3, MultipleIsAligned

LEMMA NextMultipleRounds ==
  ASSUME NEW n \in Nat
  PROVE  NextMultiple(n) \in Nat /\ NextMultiple(n) >= n /\ NextMultiple(n) % Page = 0
<1>1. CASE n % Page = 0
  BY <1>1 DEF NextMultiple
<1>2. CASE n % Page # 0
  <2>1. n % Page \in 0 .. Page - 1 /\ n \div Page \in Nat /\ n % Page = n - Page * (n \div Page)
    BY Division
  <2>2. NextMultiple(n) = n + (Page - (n % Page))
    BY <1>2 DEF NextMultiple
  <2>3. NextMultiple(n) \in Nat /\ NextMultiple(n) >= n
    BY <2>1, <2>2, SpaceAssumption
  <2>4. NextMultiple(n) = Page * (n \div Page) + Page
    BY <2>1, <2>2, SpaceAssumption
  <2>5. NextMultiple(n) = Page * (n \div Page + 1)
    BY <2>1, <2>4, SpaceAssumption
  <2> QED
    BY <2>1, <2>3, <2>5, MultipleIsAligned
<1> QED
  BY <1>1, <1>2

LEMMA ReservedCovers ==
  ASSUME NEW size \in Nat
  PROVE  /\ Reserved(size) \in Nat
         /\ Reserved(size) >= AtLeastOne(size) + Page
         /\ Reserved(size) % Page = 0
<1>1. AtLeastOne(size) \in Nat
  BY DEF AtLeastOne
<1>2. Page % Page = 0
  <2>1. Page = Page * 1
    BY SpaceAssumption
  <2> QED
    BY <2>1, MultipleIsAligned
<1>3. LET m == NextMultiple(AtLeastOne(size)) IN m \in Nat /\ m >= AtLeastOne(size) /\ m % Page = 0
  BY <1>1, NextMultipleRounds
<1> QED
  BY <1>1, <1>2, <1>3, SumIsAligned, SpaceAssumption DEF Reserved

-----------------------------------------------------------------------------
LEMMA InitInv == Init => IInv
BY SpaceAssumption DEF Init, IInv, TypeOK, IssuedBelow, IssuedApart, LiveRanges

LEMMA AllocateInv ==
  ASSUME IInv, NEW handle \in Handles, NEW size \in Sizes, Allocate(handle, size)
  PROVE  IInv'
<1> DEFINE new == [base |-> next_base, size |-> size, handle |-> handle]
<1> USE DEF IInv
<1>1. /\ ranges' = {r \in ranges : r.base # next_base} \cup {new}
      /\ issued' = issued \cup {new}
      /\ next_base' = next_base + Reserved(size)
      /\ freed' = freed
  BY DEF Allocate
<1>2. size \in Nat /\ new \in Range
  BY SpaceAssumption DEF Range, TypeOK
<1>3. Reserved(size) \in Nat /\ Reserved(size) > 0 /\ Reserved(size) % Page = 0
  <2>1. AtLeastOne(size) \in Nat /\ AtLeastOne(size) + Page > 0
    BY <1>2, SpaceAssumption DEF AtLeastOne
  <2> QED
    BY <1>2, <2>1, ReservedCovers, SpaceAssumption
<1>4. \A r \in issued : /\ r.base \in Nat /\ r.size \in Nat
                        /\ Reserved(r.size) \in Nat /\ Reserved(r.size) > 0
                        /\ r.base < next_base
  <2> SUFFICES ASSUME NEW r \in issued
               PROVE /\ r.base \in Nat /\ r.size \in Nat
                     /\ Reserved(r.size) \in Nat /\ Reserved(r.size) > 0
                     /\ r.base < next_base
    OBVIOUS
  <2>1. r.base \in Nat /\ r.size \in Nat
    BY DEF TypeOK, Range
  <2>2. AtLeastOne(r.size) \in Nat /\ AtLeastOne(r.size) > 0
    BY <2>1 DEF AtLeastOne
  <2>3. Reserved(r.size) \in Nat /\ Reserved(r.size) > 0
    BY <2>1, <2>2, ReservedCovers, SpaceAssumption
  <2> QED
    BY <2>1, <2>3 DEF IssuedBelow, End, TypeOK
<1>5. new \notin issued
  BY <1>4 DEF TypeOK
<1>6. (next_base + Reserved(size)) % Page = 0
  BY <1>3, SumIsAligned DEF TypeOK
<1>7. TypeOK'
  BY <1>1, <1>2, <1>3, <1>6 DEF TypeOK
<1>8. IssuedBelow'
  BY <1>1, <1>3, <1>4 DEF IssuedBelow, End, TypeOK
<1>9. IssuedApart'
  <2> SUFFICES ASSUME NEW r \in issued', NEW s \in issued', r # s
               PROVE End(r) <= s.base \/ End(s) <= r.base
    BY DEF IssuedApart, End
  <2>1. CASE r \in issued /\ s \in issued
    BY <2>1 DEF IssuedApart
  <2>2. CASE r = new \/ s = new
    BY <1>1, <2>2 DEF IssuedBelow
  <2> QED
    BY <1>1, <2>1, <2>2
<1>10. LiveRanges'
  <2>1. {r \in ranges : r.base # next_base} = ranges
    BY <1>4 DEF LiveRanges, TypeOK
  <2>2. new \notin freed
    BY <1>5 DEF TypeOK
  <2> QED
    BY <1>1, <2>1, <2>2 DEF LiveRanges
<1> QED
  BY <1>7, <1>8, <1>9, <1>10

LEMMA FreeInv ==
  ASSUME IInv, NEW ptr, Free(ptr)
  PROVE  IInv'
BY DEF IInv, Free, TypeOK, IssuedBelow, IssuedApart, LiveRanges, End

LEMMA StepInv == IInv /\ [Next]_vars => IInv'
<1> SUFFICES ASSUME IInv, [Next]_vars PROVE IInv'
  OBVIOUS
<1>1. CASE UNCHANGED vars
  BY <1>1 DEF vars, IInv, TypeOK, IssuedBelow, IssuedApart, LiveRanges, End
<1> QED
  BY <1>1, AllocateInv, FreeInv DEF Next

LEMMA Invariance == Spec => []IInv
BY InitInv, StepInv, PTL DEF Spec

(* Addresses stay on page boundaries and the history in order. *)
THEOREM TypeCorrect == Spec => []TypeOK
<1>1. IInv => TypeOK
  BY DEF IInv
<1> QED
  BY <1>1, Invariance, PTL

-----------------------------------------------------------------------------
(* What lies before the end of one allocation lies in no other. *)
LEMMA OneRange ==
  ASSUME IInv, NEW r \in issued, NEW s \in issued, NEW ptr \in Nat,
         r.base <= ptr, ptr < End(r), s.base <= ptr, ptr < End(s)
  PROVE  r = s
<1>1. r.base \in Nat /\ s.base \in Nat /\ r.size \in Nat /\ s.size \in Nat
  BY DEF IInv, TypeOK, Range
<1>2. End(r) \in Nat /\ End(s) \in Nat
  BY <1>1, ReservedCovers DEF End
<1> QED
  BY <1>1, <1>2 DEF IInv, IssuedApart

(* The bytes of an allocation and the page after them are reserved for it. *)
LEMMA ReservedRange ==
  ASSUME IInv, NEW r \in issued
  PROVE  /\ r.base \in Nat /\ r.size \in Nat /\ End(r) \in Nat
         /\ r.base + r.size + Page <= End(r)
         /\ r.base + AtLeastOne(r.size) + Page <= End(r)
<1>1. r.base \in Nat /\ r.size \in Nat
  BY DEF IInv, TypeOK, Range
<1>2. AtLeastOne(r.size) \in Nat /\ AtLeastOne(r.size) >= r.size
  BY <1>1 DEF AtLeastOne
<1> QED
  BY <1>1, <1>2, ReservedCovers, SpaceAssumption DEF End

(* An address before the end of a live range has that range as its floor. *)
LEMMA FloorIsOwner ==
  ASSUME IInv, NEW r \in ranges, NEW ptr \in Nat, r.base <= ptr, ptr < End(r)
  PROVE  Floor(ptr) = {r}
<1>1. r \in issued /\ \A s \in ranges : s \in issued
  BY DEF IInv, LiveRanges
<1>2. ASSUME NEW s \in ranges, s # r, s.base <= ptr PROVE s.base < r.base
  <2>1. r.base \in Nat /\ s.base \in Nat /\ End(r) \in Nat /\ End(s) \in Nat /\ s.base < End(s)
    BY <1>1, ReservedRange, SpaceAssumption
  <2>2. End(r) <= s.base \/ End(s) <= r.base
    BY <1>1, <1>2 DEF IInv, IssuedApart
  <2> QED
    BY <1>2, <2>1, <2>2
<1>3. r.base \in Nat
  BY <1>1, ReservedRange
<1>4. r \in Floor(ptr)
  <2>1. ASSUME NEW s \in ranges, s.base <= ptr PROVE s.base <= r.base
    <3>1. s.base \in Nat
      BY <1>1, ReservedRange
    <3> QED
      BY <1>2, <1>3, <2>1, <3>1
  <2> QED
    BY <2>1 DEF Floor
<1>5. ASSUME NEW s \in Floor(ptr) PROVE s = r
  <2>1. s \in ranges /\ s.base <= ptr /\ r.base <= s.base
    BY <1>5 DEF Floor
  <2>2. s.base \in Nat
    BY <1>1, <2>1, ReservedRange
  <2> QED
    BY <1>2, <1>3, <2>1, <2>2
<1> QED
  BY <1>4, <1>5

(* What resolve checks of an entry is that the address is one of its own. *)
LEMMA InRangeCovers ==
  ASSUME IInv, NEW r \in issued, NEW ptr \in Nat, r.base <= ptr
  PROVE  InRange(r, ptr) <=> Covers(r, ptr)
<1>1. r.base \in Nat /\ r.size \in Nat
  BY ReservedRange
<1> QED
  BY <1>1 DEF InRange, Covers, AtLeastOne

LEMMA CoveredIsReserved ==
  ASSUME IInv, NEW r \in issued, NEW ptr \in Nat, Covers(r, ptr)
  PROVE  r.base <= ptr /\ ptr < End(r)
BY ReservedRange, SpaceAssumption DEF Covers

(* Whatever was allocated and freed before, an address resolves to the one live
   allocation it belongs to, and to nothing once that is freed. *)
THEOREM AddressesKeepMeaning == Spec => []PointerMeaning
<1>1. ASSUME IInv PROVE PointerMeaning
  <2> SUFFICES ASSUME NEW ptr \in 0 .. next_base
               PROVE /\ \A r, s \in issued : Covers(r, ptr) /\ Covers(s, ptr) => r = s
                     /\ Resolve(ptr) = {[handle |-> r.handle, offset |-> ptr - r.base] :
                                          r \in {i \in issued \ freed : Covers(i, ptr)}}
    BY DEF PointerMeaning
  <2>1. ptr \in Nat
    BY <1>1 DEF IInv, TypeOK
  <2>2. \A r, s \in issued : Covers(r, ptr) /\ Covers(s, ptr) => r = s
    BY <1>1, <2>1, CoveredIsReserved, OneRange
  <2>3. {f \in Floor(ptr) : InRange(f, ptr)} = {i \in issued \ freed : Covers(i, ptr)}
    <3>1. ranges = issued \ freed
      BY <1>1 DEF IInv, LiveRanges
    <3>2. ASSUME NEW f \in Floor(ptr), InRange(f, ptr)
          PROVE f \in issued \ freed /\ Covers(f, ptr)
      <4>1. f \in ranges /\ f.base <= ptr
        BY <3>2 DEF Floor
      <4> QED
        BY <1>1, <2>1, <3>1, <3>2, <4>1, InRangeCovers
    <3>3. ASSUME NEW i \in issued \ freed, Covers(i, ptr)
          PROVE i \in Floor(ptr) /\ InRange(i, ptr)
      <4>1. i.base <= ptr /\ ptr < End(i)
        BY <1>1, <2>1, <3>3, CoveredIsReserved
      <4>2. Floor(ptr) = {i}
        BY <1>1, <2>1, <3>1, <4>1, FloorIsOwner
      <4> QED
        BY <1>1, <2>1, <3>3, <4>1, <4>2, InRangeCovers
    <3> QED
      BY <3>2, <3>3
  <2>4. Resolve(ptr) = {[handle |-> r.handle, offset |-> ptr - r.base] :
                          r \in {i \in issued \ freed : Covers(i, ptr)}}
    BY <2>3 DEF Resolve
  <2> QED
    BY <2>2, <2>4
<1> QED
  BY <1>1, Invariance, PTL

(* Arithmetic that strays up to a page past the end of an allocation, live or
   freed, resolves to it or to nothing. *)
THEOREM NothingSpills == Spec => []NoSpill
<1>1. ASSUME IInv PROVE NoSpill
  <2> SUFFICES ASSUME NEW r \in issued, NEW ptr \in r.base .. r.base + r.size + Page - 1,
                      NEW x \in Resolve(ptr)
               PROVE x.handle = r.handle
    BY DEF NoSpill
  <2>1. ptr \in Nat /\ r.base <= ptr /\ ptr < End(r)
    BY <1>1, ReservedRange, SpaceAssumption
  <2>2. PICK f \in Floor(ptr) : InRange(f, ptr) /\ x.handle = f.handle
    BY DEF Resolve
  <2>3. f \in issued /\ f.base <= ptr
    BY <1>1, <2>2 DEF Floor, IInv, LiveRanges
  <2>4. Covers(f, ptr)
    BY <1>1, <2>1, <2>2, <2>3, InRangeCovers
  <2>5. ptr < End(f)
    BY <1>1, <2>1, <2>3, <2>4, CoveredIsReserved
  <2>6. f = r
    BY <1>1, <2>1, <2>3, <2>5, OneRange
  <2> QED
    BY <2>2, <2>6
<1> QED
  BY <1>1, Invariance, PTL
=============================================================================
