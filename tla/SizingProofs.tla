---------------------------- MODULE SizingProofs ----------------------------
(***************************************************************************)
(* The properties of SizingCalls, for every int64 width, every bound that  *)
(* satisfies SizingAssumption and every call.                              *)
(***************************************************************************)
EXTENDS SizingCalls, TLAPS

(***************************************************************************)
(* A product that fits an int64 is not changed by its width.               *)
(***************************************************************************)
LEMMA WrapInRange ==
    ASSUME NEW x \in Nat, x < IntLimit
    PROVE  Wrap(x) = x
<1> DEFINE L == IntLimit
<1>1. L \in Nat
  BY SizingAssumption DEF SizingAssumption
<1>2. x + L \in 0 .. (2 * L) - 1
  BY <1>1
<1>3. ASSUME NEW a \in Int, NEW b \in Int, 0 <= a, a < b
      PROVE  a % b = a
  BY <1>3
<1>4. (x + L) % (2 * L) = x + L
  BY <1>1, <1>2, <1>3
<1>5. QED
  BY <1>1, <1>4 DEF Wrap

(***************************************************************************)
(* parseBlockSize (controller.go:649-658): because the number is compared  *)
(* with the maximum before it is multiplied, what is accepted is the exact *)
(* product.                                                                *)
(***************************************************************************)
LEMMA AcceptedProductIsExact ==
    ASSUME NEW raw \in RawBlockSize, BlockSizeAccepted(raw)
    PROVE  /\ ScaledBlockSize(raw) = raw.value * (IF raw.kibi THEN Kibi ELSE 1)
           /\ ScaledBlockSize(raw) \in MinimumBlockSize .. MaximumBlockSize
<1> DEFINE factor == IF raw.kibi THEN Kibi ELSE 1
<1>1. /\ Kibi \in Nat \ {0} /\ MaximumBlockSize \in Nat /\ MinimumBlockSize \in Nat
      /\ IntLimit \in Nat /\ MaximumBlockSize * Kibi < IntLimit
  BY SizingAssumption DEF SizingAssumption
<1>2. raw.value \in 0 .. MaximumBlockSize /\ raw.kibi \in BOOLEAN
  BY <1>1 DEF BlockSizeAccepted, RawBlockSize
<1>3. factor \in 1 .. Kibi
  BY <1>1, <1>2
<1>4. raw.value * factor \in Nat /\ raw.value * factor <= MaximumBlockSize * Kibi
  <2>1. ASSUME NEW v \in Nat, NEW m \in Nat, NEW f \in Nat, NEW k \in Nat, v <= m, f <= k
        PROVE  v * f <= m * k
    <3>1. v * f <= m * f
      BY <2>1
    <3>2. m * f <= m * k
      BY <2>1
    <3>3. v * f \in Int /\ m * f \in Int /\ m * k \in Int
      BY <2>1
    <3>4. QED
      BY <3>1, <3>2, <3>3
  <2>2. QED
    BY <2>1, <1>1, <1>2, <1>3
<1>5. raw.value * factor < IntLimit
  <2>1. MaximumBlockSize * Kibi \in Int
    BY <1>1
  <2> HIDE DEF factor
  <2>2. QED
    BY <2>1, <1>1, <1>4
<1>6. ScaledBlockSize(raw) = raw.value * factor
  BY <1>4, <1>5, WrapInRange DEF ScaledBlockSize
<1>7. ScaledBlockSize(raw) \in MinimumBlockSize .. MaximumBlockSize
  BY <1>1, <1>4, <1>6 DEF BlockSizeAccepted
<1>8. QED
  BY <1>6, <1>7

(***************************************************************************)
(* The block size CreateVolume works with is one the cloud has.            *)
(***************************************************************************)
LEMMA BlockSizeInBounds ==
    ASSUME NEW raw \in RawBlockSize, BlockSizeValid(raw)
    PROVE  BlockSizeOf(raw) \in MinimumBlockSize .. MaximumBlockSize
BY AcceptedProductIsExact, SizingAssumption
   DEF BlockSizeValid, BlockSizeOf, SizingAssumption

(***************************************************************************)
(* What extractStorage returns without an error is in the range and not    *)
(* more than a maximum that allows the default size.                       *)
(***************************************************************************)
LEMMA ExtractedSizeWithinRange ==
    ASSUME NEW range \in CapacityRange, NEW maximum \in Int,
           DefaultVolumeSize <= maximum, RangeAccepted(range, maximum)
    PROVE  /\ ExtractedSize(range) \in Int
           /\ RequiredSet(range) => range.required <= ExtractedSize(range)
           /\ LimitSet(range) => ExtractedSize(range) <= range.limit
           /\ ExtractedSize(range) <= maximum
           /\ ExtractedSize(range) < MinimumVolumeSize =>
                 RequiredSet(range) /\ MinimumVolumeSize <= range.limit
BY SizingAssumption
   DEF SizingAssumption, CapacityRange, RangeAccepted, ExtractedSize, RequiredSet, LimitSet

-----------------------------------------------------------------------------
(***************************************************************************)
(* The largest volume of an acceptable block size allows the default size, *)
(* which CreateVolume takes without comparing (controller.go:672-683).     *)
(***************************************************************************)
LEMMA DefaultFits ==
    ASSUME NEW b \in MinimumBlockSize .. MaximumBlockSize
    PROVE  /\ MaximumVolumeSize(b) \in Int
           /\ DefaultVolumeSize <= MaximumVolumeSize(b)
<1>1. /\ MinimumBlockSize \in Nat /\ MaximumBlockSize \in Nat
      /\ MaxSizePerBlockByte \in Nat /\ DefaultVolumeSize \in Nat
      /\ DefaultVolumeSize <= MinimumBlockSize * MaxSizePerBlockByte
  BY SizingAssumption DEF SizingAssumption
<1>2. MinimumBlockSize * MaxSizePerBlockByte <= b * MaxSizePerBlockByte
  <2>1. ASSUME NEW p \in Nat, NEW q \in Nat, NEW f \in Nat, p <= q
        PROVE  p * f <= q * f
    BY <2>1
  <2>2. QED
    BY <2>1, <1>1
<1>3. MinimumBlockSize * MaxSizePerBlockByte \in Int /\ b * MaxSizePerBlockByte \in Int
  BY <1>1
<1>4. QED
  BY <1>1, <1>2, <1>3 DEF MaximumVolumeSize

(***************************************************************************)
(* All that is true of an answer, in one inductive invariant: the call is  *)
(* one of the calls, and an accepted answer is what the code computes.     *)
(***************************************************************************)
Inv ==
    /\ call \in Calls
    /\ chosen.status = "accepted" =>
          /\ BlockSizeValid(Raw)
          /\ RangeAccepted(CallRange, MaximumVolumeSize(BlockSizeOf(Raw)))
          /\ chosen.blockSize = BlockSizeOf(Raw)
          /\ chosen.size = ExtractedSize(CallRange)

(***************************************************************************)
(* Inv holds of every call: CreateVolume answers from nothing but the      *)
(* checked block size and the checked range (controller.go:110-122).       *)
(***************************************************************************)
LEMMA Invariance == Spec => []Inv
<1>1. Init => Inv
  BY DEF Init, Inv, Undecided
<1>2. Inv /\ [Next]_vars => Inv'
  <2> SUFFICES ASSUME Inv, [Next]_vars PROVE Inv'
    OBVIOUS
  <2>1. CASE Next
    <3>1. call' = call /\ Raw' = Raw /\ CallRange' = CallRange
      BY <2>1 DEF Next, Choose, Raw, CallRange
    <3>2. CASE chosen' = Refused
      BY <3>1, <3>2 DEF Inv, Refused, Undecided
    <3>3. CASE chosen' # Refused
      BY <2>1, <3>1, <3>3 DEF Inv, Next, Choose
    <3>4. QED
      BY <3>2, <3>3
  <2>2. CASE UNCHANGED vars
    BY <2>2 DEF vars, Inv, Raw, CallRange
  <2>3. QED
    BY <2>1, <2>2
<1>3. QED
  BY <1>1, <1>2, PTL DEF Spec

(***************************************************************************)
(* CreateVolume never works with a block size that overflowed or that the  *)
(* cloud does not have (controller.go:649-658).                            *)
(***************************************************************************)
THEOREM BlockSizeIsExact == Spec => []BlockSizeExact
<1>1. Inv => BlockSizeExact
  <2> SUFFICES ASSUME Inv, chosen.status = "accepted"
               PROVE  /\ Raw.text = "number" =>
                            chosen.blockSize = Raw.value * (IF Raw.kibi THEN Kibi ELSE 1)
                      /\ chosen.blockSize \in MinimumBlockSize .. MaximumBlockSize
    BY DEF BlockSizeExact
  <2>1. Raw \in RawBlockSize /\ BlockSizeValid(Raw) /\ chosen.blockSize = BlockSizeOf(Raw)
    BY CallsAssumption DEF CallsAssumption, Inv, Raw
  <2>2. Raw.text = "number" => BlockSizeAccepted(Raw) /\ BlockSizeOf(Raw) = ScaledBlockSize(Raw)
    BY <2>1 DEF BlockSizeValid, BlockSizeOf
  <2>3. QED
    BY <2>1, <2>2, AcceptedProductIsExact, BlockSizeInBounds
<1>2. QED
  BY <1>1, Invariance, PTL

(***************************************************************************)
(* What extractStorage checks is enough for the bounds of the range and of *)
(* the block size, but not for the minimum of a range with both bounds.    *)
(***************************************************************************)
LEMMA SizesFollowTheRange == Spec => [](SizeWithinRange /\ SmallOnlyWithBothBounds)
<1>1. Inv => SizeWithinRange /\ SmallOnlyWithBothBounds
  <2> SUFFICES ASSUME Inv, chosen.status = "accepted"
               PROVE  SizeWithinRange /\ SmallOnlyWithBothBounds
    BY DEF SizeWithinRange, SmallOnlyWithBothBounds
  <2> DEFINE maximum == MaximumVolumeSize(BlockSizeOf(Raw))
  <2>1. /\ Raw \in RawBlockSize /\ CallRange \in CapacityRange
        /\ BlockSizeValid(Raw) /\ RangeAccepted(CallRange, maximum)
        /\ chosen.blockSize = BlockSizeOf(Raw) /\ chosen.size = ExtractedSize(CallRange)
    BY CallsAssumption DEF CallsAssumption, Inv, Raw, CallRange
  <2>2. maximum \in Int /\ DefaultVolumeSize <= maximum
    BY <2>1, BlockSizeInBounds, DefaultFits
  <2>3. maximum = chosen.blockSize * MaxSizePerBlockByte
    BY <2>1 DEF MaximumVolumeSize
  <2> HIDE DEF maximum
  <2>4. QED
    BY <2>1, <2>2, <2>3, ExtractedSizeWithinRange
       DEF SizeWithinRange, SmallOnlyWithBothBounds
<1>2. QED
  BY <1>1, Invariance, PTL

(***************************************************************************)
(* The volume CreateVolume asks the cloud for is within the requested      *)
(* range and within what its block size allows (controller.go:671-718).    *)
(***************************************************************************)
THEOREM SizeIsWithinRange == Spec => []SizeWithinRange
BY SizesFollowTheRange, PTL

(***************************************************************************)
(* A volume smaller than the minimum is asked for only where the range has *)
(* both bounds (controller.go:689 looks at ranges without a limit only).   *)
(***************************************************************************)
THEOREM SmallSizeHasBothBounds == Spec => []SmallOnlyWithBothBounds
BY SizesFollowTheRange, PTL

=============================================================================
