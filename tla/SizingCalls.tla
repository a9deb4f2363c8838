---------------------------- MODULE SizingCalls ----------------------------
(***************************************************************************)
(* CreateVolume's choice of a block size and of a volume size              *)
(* (controller.go:110-122), one call per behaviour: any parameter, any     *)
(* capacity range, then the answer.                                        *)
(***************************************************************************)
EXTENDS Sizing

CONSTANTS
    Calls  \* <<raw block size, capacity range>>

ASSUME CallsAssumption == Calls \subseteq RawBlockSize \X CapacityRange

VARIABLES
    call,
    chosen  \* the block size and the volume size, once the call is answered

vars == <<call, chosen>>

Undecided == [status |-> "undecided", blockSize |-> 0, size |-> 0]
Refused   == [status |-> "refused", blockSize |-> 0, size |-> 0]

Raw == call[1]
CallRange == call[2]

Init == call \in Calls /\ chosen = Undecided

Choose ==
    /\ chosen = Undecided
    /\ chosen' =
         IF BlockSizeValid(Raw) /\ RangeAccepted(CallRange, MaximumVolumeSize(BlockSizeOf(Raw)))
         THEN [status |-> "accepted", blockSize |-> BlockSizeOf(Raw),
               size |-> ExtractedSize(CallRange)]
         ELSE Refused
    /\ UNCHANGED call

Next == Choose

Spec == Init /\ [][Next]_vars

-----------------------------------------------------------------------------
(***************************************************************************)
(* The accepted block size is the number that was written, multiplied      *)
(* without overflow, and one the cloud has: parseBlockSize multiplies an   *)
(* int64 (controller.go:649-658) and must not accept what wrapped around.  *)
(***************************************************************************)
BlockSizeExact ==
    chosen.status = "accepted" =>
       /\ Raw.text = "number" => chosen.blockSize = Raw.value * (IF Raw.kibi THEN Kibi ELSE 1)
       /\ chosen.blockSize \in MinimumBlockSize .. MaximumBlockSize

(***************************************************************************)
(* The accepted size is within the range that was asked for, and the cloud *)
(* has disks of that size with that block size.  extractStorage            *)
(* (controller.go:671-718) checks each bound in some of the cases only.    *)
(***************************************************************************)
SizeWithinRange ==
    chosen.status = "accepted" =>
       /\ RequiredSet(CallRange) => CallRange.required <= chosen.size
       /\ LimitSet(CallRange) => chosen.size <= CallRange.limit
       /\ chosen.size <= chosen.blockSize * MaxSizePerBlockByte

(***************************************************************************)
(* A size below the minimum is chosen only from a range with both bounds,  *)
(* because only a range without a limit has its required size compared     *)
(* (controller.go:689).  "If the capacity range is below or above          *)
(* supported sizes, it returns an error" (668-670) says more than that.    *)
(***************************************************************************)
SmallOnlyWithBothBounds ==
    chosen.status = "accepted" /\ chosen.size < MinimumVolumeSize =>
       RequiredSet(CallRange) /\ MinimumVolumeSize <= CallRange.limit

=============================================================================
