------------------------------- MODULE Sizing -------------------------------
(***************************************************************************)
(* The size arithmetic of driver/controller.go: the block size parameter,  *)
(* the largest volume a block size allows, and the volume size chosen from *)
(* a capacity range.  Pure operators; Controller is built on them and      *)
(* SizingCalls checks them on their own.                                   *)
(*                                                                         *)
(* The code's constants are parameters here, because TLC's integers are    *)
(* narrower than the code's int64: a run gives them scaled values that     *)
(* keep their order and their ratios.                                      *)
(*                                                                         *)
(* Here and in Controller a definition whose name ends in _Without... or   *)
(* _With... is a faulty variant of the one that follows it: a mistake the  *)
(* code might have made, kept to show that a property notices it.          *)
(***************************************************************************)
EXTENDS Integers

CONSTANTS
    Kibi,                 \* kiB, the multiplier of a suffixed block size
    IntLimit,             \* an int64 x satisfies -IntLimit <= x < IntLimit
    MinimumBlockSize,
    MaximumBlockSize,
    DefaultBlockSize,
    MaxSizePerBlockByte,  \* maximumVolumeSizePerBlockSizeByte
    MinimumVolumeSize,
    DefaultVolumeSize

(***************************************************************************)
(* What the constants of the code satisfy: a suffixed block size of at     *)
(* most the maximum fits in an int64, and the default volume size is       *)
(* allowed for every block size.                                           *)
(***************************************************************************)
ASSUME SizingAssumption ==
    /\ Kibi \in Nat \ {0}
    /\ IntLimit \in Nat
    /\ MinimumBlockSize \in Nat \ {0}
    /\ MaximumBlockSize \in Nat
    /\ MinimumBlockSize <= MaximumBlockSize
    /\ DefaultBlockSize \in MinimumBlockSize .. MaximumBlockSize
    /\ MaximumBlockSize * Kibi < IntLimit
    /\ MaxSizePerBlockByte \in Nat \ {0}
    /\ MinimumVolumeSize \in Nat \ {0}
    /\ DefaultVolumeSize \in Nat
    /\ MinimumVolumeSize <= DefaultVolumeSize
    /\ DefaultVolumeSize <= MinimumBlockSize * MaxSizePerBlockByte

-----------------------------------------------------------------------------
(* Block sizes *)

(* int64 multiplication keeps the low 64 bits of the product *)
Wrap(x) == ((x + IntLimit) % (2 * IntLimit)) - IntLimit

(***************************************************************************)
(* The raw "blockSize" parameter: absent or blank, or text that is not a   *)
(* decimal number, or a number with or without a kibibyte suffix.          *)
(***************************************************************************)
RawBlockSize == [text: {"blank", "garbage", "number"}, value: Int, kibi: BOOLEAN]

(* blockSize & (blockSize-1) = 0 for a positive blockSize that fits the maximum *)
PowerOfTwo(b) == \E k \in 0 .. 30 : b = 2 ^ k

(* The product parseBlockSize computes once the number itself is in bounds *)
ScaledBlockSize(raw) == Wrap(raw.value * (IF raw.kibi THEN Kibi ELSE 1))

ParsesAsInt64(raw) ==
    /\ raw.text = "number"
    /\ -IntLimit <= raw.value
    /\ raw.value < IntLimit

\* the product is compared with the bounds, the number is not
BlockSizeAccepted_WithoutBoundOnNumber(raw) ==
    /\ ParsesAsInt64(raw)
    /\ MinimumBlockSize <= ScaledBlockSize(raw)
    /\ ScaledBlockSize(raw) <= MaximumBlockSize
    /\ PowerOfTwo(ScaledBlockSize(raw))

(* parseBlockSize returns no error *)
BlockSizeAccepted(raw) ==
    /\ ParsesAsInt64(raw)
    /\ 0 <= raw.value
    /\ raw.value <= MaximumBlockSize
    /\ MinimumBlockSize <= ScaledBlockSize(raw)
    /\ ScaledBlockSize(raw) <= MaximumBlockSize
    /\ PowerOfTwo(ScaledBlockSize(raw))

(* CreateVolume: a blank parameter means the default, anything else is parsed *)
BlockSizeValid(raw) == raw.text = "blank" \/ BlockSizeAccepted(raw)

BlockSizeOf(raw) ==
    IF raw.text = "blank" THEN DefaultBlockSize ELSE ScaledBlockSize(raw)

-----------------------------------------------------------------------------
(* Volume sizes *)

MaximumVolumeSize(blockSize) == blockSize * MaxSizePerBlockByte

(***************************************************************************)
(* A capacity range.  A bound that is not positive is not set; a nil range *)
(* reads as one with neither bound.                                        *)
(***************************************************************************)
CapacityRange == [required: Int, limit: Int]

RequiredSet(range) == 0 < range.required
LimitSet(range)    == 0 < range.limit

\* a range with a limit only is not compared with the maximum
RangeAccepted_WithoutLimitCheck(range, maximum) ==
    /\ RequiredSet(range) /\ LimitSet(range) => range.required <= range.limit
    /\ RequiredSet(range) /\ ~LimitSet(range) => MinimumVolumeSize <= range.required
    /\ LimitSet(range) => MinimumVolumeSize <= range.limit
    /\ RequiredSet(range) => range.required <= maximum

\* a required size is not compared with the minimum
RangeAccepted_WithoutMinimum(range, maximum) ==
    /\ RequiredSet(range) /\ LimitSet(range) => range.required <= range.limit
    /\ LimitSet(range) => MinimumVolumeSize <= range.limit
    /\ RequiredSet(range) => range.required <= maximum
    /\ LimitSet(range) /\ ~RequiredSet(range) => range.limit <= maximum

(* The checks of extractStorage: it returns an error when one of them fails *)
RangeAccepted(range, maximum) ==
    /\ RequiredSet(range) /\ LimitSet(range) => range.required <= range.limit
    /\ RequiredSet(range) /\ ~LimitSet(range) => MinimumVolumeSize <= range.required
    /\ LimitSet(range) => MinimumVolumeSize <= range.limit
    /\ RequiredSet(range) => range.required <= maximum
    /\ LimitSet(range) /\ ~RequiredSet(range) => range.limit <= maximum

(* The size extractStorage returns: required wins over limit, default last *)
ExtractedSize(range) ==
    IF RequiredSet(range) THEN range.required
    ELSE IF LimitSet(range) THEN range.limit
    ELSE DefaultVolumeSize

=============================================================================
