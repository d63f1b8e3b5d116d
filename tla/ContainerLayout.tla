-------------------------- MODULE ContainerLayout --------------------------
(***************************************************************************)
(* The sizes both halves of execram compute for one packed file, without   *)
(* any state: the host packer's formulas (src/container.zig and hunk0Size  *)
(* of src/main.zig), the header fields it stores, and the recomputation    *)
(* the 68000 runtime does from those fields alone (OverlapPayloadOffset of *)
(* stubs/common/runtime.i).  All sizes are bytes and stay below 2^31.      *)
(***************************************************************************)
EXTENDS Naturals

CONSTANTS
  TrampolineSize,  \* length of the assembled stubs/common/trampoline.s
  HeaderSize       \* container.zig's HEADER_SIZE

ASSUME LayoutAssumption ==
  /\ TrampolineSize \in Nat \ {0}
  /\ HeaderSize \in Nat

Align4(n) == ((n + 3) \div 4) * 4

Larger(m, n) == IF m < n THEN n ELSE m

-----------------------------------------------------------------------------
(* An image is what flatten.zig hands on: [code |-> length of code_data,   *)
(* bss |-> bss_size, stream |-> length of reloc_stream].  The stream always *)
(* holds its 0xFE terminator, so its length is 1 when there are no sites.  *)

Images == [code : Nat, bss : Nat, stream : Nat \ {0}]

\* The bytes a backend compresses, and Depack therefore writes.
DepackedSize(image) == image.code + image.stream

HasRelocs(image) == image.stream > 1

\* Faulty: BSS is forgotten.
BssForgotten(image) == Align4(image.code + image.stream)

ResidentTailSize(image) == Align4(image.code + Larger(image.bss, image.stream))

\* Faulty: code_data_size + reloc_stream_size, whatever the BSS needs.
Hunk0SizeWithoutBss(image) == Larger(BssForgotten(image), Align4(TrampolineSize))

Hunk0Size(image) == Larger(ResidentTailSize(image), Align4(TrampolineSize))

\* Faulty: hunk 0 is not declared large enough for payload and margin.
MarginForgotten(prefix, payload, margin, resident) ==
  Align4(Larger(prefix + Align4(payload), resident))

OverlapAllocatedSize(prefix, payload, margin, resident) ==
  LET onDisk     == prefix + Align4(payload)
      overlapMin == margin + Align4(payload)
  IN  Align4(Larger(onDisk, Larger(resident, overlapMin)))

-----------------------------------------------------------------------------
(* The header fields of buildContainer that the runtime's layout reads.    *)

Header(image, payload, margin) ==
  [ code_data_size    |-> image.code,
    bss_size          |-> image.bss,
    reloc_stream_size |-> IF HasRelocs(image) THEN image.stream ELSE 0,
    compressed_size   |-> payload,
    safety_margin     |-> margin,
    trampoline_size   |-> TrampolineSize ]

\* runtime.i's own idea of hunk 0's allocated size, from the header alone.
RuntimeAllocatedSize(h) ==
  LET moved    == Align4(h.compressed_size)
      resident == Align4(h.code_data_size + Larger(h.bss_size, h.reloc_stream_size))
  IN  Align4(Larger(Larger(resident, h.trampoline_size + moved),
                    h.safety_margin + moved))

\* Faulty: the payload ends flush with hunk 0, at whatever parity.
UnroundedOffset(h) == RuntimeAllocatedSize(h) - h.compressed_size

OverlapPayloadOffset(h) == RuntimeAllocatedSize(h) - Align4(h.compressed_size)
=============================================================================
