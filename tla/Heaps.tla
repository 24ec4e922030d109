-------------------------------- MODULE Heaps --------------------------------
(***************************************************************************)
(* A frame heap and an expanded heap.  A heap has no lock and shares       *)
(* nothing with any other, and a behaviour uses one of the two.            *)
(***************************************************************************)
EXTENDS FrmHeap

CONSTANTS ExpBase, HeapHeader, BlockHeader,        \* of the expanded heap
          ExpRegionSizes, ExpRequests, ExpAlignments

ASSUME HeapsAssumption ==
  /\ ExpBase \in Nat \ {0} /\ HeapHeader \in Nat
  /\ BlockHeader \in Nat \ 0..2
  /\ ExpRegionSizes \subseteq Nat /\ ExpRequests \subseteq Nat /\ ExpAlignments \subseteq Int

VARIABLES part, expLive, mode, expEnd, expBlocks

X == INSTANCE ExpHeap WITH
  Base <- ExpBase, RegionSizes <- ExpRegionSizes, Requests <- ExpRequests,
  Alignments <- ExpAlignments, live <- expLive, dataEnd <- expEnd, blocks <- expBlocks

expVars == <<expLive, mode, expEnd, expBlocks>>

HeapsInit == part \in {"frame", "expanded"} /\ Init /\ X!Init

UseFrame == part = "frame" /\ Next /\ UNCHANGED expVars
UseExpanded == part = "expanded" /\ X!Next /\ UNCHANGED vars

HeapsNext == (UseFrame \/ UseExpanded) /\ UNCHANGED part

HeapsSpec == HeapsInit /\ [][HeapsNext]_<<part, vars, expVars>>
-------------------------------------------------------------------------------
\* The properties of the expanded heap; those of the frame heap keep their names.
Tiles == X!Tiles
HeadersKept == X!HeadersKept
ExpAllocatableExact == X!AllocatableExact
ImplementsAllocator == X!ImplementsAllocator
==============================================================================
