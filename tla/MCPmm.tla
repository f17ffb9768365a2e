-------------------------------- MODULE MCPmm --------------------------------
(* Physical memory of a few pages, and the kernel heap's place in it.      *)
EXTENDS Pmm

CONSTANT HEAP_PAGES   \* HEAP_SIZE / PAGE_SIZE (1024); HEAP_START = KERNEL_END

HeapPages == KERNEL_PAGES..(KERNEL_PAGES + HEAP_PAGES - 1)

(* README.md, "Memory Layout": "0x00200000 - 0x005FFFFF: Kernel Heap       *)
(* (4MB)" and "0x00600000 - 0x00FFFFFF: Free Physical Memory (~10MB)".     *)
(* So no page handed out lies in the heap.                                 *)
HeapIsReserved == held \cap HeapPages = {}
=============================================================================
