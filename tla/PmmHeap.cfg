SPECIFICATION Spec
CONSTANTS
  TOTAL_PAGES = 9
  KERNEL_PAGES = 1
  PAGE_SIZE = 2
  MaxRun = 3
  HEAP_PAGES = 2
INVARIANT HeapIsReserved
