SPECIFICATION PagingSpec
CONSTANTS
  TOTAL_PAGES = 9
  KERNEL_PAGES = 2
  PAGE_SIZE = 2
  MaxRun = 3
  PAGE_DIRECTORY_ENTRIES = 3
  PAGE_TABLE_ENTRIES = 9
  KERNEL_ENTRIES = 1
  USER_CODE_BASE = 9
  USER_STACK_BASE = 27
  CODE_MAX = 4
  p1 = p1
  p2 = p2
  Procs <- MCProcs
  Touched <- MCTouched
  MEMTEST_PAGES = 5
SYMMETRY MCSymmetry
VIEW MCView
CONSTRAINT MCUntorn
CHECK_DEADLOCK FALSE
INVARIANTS CounterIsExact Accounted SearchIsFirstFit KernelMapped Isolated PagesReturned
