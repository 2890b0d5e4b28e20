CONSTANTS
  Commands = {sum, print, putchar, getkey, malloc, free, start, exit}
SPECIFICATION BootSpec
INVARIANTS
  FileSystemAllOrNothing
  InterruptsFindKernelReady
