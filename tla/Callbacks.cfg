\* The three drivers, JIT_ASYNC_LOOPS as in jit.c, two shows, two sysfs
\* stores and two opens of the tty.
CONSTANTS
    Drivers = {"jit", "gpio_pulse", "virt_tty"}
    Loops = 5
    MaxShows = 2
    Signals = TRUE
    Enables = {0, 1}
    MaxStores = 2
    MaxOpens = 2
SPECIFICATION Spec
INVARIANT CallbacksNoUseAfterFree
CHECK_DEADLOCK FALSE
