SPECIFICATION Spec
CONSTANTS
 a = a
 b = b
 Words = {a, b}
 Unwanted = Unwanted
 Nil = Nil
 MaxBusy = 2
 MaxClients = 2
 RespCacheSize = 1
INVARIANTS BusyMeansAsked OneCallback
PROPERTIES ScanGoesOn EachIsCalledBack
