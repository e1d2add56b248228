SPECIFICATION LifecycleSpec
CONSTANTS
    Objects = {o1, o2}
    Threads = {t1, t2, t3}
    NoObject = NoObject
INVARIANT OneAtATime
