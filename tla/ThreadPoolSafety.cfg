SPECIFICATION Spec
CONSTANTS
    Threads = {w1, w2}
    Fds = {f1, f2, f3, f4, f5, f6}
    QueueSize = 5
    Policies = {"block", "dt", "dh", "random", "-1"}
    Main = Main
    Nobody = Nobody
    NoFd = NoFd
SYMMETRY Symmetry
INVARIANTS
    QueueBound
    NoLostWakeup
    DescriptorsSafe
    IInv
PROPERTIES
    ImplementsBuffer
