SPECIFICATION FairSpec
CONSTANTS
    Threads = {w1, w2}
    Fds = {f1, f2, f3}
    QueueSize = 2
    Policies = {"block", "dt", "random"}
    Main = Main
    Nobody = Nobody
    NoFd = NoFd
PROPERTIES
    EveryConnectionClosed
    MainComesBack
