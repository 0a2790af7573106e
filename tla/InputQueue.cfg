\* Every interleaving of five key presses with getchar; then the kernel spins.
SPECIFICATION Spec
CONSTANT MaxKeys = 5
CHECK_DEADLOCK FALSE
INVARIANTS
    DeliveredInOrder
    NeverDequeuesEmpty
    LossOnlyInWindow
    SizeExact
PROPERTIES
    HeadDelivered
